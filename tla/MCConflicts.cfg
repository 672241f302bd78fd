CONSTANTS
    Red = Red  Green = Green  Blue = Blue  Alpha = Alpha  Purple = Purple
    trRed = trRed  trGreen = trGreen  trBlue = trBlue  trAlpha = trAlpha
    trPurple = trPurple
    X = X  Y = Y  Z = Z  W = W
    Txs <- MCTxs
    Trs <- MCTrs
    Inputs <- MCInputs
    TrOf <- MCTrOf
    InputIDs <- MCInputIDs
    Dependencies <- MCDependencies
    EpochOf <- MCEpochOf
SPECIFICATION Spec
INVARIANT TypeOK
INVARIANT UniqueSpenderAcceptance
INVARIANT IndexConsistent
INVARIANT DecisionQueuedOnce
INVARIANT NoOrphanAcceptance
CHECK_DEADLOCK FALSE
PROPERTY RefinesAbstract
