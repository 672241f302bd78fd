CONSTANTS
    Red = Red  Green = Green  Blue = Blue  Purple = Purple
    trRed = trRed  trGreen = trGreen  trBlue = trBlue
    trPurple = trPurple
    X = X  Y = Y  Z = Z  W = W
    Txs <- MCTxs
    Trs <- MCTrs
    Inputs <- MCInputs
    TrOf <- MCTrOf
    InputIDs <- MCInputIDs
    Dependencies <- MCDependencies
    EpochOf <- MCEpochOf
    BetaVirtuous = 1
    BetaRogue = 2
    MaxPolls = 3
SPECIFICATION GraphSpec
INVARIANT ConflictsOfAcceptedRejected
INVARIANT PollReturns
CHECK_DEADLOCK FALSE
