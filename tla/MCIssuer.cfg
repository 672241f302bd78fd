CONSTANTS
    v1 = v1  v2 = v2  v3 = v3  v4 = v4
    a = a  b = b  c = c  d = d
    Vtxs <- MCVtxs
    Trs <- MCTrs
    Parents <- MCParents
    TxTrs <- MCTxTrs
    TrDeps <- MCTrDeps
    VtxEpoch <- MCVtxEpoch
    MaxEpoch = 1
SPECIFICATION FairSpec
INVARIANT TypeOK
INVARIANT ConsensusAdmission
INVARIANT NoStrandedIssuer
CHECK_DEADLOCK FALSE
PROPERTY ReadyIssuerUpdated
