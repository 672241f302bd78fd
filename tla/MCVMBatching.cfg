CONSTANTS
    BatchSize = 2
    ChanCap = 1
    MaxTxs = 5
SPECIFICATION Spec
PROPERTY TxsDelivered
CHECK_DEADLOCK FALSE
