CONSTANTS
    Assets = {A}
    Managers = {M1, M2}
    Owner = Owner
    Width = 3
    MaxEpoch = 6
    MaxUpdates = 3
    Fxs <- MCFxs
    AssetFxs <- MCAssetFxs
    SecpFx = 0
SPECIFICATION Spec
INVARIANTS
    TypeOK
    TransferUsesSettledStatus
    FxUsageSound
CHECK_DEADLOCK FALSE
