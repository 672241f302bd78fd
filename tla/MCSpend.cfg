CONSTANTS
    Assets = {1, 2}
    NumUTXOs = 3
    Amounts = {1, 3, 6}
    Wanted = {0, 2, 7}
    Width = 3
    Groups = {0, 1}
    NFTAsset = 1
    GroupID = 0
SPECIFICATION Spec
INVARIANTS
    SpendAccountsExactly
    SpendTakesOnlyNeeded
    MintMatchesRequest
    NFTOpsMatchRequest
    SignersFollowOps
CHECK_DEADLOCK FALSE
