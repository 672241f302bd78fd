CONSTANTS
    NumAddrs = 2
    NumUTXOs = 3
    MaxFetch = 2
    MaxPages = 5
SPECIFICATION Spec
INVARIANT PaginationExactlyOnce
CHECK_DEADLOCK FALSE
