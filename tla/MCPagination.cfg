CONSTANTS
    NumAddrs = 2
    NumUTXOs = 3
    MaxFetch = 2
    MaxPages = 5
SPECIFICATION Spec
INVARIANT PaginationComplete
INVARIANT AllUTXOsExactlyOnce
INVARIANT PageWithinMax
CHECK_DEADLOCK FALSE
PROPERTY CursorAdvances
