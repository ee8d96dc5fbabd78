SPECIFICATION HttpSpec
CONSTANTS
    MaxBody = 4
    SizeTMax = 6
    Requests <- MCRequests
INVARIANTS StatusTextHasIndex
