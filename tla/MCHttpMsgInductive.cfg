\* The inductive invariant of the proofs, on the instance of MCHttpMsg.cfg.
SPECIFICATION HttpSpec
CONSTANTS
    MaxBody = 4
    SizeTMax = 6
    Requests <- MCRequests
INVARIANT HttpIInv
