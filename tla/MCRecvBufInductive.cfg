\* The inductive invariant, with the bounds of MCRecvBuf.cfg.
SPECIFICATION Spec
CONSTANTS
    BufSize = 10
    MaxHdr = 5
    Body <- MCBody
    Streams <- All
    MaxClients = 2
INVARIANTS RecvBufIInv
CHECK_DEADLOCK FALSE
