\* The inductive invariant of the proofs, on the instance of MCSyncSrv.cfg.
SPECIFICATION Spec
CONSTANTS
    Client = {c1, c2}
    MaxConns = 3
    MaxFd = 2
    MaxThreads = 2
INVARIANT SyncIInv
CHECK_DEADLOCK FALSE
