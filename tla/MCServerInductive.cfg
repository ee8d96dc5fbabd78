\* The inductive invariant of the proofs, on the instance of MCServer.cfg.
SPECIFICATION Spec
CONSTANTS
    Worker = {w1, w2}
    Conn = {c1, c2, c3}
    MaxFd = 1
INVARIANTS ServerIInv RequestsNoticed
CHECK_DEADLOCK FALSE
