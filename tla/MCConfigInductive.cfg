\* The inductive invariant of the proofs, on the instance of MCConfig.cfg.
SPECIFICATION ConfigSpec
CONSTANTS
    Files <- MCFiles
    CmdLines <- MCCmdLines
    Unopenable = {"/nowhere"}
    Unallocatable = {"no memory"}
INVARIANTS ConfigIInv
CHECK_DEADLOCK FALSE
