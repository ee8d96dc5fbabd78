\* The types of the proofs, on the instance of MCMaster.cfg.
SPECIFICATION Spec
CONSTANTS
    NumWorkers = 3
    MaxInts = 2
INVARIANTS MasterTypeOK
