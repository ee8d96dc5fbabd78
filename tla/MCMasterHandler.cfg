\* Violated: SIGINT comes between fork() and signal() of a worker.
SPECIFICATION Spec
CONSTANTS
    NumWorkers = 2
    MaxInts = 1
PROPERTY WorkersAvoidMasterHandler
