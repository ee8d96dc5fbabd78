\* Three forks, each of which may fail, and two SIGINTs: one can come while
\* the handler of the other runs.
SPECIFICATION Spec
CONSTANTS
    NumWorkers = 3
    MaxInts = 2
INVARIANTS NoOrphans
PROPERTIES ZombiesReaped LastWorkerEndsServer
