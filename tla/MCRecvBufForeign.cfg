\* A context serves two clients.
SPECIFICATION Spec
CONSTANTS
    BufSize = 10
    MaxHdr = 5
    Body <- MCBody
    Streams <- Fitting
    MaxClients = 2
INVARIANTS OwnRequestsOnly
CHECK_DEADLOCK FALSE
