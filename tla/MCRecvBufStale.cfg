\* Headers that fit, one client after the other.
SPECIFICATION Spec
CONSTANTS
    BufSize = 10
    MaxHdr = 5
    Body <- MCBody
    Streams <- Fitting
    MaxClients = 2
PROPERTIES EndIsTermination
CHECK_DEADLOCK FALSE
