\* A header that fills the buffer, alone on a fresh context.
SPECIFICATION Spec
CONSTANTS
    BufSize = 10
    MaxHdr = 5
    Body <- MCBody
    Streams <- Overlong
    MaxClients = 2
INVARIANTS ClosedAsDocumented
CHECK_DEADLOCK FALSE
