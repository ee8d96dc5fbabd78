\* Two clients of one context; a buffer of 10 bytes holds two headers of 5;
\* headers of 6 are too large, those of 10 and more fill it.
SPECIFICATION Spec
CONSTANTS
    BufSize = 10
    MaxHdr = 5
    Body <- MCBody
    Streams <- All
    MaxClients = 2
INVARIANTS RecvBufTypeOK RequestsCutExactly NeverWaitsForReceived
           AnsweredClientLeavesNothing
PROPERTIES NoHeaderOnlyForAReason
CHECK_DEADLOCK FALSE
