\* Violated: a silent client is never timed out.
SPECIFICATION LiveSpec
CONSTANTS
    Ctx = {c1}
    Fd = {f1}
    MinCache = 1
    MaxCache = 1
    ListHead = ListHead
    NULL = NULL
    NoFd = NoFd
    BufCap = 2
    Packet = 1
    MaxParts = 0
    MaxRx = 1
    MaxBacklog = 1
    Clients = {"send"}
PROPERTY TimeoutCloses
