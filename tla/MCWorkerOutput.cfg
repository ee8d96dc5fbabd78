\* Clients that do not read their responses; a packet takes two writes.
SPECIFICATION Spec
CONSTANTS
    Ctx = {c1, c2}
    Fd = {f1, f2}
    MinCache = 1
    MaxCache = 1
    ListHead = ListHead
    NULL = NULL
    NoFd = NoFd
    BufCap = 1
    Packet = 2
    MaxParts = 1
    MaxRx = 1
    MaxBacklog = 1
    Clients = {"send", "stall"}
SYMMETRY Symmetry
PROPERTY NoSleepOverWork
