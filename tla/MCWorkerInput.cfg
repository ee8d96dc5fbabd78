\* Clients send, end and reset; a chunk of input takes two pieces.
SPECIFICATION Spec
CONSTANTS
    Ctx = {c1, c2}
    Fd = {f1, f2}
    MinCache = 1
    MaxCache = 1
    ListHead = ListHead
    NULL = NULL
    NoFd = NoFd
    BufCap = 2
    Packet = 1
    MaxParts = 1
    MaxRx = 1
    MaxBacklog = 1
    Clients = {"send", "fin", "reset"}
SYMMETRY Symmetry
INVARIANTS WorkerTypeOK InactiveOnlyWhileWaiting
PROPERTY NoSleepOverWork
