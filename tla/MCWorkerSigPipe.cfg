\* Violated: SIGPIPE ends the worker.
SPECIFICATION Spec
CONSTANTS
    Ctx = {c1, c2}
    Fd = {f1, f2}
    MinCache = 1
    MaxCache = 1
    ListHead = ListHead
    NULL = NULL
    NoFd = NoFd
    BufCap = 1
    Packet = 1
    MaxParts = 0
    MaxRx = 1
    MaxBacklog = 1
    Clients = {"send", "reset"}
PROPERTY WriteFailureIsLocal
