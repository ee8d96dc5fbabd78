\* Violated: SIGIO does not wake the worker out of epoll_pwait().
SPECIFICATION LiveSpec
CONSTANTS
    Ctx = {c1}
    Fd = {f1}
    MinCache = 1
    MaxCache = 1
    ListHead = ListHead
    NULL = NULL
    NoFd = NoFd
    BufCap = 1
    Packet = 1
    MaxParts = 0
    MaxRx = 1
    MaxBacklog = 1
    Clients = {"send"}
PROPERTY RequestsServed
