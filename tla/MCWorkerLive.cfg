\* Data and ends of connections at every point of the loop.
SPECIFICATION LiveSpec
CONSTANTS
    Ctx = {c1, c2}
    Fd = {f1, f2}
    MinCache = 2
    MaxCache = 2
    ListHead = ListHead
    NULL = NULL
    NoFd = NoFd
    BufCap = 1
    Packet = 1
    MaxParts = 0
    MaxRx = 1
    MaxBacklog = 1
    Clients = {"send", "fin"}
PROPERTIES InputConsumed NoStarvation NoSpinning
