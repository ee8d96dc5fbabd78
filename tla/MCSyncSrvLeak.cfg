\* One client that is interrupted once takes the only descriptor with it.
SPECIFICATION Spec
CONSTANTS
    Client = {c1}
    MaxConns = 2
    MaxFd = 1
    MaxThreads = 2
PROPERTIES ThreadForEachConnection
CHECK_DEADLOCK FALSE
