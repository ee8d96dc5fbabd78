\* Two clients and up to three connections, of which the server can hold two.
SPECIFICATION Spec
CONSTANTS
    Client = {c1, c2}
    MaxConns = 3
    MaxFd = 2
    MaxThreads = 2
INVARIANTS SyncTypeOK DescriptorsOwned LeaksOnlyToTheUnanswered
PROPERTY RequestAnswered
CHECK_DEADLOCK FALSE
