\* Two workers; three clients are one more than both have descriptors for.
SPECIFICATION Spec
CONSTANTS
    Worker = {w1, w2}
    Conn = {c1, c2, c3}
    MaxFd = 1
INVARIANTS ServerTypeOK
PROPERTIES NoneSleepsOverRequest AcceptedInTheEnd LosersServeOn RestsOrIsFull
CHECK_DEADLOCK FALSE
