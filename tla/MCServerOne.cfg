\* One worker, which runs out of descriptors.
SPECIFICATION Spec
CONSTANTS
    Worker = {w1}
    Conn = {c1, c2, c3}
    MaxFd = 2
PROPERTIES NextConnectionHelps
CHECK_DEADLOCK FALSE
