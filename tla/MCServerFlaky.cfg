\* Violated: with two workers new connections need not wake the one that sleeps.
SPECIFICATION Spec
CONSTANTS
    Worker = {w1, w2}
    Conn = {c1, c2}
    MaxFd = 2
PROPERTIES NextConnectionHelps
CHECK_DEADLOCK FALSE
