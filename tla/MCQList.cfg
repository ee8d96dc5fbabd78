\* Two lists that share four nodes.
SPECIFICATION Spec
CONSTANTS
    Node = {n1, n2, n3, n4}
    Heads = {queue, cache}
    NULL = NULL
INVARIANTS Represents LoopOnSchedule
