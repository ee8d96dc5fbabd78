\* MIN_CONN_CTX_CACHE_CNT = 2 < MAX_CONN_CTX_CACHE_CNT = 3 < 4 contexts: a fill
\* takes several rounds, the cache overflows, and memory can run out.
\* ServiceSpec is a statement about single steps that treats all descriptors
\* alike, so the symmetry is sound for it as well.
SPECIFICATION CtxSpec
CONSTANTS
    Ctx = {c1, c2, c3, c4}
    Fd = {f1, f2, f3, f4}
    MinCache = 2
    MaxCache = 3
    ListHead = ListHead
    NULL = NULL
    NoFd = NoFd
SYMMETRY Symmetry
INVARIANTS TypeOK OnOneList CountersAgree SocketsOwned CursorsValid NeverRunCompleted
PROPERTY ServiceSpec
