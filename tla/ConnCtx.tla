------------------------------ MODULE ConnCtx ------------------------------
(***************************************************************************)
(* The connection contexts of one worker process of srv_async, and the     *)
(* scheduler that runs them.                                               *)
(*                                                                         *)
(* A conn_t carries the coroutine of one client connection.  It lives on   *)
(* exactly one of two intrusive lists: the cache of free contexts, a stack *)
(* that is refilled when it runs dry, or the queue of connections that the *)
(* event loop resumes one after the other in every pass.  The module keeps *)
(* all the bookkeeping of srv_conn_ctxt.c (both lists, their counters, the *)
(* flags of every conn_t, the open sockets) and the control of the loop in *)
(* handle_connections_routine().  What a coroutine does between two        *)
(* switches is reduced to the calls it makes into srv_conn_ctxt.c; why it  *)
(* makes them is the subject of Worker.tla, which refines this module.     *)
(***************************************************************************)
EXTENDS Integers, FiniteSets, SequencesExt

CONSTANTS
    Ctx,        \* the addresses that mmap/malloc may return for a conn_t
    Fd,         \* the descriptors that accept() may return
    MinCache,   \* MIN_CONN_CTX_CACHE_CNT
    MaxCache,   \* MAX_CONN_CTX_CACHE_CNT
    ListHead,   \* the list head &p_conn_queue.qconn_list, as a cursor value
    NULL,       \* the null pointer
    NoFd        \* no socket is being turned into a connection

ASSUME CacheBounds == /\ MinCache \in Nat \ {0}
                      /\ MaxCache \in Nat
                      /\ MinCache <= MaxCache
ASSUME DistinctValues == /\ ListHead \notin Ctx
                         /\ NULL \notin Ctx
                         /\ NoFd \notin Fd

VARIABLES
    pc,                 \* where the main context of the worker is
    fill,               \* "cnt" of fill_conn_ctx_cache()
    newSock,            \* conn_sock passed to create_new_conn() while it fills the cache
    allocated,          \* the contexts whose memory is mapped
    cache,              \* p_conn_ctx_cache.qconn_list
    cacheCnt,           \* p_conn_ctx_cache.cnt
    queue,              \* p_conn_queue.qconn_list
    activeConnCnt,      \* p_conn_queue.active_conn_cnt
    inactiveConnCnt,    \* p_conn_queue.inactive_conn_cnt
    connSock,           \* conn->conn_sock
    isCompleted,        \* conn->is_completed
    isActive,           \* conn->is_active
    opened,             \* the connection sockets open in this process
    currConn,           \* p_conn_queue.curr_conn
    pos, posN           \* conn and conn_n, the cursors of the pass

listVars == <<allocated, cache, cacheCnt, queue>>
cntVars  == <<activeConnCnt, inactiveConnCnt>>
connVars == <<connSock, isCompleted, isActive, opened>>
fillVars == <<fill, newSock>>
passVars == <<pos, posN>>
ctxVars  == <<pc, fillVars, listVars, cntVars, connVars, currConn, passVars>>

-----------------------------------------------------------------------------
(***************************************************************************)
(* Lists (srv_qlist.h) and the traversal cursor.                           *)
(***************************************************************************)

\* Where the entry c is linked in the list q.
Index(q, c) == CHOOSE i \in 1..Len(q) : q[i] = c

\* qlist_next_entry() on a list q: the first entry follows the head of the
\* list, and the head follows the last entry.
NextEntry(q, c) ==
    LET i == IF c = ListHead THEN 0 ELSE Index(q, c)
    IN  IF i < Len(q) THEN q[i + 1] ELSE ListHead

\* qlist_del_entry()
DelEntry(q, c) == RemoveAt(q, Index(q, c))

\* The initialisation of qlist_foreach_entry_safe() on the queue as it is
\* after the step.
StartPass ==
    /\ pc' = "loop"
    /\ pos' = NextEntry(queue', ListHead)
    /\ posN' = NextEntry(queue', NextEntry(queue', ListHead))

-----------------------------------------------------------------------------
(***************************************************************************)
(* Start of the worker and allocation of contexts.                         *)
(***************************************************************************)

\* init_conn_queue() and init_conn_ctx_cache(): both lists are empty, and
\* the first call of fill_conn_ctx_cache() begins.
CtxInit ==
    /\ pc = "fill" /\ fill = MinCache /\ newSock = NoFd
    /\ allocated = {} /\ cache = <<>> /\ cacheCnt = 0
    /\ queue = <<>> /\ activeConnCnt = 0 /\ inactiveConnCnt = 0
    /\ connSock = [c \in Ctx |-> NoFd]
    /\ isCompleted = [c \in Ctx |-> FALSE]
    /\ isActive = [c \in Ctx |-> FALSE]
    /\ opened = {}
    /\ currConn = NULL
    /\ pos = ListHead /\ posN = ListHead

\* One round of "while (cnt)": alloc_conn_ctx_mem() returns a context, which
\* goes to the head of the cache.
FillAlloc(c) ==
    /\ pc = "fill" /\ fill # 0
    /\ c \in Ctx \ allocated
    /\ allocated' = allocated \cup {c}
    /\ cache' = Cons(c, cache)
    /\ cacheCnt' = cacheCnt + 1
    /\ fill' = fill - 1
    /\ UNCHANGED <<pc, newSock, queue, cntVars, connVars, currConn, passVars>>

\* The same round when mmap, mprotect or malloc fails: only cnt changes.
FillFails ==
    /\ pc = "fill" /\ fill # 0
    /\ fill' = fill - 1
    /\ UNCHANGED <<pc, newSock, listVars, cntVars, connVars, currConn, passVars>>

\* create_new_conn() when a cached context exists: alloc_conn_ctx() pops it,
\* init_new_conn_ctx() gives it the socket, add_conn_to_queue() counts it.
CreateNewConn(s) ==
    LET c == Head(cache)
    IN  /\ cache' = Tail(cache)
        /\ cacheCnt' = cacheCnt - 1
        /\ connSock' = [connSock EXCEPT ![c] = s]
        /\ isCompleted' = [isCompleted EXCEPT ![c] = FALSE]
        /\ isActive' = [isActive EXCEPT ![c] = TRUE]
        /\ queue' = Cons(c, queue)
        /\ activeConnCnt' = activeConnCnt + 1
        /\ UNCHANGED <<allocated, inactiveConnCnt>>

\* End of the fill at start-up: the worker enters its accept loop.
FillInitDone ==
    /\ pc = "fill" /\ fill = 0 /\ newSock = NoFd
    /\ pc' = "wait"
    /\ UNCHANGED <<fillVars, listVars, cntVars, connVars, currConn, passVars>>

\* End of a fill in the middle of create_new_conn(): the new connection gets
\* its context ...
FillServes ==
    /\ pc = "fill" /\ fill = 0 /\ newSock # NoFd /\ cacheCnt # 0
    /\ CreateNewConn(newSock)
    /\ newSock' = NoFd
    /\ StartPass
    /\ UNCHANGED <<fill, opened, currConn>>

\* ... or there is none, and the whole worker exits.
FillExits ==
    /\ pc = "fill" /\ fill = 0 /\ newSock # NoFd /\ cacheCnt = 0
    /\ pc' = "exited"
    /\ UNCHANGED <<fillVars, listVars, cntVars, connVars, currConn, passVars>>

-----------------------------------------------------------------------------
(***************************************************************************)
(* The accept loop.                                                        *)
(***************************************************************************)

\* epoll_pwait() returned and accept() gave a socket: a context is popped
\* from the cache and the pass starts, or the cache has to be filled first.
AcceptConn(s) ==
    /\ pc = "wait"
    /\ s \in Fd \ opened
    /\ opened' = opened \cup {s}
    /\ IF cacheCnt # 0
       THEN /\ CreateNewConn(s)
            /\ StartPass
            /\ UNCHANGED fillVars
       ELSE /\ pc' = "fill"
            /\ fill' = MinCache - cacheCnt
            /\ newSock' = s
            /\ UNCHANGED <<listVars, cntVars, connSock, isCompleted, isActive, passVars>>
    /\ UNCHANGED currConn

\* epoll_pwait() returned without a connection for this worker (timeout 0,
\* EINTR, or accept() failed): straight to the existing connections.
NoNewConn ==
    /\ pc = "wait"
    /\ UNCHANGED <<fillVars, listVars, cntVars, connVars, currConn>>
    /\ StartPass

\* The pass is over.
PassEnds ==
    /\ pc = "loop" /\ pos = ListHead
    /\ pc' = "wait"
    /\ UNCHANGED <<fillVars, listVars, cntVars, connVars, currConn, passVars>>

\* swap_to_conn_ctx(conn)
SwapToConn ==
    /\ pc = "loop" /\ pos # ListHead
    /\ currConn' = pos
    /\ pc' = "run"
    /\ UNCHANGED <<fillVars, listVars, cntVars, connVars, passVars>>

\* Two wrong variants of FreeConnCtx: "<=" for "<", and a context that is
\* neither cached nor unmapped.
FreeConnCtxOverfull(c) ==
    IF cacheCnt <= MaxCache
    THEN cache' = Cons(c, cache) /\ cacheCnt' = cacheCnt + 1 /\ UNCHANGED allocated
    ELSE allocated' = allocated \ {c} /\ UNCHANGED <<cache, cacheCnt>>
FreeConnCtxLeak(c) ==
    IF cacheCnt < MaxCache
    THEN cache' = Cons(c, cache) /\ cacheCnt' = cacheCnt + 1 /\ UNCHANGED allocated
    ELSE UNCHANGED <<allocated, cache, cacheCnt>>

\* free_conn_ctx(): back on the cache, or unmapped when the cache is full.
FreeConnCtx(c) ==
    IF cacheCnt < MaxCache
    THEN /\ cache' = Cons(c, cache)
         /\ cacheCnt' = cacheCnt + 1
         /\ UNCHANGED allocated
    ELSE /\ allocated' = allocated \ {c}
         /\ UNCHANGED <<cache, cacheCnt>>

\* A wrong variant of RemoveConn that takes every closed connection for an
\* active one.
RemoveConnAsActive(c) ==
    /\ queue' = DelEntry(queue, c)
    /\ activeConnCnt' = activeConnCnt - 1 /\ UNCHANGED inactiveConnCnt
    /\ FreeConnCtx(c)

\* remove_conn_from_queue() and free_closed_conn() for a completed connection.
RemoveConn(c) ==
    /\ queue' = DelEntry(queue, c)
    /\ IF isActive[c]
       THEN activeConnCnt' = activeConnCnt - 1 /\ UNCHANGED inactiveConnCnt
       ELSE inactiveConnCnt' = inactiveConnCnt - 1 /\ UNCHANGED activeConnCnt
    /\ FreeConnCtx(c)

\* Two wrong variants of BackInLoop: conn_n is not advanced, and a completed
\* connection stays in the queue.
BackInLoopStuckCursor ==
    /\ pc = "back"
    /\ IF isCompleted[pos] THEN RemoveConn(pos) ELSE UNCHANGED <<listVars, cntVars>>
    /\ pos' = posN
    /\ pc' = "loop"
    /\ UNCHANGED <<fillVars, connVars, currConn, posN>>
BackInLoopKeepClosed ==
    /\ pc = "back"
    /\ pos' = posN
    /\ posN' = NextEntry(queue, posN)
    /\ pc' = "loop"
    /\ UNCHANGED <<fillVars, listVars, cntVars, connVars, currConn>>

\* The rest of the loop body after the coroutine switched back, and the
\* advance of both cursors.
BackInLoop ==
    /\ pc = "back"
    /\ IF isCompleted[pos]
       THEN RemoveConn(pos)
       ELSE UNCHANGED <<listVars, cntVars>>
    /\ pos' = posN
    /\ posN' = NextEntry(queue', posN)
    /\ pc' = "loop"
    /\ UNCHANGED <<fillVars, connVars, currConn>>

-----------------------------------------------------------------------------
(***************************************************************************)
(* What the coroutine of curr_conn does to the shared state.               *)
(***************************************************************************)

\* curr_conn_update_active(), without a switch.
UpdateActive ==
    /\ isActive' = [isActive EXCEPT ![currConn] = TRUE]
    /\ IF isActive[currConn]
       THEN UNCHANGED cntVars
       ELSE /\ activeConnCnt' = activeConnCnt + 1
            /\ inactiveConnCnt' = inactiveConnCnt - 1

\* curr_conn_set_inactive(), without a switch.
SetInactive ==
    /\ isActive' = [isActive EXCEPT ![currConn] = FALSE]
    /\ IF isActive[currConn]
       THEN /\ activeConnCnt' = activeConnCnt - 1
            /\ inactiveConnCnt' = inactiveConnCnt + 1
       ELSE UNCHANGED cntVars

\* The coroutine computes or transfers data and stays on the processor.
CoStep ==
    /\ pc = "run"
    /\ UpdateActive
    /\ UNCHANGED <<pc, fillVars, listVars, connSock, isCompleted, opened, currConn, passVars>>

\* swap_to_main_ctx() with the flags as they are.
CoYield ==
    /\ pc = "run"
    /\ pc' = "back"
    /\ UNCHANGED <<fillVars, listVars, cntVars, connVars, currConn, passVars>>

\* The socket would block for longer than MAX_ACTIVE_TIMEOUT:
\* curr_conn_set_inactive(), then swap_to_main_ctx().
CoBlock ==
    /\ pc = "run"
    /\ SetInactive
    /\ pc' = "back"
    /\ UNCHANGED <<fillVars, listVars, connSock, isCompleted, opened, currConn, passVars>>

\* Two wrong variants of CoClose: without close(), and without is_completed.
CoCloseKeepsSocket ==
    /\ pc = "run"
    /\ isCompleted' = [isCompleted EXCEPT ![currConn] = TRUE]
    /\ pc' = "back"
    /\ UNCHANGED <<fillVars, listVars, cntVars, connSock, isActive, opened, currConn, passVars>>
CoCloseNotCompleted ==
    /\ pc = "run"
    /\ opened' = opened \ {connSock[currConn]}
    /\ pc' = "back"
    /\ UNCHANGED <<fillVars, listVars, cntVars, connSock, isCompleted, isActive, currConn, passVars>>

\* curr_conn_close(), then swap_to_main_ctx().
CoClose ==
    /\ pc = "run"
    /\ IF isCompleted[currConn]
       THEN UNCHANGED <<opened, isCompleted>>
       ELSE /\ opened' = opened \ {connSock[currConn]}
            /\ isCompleted' = [isCompleted EXCEPT ![currConn] = TRUE]
    /\ pc' = "back"
    /\ UNCHANGED <<fillVars, listVars, cntVars, connSock, isActive, currConn, passVars>>

\* exit(EXIT_FAILURE) in the coroutine, or death by a signal.
CoDies ==
    /\ pc = "run"
    /\ pc' = "exited"
    /\ UNCHANGED <<fillVars, listVars, cntVars, connVars, currConn, passVars>>

\* The process is gone.
Exited ==
    /\ pc = "exited"
    /\ UNCHANGED ctxVars

-----------------------------------------------------------------------------
FillStep == \/ \E c \in Ctx : FillAlloc(c)
            \/ FillFails \/ FillInitDone \/ FillServes \/ FillExits
LoopStep == \/ \E s \in Fd : AcceptConn(s)
            \/ NoNewConn \/ PassEnds \/ SwapToConn \/ BackInLoop
CoStepAny == CoStep \/ CoYield \/ CoBlock \/ CoClose \/ CoDies

CtxNext == FillStep \/ LoopStep \/ CoStepAny \/ Exited

CtxSpec == CtxInit /\ [][CtxNext]_ctxVars

-----------------------------------------------------------------------------
(***************************************************************************)
(* Properties.                                                             *)
(***************************************************************************)

\* Types of all the variables (conn_t, conn_queue_t and conn_ctx_cache_t of
\* srv_conn_ctxt.h).
TypeOK ==
    /\ pc \in {"fill", "wait", "loop", "run", "back", "exited"}
    /\ fill \in 0..MinCache
    /\ newSock \in Fd \cup {NoFd}
    /\ allocated \in SUBSET Ctx
    /\ cache \in Seq(Ctx) /\ cacheCnt \in 0..MaxCache
    /\ queue \in Seq(Ctx)
    /\ activeConnCnt \in Nat /\ inactiveConnCnt \in Nat
    /\ connSock \in [Ctx -> Fd \cup {NoFd}]
    /\ isCompleted \in [Ctx -> BOOLEAN]
    /\ isActive \in [Ctx -> BOOLEAN]
    /\ opened \in SUBSET Fd
    /\ currConn \in Ctx \cup {NULL}
    /\ pos \in Ctx \cup {ListHead} /\ posN \in Ctx \cup {ListHead}

\* The two lists share the link field conn->qlist, so a context may be on one
\* of them only, and only once; and every mapped context is on one, so that
\* recycling loses no memory and reuses none twice.
OnOneList ==
    /\ IsInjective(cache) /\ IsInjective(queue)
    /\ ToSet(cache) \cap ToSet(queue) = {}
    /\ ToSet(cache) \cup ToSet(queue) = allocated

\* The counters agree with the lists.  The event loop sleeps without timeout
\* when active_conn_cnt is 0, and it allocates only when cnt of the cache is
\* 0: a counter that drifts makes the worker sleep over a runnable
\* connection, spin, or pop an empty list.
CountersAgree ==
    /\ cacheCnt = Len(cache)
    /\ activeConnCnt = Cardinality({c \in ToSet(queue) : isActive[c]})
    /\ inactiveConnCnt = Cardinality({c \in ToSet(queue) : ~isActive[c]})

\* Every open connection socket belongs to exactly one connection that is not
\* completed, or to the one being created: nothing is leaked by
\* curr_conn_close(), and no coroutine reads the socket of another client
\* after the kernel reused a descriptor.
Live(c) == c \in ToSet(queue) /\ ~isCompleted[c]
SocketsOwned ==
    /\ opened = {connSock[c] : c \in {d \in Ctx : Live(d)}} \cup ({newSock} \ {NoFd})
    /\ \A c, d \in Ctx : Live(c) /\ Live(d) /\ connSock[c] = connSock[d] => c = d
    /\ \A c \in Ctx : Live(c) => connSock[c] # newSock

\* The cursors of the pass never dangle: while a connection is handled the
\* cursors are entries of the queue (or its head), conn_n follows conn, and
\* the coroutine that runs is the one at the cursor.  The loop frees conn, so
\* a cursor read late would follow a context that is on the cache already.
CursorsValid ==
    /\ pc \in {"loop", "run", "back"} =>
           /\ pos \in ToSet(queue) \cup {ListHead}
           /\ posN = NextEntry(queue, pos)
    /\ pc \in {"run", "back"} => pos = currConn /\ currConn \in ToSet(queue)

\* A completed connection is at the cursor and about to be removed; its
\* coroutine never runs again ("Should never get here" after the switch in
\* recv_from_curr_conn() and send_to_curr_conn()).
NeverRunCompleted ==
    \A c \in ToSet(queue) : isCompleted[c] => pc = "back" /\ c = currConn

\* fill_conn_ctx_cache() adds to a cache that holds less than
\* MIN_CONN_CTX_CACHE_CNT contexts and stops there; create_new_conn() runs
\* outside of a pass only.  (With a larger cache its "while (cnt)" would
\* start from a negative cnt.)
FillBounded ==
    /\ pc = "fill" => fill + cacheCnt <= MinCache
    /\ newSock # NoFd => pc \in {"fill", "exited"}

\* The inductive invariant of the module.
IInv == /\ TypeOK /\ OnOneList /\ CountersAgree /\ SocketsOwned
        /\ CursorsValid /\ NeverRunCompleted /\ FillBounded

-----------------------------------------------------------------------------
(***************************************************************************)
(* The promise to clients: ConnService.tla, in which contexts, lists and   *)
(* counters do not exist.                                                  *)
(***************************************************************************)

\* The sockets of the connections in the queue that are still open.
ServedFds == {connSock[c] : c \in {d \in ToSet(queue) : ~isCompleted[d]}}

\* Those of them that the event loop must keep polling.
BusyFds == {connSock[c] : c \in {d \in ToSet(queue) : ~isCompleted[d] /\ isActive[d]}}

\* The socket of the coroutine that has the processor.
TurnFd == IF pc = "run" THEN connSock[currConn] ELSE NoFd

Service == INSTANCE ConnService
           WITH serving <- ServedFds, busy <- BusyFds, turn <- TurnFd,
                up <- pc # "exited"

\* Whatever the cache, the queue and the counters do, a client sees the
\* service of ConnService: one turn at a time, only the connection that has
\* the turn changes, a closed connection never gets a turn again unless its
\* descriptor is accepted anew, and the process ends only in a turn or over a
\* new client.
ServiceSpec == Service!Spec

=============================================================================
