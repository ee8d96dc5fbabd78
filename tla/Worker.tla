------------------------------- MODULE Worker -------------------------------
(***************************************************************************)
(* One worker process of srv_async: the accept loop of                     *)
(* handle_connections_routine(), the coroutines that run                   *)
(* handle_one_connection(), and what the kernel shows them of their        *)
(* sockets.                                                                *)
(*                                                                         *)
(* The contexts, lists, counters and flags are those of ConnCtx.tla; every *)
(* step of the process below is one of its actions together with the      *)
(* reason the code has for it.  Bytes are abstracted to pieces: a piece of *)
(* input is the least amount one read() returns, and which pieces make a   *)
(* header or a body is the client's choice.                                *)
(***************************************************************************)
EXTENDS ConnCtx

CONSTANTS
    BufCap,     \* RECV_BUF_SIZE, in pieces
    Packet,     \* SEND_PACKET_SIZE, in pieces
    MaxRx,      \* bound: pieces in the receive queue of one socket
    MaxBacklog, \* bound: connections waiting in the listening socket
    MaxParts,   \* bound: chunks of a body or packets of a response after the first
    Clients     \* what clients do besides connecting

ClientActions == {"send", "fin", "reset", "stall"}
ASSUME WorkerBounds == /\ BufCap \in Nat \ {0} /\ Packet \in Nat \ {0}
                       /\ MaxRx \in Nat /\ MaxBacklog \in Nat \ {0}
                       /\ MaxParts \in Nat
                       /\ Clients \subseteq ClientActions

VARIABLES
    loc,        \* where the coroutine of each context continues
    buf,        \* recv_buf_have - recv_buf_curr of each context
    todo,       \* to_recv or to_send of the call each coroutine is in
    parts,      \* chunks or packets of the message that come after that call
    stale,      \* contexts whose last_active is older than MAX_ACTIVE_TIMEOUT
    opDue,      \* contexts whose start_op is older than CLIENT_OP_TIMEOUT
    swapDue,    \* last_ctx_swap is older than CTX_SWAP_TIMEOUT
    rx,         \* the receive queue of each connection socket
    peer,       \* what the client did to the connection: open, eof, reset
    wfull,      \* whether write() would block
    backlog,    \* connections that accept() can return
    sigio,      \* SIGIO is blocked and pending
    asleep      \* the process sleeps in epoll_pwait() with timeout -1

coVars   == <<loc, buf, todo, parts>>
timeVars == <<stale, opDue, swapDue>>
netVars  == <<rx, peer, wfull>>
sigVars  == <<sigio, asleep>>
vars     == <<ctxVars, coVars, timeVars, netVars, backlog, sigVars>>

\* Where a coroutine continues.  In "header", "body" and "send" it is in the
\* loop of recv_from_curr_conn() or send_to_curr_conn(); "received", "sent"
\* and "answered" are the three calls of cond_swap_to_main_ctx().
Locs == {"closed", "start", "request", "header", "body", "received", "more",
         "send", "sent", "packet", "answered", "end"}
Recv == {"header", "body"}

WorkerInit ==
    /\ CtxInit
    /\ loc = [c \in Ctx |-> "closed"]
    /\ buf = [c \in Ctx |-> 0]
    /\ todo = [c \in Ctx |-> 0]
    /\ parts = [c \in Ctx |-> 0]
    /\ stale = {} /\ opDue = {} /\ swapDue = TRUE
    /\ rx = [f \in Fd |-> 0]
    /\ peer = [f \in Fd |-> "open"]
    /\ wfull = [f \in Fd |-> FALSE]
    /\ backlog = 0
    /\ sigio = FALSE /\ asleep = FALSE

-----------------------------------------------------------------------------
(***************************************************************************)
(* The main context.                                                       *)
(***************************************************************************)

\* The buffer fields of a context are set when its memory is mapped, and by
\* nothing else before the first request of a connection.
Fill ==
    /\ \/ \E c \in Ctx : FillAlloc(c) /\ buf' = [buf EXCEPT ![c] = 0]
       \/ (FillFails \/ FillInitDone \/ FillExits) /\ UNCHANGED buf
    /\ UNCHANGED <<loc, todo, parts, timeVars, netVars, backlog, sigVars>>

\* makecontext() of init_new_conn_ctx().
NewCoroutine == loc' = [loc EXCEPT ![Head(cache)] = "start"]

FillThenServe ==
    /\ FillServes
    /\ NewCoroutine
    /\ UNCHANGED <<buf, todo, parts, timeVars, netVars, backlog, sigVars>>

\* epoll_pwait() reports the listening socket and accept() succeeds.
Accept(s) ==
    /\ backlog > 0
    /\ AcceptConn(s)
    /\ IF cacheCnt # 0 THEN NewCoroutine ELSE UNCHANGED loc
    /\ backlog' = backlog - 1
    /\ asleep' = FALSE
    /\ UNCHANGED <<buf, todo, parts, timeVars, netVars, sigio>>

\* accept() fails: another worker was faster or the client is gone, or the
\* process has no descriptor left and the connection stays where it is.
AcceptFails ==
    /\ backlog > 0
    /\ NoNewConn
    /\ \/ backlog' = backlog - 1
       \/ opened = Fd /\ UNCHANGED backlog
    /\ asleep' = FALSE
    /\ UNCHANGED <<coVars, timeVars, netVars, sigio>>

\* epoll_pwait() with timeout 0 finds nothing; a pending SIGIO stays pending.
PollNothing ==
    /\ activeConnCnt # 0 /\ backlog = 0
    /\ NoNewConn
    /\ UNCHANGED <<coVars, timeVars, netVars, backlog, sigVars>>

\* epoll_pwait() with timeout -1 unblocks SIGIO; one that is pending makes it
\* return EINTR and is discarded.
PollInterrupted ==
    /\ activeConnCnt = 0 /\ backlog = 0 /\ sigio
    /\ NoNewConn
    /\ sigio' = FALSE
    /\ UNCHANGED <<coVars, timeVars, netVars, backlog, asleep>>

\* Otherwise the process sleeps until a client connects.
FallAsleep ==
    /\ pc = "wait" /\ ~asleep
    /\ activeConnCnt = 0 /\ backlog = 0 /\ ~sigio
    /\ asleep' = TRUE
    /\ UNCHANGED <<ctxVars, coVars, timeVars, netVars, backlog, sigio>>

\* swap_to_conn_ctx(): a coroutine that swapped out before notes the time.
Resume ==
    /\ SwapToConn
    /\ swapDue' = (swapDue /\ loc[pos] = "start")
    /\ UNCHANGED <<coVars, stale, opDue, netVars, backlog, sigVars>>

NextConn ==
    /\ PassEnds \/ BackInLoop
    /\ UNCHANGED <<coVars, timeVars, netVars, backlog, sigVars>>

Main == \/ Fill \/ FillThenServe
        \/ \E s \in Fd : Accept(s)
        \/ AcceptFails \/ PollNothing \/ PollInterrupted \/ FallAsleep
        \/ Resume \/ NextConn

-----------------------------------------------------------------------------
(***************************************************************************)
(* The coroutines.  They share what they do to their own context:          *)
(***************************************************************************)
Sock == connSock[currConn]
At(l) == pc = "run" /\ loc[currConn] = l
Goto(l) == loc' = [loc EXCEPT ![currConn] = l]
Set(var, v) == [var EXCEPT ![currConn] = v]

\* The coroutine keeps the processor and calls nothing of srv_conn_ctxt.c.
Stay == pc = "run" /\ UNCHANGED ctxVars

\* curr_conn_update_active() ...
Active == CoStep /\ stale' = stale \ {currConn}

\* ... and with curr_conn_start_op(), at the start of a call of
\* recv_from_curr_conn() or send_to_curr_conn().
StartOp(l, n) ==
    /\ Active
    /\ opDue' = opDue \ {currConn}
    /\ Goto(l)
    /\ todo' = Set(todo, n)
    /\ UNCHANGED swapDue

\* The call for one part of a message of which p parts follow: a part that is
\* not the last one has full size (std::min in the loops of recv_http_msg()
\* and send_http_msg()).
StartPart(l, size, p) ==
    /\ \E n \in 1..size : (p > 0 => n = size) /\ StartOp(l, n)
    /\ parts' = Set(parts, p)

\* swap_to_main_ctx(), after which the main context notes the time.
Swap(step) == step /\ swapDue' = FALSE /\ UNCHANGED <<stale, opDue>>

\* curr_conn_close() and swap_to_main_ctx(): the socket is gone, and so is
\* whatever the kernel held for it.
CloseAndSwap ==
    /\ CoClose
    /\ Goto("closed")
    /\ todo' = Set(todo, 0) /\ parts' = Set(parts, 0)
    /\ stale' = stale \ {currConn} /\ opDue' = opDue \ {currConn}
    /\ swapDue' = FALSE
    /\ rx' = [rx EXCEPT ![Sock] = 0]
    /\ peer' = [peer EXCEPT ![Sock] = "open"]
    /\ wfull' = [wfull EXCEPT ![Sock] = FALSE]

-----------------------------------------------------------------------------
\* set_nonblock() and set_async() on the new socket; without them the whole
\* worker exits.
SetupSock ==
    /\ At("start")
    /\ \/ Stay /\ Goto("request")
       \/ CoDies /\ UNCHANGED loc
    /\ UNCHANGED <<buf, todo, parts, timeVars, netVars>>

\* A request whose header is complete leaves b pieces in the buffer: it is
\* answered, or the rest of its body has to be received.
Dispatch(b) ==
    \E p \in 0..MaxParts :
        \/ StartPart("send", Packet, p) /\ buf' = Set(buf, b)
        \/ StartPart("body", BufCap, p) /\ buf' = Set(buf, 0)

\* recv_http_hdr(): the buffer holds a complete header, or there is room to
\* receive more, or the header fills the buffer and read() is not called.
RecvHeader ==
    /\ At("request")
    /\ LET have == buf[currConn]
       IN  \/ \E b \in 0..(have - 1) : Dispatch(b)
           \/ /\ have < BufCap
              /\ StartOp("header", BufCap - have)
              /\ UNCHANGED <<buf, parts>>
           \/ /\ have = BufCap
              /\ StartOp("end", 0)
              /\ UNCHANGED <<buf, parts>>
    /\ UNCHANGED netVars

\* read() returns data of the header.  The loop ends when the terminator is
\* seen or the buffer is full; only then recv_http_hdr() stores what it has.
ReadHeader ==
    /\ At("header")
    /\ \E n \in 1..todo[currConn] :
         LET left == todo[currConn] - n
             have == BufCap - left
         IN  /\ n <= rx[Sock]
             /\ rx' = [rx EXCEPT ![Sock] = @ - n]
             /\ \/ \E b \in 0..(have - 1) : Dispatch(b)
                \/ /\ left > 0
                   /\ Active /\ todo' = Set(todo, left)
                   /\ UNCHANGED <<loc, buf, parts, opDue, swapDue>>
                \/ /\ Active /\ Goto("end")
                   /\ todo' = Set(todo, 0) /\ buf' = Set(buf, have)
                   /\ UNCHANGED <<parts, opDue, swapDue>>
    /\ UNCHANGED <<peer, wfull>>

\* A wrong variant of ReadBody without curr_conn_update_active().
ReadBodyInactive ==
    /\ At("body")
    /\ Stay
    /\ \E n \in 1..todo[currConn] :
         /\ n <= rx[Sock]
         /\ rx' = [rx EXCEPT ![Sock] = @ - n]
         /\ todo' = Set(todo, todo[currConn] - n)
         /\ IF n = todo[currConn] THEN Goto("received")
            ELSE IF currConn \in opDue THEN Goto("end")
            ELSE UNCHANGED loc
    /\ UNCHANGED <<buf, parts, timeVars, peer, wfull>>

\* read() returns data of the body: the chunk is complete, or the operation
\* has taken too long, or the loop goes on.
ReadBody ==
    /\ At("body")
    /\ Active
    /\ \E n \in 1..todo[currConn] :
         /\ n <= rx[Sock]
         /\ rx' = [rx EXCEPT ![Sock] = @ - n]
         /\ todo' = Set(todo, todo[currConn] - n)
         /\ IF n = todo[currConn] THEN Goto("received")
            ELSE IF currConn \in opDue THEN Goto("end")
            ELSE UNCHANGED loc
    /\ UNCHANGED <<buf, parts, opDue, swapDue, peer, wfull>>

\* read() returns 0.  Pieces of an incomplete header stay in the buffer; the
\* connection ends either way.
ReadEof ==
    /\ pc = "run" /\ loc[currConn] \in Recv
    /\ rx[Sock] = 0 /\ peer[Sock] = "eof"
    /\ Stay /\ Goto("end")
    /\ todo' = Set(todo, 0)
    /\ IF loc[currConn] = "header"
       THEN buf' = Set(buf, BufCap - todo[currConn])
       ELSE UNCHANGED buf
    /\ UNCHANGED <<parts, timeVars, netVars>>

\* A wrong variant of WouldBlock that never makes a connection inactive.
WouldBlockActive ==
    /\ pc = "run"
    /\ \/ loc[currConn] \in Recv /\ rx[Sock] = 0 /\ peer[Sock] = "open"
       \/ loc[currConn] = "send" /\ wfull[Sock] /\ peer[Sock] # "reset"
    /\ Swap(CoYield)
    /\ UNCHANGED <<coVars, netVars>>

\* read() or write() would block: the connection becomes inactive if it has
\* waited for long, and gives the processor back.
WouldBlock ==
    /\ pc = "run"
    /\ \/ loc[currConn] \in Recv /\ rx[Sock] = 0 /\ peer[Sock] = "open"
       \/ loc[currConn] = "send" /\ wfull[Sock] /\ peer[Sock] # "reset"
    /\ Swap(IF currConn \in stale THEN CoBlock ELSE CoYield)
    /\ UNCHANGED <<coVars, netVars>>

\* read() or write() fails: curr_conn_close() and no way back.
OpFails ==
    /\ pc = "run" /\ loc[currConn] \in Recv \cup {"send"}
    /\ peer[Sock] = "reset"
    /\ loc[currConn] \in Recv => rx[Sock] = 0
    /\ CloseAndSwap
    /\ UNCHANGED buf

\* write() to a connection that the client reset may also raise SIGPIPE,
\* whose default action ends the process.
SigPipe ==
    /\ At("send") /\ peer[Sock] = "reset"
    /\ CoDies
    /\ UNCHANGED <<coVars, timeVars, netVars>>

\* write() accepts n pieces.
Write ==
    /\ At("send")
    /\ ~wfull[Sock] /\ peer[Sock] # "reset"
    /\ Active
    /\ \E n \in 1..todo[currConn] :
         /\ todo' = Set(todo, todo[currConn] - n)
         /\ IF n = todo[currConn] THEN Goto("sent")
            ELSE IF currConn \in opDue THEN Goto("end")
            ELSE UNCHANGED loc
    /\ \E full \in (IF "stall" \in Clients THEN BOOLEAN ELSE {FALSE}) :
         wfull' = [wfull EXCEPT ![Sock] = full]
    /\ UNCHANGED <<buf, parts, opDue, swapDue, rx, peer>>

\* cond_swap_to_main_ctx(), called after every chunk, packet and request.
AfterSwap == [received |-> "more", sent |-> "packet", answered |-> "request"]

\* Two wrong variants of CondSwap: one that never swaps, and one that makes
\* the connection inactive as recv_from_curr_conn() does.
CondSwapNever ==
    /\ pc = "run" /\ loc[currConn] \in DOMAIN AfterSwap
    /\ Goto(AfterSwap[loc[currConn]])
    /\ Stay
    /\ UNCHANGED <<buf, todo, parts, timeVars, netVars>>
CondSwapInactive ==
    /\ pc = "run" /\ loc[currConn] \in DOMAIN AfterSwap
    /\ Goto(AfterSwap[loc[currConn]])
    /\ IF swapDue THEN Swap(CoBlock) ELSE Stay /\ UNCHANGED timeVars
    /\ UNCHANGED <<buf, todo, parts, netVars>>

CondSwap ==
    /\ pc = "run" /\ loc[currConn] \in DOMAIN AfterSwap
    /\ Goto(AfterSwap[loc[currConn]])
    /\ IF swapDue THEN Swap(CoYield) ELSE Stay /\ UNCHANGED timeVars
    /\ UNCHANGED <<buf, todo, parts, netVars>>

\* The next chunk of the body, or the response.
MoreBody ==
    /\ At("more")
    /\ IF parts[currConn] > 0
       THEN StartPart("body", BufCap, parts[currConn] - 1)
       ELSE \E p \in 0..MaxParts : StartPart("send", Packet, p)
    /\ UNCHANGED <<buf, netVars>>

\* A wrong variant of MorePackets: "curr <= size" for "curr < size".
MorePacketsOneTooMany ==
    /\ At("packet")
    /\ IF parts[currConn] >= 0
       THEN StartPart("send", Packet, parts[currConn] - 1)
       ELSE /\ \E l \in {"answered", "end"} : Goto(l)
            /\ Stay
            /\ UNCHANGED <<todo, parts, timeVars>>
    /\ UNCHANGED <<buf, netVars>>

\* The next packet of the response; or it is sent, and WantKeepAlive()
\* decides whether the connection goes on.
MorePackets ==
    /\ At("packet")
    /\ IF parts[currConn] > 0
       THEN StartPart("send", Packet, parts[currConn] - 1)
       ELSE /\ \E l \in {"answered", "end"} : Goto(l)
            /\ Stay
            /\ UNCHANGED <<todo, parts, timeVars>>
    /\ UNCHANGED <<buf, netVars>>

\* The end of handle_one_connection().
EndConnection ==
    /\ At("end")
    /\ CloseAndSwap
    /\ UNCHANGED buf

Coroutine ==
    /\ \/ SetupSock \/ RecvHeader \/ ReadHeader \/ ReadBody \/ ReadEof
       \/ WouldBlock \/ OpFails \/ SigPipe \/ Write
       \/ CondSwap \/ MoreBody \/ MorePackets \/ EndConnection
    /\ UNCHANGED <<backlog, sigVars>>

-----------------------------------------------------------------------------
(***************************************************************************)
(* The rest of the world: clocks, clients and the kernel.                  *)
(***************************************************************************)
Waiting(c) == Live(c) /\ loc[c] \in Recv \cup {"send"}

\* MAX_ACTIVE_TIMEOUT, CLIENT_OP_TIMEOUT and CTX_SWAP_TIMEOUT elapse.  The
\* second one is only compared after a call that leaves something to do.
GrowStale(c) ==
    /\ Waiting(c) /\ c \notin stale
    /\ stale' = stale \cup {c}
    /\ UNCHANGED <<opDue, swapDue>>
ExceedOp(c) ==
    /\ Waiting(c) /\ loc[c] # "header" /\ todo[c] > 1 /\ c \notin opDue
    /\ opDue' = opDue \cup {c}
    /\ UNCHANGED <<stale, swapDue>>
ExceedSwap ==
    /\ pc = "run" /\ ~swapDue
    /\ swapDue' = TRUE
    /\ UNCHANGED <<stale, opDue>>
Tick == /\ pc # "exited"
        /\ (\E c \in Ctx : GrowStale(c) \/ ExceedOp(c)) \/ ExceedSwap
        /\ UNCHANGED <<ctxVars, coVars, netVars, backlog, sigVars>>

\* A wrong variant of Signal: set_async() was not called.
SignalNever(f) == UNCHANGED sigio

\* SIGIO for an event on a socket in asynchronous mode.  It is blocked and
\* stays pending, except in epoll_pwait(): there it is unblocked, and as it
\* is ignored (SIG_IGN) it is discarded without waking the process.
Signal(f) ==
    LET async == \E c \in Ctx : Live(c) /\ connSock[c] = f /\ loc[c] # "start"
    IN  sigio' = (sigio \/ (async /\ ~asleep))

ClientSends(f) ==
    /\ "send" \in Clients /\ peer[f] = "open" /\ rx[f] < MaxRx
    /\ rx' = [rx EXCEPT ![f] = @ + 1]
    /\ UNCHANGED <<peer, wfull>>
ClientEnds(f) ==
    /\ "fin" \in Clients /\ peer[f] = "open"
    /\ peer' = [peer EXCEPT ![f] = "eof"]
    /\ UNCHANGED <<rx, wfull>>
ClientResets(f) ==
    /\ "reset" \in Clients /\ peer[f] # "reset"
    /\ peer' = [peer EXCEPT ![f] = "reset"]
    /\ UNCHANGED <<rx, wfull>>
ClientReads(f) ==
    /\ wfull[f] /\ peer[f] # "reset"
    /\ wfull' = [wfull EXCEPT ![f] = FALSE]
    /\ UNCHANGED <<rx, peer>>
ClientConnects ==
    /\ backlog < MaxBacklog
    /\ backlog' = backlog + 1
    /\ UNCHANGED <<netVars, sigVars>>

ClientActs(f) ==
    /\ f \in opened
    /\ ClientSends(f) \/ ClientEnds(f) \/ ClientResets(f) \/ ClientReads(f)
    /\ Signal(f)
    /\ UNCHANGED <<backlog, asleep>>

Client == /\ pc # "exited"
          /\ (\E f \in Fd : ClientActs(f)) \/ ClientConnects
          /\ UNCHANGED <<ctxVars, coVars, timeVars>>

Gone == pc = "exited" /\ UNCHANGED vars

Process == Main \/ Coroutine

Next == Process \/ Tick \/ Client \/ Gone

Spec == WorkerInit /\ [][Next]_vars

-----------------------------------------------------------------------------
\* The kernel schedules the process whenever it can run, and clocks do not
\* stop.  Nothing is assumed of the clients.
Fairness ==
    /\ WF_vars(Process)
    /\ \A c \in Ctx : /\ WF_vars(Tick /\ GrowStale(c))
                      /\ WF_vars(Tick /\ ExceedOp(c))
    /\ WF_vars(Tick /\ ExceedSwap)

FairSpec == Spec /\ Fairness

-----------------------------------------------------------------------------
(***************************************************************************)
(* Properties.                                                             *)
(***************************************************************************)

\* Types of the variables that this module adds.
WorkerTypeOK ==
    /\ loc \in [Ctx -> Locs]
    /\ buf \in [Ctx -> 0..BufCap]
    /\ todo \in [Ctx -> 0..(BufCap + Packet)] /\ parts \in [Ctx -> 0..MaxParts]
    /\ stale \subseteq Ctx /\ opDue \subseteq Ctx /\ swapDue \in BOOLEAN
    /\ rx \in [Fd -> 0..MaxRx]
    /\ peer \in [Fd -> {"open", "eof", "reset"}]
    /\ wfull \in [Fd -> BOOLEAN]
    /\ backlog \in 0..MaxBacklog
    /\ sigio \in BOOLEAN /\ asleep \in BOOLEAN

\* Whether the coroutine of c would do more than swap back if it got the
\* processor now.
Readable(f) == rx[f] > 0 \/ peer[f] # "open"
Writable(f) == ~wfull[f] \/ peer[f] = "reset"
Runnable(c) ==
    /\ loc[c] \in Recv => Readable(connSock[c])
    /\ loc[c] = "send" => Writable(connSock[c])

\* The worker starts to sleep only when no connection has anything to do: not
\* one that gave up the processor between two chunks, and not one whose data
\* came after its last read().  The decision rests on active_conn_cnt and a
\* pending SIGIO alone, so the counter, the inactive flag, O_ASYNC and the
\* order of the pass and epoll_pwait() have to fit together.
NoSleepOverWork ==
    [][~asleep /\ asleep' => \A c \in ToSet(queue) : ~Runnable(c)]_vars

\* An inactive connection is one that waits for its client in a read() or
\* write(), or the one that runs; a coroutine that only made room for others
\* in cond_swap_to_main_ctx(), or has not started, is always polled.
InactiveOnlyWhileWaiting ==
    \A c \in ToSet(queue) :
        isActive[c] \/ Waiting(c) \/ isCompleted[c] \/ (pc = "run" /\ c = currConn)

\* What the code never states, but needs for the above: how much is left to do
\* in a call, what the flag of a connection says of its coroutine, and that
\* the queue is empty until the first fill is over.
TodoFits ==
    \A c \in Ctx : /\ loc[c] \in Recv => todo[c] \in 1..BufCap
                   /\ loc[c] = "send" => todo[c] \in 1..Packet
LocsFit ==
    \A c \in ToSet(queue) : ~isCompleted[c] =>
        /\ loc[c] # "closed"
        /\ isActive[c] \/ loc[c] \in Recv \cup {"send", "end"}
        /\ loc[c] = "end" => pc = "run" /\ c = currConn
FillAtStart == pc = "fill" /\ newSock = NoFd => queue = <<>>

\* The pass has yet to resume c.
StillDue(c) ==
    /\ pc \in {"loop", "run", "back"}
    /\ \E i, j \in 1..Len(queue) :
          queue[i] = pos /\ queue[j] = c /\ i <= j /\ (pc = "back" => i < j)

\* An inactive connection for which there is work again is announced by a
\* pending SIGIO, or comes up in this pass or in the one about to start.
WorkNoticed ==
    \A c \in ToSet(queue) : ~isCompleted[c] /\ ~isActive[c] /\ Runnable(c) =>
        asleep \/ sigio \/ pc \in {"fill", "exited"} \/ StillDue(c)

\* The inductive invariant of the module.
WorkerIInv == /\ IInv /\ WorkerTypeOK
              /\ TodoFits /\ LocsFit /\ FillAtStart /\ WorkNoticed

Stuck == asleep \/ pc = "exited"

\* Every connection that is not closed gets the processor again and again, as long
\* as the worker does not sleep: no client that keeps sending or reading can
\* hold the worker (CTX_SWAP_TIMEOUT, cond_swap_to_main_ctx()).
NoStarvation ==
    \A c \in Ctx : Live(c) ~> ((pc = "run" /\ currConn = c) \/ Stuck)

\* What reaches a connection while the worker is awake is consumed, or the
\* worker ends: it cannot fall asleep over it.  (Without clients that stop
\* reading.)
InputConsumed ==
    \A f \in Fd : (f \in opened /\ Readable(f) /\ ~asleep)
                  ~> (~Readable(f) \/ pc = "exited")

\* The worker does not spin: when clients do nothing any more and nothing is
\* left to do, every connection becomes inactive, and the worker falls asleep
\* and stays so; that it slept before, between two clients, is not enough.
Quiet == /\ backlog = 0
         /\ \A c \in ToSet(queue) : Waiting(c) => ~Runnable(c)
NoSpinning == <>[]Quiet => <>[]Stuck

\* Data that the kernel has for a connection is read in the end (the loop
\* "Handle all http requests received from client one by one (http
\* keep-alive)" of handle_one_connection()).
RequestsServed ==
    \A f \in Fd : (f \in opened /\ Readable(f)) ~> (~Readable(f) \/ pc = "exited")

\* A client that falls silent in the middle of a body or of reading a
\* response loses its connection ("Connection is closed when [...] recv/send
\* timeout occurs", handle_one_connection()).
TimeoutCloses ==
    \A c \in Ctx : c \in opDue
                    ~> (c \notin opDue \/ Readable(connSock[c]) \/ pc = "exited")

\* A write() that fails closes that connection only ("write to client failed,
\* close connection and switch back to main_ctx", send_to_curr_conn()).
WriteFailureIsLocal ==
    [][At("send") => pc' # "exited"]_vars

=============================================================================
