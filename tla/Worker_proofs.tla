--------------------------- MODULE Worker_proofs ----------------------------
(***************************************************************************)
(* Proofs about Worker: it implements ConnCtx, whose invariants it         *)
(* inherits, and for any number of connections, any sizes of buffers and   *)
(* messages and any behaviour of the clients, the worker does not fall     *)
(* asleep over a connection that has something to do.                      *)
(***************************************************************************)
EXTENDS Worker, ConnCtx_proofs

-----------------------------------------------------------------------------
(***************************************************************************)
(* Every step is a step of ConnCtx, or none.                               *)
(***************************************************************************)

LEMMA MainIsCtx == Main => CtxNext \/ UNCHANGED ctxVars
<1> SUFFICES ASSUME Main PROVE CtxNext \/ UNCHANGED ctxVars
  OBVIOUS
<1>1. CASE Fill \/ FillThenServe
  BY <1>1 DEF Fill, FillThenServe, CtxNext, FillStep
<1>2. CASE (\E s \in Fd : Accept(s)) \/ AcceptFails \/ PollNothing \/ PollInterrupted
  BY <1>2 DEF Accept, AcceptFails, PollNothing, PollInterrupted, CtxNext, LoopStep
<1>3. CASE FallAsleep
  BY <1>3 DEF FallAsleep
<1>4. CASE Resume \/ NextConn
  BY <1>4 DEF Resume, NextConn, CtxNext, LoopStep
<1> QED
  BY <1>1, <1>2, <1>3, <1>4 DEF Main

LEMMA CoroutineIsCtx == Coroutine => CtxNext \/ UNCHANGED ctxVars
<1> SUFFICES ASSUME Coroutine PROVE CtxNext \/ UNCHANGED ctxVars
  OBVIOUS
<1>1. CASE SetupSock \/ ReadEof \/ MorePackets \/ CondSwap \/ WouldBlock
  BY <1>1 DEF SetupSock, ReadEof, MorePackets, CondSwap, WouldBlock, Stay, Swap, StartPart,
              StartOp, Active, CtxNext, CoStepAny
<1>2. CASE RecvHeader \/ ReadHeader
  BY <1>2 DEF RecvHeader, ReadHeader, Dispatch, StartPart, StartOp, Active, CtxNext, CoStepAny
<1>3. CASE ReadBody \/ Write \/ MoreBody
  BY <1>3 DEF ReadBody, Write, MoreBody, StartPart, StartOp, Active, CtxNext, CoStepAny
<1>4. CASE OpFails \/ SigPipe \/ EndConnection
  BY <1>4 DEF OpFails, SigPipe, EndConnection, CloseAndSwap, CtxNext, CoStepAny
<1> QED
  BY <1>1, <1>2, <1>3, <1>4 DEF Coroutine

LEMMA NextIsCtx == [Next]_vars => [CtxNext]_ctxVars
<1> SUFFICES ASSUME [Next]_vars PROVE [CtxNext]_ctxVars
  OBVIOUS
<1>1. CASE Tick \/ Client \/ Gone \/ UNCHANGED vars
  BY <1>1 DEF Tick, Client, Gone, vars
<1>2. CASE Process
  BY <1>2, MainIsCtx, CoroutineIsCtx DEF Process
<1> QED
  BY <1>1, <1>2 DEF Next

\* What the event loop and the coroutines do to the bookkeeping of
\* srv_conn_ctxt.c is what ConnCtx allows: all that is proved of ConnCtx holds
\* of the worker.
THEOREM WorkerImplementsCtx == Spec => CtxSpec
<1>1. WorkerInit => CtxInit
  BY DEF WorkerInit
<1> QED
  BY <1>1, NextIsCtx, PTL DEF Spec, CtxSpec

-----------------------------------------------------------------------------
(***************************************************************************)
(* What the steps of a coroutine have in common.                           *)
(***************************************************************************)
Waits == Recv \cup {"send"}

\* The kernel's side of the other sockets is left alone ...
NetKept ==
    \A f \in Fd \ {Sock} : rx'[f] = rx[f] /\ peer'[f] = peer[f] /\ wfull'[f] = wfull[f]

\* ... and so are the other connections, the lists and the cursors.
OthersKept ==
    /\ UNCHANGED <<queue, connSock, currConn, newSock, pos, posN>>
    /\ \A d \in Ctx \ {currConn} :
          loc'[d] = loc[d] /\ isActive'[d] = isActive[d] /\ isCompleted'[d] = isCompleted[d]
    /\ NetKept

\* The coroutine stays on the processor ...
KeepsProcessor ==
    /\ pc' = "run" /\ isCompleted' = isCompleted
    /\ loc'[currConn] # "closed"
    /\ isActive'[currConn] \/ loc'[currConn] \in Waits \cup {"end"}

\* ... or gives it back: closed, or still active, or with nothing to do ...
GivesBack ==
    /\ pc' = "back"
    /\ \/ isCompleted'[currConn]
       \/ /\ isCompleted' = isCompleted
          /\ loc'[currConn] \notin {"closed", "end"}
          /\ isActive'[currConn] \/ (loc'[currConn] \in Waits /\ ~Runnable(currConn)')

\* ... or takes the process with it.
Dies ==
    /\ pc' = "exited" /\ UNCHANGED <<loc, isActive, isCompleted>>
    /\ loc[currConn] # "end"

CoShape == OthersKept /\ (KeepsProcessor \/ GivesBack \/ Dies)

\* What a step of the running coroutine starts from.
LEMMA RunFacts ==
    ASSUME IInv, LocsFit, pc = "run"
    PROVE  /\ currConn \in Ctx /\ currConn \in ToSet(queue) /\ ~isCompleted[currConn]
           /\ Sock \in Fd
           /\ isActive \in [Ctx -> BOOLEAN] /\ isCompleted \in [Ctx -> BOOLEAN]
           /\ loc[currConn] # "closed"
           /\ isActive[currConn] \/ loc[currConn] \in Waits \cup {"end"}
<1>1. currConn \in Ctx /\ currConn \in ToSet(queue) /\ Live(currConn)
  BY Running
<1>2. Sock \in Fd
  BY <1>1, LiveSocket DEF Sock
<1> QED
  BY <1>1, <1>2 DEF Live, LocsFit, IInv, TypeOK, Waits

\* The sizes are numbers.
LEMMA Sizes ==
    /\ BufCap \in Nat \ {0} /\ Packet \in Nat \ {0} /\ MaxRx \in Nat
    /\ MaxBacklog \in Nat \ {0} /\ MaxParts \in Nat
  BY WorkerBounds

\* A new location of the running coroutine, with what is left of its call.
LEMMA GotoTypes ==
    ASSUME WorkerTypeOK, TodoFits, currConn \in Ctx,
           NEW l \in Locs, NEW t \in 0..(BufCap + Packet),
           l \in Recv => t \in 1..BufCap, l = "send" => t \in 1..Packet,
           loc' = [loc EXCEPT ![currConn] = l], todo' = [todo EXCEPT ![currConn] = t]
    PROVE  /\ loc' \in [Ctx -> Locs] /\ todo' \in [Ctx -> 0..(BufCap + Packet)] /\ TodoFits'
           /\ loc'[currConn] = l /\ \A d \in Ctx \ {currConn} : loc'[d] = loc[d]
<1>1. loc \in [Ctx -> Locs] /\ todo \in [Ctx -> 0..(BufCap + Packet)]
  BY DEF WorkerTypeOK
<1>2. \A d \in Ctx : /\ loc'[d] = IF d = currConn THEN l ELSE loc[d]
                     /\ todo'[d] = IF d = currConn THEN t ELSE todo[d]
  BY <1>1
<1> QED
  BY <1>1, <1>2 DEF TodoFits

\* The start of a call.
LEMMA StartOpFacts ==
    ASSUME IInv, LocsFit, WorkerTypeOK, TodoFits,
           NEW l \in Locs, NEW n \in 0..(BufCap + Packet),
           l \in Recv => n \in 1..BufCap, l = "send" => n \in 1..Packet, l # "closed",
           StartOp(l, n), NetKept
    PROVE  /\ loc' \in [Ctx -> Locs] /\ todo' \in [Ctx -> 0..(BufCap + Packet)] /\ TodoFits'
           /\ stale' \subseteq Ctx /\ opDue' \subseteq Ctx /\ swapDue' \in BOOLEAN
           /\ CoShape
<1>1. /\ pc = "run" /\ pc' = "run" /\ UpdateActive
      /\ UNCHANGED <<listVars, connSock, isCompleted, currConn, fillVars, passVars>>
      /\ loc' = [loc EXCEPT ![currConn] = l] /\ todo' = [todo EXCEPT ![currConn] = n]
      /\ stale' = stale \ {currConn} /\ opDue' = opDue \ {currConn} /\ swapDue' = swapDue
  BY DEF StartOp, Active, CoStep, Goto, Set
<1>2. /\ currConn \in Ctx /\ isActive \in [Ctx -> BOOLEAN]
  BY <1>1, RunFacts
<1>3. /\ loc' \in [Ctx -> Locs] /\ todo' \in [Ctx -> 0..(BufCap + Packet)] /\ TodoFits'
      /\ loc'[currConn] = l /\ \A d \in Ctx \ {currConn} : loc'[d] = loc[d]
  BY <1>1, <1>2, GotoTypes
<1>4. isActive'[currConn] /\ \A d \in Ctx \ {currConn} : isActive'[d] = isActive[d]
  BY <1>1, <1>2 DEF UpdateActive
<1>5. CoShape
  BY <1>1, <1>3, <1>4 DEF CoShape, OthersKept, KeepsProcessor, listVars, fillVars, passVars
<1> QED
  BY <1>1, <1>3, <1>5 DEF WorkerTypeOK

\* The call for one part of a message.
LEMMA StartPartFacts ==
    ASSUME IInv, LocsFit, WorkerTypeOK, TodoFits,
           NEW l \in {"body", "send"}, NEW p \in 0..MaxParts,
           StartPart(l, IF l = "body" THEN BufCap ELSE Packet, p), NetKept
    PROVE  /\ loc' \in [Ctx -> Locs] /\ todo' \in [Ctx -> 0..(BufCap + Packet)] /\ TodoFits'
           /\ parts' \in [Ctx -> 0..MaxParts]
           /\ stale' \subseteq Ctx /\ opDue' \subseteq Ctx /\ swapDue' \in BOOLEAN
           /\ CoShape
<1> DEFINE size == IF l = "body" THEN BufCap ELSE Packet
<1>1. PICK n \in 1..size : StartOp(l, n)
  BY DEF StartPart
<1>2. /\ n \in 0..(BufCap + Packet) /\ l \in Locs /\ l # "closed"
      /\ (l \in Recv => n \in 1..BufCap) /\ (l = "send" => n \in 1..Packet)
  BY Sizes DEF Locs, Recv
<1>3. parts' \in [Ctx -> 0..MaxParts]
  BY DEF StartPart, Set, WorkerTypeOK
<1> QED
  BY <1>1, <1>2, <1>3, StartOpFacts

-----------------------------------------------------------------------------
(***************************************************************************)
(* The steps of a coroutine, one by one.                                   *)
(***************************************************************************)

\* set_nonblock() and set_async().
LEMMA SetupSockStep ==
    ASSUME IInv, LocsFit, WorkerTypeOK, TodoFits, SetupSock, UNCHANGED <<backlog, sigVars>>
    PROVE  WorkerTypeOK' /\ TodoFits' /\ CoShape
<1>1. /\ pc = "run" /\ loc[currConn] = "start"
      /\ UNCHANGED <<buf, todo, parts, timeVars, netVars>>
  BY DEF SetupSock, At
<1>2. currConn \in Ctx /\ isActive[currConn]
  BY <1>1, RunFacts DEF Waits, Recv
<1>3. CASE Stay /\ Goto("request")
  <2>1. UNCHANGED ctxVars /\ loc' = [loc EXCEPT ![currConn] = "request"]
    BY <1>3 DEF Stay, Goto
  <2>2. /\ loc' \in [Ctx -> Locs] /\ loc'[currConn] = "request"
        /\ \A d \in Ctx \ {currConn} : loc'[d] = loc[d]
    BY <1>2, <2>1 DEF WorkerTypeOK, Locs
  <2>3. CoShape
    BY <1>1, <1>2, <2>1, <2>2 DEF CoShape, OthersKept, NetKept, KeepsProcessor, ctxVars, listVars, connVars,
       fillVars, passVars, netVars
  <2>4. TodoFits'
    BY <1>1, <2>2 DEF TodoFits, Recv
  <2> QED BY <1>1, <2>2, <2>3, <2>4 DEF WorkerTypeOK, timeVars, netVars, sigVars
<1>4. CASE CoDies /\ UNCHANGED loc
  <2>1. pc' = "exited" /\ UNCHANGED <<fillVars, listVars, cntVars, connVars, currConn, passVars>>
    BY <1>4 DEF CoDies
  <2>2. CoShape
    BY <1>1, <1>4, <2>1 DEF CoShape, OthersKept, NetKept, Dies, listVars, connVars, fillVars, passVars, netVars
  <2> QED BY <1>1, <1>4, <2>2 DEF WorkerTypeOK, TodoFits, timeVars, netVars, sigVars
<1> QED
  BY <1>3, <1>4 DEF SetupSock

\* A complete request is answered or its body is received.
LEMMA DispatchFacts ==
    ASSUME IInv, LocsFit, WorkerTypeOK, TodoFits, NEW b \in 0..BufCap, Dispatch(b), NetKept
    PROVE  /\ loc' \in [Ctx -> Locs] /\ todo' \in [Ctx -> 0..(BufCap + Packet)] /\ TodoFits'
           /\ parts' \in [Ctx -> 0..MaxParts] /\ buf' \in [Ctx -> 0..BufCap]
           /\ stale' \subseteq Ctx /\ opDue' \subseteq Ctx /\ swapDue' \in BOOLEAN
           /\ CoShape
<1>1. PICK p \in 0..MaxParts : \/ StartPart("send", Packet, p) /\ buf' = Set(buf, b)
                               \/ StartPart("body", BufCap, p) /\ buf' = Set(buf, 0)
  BY DEF Dispatch
<1>2. PICK l \in {"body", "send"} : StartPart(l, IF l = "body" THEN BufCap ELSE Packet, p)
  BY <1>1
<1>3. buf' \in [Ctx -> 0..BufCap]
  BY <1>1, Sizes DEF Set, WorkerTypeOK
<1> QED
  BY <1>2, <1>3, StartPartFacts

\* read() takes n pieces from the receive queue of its socket only.
LEMMA ReadFacts ==
    ASSUME IInv, LocsFit, WorkerTypeOK, pc = "run", NEW n \in Nat, n <= rx[Sock],
           rx' = [rx EXCEPT ![Sock] = @ - n], UNCHANGED <<peer, wfull>>
    PROVE  NetKept /\ rx' \in [Fd -> 0..MaxRx]
<1>1. Sock \in Fd /\ rx \in [Fd -> 0..MaxRx]
  BY RunFacts DEF WorkerTypeOK
<1>2. rx[Sock] \in 0..MaxRx /\ rx[Sock] - n \in 0..MaxRx
  BY <1>1, Sizes
<1> HIDE DEF Sock
<1> QED
  BY <1>1, <1>2 DEF NetKept

\* recv_http_hdr() up to the first read().
LEMMA RecvHeaderStep ==
    ASSUME IInv, LocsFit, WorkerTypeOK, TodoFits, RecvHeader, UNCHANGED <<backlog, sigVars>>
    PROVE  WorkerTypeOK' /\ TodoFits' /\ CoShape
<1> DEFINE have == buf[currConn]
<1>1. pc = "run" /\ UNCHANGED netVars /\ NetKept
  BY DEF RecvHeader, At, NetKept, netVars
<1>2. currConn \in Ctx /\ have \in 0..BufCap
  BY <1>1, RunFacts DEF WorkerTypeOK
<1>3. ASSUME NEW b \in 0..(have - 1), Dispatch(b) PROVE WorkerTypeOK' /\ TodoFits' /\ CoShape
  <2>1. b \in 0..BufCap
    BY <1>2, Sizes
  <2> QED BY <1>1, <1>3, <2>1, DispatchFacts DEF WorkerTypeOK, netVars, sigVars
<1>4. ASSUME have < BufCap, StartOp("header", BufCap - have), UNCHANGED <<buf, parts>>
      PROVE  WorkerTypeOK' /\ TodoFits' /\ CoShape
  <2>1. BufCap - have \in 1..BufCap /\ BufCap - have \in 0..(BufCap + Packet)
    BY <1>2, <1>4, Sizes
  <2>2. "header" \in Locs /\ "header" # "send" /\ "header" # "closed"
    BY DEF Locs
  <2> QED BY <1>1, <1>4, <2>1, <2>2, StartOpFacts DEF WorkerTypeOK, netVars, sigVars
<1>5. ASSUME StartOp("end", 0), UNCHANGED <<buf, parts>>
      PROVE  WorkerTypeOK' /\ TodoFits' /\ CoShape
  <2>1. "end" \in Locs \ (Recv \cup {"send", "closed"}) /\ 0 \in 0..(BufCap + Packet)
    BY Sizes DEF Locs, Recv
  <2> QED BY <1>1, <1>5, <2>1, StartOpFacts DEF WorkerTypeOK, netVars, sigVars
<1> QED
  BY <1>3, <1>4, <1>5 DEF RecvHeader

\* read() of a header.
LEMMA ReadHeaderStep ==
    ASSUME IInv, LocsFit, WorkerTypeOK, TodoFits, ReadHeader, UNCHANGED <<backlog, sigVars>>
    PROVE  WorkerTypeOK' /\ TodoFits' /\ CoShape
<1>1. pc = "run" /\ loc[currConn] = "header" /\ UNCHANGED <<peer, wfull>>
  BY DEF ReadHeader, At
<1>2. /\ currConn \in Ctx /\ todo[currConn] \in 1..BufCap /\ isActive \in [Ctx -> BOOLEAN]
  <2>1. currConn \in Ctx /\ isActive \in [Ctx -> BOOLEAN]
    BY <1>1, RunFacts
  <2> QED BY <1>1, <2>1 DEF TodoFits, Recv
<1>3. PICK n \in 1..todo[currConn] :
         LET left == todo[currConn] - n
             have == BufCap - left
         IN  /\ n <= rx[Sock]
             /\ rx' = [rx EXCEPT ![Sock] = @ - n]
             /\ \/ \E b \in 0..(have - 1) : Dispatch(b)
                \/ /\ left > 0
                   /\ Active /\ todo' = Set(todo, left)
                   /\ UNCHANGED <<loc, buf, parts, opDue, swapDue>>
                \/ /\ Active /\ Goto("end")
                   /\ todo' = Set(todo, 0) /\ buf' = Set(buf, have)
                   /\ UNCHANGED <<parts, opDue, swapDue>>
  BY DEF ReadHeader
<1> DEFINE left == todo[currConn] - n
           have == BufCap - left
<1>4. n \in Nat /\ left \in 0..BufCap /\ have \in 0..BufCap /\ left \in 0..(BufCap + Packet)
  BY <1>2, Sizes
<1>5. NetKept /\ rx' \in [Fd -> 0..MaxRx]
  BY <1>1, <1>3, <1>4, ReadFacts
<1>6. /\ peer' \in [Fd -> {"open", "eof", "reset"}] /\ wfull' \in [Fd -> BOOLEAN]
      /\ backlog' \in 0..MaxBacklog /\ sigio' \in BOOLEAN /\ asleep' \in BOOLEAN
  BY <1>1 DEF WorkerTypeOK, sigVars
<1>7. ASSUME NEW b \in 0..(have - 1), Dispatch(b) PROVE WorkerTypeOK' /\ TodoFits' /\ CoShape
  <2>1. b \in 0..BufCap
    BY <1>4, Sizes
  <2> QED BY <1>5, <1>6, <1>7, <2>1, DispatchFacts DEF WorkerTypeOK
<1>8. ASSUME NEW l \in {"header", "end"}, NEW t \in 0..BufCap, l = "header" => t > 0,
             Active, loc' = [loc EXCEPT ![currConn] = l], todo' = Set(todo, t),
             buf' \in [Ctx -> 0..BufCap], UNCHANGED <<parts, opDue, swapDue>>
      PROVE  WorkerTypeOK' /\ TodoFits' /\ CoShape
  <2>1. /\ l \in Locs /\ t \in 0..(BufCap + Packet)
        /\ (l \in Recv => t \in 1..BufCap) /\ l # "send" /\ l # "closed"
    BY <1>8, Sizes DEF Locs, Recv
  <2>2. /\ loc' \in [Ctx -> Locs] /\ todo' \in [Ctx -> 0..(BufCap + Packet)] /\ TodoFits'
        /\ loc'[currConn] = l /\ \A d \in Ctx \ {currConn} : loc'[d] = loc[d]
    BY <1>2, <1>8, <2>1, GotoTypes DEF Set
  <2>3. /\ pc' = "run" /\ UpdateActive /\ stale' = stale \ {currConn}
        /\ UNCHANGED <<listVars, connSock, isCompleted, currConn, fillVars, passVars>>
    BY <1>1, <1>8 DEF Active, CoStep
  <2>4. isActive'[currConn] /\ \A d \in Ctx \ {currConn} : isActive'[d] = isActive[d]
    BY <1>2, <2>3 DEF UpdateActive
  <2>5. CoShape
    BY <1>5, <2>1, <2>2, <2>3, <2>4 DEF CoShape, OthersKept, KeepsProcessor, listVars, fillVars, passVars
  <2>6. parts' \in [Ctx -> 0..MaxParts] /\ stale' \subseteq Ctx /\ opDue' \subseteq Ctx /\ swapDue' \in BOOLEAN
    BY <1>8, <2>3 DEF WorkerTypeOK
  <2> QED BY <1>5, <1>6, <1>8, <2>2, <2>5, <2>6 DEF WorkerTypeOK
<1>9. CASE left > 0 /\ Active /\ todo' = Set(todo, left) /\ UNCHANGED <<loc, buf, parts, opDue, swapDue>>
  <2>1. loc' = [loc EXCEPT ![currConn] = "header"] /\ buf' \in [Ctx -> 0..BufCap]
    BY <1>1, <1>2, <1>9 DEF WorkerTypeOK
  <2> QED BY <1>4, <1>8, <1>9, <2>1
<1>10. CASE /\ Active /\ Goto("end") /\ todo' = Set(todo, 0) /\ buf' = Set(buf, have)
            /\ UNCHANGED <<parts, opDue, swapDue>>
  <2>1. loc' = [loc EXCEPT ![currConn] = "end"] /\ buf' \in [Ctx -> 0..BufCap] /\ 0 \in 0..BufCap
    BY <1>2, <1>4, <1>10, Sizes DEF Goto, Set, WorkerTypeOK
  <2> QED BY <1>8, <1>10, <2>1
<1> QED
  BY <1>3, <1>7, <1>9, <1>10

\* A call goes on, or is left for the location l: what read() of a body and
\* write() have in common.
LEMMA TransferFacts ==
    ASSUME IInv, LocsFit, WorkerTypeOK, TodoFits, pc = "run", Active,
           NEW l \in Locs \ {"closed"}, NEW t \in 0..(BufCap + Packet),
           l \in Recv => t \in 1..BufCap, l = "send" => t \in 1..Packet,
           loc' = [loc EXCEPT ![currConn] = l], todo' = Set(todo, t),
           UNCHANGED <<buf, parts, opDue, swapDue, backlog, sigVars>>,
           NetKept, rx' \in [Fd -> 0..MaxRx], wfull' \in [Fd -> BOOLEAN], peer' = peer
    PROVE  WorkerTypeOK' /\ TodoFits' /\ CoShape
<1>1. /\ currConn \in Ctx /\ isActive \in [Ctx -> BOOLEAN]
  BY RunFacts
<1>2. /\ loc' \in [Ctx -> Locs] /\ todo' \in [Ctx -> 0..(BufCap + Packet)] /\ TodoFits'
      /\ loc'[currConn] = l /\ \A d \in Ctx \ {currConn} : loc'[d] = loc[d]
  BY <1>1, GotoTypes DEF Set
<1>3. /\ pc' = "run" /\ UpdateActive /\ stale' = stale \ {currConn}
      /\ UNCHANGED <<listVars, connSock, isCompleted, currConn, fillVars, passVars>>
  BY DEF Active, CoStep
<1>4. isActive'[currConn] /\ \A d \in Ctx \ {currConn} : isActive'[d] = isActive[d]
  BY <1>1, <1>3 DEF UpdateActive
<1>5. CoShape
  BY <1>2, <1>3, <1>4 DEF CoShape, OthersKept, KeepsProcessor, listVars, fillVars, passVars
<1> QED
  BY <1>2, <1>3, <1>5 DEF WorkerTypeOK, sigVars

\* read() of a body.
LEMMA ReadBodyStep ==
    ASSUME IInv, LocsFit, WorkerTypeOK, TodoFits, ReadBody, UNCHANGED <<backlog, sigVars>>
    PROVE  WorkerTypeOK' /\ TodoFits' /\ CoShape
<1>1. /\ pc = "run" /\ loc[currConn] = "body" /\ Active
      /\ UNCHANGED <<buf, parts, opDue, swapDue, peer, wfull>>
  BY DEF ReadBody, At
<1>2. currConn \in Ctx
  BY <1>1, RunFacts
<1>3. todo[currConn] \in 1..BufCap
  BY <1>1, <1>2 DEF TodoFits, Recv
<1>4. PICK n \in 1..todo[currConn] :
         /\ n <= rx[Sock]
         /\ rx' = [rx EXCEPT ![Sock] = @ - n]
         /\ todo' = Set(todo, todo[currConn] - n)
         /\ IF n = todo[currConn] THEN Goto("received")
            ELSE IF currConn \in opDue THEN Goto("end")
            ELSE UNCHANGED loc
  BY DEF ReadBody
<1> DEFINE l == IF n = todo[currConn] THEN "received" ELSE IF currConn \in opDue THEN "end" ELSE "body"
           t == todo[currConn] - n
<1>5. /\ n \in Nat /\ t \in 0..(BufCap + Packet) /\ (l \in Recv => t \in 1..BufCap)
      /\ l # "send" /\ l \in Locs \ {"closed"}
  BY <1>3, Sizes DEF Locs, Recv
<1>6. loc' = [loc EXCEPT ![currConn] = l]
  BY <1>1, <1>2, <1>4 DEF Goto, WorkerTypeOK
<1>7. NetKept /\ rx' \in [Fd -> 0..MaxRx] /\ wfull' \in [Fd -> BOOLEAN]
  BY <1>1, <1>4, <1>5, ReadFacts DEF WorkerTypeOK
<1> QED
  BY <1>1, <1>4, <1>5, <1>6, <1>7, TransferFacts

\* write() of a packet.
LEMMA WriteStep ==
    ASSUME IInv, LocsFit, WorkerTypeOK, TodoFits, Write, UNCHANGED <<backlog, sigVars>>
    PROVE  WorkerTypeOK' /\ TodoFits' /\ CoShape
<1>1. /\ pc = "run" /\ loc[currConn] = "send" /\ Active
      /\ UNCHANGED <<buf, parts, opDue, swapDue, rx, peer>>
  BY DEF Write, At
<1>2. currConn \in Ctx /\ Sock \in Fd
  BY <1>1, RunFacts
<1>3. todo[currConn] \in 1..Packet
  BY <1>1, <1>2 DEF TodoFits, Recv
<1>4. PICK n \in 1..todo[currConn] :
         /\ todo' = Set(todo, todo[currConn] - n)
         /\ IF n = todo[currConn] THEN Goto("sent")
            ELSE IF currConn \in opDue THEN Goto("end")
            ELSE UNCHANGED loc
  BY DEF Write
<1> DEFINE l == IF n = todo[currConn] THEN "sent" ELSE IF currConn \in opDue THEN "end" ELSE "send"
           t == todo[currConn] - n
<1>5. /\ t \in 0..(BufCap + Packet) /\ (l = "send" => t \in 1..Packet)
      /\ l \notin Recv /\ l \in Locs \ {"closed"}
  BY <1>3, Sizes DEF Locs, Recv
<1>6. loc' = [loc EXCEPT ![currConn] = l]
  BY <1>1, <1>2, <1>4 DEF Goto, WorkerTypeOK
<1>7. PICK full \in BOOLEAN : wfull' = [wfull EXCEPT ![Sock] = full]
  BY DEF Write
<1>8. NetKept /\ wfull' \in [Fd -> BOOLEAN] /\ rx' \in [Fd -> 0..MaxRx]
  BY <1>1, <1>2, <1>7 DEF NetKept, WorkerTypeOK
<1> QED
  BY <1>1, <1>4, <1>5, <1>6, <1>8, TransferFacts

\* The coroutine goes on without a call of srv_conn_ctxt.c: at the end of the
\* stream, and when the response was sent.
LEMMA StayFacts ==
    ASSUME IInv, LocsFit, WorkerTypeOK, TodoFits, Stay, NEW l \in Locs \ ({"closed", "send"} \cup Recv),
           isActive[currConn] \/ l = "end",
           loc' = [loc EXCEPT ![currConn] = l],
           todo' = todo \/ todo' = Set(todo, 0), UNCHANGED <<parts, timeVars, netVars, backlog, sigVars>>,
           buf' \in [Ctx -> 0..BufCap]
    PROVE  WorkerTypeOK' /\ TodoFits' /\ CoShape
<1>1. pc = "run" /\ UNCHANGED ctxVars
  BY DEF Stay
<1>2. currConn \in Ctx
  BY <1>1, RunFacts
<1>3. PICK t \in 0..(BufCap + Packet) : todo' = [todo EXCEPT ![currConn] = t]
  <2>1. CASE todo' = todo
    <3>1. todo[currConn] \in 0..(BufCap + Packet) /\ todo' = [todo EXCEPT ![currConn] = todo[currConn]]
      BY <1>2, <2>1 DEF WorkerTypeOK
    <3> QED BY <3>1
  <2>2. CASE todo' = Set(todo, 0)
    <3>1. 0 \in 0..(BufCap + Packet)
      BY Sizes
    <3> QED BY <2>2, <3>1 DEF Set
  <2> QED BY <2>1, <2>2
<1>4. /\ loc' \in [Ctx -> Locs] /\ todo' \in [Ctx -> 0..(BufCap + Packet)] /\ TodoFits'
      /\ loc'[currConn] = l /\ \A d \in Ctx \ {currConn} : loc'[d] = loc[d]
  BY <1>2, <1>3, GotoTypes
<1>5. CoShape
  BY <1>1, <1>4 DEF CoShape, OthersKept, NetKept, KeepsProcessor, ctxVars, listVars, connVars,
                    fillVars, passVars, netVars
<1> QED
  BY <1>4, <1>5 DEF WorkerTypeOK, timeVars, netVars, sigVars

\* read() returns 0.
LEMMA ReadEofStep ==
    ASSUME IInv, LocsFit, WorkerTypeOK, TodoFits, ReadEof, UNCHANGED <<backlog, sigVars>>
    PROVE  WorkerTypeOK' /\ TodoFits' /\ CoShape
<1>1. /\ pc = "run" /\ loc[currConn] \in Recv /\ Stay /\ loc' = [loc EXCEPT ![currConn] = "end"]
      /\ todo' = Set(todo, 0) /\ UNCHANGED <<parts, timeVars, netVars>>
      /\ IF loc[currConn] = "header" THEN buf' = Set(buf, BufCap - todo[currConn]) ELSE UNCHANGED buf
  BY DEF ReadEof, Goto
<1>2. currConn \in Ctx
  BY <1>1, RunFacts
<1>3. todo[currConn] \in 1..BufCap
  BY <1>1, <1>2 DEF TodoFits
<1>4. BufCap - todo[currConn] \in 0..BufCap
  BY <1>3, Sizes
<1>5. buf' \in [Ctx -> 0..BufCap]
  BY <1>1, <1>4 DEF Set, WorkerTypeOK
<1>6. "end" \in Locs \ ({"closed", "send"} \cup Recv)
  BY DEF Locs, Recv
<1> QED
  BY <1>1, <1>5, <1>6, StayFacts

\* The next packet, or the end of the response.
LEMMA MorePacketsStep ==
    ASSUME IInv, LocsFit, WorkerTypeOK, TodoFits, MorePackets, UNCHANGED <<backlog, sigVars>>
    PROVE  WorkerTypeOK' /\ TodoFits' /\ CoShape
<1>1. pc = "run" /\ loc[currConn] = "packet" /\ UNCHANGED <<buf, netVars>> /\ NetKept
  BY DEF MorePackets, At, NetKept, netVars
<1>2. currConn \in Ctx /\ isActive[currConn]
  BY <1>1, RunFacts DEF Waits, Recv
<1>3. CASE parts[currConn] > 0
  <2>1. StartPart("send", Packet, parts[currConn] - 1)
    BY <1>3 DEF MorePackets
  <2>2. parts[currConn] - 1 \in 0..MaxParts
    BY <1>2, <1>3, Sizes DEF WorkerTypeOK
  <2>3. PICK l \in {"body", "send"} : StartPart(l, IF l = "body" THEN BufCap ELSE Packet, parts[currConn] - 1)
    BY <2>1
  <2> QED BY <1>1, <2>2, <2>3, StartPartFacts DEF WorkerTypeOK, netVars, sigVars
<1>4. CASE ~(parts[currConn] > 0)
  <2>1. PICK l \in {"answered", "end"} : loc' = [loc EXCEPT ![currConn] = l]
    BY <1>4 DEF MorePackets, Goto
  <2>2. Stay /\ UNCHANGED <<todo, parts, timeVars>>
    BY <1>4 DEF MorePackets
  <2>3. l \in Locs \ ({"closed", "send"} \cup Recv) /\ buf' \in [Ctx -> 0..BufCap]
    BY <1>1 DEF Locs, Recv, WorkerTypeOK
  <2> QED BY <1>1, <1>2, <2>1, <2>2, <2>3, StayFacts
<1> QED
  BY <1>3, <1>4

\* The next chunk of a body, or the response.
LEMMA MoreBodyStep ==
    ASSUME IInv, LocsFit, WorkerTypeOK, TodoFits, MoreBody, UNCHANGED <<backlog, sigVars>>
    PROVE  WorkerTypeOK' /\ TodoFits' /\ CoShape
<1>1. pc = "run" /\ UNCHANGED <<buf, netVars>> /\ NetKept
  BY DEF MoreBody, At, NetKept, netVars
<1>2. currConn \in Ctx
  BY <1>1, RunFacts
<1>3. PICK l \in {"body", "send"}, p \in 0..MaxParts : StartPart(l, IF l = "body" THEN BufCap ELSE Packet, p)
  <2>1. CASE parts[currConn] > 0
    <3>1. parts[currConn] - 1 \in 0..MaxParts
      BY <1>2, <2>1, Sizes DEF WorkerTypeOK
    <3>2. StartPart("body", BufCap, parts[currConn] - 1)
      BY <2>1 DEF MoreBody
    <3> QED BY <3>1, <3>2
  <2>2. CASE ~(parts[currConn] > 0)
    <3>1. \E p \in 0..MaxParts : StartPart("send", Packet, p)
      BY <2>2 DEF MoreBody
    <3> QED BY <3>1
  <2> QED BY <2>1, <2>2
<1> QED
  BY <1>1, <1>3, StartPartFacts DEF WorkerTypeOK, netVars, sigVars

\* The coroutine waits for its client: it gives the processor back, and has
\* nothing to do.
LEMMA WouldBlockStep ==
    ASSUME IInv, LocsFit, WorkerTypeOK, TodoFits, WouldBlock, UNCHANGED <<backlog, sigVars>>
    PROVE  WorkerTypeOK' /\ TodoFits' /\ CoShape
<1>1. /\ pc = "run" /\ UNCHANGED <<coVars, netVars>>
      /\ swapDue' = FALSE /\ UNCHANGED <<stale, opDue>>
      /\ CoBlock \/ CoYield
      /\ loc[currConn] \in Waits
  BY DEF WouldBlock, Swap, Waits
<1>2. /\ pc' = "back" /\ isCompleted' = isCompleted
      /\ UNCHANGED <<fillVars, listVars, connSock, currConn, passVars>>
      /\ isActive' = isActive \/ isActive' = [isActive EXCEPT ![currConn] = FALSE]
  BY <1>1 DEF CoBlock, CoYield, SetInactive, connVars
<1>3. \A d \in Ctx \ {currConn} : isActive'[d] = isActive[d]
  BY <1>1, <1>2, RunFacts
<1>4. connSock' = connSock /\ currConn' = currConn /\ loc' = loc /\ UNCHANGED <<rx, peer, wfull>>
  BY <1>1, <1>2 DEF coVars, netVars
<1>5. ~Runnable(currConn)
  BY DEF WouldBlock, Runnable, Readable, Writable, Sock, Recv
<1>6. ~Runnable(currConn)'
  BY <1>4, <1>5 DEF Runnable, Readable, Writable
<1>7. loc'[currConn] \in Waits /\ loc'[currConn] \notin {"closed", "end"}
  BY <1>1, <1>4 DEF Waits, Recv
<1>8. GivesBack
  BY <1>2, <1>6, <1>7 DEF GivesBack
<1>9. OthersKept
  BY <1>2, <1>3, <1>4 DEF OthersKept, NetKept, listVars, fillVars, passVars
<1>10. WorkerTypeOK' /\ TodoFits'
  BY <1>1, <1>4 DEF WorkerTypeOK, TodoFits, coVars, netVars, sigVars
<1> QED
  BY <1>8, <1>9, <1>10 DEF CoShape

\* cond_swap_to_main_ctx(): the coroutine makes room for others, and has been
\* active right before.
LEMMA CondSwapStep ==
    ASSUME IInv, LocsFit, WorkerTypeOK, TodoFits, CondSwap, UNCHANGED <<backlog, sigVars>>
    PROVE  WorkerTypeOK' /\ TodoFits' /\ CoShape
<1>1. /\ pc = "run" /\ loc[currConn] \in {"received", "sent", "answered"}
      /\ UNCHANGED <<buf, todo, parts, netVars>>
  BY DEF CondSwap, AfterSwap
<1>2. currConn \in Ctx /\ isActive[currConn]
  BY <1>1, RunFacts DEF Waits, Recv
<1>3. PICK l \in {"more", "packet", "request"} : loc' = [loc EXCEPT ![currConn] = l]
  <2>1. AfterSwap[loc[currConn]] \in {"more", "packet", "request"}
    BY <1>1 DEF AfterSwap
  <2>2. loc' = [loc EXCEPT ![currConn] = AfterSwap[loc[currConn]]]
    BY DEF CondSwap, Goto
  <2> QED BY <2>1, <2>2
<1>4. /\ loc' \in [Ctx -> Locs] /\ loc'[currConn] = l
      /\ \A d \in Ctx \ {currConn} : loc'[d] = loc[d]
  BY <1>2, <1>3 DEF WorkerTypeOK, Locs
<1>5. TodoFits'
  BY <1>1, <1>4 DEF TodoFits, Recv
<1>6. /\ pc' \in {"run", "back"} /\ stale' = stale /\ opDue' = opDue /\ swapDue' \in BOOLEAN
      /\ UNCHANGED <<fillVars, listVars, connVars, currConn, passVars>>
  BY <1>1 DEF CondSwap, Swap, CoYield, Stay, ctxVars, timeVars, WorkerTypeOK
<1>7. OthersKept
  BY <1>1, <1>4, <1>6 DEF OthersKept, NetKept, listVars, fillVars, passVars, connVars, netVars
<1>8. KeepsProcessor \/ GivesBack
  <2>1. isActive'[currConn] /\ isCompleted' = isCompleted
    BY <1>2, <1>6 DEF connVars
  <2>2. loc'[currConn] \notin {"closed", "end"}
    BY <1>3, <1>4
  <2>3. pc' = "run" => KeepsProcessor
    BY <2>1, <2>2 DEF KeepsProcessor
  <2>4. pc' = "back" => GivesBack
    BY <2>1, <2>2 DEF GivesBack
  <2> QED BY <1>6, <2>3, <2>4
<1> QED
  BY <1>1, <1>4, <1>5, <1>6, <1>7, <1>8 DEF CoShape, WorkerTypeOK, netVars, sigVars

\* curr_conn_close() at the end of a connection, or when read() or write()
\* fails.
LEMMA CloseAndSwapStep ==
    ASSUME IInv, LocsFit, WorkerTypeOK, TodoFits, CloseAndSwap, UNCHANGED <<buf, backlog, sigVars>>
    PROVE  WorkerTypeOK' /\ TodoFits' /\ CoShape
<1>1. /\ pc = "run" /\ pc' = "back"
      /\ UNCHANGED <<fillVars, listVars, connSock, isActive, currConn, passVars>>
  BY DEF CloseAndSwap, CoClose
<1>2. /\ currConn \in Ctx /\ Sock \in Fd /\ ~isCompleted[currConn]
      /\ isCompleted \in [Ctx -> BOOLEAN]
  BY <1>1, RunFacts
<1>3. isCompleted' = [isCompleted EXCEPT ![currConn] = TRUE]
  BY <1>2 DEF CloseAndSwap, CoClose
<1>4. isCompleted'[currConn] /\ \A d \in Ctx \ {currConn} : isCompleted'[d] = isCompleted[d]
  BY <1>2, <1>3
<1>5. "closed" \in Locs \ (Recv \cup {"send"}) /\ 0 \in 0..(BufCap + Packet) /\ 0 \in 0..MaxParts
      /\ 0 \in 0..MaxRx
  BY Sizes DEF Locs, Recv
<1>6. /\ loc' \in [Ctx -> Locs] /\ todo' \in [Ctx -> 0..(BufCap + Packet)] /\ TodoFits'
      /\ \A d \in Ctx \ {currConn} : loc'[d] = loc[d]
  BY <1>2, <1>5, GotoTypes DEF CloseAndSwap, Goto, Set
<1>7. parts' \in [Ctx -> 0..MaxParts]
  BY <1>5 DEF CloseAndSwap, Set, WorkerTypeOK
<1>8. /\ rx' \in [Fd -> 0..MaxRx] /\ peer' \in [Fd -> {"open", "eof", "reset"}]
      /\ wfull' \in [Fd -> BOOLEAN] /\ NetKept
  <2>1. /\ rx' = [rx EXCEPT ![Sock] = 0] /\ peer' = [peer EXCEPT ![Sock] = "open"]
        /\ wfull' = [wfull EXCEPT ![Sock] = FALSE]
    BY DEF CloseAndSwap
  <2> HIDE DEF Sock
  <2> QED BY <1>2, <1>5, <2>1 DEF WorkerTypeOK, NetKept
<1>9. stale' \subseteq Ctx /\ opDue' \subseteq Ctx /\ swapDue' \in BOOLEAN
  BY DEF CloseAndSwap, WorkerTypeOK
<1>10. CoShape
  BY <1>1, <1>4, <1>6, <1>8 DEF CoShape, OthersKept, GivesBack, listVars, fillVars, passVars
<1> QED
  BY <1>6, <1>7, <1>8, <1>9, <1>10 DEF WorkerTypeOK, sigVars

\* Whatever a coroutine does, it has this shape.
LEMMA CoroutineStep ==
    ASSUME IInv, LocsFit, WorkerTypeOK, TodoFits, Coroutine
    PROVE  WorkerTypeOK' /\ TodoFits' /\ CoShape
<1>1. UNCHANGED <<backlog, sigVars>>
  BY DEF Coroutine
<1>2. CASE SetupSock \/ RecvHeader \/ ReadHeader \/ ReadBody \/ ReadEof
  BY <1>1, <1>2, SetupSockStep, RecvHeaderStep, ReadHeaderStep, ReadBodyStep, ReadEofStep
<1>3. CASE WouldBlock \/ Write \/ CondSwap \/ MoreBody \/ MorePackets
  BY <1>1, <1>3, WouldBlockStep, WriteStep, CondSwapStep, MoreBodyStep, MorePacketsStep
<1>4. CASE OpFails \/ EndConnection
  <2>1. CloseAndSwap /\ UNCHANGED buf
    BY <1>4 DEF OpFails, EndConnection
  <2> QED BY <1>1, <2>1, CloseAndSwapStep
<1>5. CASE SigPipe
  <2>1. /\ pc = "run" /\ loc[currConn] = "send" /\ pc' = "exited"
        /\ UNCHANGED <<fillVars, listVars, cntVars, connVars, currConn, passVars>>
        /\ UNCHANGED <<coVars, timeVars, netVars>>
    BY <1>5 DEF SigPipe, At, CoDies
  <2>2. CoShape
    BY <2>1 DEF CoShape, OthersKept, NetKept, Dies, listVars, connVars, fillVars, passVars, coVars, netVars
  <2> QED BY <1>1, <2>1, <2>2 DEF WorkerTypeOK, TodoFits, coVars, timeVars, netVars, sigVars
<1> QED
  BY <1>2, <1>3, <1>4, <1>5 DEF Coroutine

\* Only the process that runs a coroutine takes its steps.
LEMMA CoroutineRuns == Coroutine => pc = "run"
<1>1. SetupSock \/ ReadBody \/ Write \/ SigPipe \/ MoreBody \/ MorePackets \/ EndConnection => pc = "run"
  BY DEF SetupSock, ReadBody, Write, SigPipe, MoreBody, MorePackets, EndConnection, At
<1>2. RecvHeader \/ ReadHeader \/ ReadEof \/ WouldBlock \/ OpFails \/ CondSwap => pc = "run"
  BY DEF RecvHeader, ReadHeader, ReadEof, WouldBlock, OpFails, CondSwap, At
<1> QED
  BY <1>1, <1>2 DEF Coroutine

-----------------------------------------------------------------------------
(***************************************************************************)
(* A step of a coroutine preserves the invariant: it changes nothing that  *)
(* the invariant says of the other connections.                            *)
(***************************************************************************)

\* The kernel's side of another live connection is the same.
LEMMA OthersRunnable ==
    ASSUME IInv, pc = "run", OthersKept, NEW c \in ToSet(queue), c # currConn, ~isCompleted[c]
    PROVE  c \in Ctx /\ (Runnable(c)' <=> Runnable(c))
<1>1. c \in Ctx /\ Live(c)
  BY ToSetMember DEF IInv, TypeOK, Live
<1>2. Live(currConn) /\ currConn \in Ctx
  BY Running
<1>3. connSock[c] \in Fd \ {Sock}
  BY <1>1, <1>2, LiveSocket DEF Sock
<1>4. /\ loc'[c] = loc[c] /\ connSock'[c] = connSock[c]
      /\ rx'[connSock[c]] = rx[connSock[c]] /\ peer'[connSock[c]] = peer[connSock[c]]
      /\ wfull'[connSock[c]] = wfull[connSock[c]]
  BY <1>1, <1>3 DEF OthersKept, NetKept
<1> QED
  BY <1>1, <1>4 DEF Runnable, Readable, Writable

LEMMA ShapeLocsFit == ASSUME IInv, LocsFit, pc = "run", CoShape PROVE LocsFit'
<1> SUFFICES ASSUME NEW c \in ToSet(queue'), ~isCompleted'[c]
             PROVE  /\ loc'[c] # "closed"
                    /\ isActive'[c] \/ loc'[c] \in Recv \cup {"send", "end"}
                    /\ loc'[c] = "end" => pc' = "run" /\ c = currConn'
  BY DEF LocsFit
<1>1. c \in ToSet(queue) /\ currConn' = currConn
  BY DEF CoShape, OthersKept
<1>2. c \in Ctx
  BY <1>1, ToSetMember DEF IInv, TypeOK
<1>3. CASE c # currConn
  <2>1. loc'[c] = loc[c] /\ isActive'[c] = isActive[c] /\ isCompleted'[c] = isCompleted[c]
    BY <1>2, <1>3 DEF CoShape, OthersKept
  <2> QED BY <1>1, <1>3, <2>1 DEF LocsFit
<1>4. CASE c = currConn
  <2>1. CASE KeepsProcessor
    BY <1>1, <1>4, <2>1 DEF KeepsProcessor, Waits
  <2>2. CASE GivesBack
    BY <1>4, <2>2 DEF GivesBack, Waits
  <2>3. CASE Dies
    BY <1>1, <1>4, <2>3 DEF Dies, LocsFit
  <2> QED BY <2>1, <2>2, <2>3 DEF CoShape
<1> QED
  BY <1>3, <1>4

LEMMA ShapeWorkNoticed ==
    ASSUME IInv, WorkNoticed, pc = "run", CoShape, UNCHANGED sigVars
    PROVE  WorkNoticed'
<1> SUFFICES ASSUME NEW c \in ToSet(queue'), ~isCompleted'[c], ~isActive'[c], Runnable(c)'
             PROVE  asleep' \/ sigio' \/ pc' \in {"fill", "exited"} \/ StillDue(c)'
  BY DEF WorkNoticed
<1>1. /\ c \in ToSet(queue) /\ queue' = queue /\ pos' = pos /\ sigio' = sigio /\ asleep' = asleep
      /\ OthersKept
  BY DEF CoShape, OthersKept, sigVars
<1>2. c \in Ctx /\ queue \in Seq(Ctx) /\ pos = currConn /\ currConn \in ToSet(queue)
  BY <1>1, ToSetMember, Running DEF IInv, TypeOK
<1>3. CASE pc' = "exited"
  BY <1>3
<1>4. CASE c = currConn /\ KeepsProcessor
  <2>1. PICK i \in 1..Len(queue) : queue[i] = c
    BY <1>1, <1>2, ToSetMember
  <2>2. i <= i
    BY <2>1
  <2>3. pc' = "run"
    BY <1>4 DEF KeepsProcessor
  <2>4. StillDue(c)'
    BY <1>1, <1>2, <1>4, <2>1, <2>2, <2>3 DEF StillDue
  <2> QED BY <2>4
<1>5. CASE c = currConn /\ GivesBack
  <2>1. c = currConn'
    BY <1>1, <1>5 DEF OthersKept
  <2>2. Runnable(currConn)'
    BY <2>1 DEF Runnable, Readable, Writable
  <2> QED BY <1>5, <2>2 DEF GivesBack
<1>6. CASE c # currConn /\ pc' # "exited"
  <2>1. isActive'[c] = isActive[c] /\ isCompleted'[c] = isCompleted[c]
    BY <1>1, <1>2, <1>6 DEF OthersKept
  <2>2. Runnable(c)
    BY <1>1, <1>6, <2>1, OthersRunnable
  <2>3. asleep \/ sigio \/ StillDue(c)
    BY <1>1, <2>1, <2>2 DEF WorkNoticed
  <2>4. ASSUME StillDue(c) PROVE StillDue(c)'
    <3>1. PICK i \in 1..Len(queue), j \in 1..Len(queue) : queue[i] = pos /\ queue[j] = c /\ i <= j
      BY <2>4 DEF StillDue
    <3>2. i < j
      BY <1>2, <1>6, <3>1
    <3>3. pc' \in {"loop", "run", "back"}
      BY <1>6 DEF CoShape, KeepsProcessor, GivesBack, Dies
    <3> QED BY <1>1, <3>1, <3>2, <3>3 DEF StillDue
  <2> QED BY <1>1, <2>3, <2>4
<1> QED
  BY <1>3, <1>4, <1>5, <1>6 DEF CoShape, Dies

\* The step of a coroutine.
LEMMA CoroutineWorkerIInv == ASSUME WorkerIInv, IInv', Coroutine PROVE WorkerIInv'
<1>1. /\ IInv /\ WorkerTypeOK /\ TodoFits /\ LocsFit /\ WorkNoticed
  BY DEF WorkerIInv
<1>2. pc = "run" /\ UNCHANGED sigVars
  BY CoroutineRuns DEF Coroutine
<1>3. WorkerTypeOK' /\ TodoFits' /\ CoShape
  BY <1>1, CoroutineStep
<1>4. LocsFit' /\ WorkNoticed'
  BY <1>1, <1>2, <1>3, ShapeLocsFit, ShapeWorkNoticed
<1>5. FillAtStart'
  BY <1>3 DEF CoShape, KeepsProcessor, GivesBack, Dies, FillAtStart
<1> QED
  BY <1>3, <1>4, <1>5 DEF WorkerIInv

-----------------------------------------------------------------------------
(***************************************************************************)
(* The steps of the main context.                                          *)
(***************************************************************************)

\* Every entry of the queue is due in a pass that starts.
LEMMA PassStart ==
    ASSUME queue' \in Seq(Ctx), StartPass, NEW c \in ToSet(queue')
    PROVE  StillDue(c)'
<1>1. PICK j \in 1..Len(queue') : queue'[j] = c
  BY ToSetMember
<1>2. Len(queue') \in Nat
  BY LenProperties
<1>3. 1 \in 1..Len(queue') /\ 0 < Len(queue') /\ 1 <= j
  BY <1>1, <1>2
<1>4. pos' = queue'[1] /\ pc' = "loop"
  BY <1>3 DEF StartPass, NextEntry
<1> QED
  BY <1>1, <1>3, <1>4 DEF StillDue

\* Outside of a coroutine, and with the flags as they are, entries may only
\* leave the queue.
LEMMA MainKeeps ==
    ASSUME LocsFit, TodoFits, pc # "run", UNCHANGED <<loc, todo, isCompleted, isActive>>,
           ToSet(queue') \subseteq ToSet(queue)
    PROVE  LocsFit' /\ TodoFits'
  BY DEF LocsFit, TodoFits

\* Whether an entry has something to do does not change with the lists.
LEMMA SameWork ==
    ASSUME UNCHANGED <<loc, connSock, netVars>>, NEW c
    PROVE  Runnable(c)' <=> Runnable(c)
  BY DEF Runnable, Readable, Writable, netVars

\* A context for a new connection, whose coroutine has yet to start.
LEMMA CreateStep ==
    ASSUME IInv, IInv', LocsFit, TodoFits, WorkerTypeOK, pc # "run", NEW s \in Fd, cacheCnt # 0,
           CreateNewConn(s), StartPass, NewCoroutine, UNCHANGED todo
    PROVE  LocsFit' /\ TodoFits' /\ FillAtStart' /\ WorkNoticed' /\ loc' \in [Ctx -> Locs]
<1> DEFINE c == Head(cache)
<1>1. c \in Ctx /\ \A d \in Ctx : Live(d)' <=> Live(d) \/ d = c
  BY CreateFacts
<1>2. loc' = [loc EXCEPT ![c] = "start"] /\ isActive' = [isActive EXCEPT ![c] = TRUE] /\ pc' = "loop"
  BY DEF NewCoroutine, CreateNewConn, StartPass
<1> HIDE DEF c
<1>3. loc \in [Ctx -> Locs] /\ isActive \in [Ctx -> BOOLEAN] /\ "start" \in Locs
  BY DEF WorkerTypeOK, IInv, TypeOK, Locs
<1>4. /\ loc' \in [Ctx -> Locs] /\ loc'[c] = "start" /\ isActive'[c]
      /\ \A d \in Ctx : d # c => loc'[d] = loc[d] /\ isActive'[d] = isActive[d]
  BY <1>1, <1>2, <1>3
<1>5. TodoFits'
  BY <1>4 DEF TodoFits, Recv
<1>6. ToSet(queue') \subseteq Ctx /\ queue' \in Seq(Ctx)
  BY ToSetMember DEF IInv, TypeOK
<1>7. LocsFit'
  <2> SUFFICES ASSUME NEW d \in ToSet(queue'), ~isCompleted'[d]
               PROVE  /\ loc'[d] # "closed" /\ loc'[d] # "end"
                      /\ isActive'[d] \/ loc'[d] \in Recv \cup {"send", "end"}
    BY DEF LocsFit
  <2>1. d \in Ctx /\ (Live(d) \/ d = c)
    <3>1. Live(d)'
      BY DEF Live
    <3> QED BY <1>1, <1>6, <3>1
  <2>2. CASE d = c
    BY <1>4, <2>2
  <2>3. CASE d # c
    <3>1. d \in ToSet(queue) /\ ~isCompleted[d]
      BY <2>1, <2>3 DEF Live
    <3> QED BY <1>4, <2>1, <2>3, <3>1 DEF LocsFit
  <2> QED BY <2>2, <2>3
<1>8. WorkNoticed'
  BY <1>6, PassStart DEF WorkNoticed
<1> QED
  BY <1>2, <1>4, <1>5, <1>7, <1>8 DEF FillAtStart

\* fill_conn_ctx_cache(), on its own or in create_new_conn().
LEMMA FillWorkerIInv == ASSUME WorkerIInv, IInv', Fill \/ FillThenServe PROVE WorkerIInv'
<1>1. IInv /\ WorkerTypeOK /\ TodoFits /\ LocsFit /\ FillAtStart /\ WorkNoticed
  BY DEF WorkerIInv
<1>2. CASE Fill
  <2>1. /\ pc = "fill" /\ pc' \in {"fill", "wait", "exited"} /\ newSock' = newSock
        /\ queue' = queue /\ UNCHANGED connVars
        /\ pc' = "wait" => newSock = NoFd
    BY <1>2 DEF Fill, FillAlloc, FillFails, FillInitDone, FillExits, listVars, fillVars
  <2>2. UNCHANGED <<loc, todo, parts, timeVars, netVars, backlog, sigVars>>
    BY <1>2 DEF Fill
  <2>3. buf' \in [Ctx -> 0..BufCap]
    BY <1>1, <1>2, Sizes DEF Fill, WorkerTypeOK
  <2>4. WorkerTypeOK'
    BY <1>1, <2>2, <2>3 DEF WorkerTypeOK, timeVars, netVars, sigVars
  <2>5. LocsFit' /\ TodoFits'
    BY <1>1, <2>1, <2>2, MainKeeps DEF connVars
  <2>6. FillAtStart'
    BY <1>1, <2>1 DEF FillAtStart
  <2>7. WorkNoticed'
    <3>1. CASE pc' = "wait"
      <4>1. queue' = <<>>
        BY <1>1, <2>1, <3>1 DEF FillAtStart
      <4>2. ToSet(queue') = {}
        BY <4>1 DEF ToSet
      <4> QED BY <4>2 DEF WorkNoticed
    <3>2. CASE pc' # "wait"
      BY <2>1, <3>2 DEF WorkNoticed
    <3> QED BY <3>1, <3>2
  <2> QED BY <2>4, <2>5, <2>6, <2>7 DEF WorkerIInv
<1>3. CASE FillThenServe
  <2>1. /\ pc = "fill" /\ newSock # NoFd /\ cacheCnt # 0 /\ CreateNewConn(newSock) /\ StartPass
        /\ NewCoroutine
        /\ UNCHANGED <<buf, todo, parts, timeVars, netVars, backlog, sigVars>>
    BY <1>3 DEF FillThenServe, FillServes
  <2>2. newSock \in Fd
    BY <1>1, <2>1 DEF IInv, TypeOK
  <2>3. LocsFit' /\ TodoFits' /\ FillAtStart' /\ WorkNoticed' /\ loc' \in [Ctx -> Locs]
    BY <1>1, <2>1, <2>2, CreateStep
  <2> QED BY <1>1, <2>1, <2>3 DEF WorkerIInv, WorkerTypeOK, timeVars, netVars, sigVars
<1> QED
  BY <1>2, <1>3

\* epoll_pwait() and accept().
LEMMA AcceptWorkerIInv ==
    ASSUME WorkerIInv, IInv', NEW s \in Fd, Accept(s)
    PROVE  WorkerIInv'
<1>1. IInv /\ WorkerTypeOK /\ TodoFits /\ LocsFit /\ FillAtStart /\ WorkNoticed
  BY DEF WorkerIInv
<1>2. /\ backlog > 0 /\ backlog' = backlog - 1 /\ asleep' = FALSE /\ pc = "wait"
      /\ UNCHANGED <<buf, todo, parts, timeVars, netVars, sigio>>
  BY DEF Accept, AcceptConn
<1>3. LocsFit' /\ TodoFits' /\ FillAtStart' /\ WorkNoticed' /\ loc' \in [Ctx -> Locs]
  <2>1. CASE cacheCnt # 0
    <3>1. CreateNewConn(s) /\ StartPass /\ NewCoroutine
      BY <2>1 DEF Accept, AcceptConn
    <3> QED BY <1>1, <1>2, <2>1, <3>1, CreateStep
  <2>2. CASE cacheCnt = 0
    <3>1. /\ pc' = "fill" /\ newSock' = s /\ queue' = queue
          /\ UNCHANGED <<loc, isCompleted, isActive>>
      BY <2>2 DEF Accept, AcceptConn, listVars
    <3>2. LocsFit' /\ TodoFits'
      BY <1>1, <1>2, <3>1, MainKeeps
    <3>3. FillAtStart' /\ WorkNoticed'
      BY <3>1, DistinctValues DEF FillAtStart, WorkNoticed
    <3> QED BY <1>1, <3>1, <3>2, <3>3 DEF WorkerTypeOK
  <2> QED BY <2>1, <2>2
<1>4. backlog' \in 0..MaxBacklog
  <2>1. backlog \in 0..MaxBacklog /\ MaxBacklog \in Nat
    BY <1>1, Sizes DEF WorkerTypeOK
  <2> QED BY ONLY <1>2, <2>1
<1> QED
  BY <1>1, <1>2, <1>3, <1>4 DEF WorkerIInv, WorkerTypeOK, timeVars, netVars

\* epoll_pwait() without a new connection: the pass starts, or the process
\* falls asleep.
LEMMA PollWorkerIInv ==
    ASSUME WorkerIInv, IInv', AcceptFails \/ PollNothing \/ PollInterrupted \/ FallAsleep
    PROVE  WorkerIInv'
<1>1. IInv /\ WorkerTypeOK /\ TodoFits /\ LocsFit /\ FillAtStart /\ WorkNoticed
  BY DEF WorkerIInv
<1>2. /\ pc = "wait" /\ pc' \in {"loop", "wait"} /\ UNCHANGED <<listVars, connVars>>
      /\ UNCHANGED <<coVars, timeVars, netVars>>
  BY DEF AcceptFails, PollNothing, PollInterrupted, FallAsleep, NoNewConn, StartPass, ctxVars
<1>3. backlog' \in 0..MaxBacklog /\ sigio' \in BOOLEAN /\ asleep' \in BOOLEAN
  <2>1. backlog \in 0..MaxBacklog /\ sigio \in BOOLEAN /\ asleep \in BOOLEAN
    BY <1>1 DEF WorkerTypeOK
  <2>2. CASE AcceptFails
    <3>1. backlog > 0 /\ (backlog' = backlog - 1 \/ backlog' = backlog) /\ asleep' = FALSE /\ sigio' = sigio
      BY <2>2 DEF AcceptFails
    <3>2. MaxBacklog \in Nat
      BY Sizes
    <3>3. backlog' \in 0..MaxBacklog
      BY ONLY <2>1, <3>1, <3>2
    <3> QED BY <2>1, <3>1, <3>3
  <2>3. CASE PollNothing \/ PollInterrupted \/ FallAsleep
    BY <2>1, <2>3 DEF PollNothing, PollInterrupted, FallAsleep, sigVars
  <2> QED BY <2>2, <2>3
<1>4. WorkerTypeOK'
  BY <1>1, <1>2, <1>3 DEF WorkerTypeOK, coVars, timeVars, netVars
<1>5. LocsFit' /\ TodoFits'
  BY <1>1, <1>2, MainKeeps DEF coVars, listVars, connVars
<1>6. FillAtStart'
  BY <1>2 DEF FillAtStart
<1>7. WorkNoticed'
  <2>1. CASE FallAsleep
    BY <2>1 DEF FallAsleep, WorkNoticed
  <2>2. CASE AcceptFails \/ PollNothing \/ PollInterrupted
    <3>1. StartPass
      BY <2>2 DEF AcceptFails, PollNothing, PollInterrupted, NoNewConn
    <3>2. queue' \in Seq(Ctx)
      BY DEF IInv, TypeOK
    <3> QED BY <3>1, <3>2, PassStart DEF WorkNoticed
  <2> QED BY <2>1, <2>2
<1> QED
  BY <1>4, <1>5, <1>6, <1>7 DEF WorkerIInv

\* The loop over the queue goes on: whoever was due stays due, except the one
\* that had its turn.
LEMMA ResumeDue ==
    ASSUME SwapToConn, NEW c, StillDue(c)
    PROVE  StillDue(c)'
<1>1. queue' = queue /\ pos' = pos /\ pc' = "run" /\ pc = "loop"
  BY DEF SwapToConn, listVars, passVars
<1> QED
  BY <1>1 DEF StillDue

LEMMA BackDue ==
    ASSUME IInv, BackInLoop, NEW c, StillDue(c)
    PROVE  StillDue(c)'
<1>1. /\ queue \in Seq(Ctx) /\ IsInjective(queue) /\ pc = "back" /\ pc' = "loop"
      /\ pos' = posN /\ posN = NextEntry(queue, pos)
  BY DEF IInv, TypeOK, OnOneList, CursorsValid, BackInLoop
<1>2. PICK i \in 1..Len(queue), j \in 1..Len(queue) : queue[i] = pos /\ queue[j] = c /\ i < j
  BY <1>1 DEF StillDue
<1>3. Len(queue) \in Nat /\ DOMAIN queue = 1..Len(queue) /\ pos \in ToSet(queue) /\ pos # ListHead
  <2>1. pos \in ToSet(queue) /\ ToSet(queue) \subseteq Ctx
    BY <1>1, <1>2, ToSetMember
  <2> QED BY <1>1, <2>1, LenProperties, DistinctValues
<1>4. Index(queue, pos) = i
  <2>1. Index(queue, pos) \in 1..Len(queue) /\ queue[Index(queue, pos)] = pos
    BY <1>1, <1>3, IndexFacts
  <2> QED BY <1>2, <1>3, <2>1, <1>1 DEF IsInjective
<1>5. i + 1 \in 1..Len(queue) /\ i < Len(queue) /\ i + 1 <= j /\ pos' = queue[i + 1]
  <2>1. i + 1 \in 1..Len(queue) /\ i < Len(queue) /\ i + 1 <= j
    BY <1>2, <1>3
  <2> QED BY <1>1, <1>3, <1>4, <2>1 DEF NextEntry
<1>6. CASE isCompleted[pos]
  <2>1. queue' = RemoveAt(queue, i)
    BY <1>4, <1>6 DEF BackInLoop, RemoveConn, DelEntry
  <2>2. /\ Len(queue') = Len(queue) - 1
        /\ \A k \in i..(Len(queue) - 1) : queue'[k] = queue[k + 1]
    BY <1>1, <2>1, RemoveAtElements
  <2>3. i \in i..(Len(queue) - 1) /\ j - 1 \in i..(Len(queue) - 1) /\ (j - 1) + 1 = j
    BY <1>2, <1>3
  <2>4. queue'[i] = pos' /\ queue'[j - 1] = c
    BY <1>2, <1>5, <2>2, <2>3
  <2>5. i \in 1..Len(queue') /\ j - 1 \in 1..Len(queue') /\ i <= j - 1
    BY <1>2, <1>3, <2>2
  <2> QED BY <1>1, <2>4, <2>5 DEF StillDue
<1>7. CASE ~isCompleted[pos]
  <2>1. queue' = queue
    BY <1>7 DEF BackInLoop, listVars
  <2> QED BY <1>1, <1>2, <1>5, <2>1 DEF StillDue
<1> QED
  BY <1>6, <1>7

\* When the pass ends, nobody is due.
LEMMA EndDue ==
    ASSUME IInv, PassEnds, NEW c
    PROVE  ~StillDue(c)
<1>1. pos = ListHead /\ queue \in Seq(Ctx)
  BY DEF PassEnds, IInv, TypeOK
<1>2. ToSet(queue) \subseteq Ctx /\ \A i \in 1..Len(queue) : queue[i] \in ToSet(queue)
  BY <1>1, ToSetMember
<1> QED
  BY <1>1, <1>2, DistinctValues DEF StillDue

LEMMA LoopWorkerIInv == ASSUME WorkerIInv, IInv', Resume \/ NextConn PROVE WorkerIInv'
<1>1. IInv /\ WorkerTypeOK /\ TodoFits /\ LocsFit /\ FillAtStart /\ WorkNoticed
  BY DEF WorkerIInv
<1>2. /\ SwapToConn \/ PassEnds \/ BackInLoop
      /\ UNCHANGED <<coVars, stale, opDue, netVars, backlog, sigVars>>
  BY DEF Resume, NextConn, timeVars
<1>3. /\ pc \in {"loop", "back"} /\ pc' \in {"run", "wait", "loop"} /\ UNCHANGED connVars
  BY <1>2 DEF SwapToConn, PassEnds, BackInLoop
<1>4. ToSet(queue') \subseteq ToSet(queue)
  <2>1. CASE BackInLoop /\ isCompleted[pos]
    <3>1. queue' = DelEntry(queue, pos) /\ pos \in ToSet(queue) /\ queue \in Seq(Ctx) /\ IsInjective(queue)
      BY <1>1, <2>1 DEF BackInLoop, RemoveConn, IInv, TypeOK, OnOneList, CursorsValid
    <3>2. ToSet(DelEntry(queue, pos)) = ToSet(queue) \ {pos}
      BY <3>1, DelEntryFacts
    <3> QED BY <3>1, <3>2
  <2>2. CASE ~(BackInLoop /\ isCompleted[pos])
    BY <1>2, <2>2 DEF SwapToConn, PassEnds, BackInLoop, listVars
  <2> QED BY <2>1, <2>2
<1>5. swapDue' \in BOOLEAN
  BY <1>1 DEF Resume, NextConn, timeVars, WorkerTypeOK
<1>6. WorkerTypeOK'
  BY <1>1, <1>2, <1>5 DEF WorkerTypeOK, coVars, netVars, sigVars
<1>7. LocsFit' /\ TodoFits'
  BY <1>1, <1>2, <1>3, <1>4, MainKeeps DEF coVars, connVars
<1>8. FillAtStart'
  BY <1>3 DEF FillAtStart
<1>9. WorkNoticed'
  <2> SUFFICES ASSUME NEW c \in ToSet(queue'), ~isCompleted'[c], ~isActive'[c], Runnable(c)'
               PROVE  asleep' \/ sigio' \/ StillDue(c)'
    BY DEF WorkNoticed
  <2>1. c \in ToSet(queue) /\ ~isCompleted[c] /\ ~isActive[c] /\ Runnable(c)
    BY <1>2, <1>3, <1>4, SameWork DEF connVars, coVars
  <2>2. asleep \/ sigio \/ StillDue(c)
    BY <1>1, <1>3, <2>1 DEF WorkNoticed
  <2>3. CASE StillDue(c)
    BY <1>1, <1>2, <2>3, ResumeDue, BackDue, EndDue
  <2> QED BY <1>2, <2>2, <2>3 DEF sigVars
<1> QED
  BY <1>6, <1>7, <1>8, <1>9 DEF WorkerIInv

-----------------------------------------------------------------------------
(***************************************************************************)
(* The clocks and the clients.                                             *)
(***************************************************************************)

\* The clock changes no state that the invariant relates.
LEMMA TickWorkerIInv == ASSUME WorkerIInv, IInv', Tick PROVE WorkerIInv'
<1>1. IInv /\ WorkerTypeOK /\ TodoFits /\ LocsFit /\ FillAtStart /\ WorkNoticed
  BY DEF WorkerIInv
<1>2. UNCHANGED <<ctxVars, coVars, netVars, backlog, sigVars>>
  BY DEF Tick
<1>3. stale' \subseteq Ctx /\ opDue' \subseteq Ctx /\ swapDue' \in BOOLEAN
  BY <1>1 DEF Tick, GrowStale, ExceedOp, ExceedSwap, WorkerTypeOK
<1>4. WorkerTypeOK'
  BY <1>1, <1>2, <1>3 DEF WorkerTypeOK, coVars, netVars, sigVars
<1>5. LocsFit' /\ TodoFits' /\ FillAtStart'
  BY <1>1, <1>2 DEF LocsFit, TodoFits, FillAtStart, ctxVars, fillVars, listVars, connVars, coVars
<1>6. WorkNoticed'
  BY <1>1, <1>2 DEF WorkNoticed, StillDue, Runnable, Readable, Writable, ctxVars, listVars,
     connVars, passVars, coVars, netVars, sigVars
<1> QED
  BY <1>4, <1>5, <1>6 DEF WorkerIInv

\* What a client does to the socket f shows on that socket only.
LEMMA ClientFacts ==
    ASSUME WorkerTypeOK, NEW f \in Fd, ClientActs(f)
    PROVE  /\ rx' \in [Fd -> 0..MaxRx] /\ peer' \in [Fd -> {"open", "eof", "reset"}]
           /\ wfull' \in [Fd -> BOOLEAN] /\ sigio' \in BOOLEAN
           /\ UNCHANGED <<backlog, asleep>>
           /\ \A g \in Fd \ {f} : rx'[g] = rx[g] /\ peer'[g] = peer[g] /\ wfull'[g] = wfull[g]
<1>1. /\ rx \in [Fd -> 0..MaxRx] /\ peer \in [Fd -> {"open", "eof", "reset"}]
      /\ wfull \in [Fd -> BOOLEAN] /\ sigio \in BOOLEAN
  BY DEF WorkerTypeOK
<1>2. UNCHANGED <<backlog, asleep>> /\ sigio' \in BOOLEAN
  BY DEF ClientActs, Signal
<1>3. CASE ClientSends(f)
  <2>1. rx' = [rx EXCEPT ![f] = @ + 1] /\ rx[f] < MaxRx /\ peer' = peer /\ wfull' = wfull
    BY <1>3 DEF ClientSends
  <2>2. rx[f] + 1 \in 0..MaxRx
    BY <1>1, <2>1, Sizes
  <2> QED BY <1>1, <1>2, <2>1, <2>2
<1>4. CASE ClientEnds(f) \/ ClientResets(f)
  <2>1. rx' = rx /\ wfull' = wfull /\ \E p \in {"eof", "reset"} : peer' = [peer EXCEPT ![f] = p]
    BY <1>4 DEF ClientEnds, ClientResets
  <2> QED BY <1>1, <1>2, <2>1
<1>5. CASE ClientReads(f)
  <2>1. rx' = rx /\ peer' = peer /\ wfull' = [wfull EXCEPT ![f] = FALSE]
    BY <1>5 DEF ClientReads
  <2> QED BY <1>1, <1>2, <2>1
<1> QED
  BY <1>3, <1>4, <1>5 DEF ClientActs

\* An event on the socket of an inactive connection makes SIGIO pending,
\* unless the worker sleeps: an inactive connection has called set_async().
LEMMA ClientWorkNoticed ==
    ASSUME IInv, WorkerTypeOK, LocsFit, WorkNoticed, NEW f \in Fd, ClientActs(f), UNCHANGED <<ctxVars, coVars>>
    PROVE  WorkNoticed'
<1> SUFFICES ASSUME NEW c \in ToSet(queue'), ~isCompleted'[c], ~isActive'[c], Runnable(c)'
             PROVE  asleep' \/ sigio' \/ pc' \in {"fill", "exited"} \/ StillDue(c)'
  BY DEF WorkNoticed
<1>1. /\ c \in ToSet(queue) /\ ~isCompleted[c] /\ ~isActive[c] /\ asleep' = asleep /\ pc' = pc
      /\ queue' = queue /\ pos' = pos /\ loc' = loc /\ connSock' = connSock
  BY DEF ClientActs, ctxVars, listVars, connVars, passVars, coVars
<1>2. c \in Ctx /\ Live(c)
  BY <1>1, ToSetMember DEF IInv, TypeOK, Live
<1>3. connSock[c] \in Fd
  BY <1>2, LiveSocket
<1>4. sigio' <=> (sigio \/ ((\E d \in Ctx : Live(d) /\ connSock[d] = f /\ loc[d] # "start") /\ ~asleep))
  BY DEF ClientActs, Signal
<1>5. CASE connSock[c] = f
  <2>1. loc[c] # "start"
    BY <1>1 DEF LocsFit, Recv
  <2> QED BY <1>1, <1>2, <1>4, <1>5, <2>1
<1>6. CASE connSock[c] # f
  <2>1. Runnable(c)
    BY <1>1, <1>3, <1>6, ClientFacts DEF Runnable, Readable, Writable
  <2>2. asleep \/ sigio \/ pc \in {"fill", "exited"} \/ StillDue(c)
    BY <1>1, <2>1 DEF WorkNoticed
  <2>3. StillDue(c) => StillDue(c)'
    BY <1>1 DEF StillDue
  <2> QED BY <1>1, <1>4, <2>2, <2>3
<1> QED
  BY <1>5, <1>6

LEMMA ClientWorkerIInv == ASSUME WorkerIInv, IInv', Client PROVE WorkerIInv'
<1>1. IInv /\ WorkerTypeOK /\ TodoFits /\ LocsFit /\ FillAtStart /\ WorkNoticed
  BY DEF WorkerIInv
<1>2. UNCHANGED <<ctxVars, coVars, timeVars>>
  BY DEF Client
<1>3. LocsFit' /\ TodoFits' /\ FillAtStart'
  BY <1>1, <1>2 DEF LocsFit, TodoFits, FillAtStart, ctxVars, fillVars, listVars, connVars, coVars
<1>4. ASSUME NEW f \in Fd, ClientActs(f) PROVE WorkerIInv'
  <2>1. WorkNoticed'
    BY <1>1, <1>2, <1>4, ClientWorkNoticed
  <2>2. WorkerTypeOK'
    BY <1>1, <1>2, <1>4, ClientFacts DEF WorkerTypeOK, coVars, timeVars
  <2> QED BY <1>3, <2>1, <2>2 DEF WorkerIInv
<1>5. CASE ClientConnects
  <2>1. backlog < MaxBacklog /\ backlog' = backlog + 1 /\ UNCHANGED <<netVars, sigVars>>
    BY <1>5 DEF ClientConnects
  <2>2. backlog' \in 0..MaxBacklog
    <3>1. backlog \in 0..MaxBacklog /\ MaxBacklog \in Nat
      BY <1>1, Sizes DEF WorkerTypeOK
    <3> QED BY ONLY <2>1, <3>1
  <2>3. WorkerTypeOK'
    BY <1>1, <1>2, <2>1, <2>2 DEF WorkerTypeOK, coVars, timeVars, netVars, sigVars
  <2>4. WorkNoticed'
    BY <1>1, <1>2, <2>1 DEF WorkNoticed, StillDue, Runnable, Readable, Writable, ctxVars,
       listVars, connVars, passVars, coVars, netVars, sigVars
  <2> QED BY <1>3, <2>3, <2>4 DEF WorkerIInv
<1> QED
  BY <1>4, <1>5 DEF Client

-----------------------------------------------------------------------------
(***************************************************************************)
(* The invariant and what follows from it.                                 *)
(***************************************************************************)
LEMMA InitWorkerIInv == WorkerInit => WorkerIInv
<1> SUFFICES ASSUME WorkerInit PROVE WorkerIInv
  OBVIOUS
<1>1. IInv
  BY InitIInv DEF WorkerInit
<1>2. WorkerTypeOK
  <2>1. /\ 0 \in 0..BufCap /\ 0 \in 0..(BufCap + Packet) /\ 0 \in 0..MaxParts
        /\ 0 \in 0..MaxRx /\ 0 \in 0..MaxBacklog
    BY Sizes
  <2>2. /\ loc \in [Ctx -> Locs] /\ buf \in [Ctx -> 0..BufCap]
        /\ todo \in [Ctx -> 0..(BufCap + Packet)] /\ parts \in [Ctx -> 0..MaxParts]
    BY <2>1 DEF WorkerInit, Locs
  <2>3. /\ rx \in [Fd -> 0..MaxRx] /\ peer \in [Fd -> {"open", "eof", "reset"}]
        /\ wfull \in [Fd -> BOOLEAN] /\ backlog \in 0..MaxBacklog
    BY <2>1 DEF WorkerInit
  <2> QED BY <2>2, <2>3 DEF WorkerInit, WorkerTypeOK
<1>3. queue = <<>> /\ loc = [c \in Ctx |-> "closed"]
  BY DEF WorkerInit, CtxInit
<1>4. ToSet(queue) = {}
  BY <1>3 DEF ToSet
<1>5. LocsFit /\ WorkNoticed /\ FillAtStart
  BY <1>3, <1>4 DEF LocsFit, WorkNoticed, FillAtStart
<1>6. TodoFits
  BY <1>3 DEF TodoFits, Recv
<1> QED
  BY <1>1, <1>2, <1>5, <1>6 DEF WorkerIInv

LEMMA NextWorkerIInv == WorkerIInv /\ [Next]_vars => WorkerIInv'
<1> SUFFICES ASSUME WorkerIInv, [Next]_vars PROVE WorkerIInv'
  OBVIOUS
<1>1. IInv'
  <2>1. IInv
    BY DEF WorkerIInv
  <2> QED BY <2>1, NextIsCtx, NextIInv
<1>2. CASE Main
  <2>1. CASE Fill \/ FillThenServe
    BY <1>1, <2>1, FillWorkerIInv
  <2>2. CASE \E s \in Fd : Accept(s)
    BY <1>1, <2>2, AcceptWorkerIInv
  <2>3. CASE AcceptFails \/ PollNothing \/ PollInterrupted \/ FallAsleep
    BY <1>1, <2>3, PollWorkerIInv
  <2>4. CASE Resume \/ NextConn
    BY <1>1, <2>4, LoopWorkerIInv
  <2> QED BY <1>2, <2>1, <2>2, <2>3, <2>4 DEF Main
<1>3. CASE Coroutine
  BY <1>1, <1>3, CoroutineWorkerIInv
<1>4. CASE Tick \/ Client
  BY <1>1, <1>4, TickWorkerIInv, ClientWorkerIInv
<1>5. CASE Gone \/ UNCHANGED vars
  <2>1. UNCHANGED vars
    BY <1>5 DEF Gone
  <2>2. UNCHANGED <<ctxVars, coVars, timeVars, netVars, backlog, sigVars>>
    BY <2>1 DEF vars
  <2>3. WorkerTypeOK'
    BY <2>2 DEF WorkerIInv, WorkerTypeOK, coVars, timeVars, netVars, sigVars
  <2>4. LocsFit' /\ TodoFits' /\ FillAtStart'
    BY <2>2 DEF WorkerIInv, LocsFit, TodoFits, FillAtStart, ctxVars, fillVars, listVars, connVars, coVars
  <2>5. WorkNoticed'
    BY <2>2 DEF WorkerIInv, WorkNoticed, StillDue, Runnable, Readable, Writable, ctxVars,
       listVars, connVars, passVars, coVars, netVars, sigVars
  <2> QED BY <1>1, <2>3, <2>4, <2>5 DEF WorkerIInv
<1> QED
  BY <1>2, <1>3, <1>4, <1>5 DEF Next, Process

\* The invariant of the worker: besides that of ConnCtx it says where the
\* coroutine of a connection can be when its flag is not set, and who knows of
\* the work that such a connection has.
THEOREM WorkerInvariance == Spec => []WorkerIInv
  BY InitWorkerIInv, NextWorkerIInv, PTL DEF Spec

\* What is received and unused never leaves the buffer (recv_buf_have,
\* recv_buf_curr), and a call has at least one byte left to transfer, and no
\* more than the buffer it reads to or the packet it sends.
THEOREM WorkerTypes == Spec => [](WorkerTypeOK /\ TodoFits)
<1>1. WorkerIInv => WorkerTypeOK /\ TodoFits
  BY DEF WorkerIInv
<1> QED
  BY <1>1, WorkerInvariance, PTL

\* curr_conn_set_inactive() is called for a coroutine that waits for its
\* client only: no connection that is merely taking turns is left out of
\* active_conn_cnt.
THEOREM InactiveWaits == Spec => []InactiveOnlyWhileWaiting
<1>1. WorkerIInv => InactiveOnlyWhileWaiting
  <2> SUFFICES ASSUME WorkerIInv, NEW c \in ToSet(queue), ~isActive[c], ~isCompleted[c],
                      ~(pc = "run" /\ c = currConn)
               PROVE  Waiting(c)
    BY DEF InactiveOnlyWhileWaiting
  <2>1. loc[c] \in Recv \cup {"send"}
    BY DEF WorkerIInv, LocsFit
  <2> QED BY <2>1 DEF Waiting, Live
<1> QED
  BY <1>1, WorkerInvariance, PTL

\* The process never starts to sleep in epoll_pwait() while a connection has
\* something to do.
THEOREM NoLostWakeup == Spec => NoSleepOverWork
<1>1. WorkerIInv /\ [Next]_vars => [~asleep /\ asleep' => \A c \in ToSet(queue) : ~Runnable(c)]_vars
  <2> SUFFICES ASSUME WorkerIInv, Next, ~asleep, asleep', NEW c \in ToSet(queue)
               PROVE  ~Runnable(c)
    OBVIOUS
  <2>1. FallAsleep
    <3>1. CASE Main
      BY <3>1 DEF Main, Fill, FillThenServe, Accept, AcceptFails, PollNothing, PollInterrupted,
                  Resume, NextConn, sigVars
    <3>2. CASE Coroutine \/ Tick \/ Gone
      BY <3>2 DEF Coroutine, Tick, Gone, vars, sigVars
    <3>3. CASE Client
      BY <3>3 DEF Client, ClientActs, ClientConnects, sigVars
    <3> QED BY <3>1, <3>2, <3>3 DEF Next, Process
  <2>2. pc = "wait" /\ activeConnCnt = 0 /\ ~sigio
    BY <2>1 DEF FallAsleep
  <2>3. queue \in Seq(Ctx) /\ activeConnCnt = Cardinality({d \in ToSet(queue) : isActive[d]})
    BY DEF WorkerIInv, IInv, TypeOK, CountersAgree
  <2>4. {d \in ToSet(queue) : isActive[d]} = {}
    <3>1. IsFiniteSet({d \in ToSet(queue) : isActive[d]})
      BY <2>3, FlagCount
    <3> QED BY <2>2, <2>3, <3>1, FS_EmptySet
  <2>5. ~isActive[c]
    BY <2>4
  <2>6. ~isCompleted[c]
    BY <2>2 DEF WorkerIInv, IInv, NeverRunCompleted
  <2>7. ~StillDue(c)
    BY <2>2 DEF StillDue
  <2> QED BY <2>2, <2>5, <2>6, <2>7 DEF WorkerIInv, WorkNoticed
<1> QED
  BY <1>1, WorkerInvariance, PTL DEF Spec, NoSleepOverWork
=============================================================================
