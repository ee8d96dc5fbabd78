---------------------------- MODULE SyncSrv_proofs ---------------------------
(***************************************************************************)
(* Proofs about SyncSrv: for any clients, connections, descriptors and     *)
(* threads, who owns a descriptor of the synchronous server, to whom one   *)
(* is leaked, and that its report counts no connection twice.              *)
(***************************************************************************)
EXTENDS SyncSrv, FiniteSetTheorems, SequenceTheorems, TLAPS

\* The bounds are numbers.
LEMMA Numbers == MaxConns \in Nat /\ MaxFd \in Nat \ {0} /\ MaxThreads \in Nat \ {0}
  BY SyncBounds

\* Threads that are done can be counted, and there are no more of them than
\* connections.
LEMMA DoneFacts ==
    ASSUME NEW t
    PROVE  /\ IsFiniteSet({k \in Conn : t[k] = "done"})
           /\ Cardinality({k \in Conn : t[k] = "done"}) \in 0..MaxConns
<1> DEFINE D == {k \in Conn : t[k] = "done"}
<1>1. IsFiniteSet(1..MaxConns) /\ Cardinality(1..MaxConns) = MaxConns
  <2>1. /\ IsFiniteSet(1..MaxConns)
        /\ Cardinality(1..MaxConns) = IF 1 > MaxConns THEN 0 ELSE MaxConns - 1 + 1
    BY Numbers, FS_Interval
  <2> QED BY <2>1, Numbers
<1>2. D \in SUBSET (1..MaxConns)
  BY DEF Conn
<1> HIDE DEF D
<1>3. IsFiniteSet(D) /\ Cardinality(D) <= MaxConns
  BY <1>1, <1>2, FS_Subset
<1>4. Cardinality(D) \in Nat
  BY <1>3, FS_CardinalityType
<1>5. Cardinality(D) \in 0..MaxConns
  BY <1>3, <1>4, Numbers
<1> QED
  BY <1>3, <1>5 DEF D

LEMMA InitSyncIInv == Init => SyncIInv
<1> SUFFICES ASSUME Init PROVE SyncIInv
  OBVIOUS
<1>1. /\ backlog = <<>> /\ fds = {} /\ response = {} /\ request = {} /\ made = 0 /\ main = "accept"
      /\ nConn = 0 /\ prevNConn = 0 /\ reported = 0
      /\ thread = [k \in Conn |-> "none"] /\ cpc = [c \in Client |-> "connect"]
      /\ sock = [c \in Client |-> 0] /\ peer = [k \in Conn |-> "open"]
  BY DEF Init
<1>2. backlog \in Seq(Conn) /\ Len(backlog) = 0
  BY <1>1, EmptySeq
<1>3. SyncTypeOK
  BY <1>1, <1>2, Numbers DEF SyncTypeOK
<1>4. DescriptorsOwned /\ LeaksOnlyToTheUnanswered /\ AnsweredLast /\ Connected
  BY <1>1 DEF DescriptorsOwned, LeaksOnlyToTheUnanswered, AnsweredLast, Connected
<1>5. InOrder
  BY <1>1, <1>2, Numbers DEF InOrder, Conn
<1>6. EachCountedOnce
  <2>1. {k \in Conn : thread[k] = "done"} = {}
    BY <1>1
  <2> QED BY <1>1, <2>1, FS_EmptySet DEF EachCountedOnce
<1> QED
  BY <1>3, <1>4, <1>5, <1>6 DEF SyncIInv

-----------------------------------------------------------------------------
(***************************************************************************)
(* main() of the server.                                                   *)
(***************************************************************************)

\* The report, and the two ways in which the server ends.
LEMMA ReportSyncIInv ==
    ASSUME SyncIInv, AcceptFails \/ ThreadNewConnFails \/ NoReport \/ PrintReport \/ StoreReport
    PROVE  SyncIInv'
<1>1. /\ UNCHANGED <<backlog, thread, fds, nConn, made, cpc, sock, peer, request, response>>
      /\ main \in {"accept", "create", "created", "printed"}
      /\ main' \in {"accept", "printed", "gone"} /\ (main = "create" => main' = "gone")
  BY DEF AcceptFails, ThreadNewConnFails, NoReport, PrintReport, StoreReport, cliVars
<1>2. /\ nConn \in 0..MaxConns /\ prevNConn \in 0..nConn /\ reported \in 0..nConn
      /\ main \notin {"printed", "gone"} => reported <= prevNConn
  BY DEF SyncIInv, SyncTypeOK, EachCountedOnce
<1>3. /\ prevNConn' \in 0..nConn /\ reported' \in 0..nConn
      /\ main' \notin {"printed", "gone"} => reported' <= prevNConn'
  <2>1. CASE AcceptFails \/ ThreadNewConnFails \/ NoReport
    BY <1>1, <1>2, <2>1 DEF AcceptFails, ThreadNewConnFails, NoReport
  <2>2. CASE PrintReport
    <3>1. main = "created" /\ main' = "printed" /\ reported' = reported + nConn - prevNConn /\ prevNConn' = prevNConn
      BY <2>2 DEF PrintReport
    <3> QED BY <1>2, <3>1, Numbers
  <2>3. CASE StoreReport
    BY <1>2, <2>3, Numbers DEF StoreReport
  <2> QED BY <2>1, <2>2, <2>3
<1>4. SyncTypeOK'
  BY <1>1, <1>3 DEF SyncIInv, SyncTypeOK
<1>5. DescriptorsOwned'
  BY <1>1 DEF SyncIInv, DescriptorsOwned
<1>6. LeaksOnlyToTheUnanswered' /\ AnsweredLast' /\ Connected' /\ InOrder'
  BY <1>1 DEF SyncIInv, LeaksOnlyToTheUnanswered, AnsweredLast, Connected, InOrder
<1>7. EachCountedOnce'
  BY <1>1, <1>3 DEF SyncIInv, EachCountedOnce
<1> QED
  BY <1>4, <1>5, <1>6, <1>7 DEF SyncIInv

\* accept() takes the first connection that waits.
LEMMA AcceptSyncIInv == ASSUME SyncIInv, Accept PROVE SyncIInv'
<1>1. /\ main = "accept" /\ main' = "create" /\ backlog # <<>> /\ fds' = fds \cup {Head(backlog)}
      /\ UNCHANGED <<backlog, thread, nConn, prevNConn, reported, made, cpc, sock, peer, request, response>>
  BY DEF Accept, cliVars
<1>2. Head(backlog) \in Conn
  BY <1>1, HeadTailProperties DEF SyncIInv, SyncTypeOK
<1>3. SyncTypeOK'
  BY <1>1, <1>2 DEF SyncIInv, SyncTypeOK
<1>4. DescriptorsOwned'
  BY <1>1 DEF SyncIInv, DescriptorsOwned
<1>5. LeaksOnlyToTheUnanswered' /\ AnsweredLast' /\ Connected' /\ InOrder' /\ EachCountedOnce'
  BY <1>1 DEF SyncIInv, LeaksOnlyToTheUnanswered, AnsweredLast, Connected, InOrder, EachCountedOnce
<1> QED
  BY <1>3, <1>4, <1>5 DEF SyncIInv

\* A thread for that connection, which is the oldest without one.
LEMMA ThreadNewConnSyncIInv == ASSUME SyncIInv, ThreadNewConn PROVE SyncIInv'
<1> DEFINE h == Head(backlog)
<1>1. /\ main = "create" /\ main' = "created"
      /\ thread' = [thread EXCEPT ![h] = "read"] /\ backlog' = Tail(backlog)
      /\ UNCHANGED <<fds, nConn, prevNConn, reported, made, cpc, sock, peer, request, response>>
  BY DEF ThreadNewConn, cliVars
<1>2. /\ backlog \in Seq(Conn) /\ backlog # <<>> /\ h \in fds
      /\ thread \in [Conn -> {"none", "read", "write", "close", "count", "done", "exited"}]
      /\ made \in 0..MaxConns
  BY <1>1 DEF SyncIInv, SyncTypeOK, InOrder
<1>3. Len(backlog) \in Nat /\ Len(backlog) > 0
  BY <1>2, EmptySeq
<1>4. /\ h \in Conn /\ Tail(backlog) \in Seq(Conn) /\ Len(Tail(backlog)) = Len(backlog) - 1
      /\ \A i \in 1..Len(Tail(backlog)) : Tail(backlog)[i] = backlog[i + 1]
  BY <1>2, HeadTailProperties
<1>5. h = backlog[1]
  BY <1>2
<1>6. h = made - Len(backlog) + 1
  BY <1>3, <1>5 DEF SyncIInv, InOrder
<1> HIDE DEF h
<1>7. thread[h] = "none"
  BY <1>2, <1>3, <1>4, <1>6, Numbers DEF SyncIInv, InOrder, Conn
<1>8. /\ thread' \in [Conn -> {"none", "read", "write", "close", "count", "done", "exited"}]
      /\ thread'[h] = "read" /\ \A k \in Conn : k # h => thread'[k] = thread[k]
  BY <1>1, <1>2, <1>4
<1>9. SyncTypeOK'
  BY <1>1, <1>4, <1>8 DEF SyncIInv, SyncTypeOK
<1>10. DescriptorsOwned'
  <2>1. \A k \in fds : k \in Conn
    BY DEF SyncIInv, SyncTypeOK
  <2> QED BY <1>1, <1>2, <1>8, <2>1 DEF SyncIInv, DescriptorsOwned, h
<1>11. LeaksOnlyToTheUnanswered' /\ Connected'
  BY <1>1, <1>8 DEF SyncIInv, LeaksOnlyToTheUnanswered, Connected
<1>12. AnsweredLast'
  <2>1. response \subseteq Conn
    BY DEF SyncIInv, SyncTypeOK
  <2> QED BY <1>1, <1>7, <1>8, <2>1 DEF SyncIInv, AnsweredLast
<1>13. InOrder'
  <2>1. Len(backlog') = Len(backlog) - 1 /\ Len(backlog') <= made'
    BY <1>1, <1>2, <1>3, <1>4 DEF SyncIInv, InOrder
  <2>2. ASSUME NEW j \in 1..Len(backlog') PROVE backlog'[j] = made' - Len(backlog') + j
    <3>1. j + 1 \in 1..Len(backlog)
      BY <1>3, <2>1
    <3>2. backlog'[j] = backlog[j + 1] /\ backlog[j + 1] = made - Len(backlog) + (j + 1)
      BY <1>1, <1>4, <3>1 DEF SyncIInv, InOrder
    <3> QED BY <1>1, <1>2, <1>3, <2>1, <3>2
  <2>3. ASSUME NEW k \in Conn PROVE thread'[k] # "none" <=> k <= made' - Len(backlog')
    <3>1. thread[k] # "none" <=> k <= made - Len(backlog)
      BY DEF SyncIInv, InOrder
    <3>2. k \in Nat
      BY DEF Conn
    <3>3. made' - Len(backlog') = h
      BY <1>1, <1>2, <1>3, <1>6, <2>1
    <3>4. k <= h <=> k <= made - Len(backlog) \/ k = h
      BY <1>2, <1>3, <1>6, <3>2
    <3> QED BY <1>8, <3>1, <3>3, <3>4
  <2> QED BY <1>1, <2>1, <2>2, <2>3 DEF InOrder
<1>14. EachCountedOnce'
  <2>1. {k \in Conn : thread'[k] = "done"} = {k \in Conn : thread[k] = "done"}
    BY <1>7, <1>8
  <2> QED BY <1>1, <2>1 DEF SyncIInv, EachCountedOnce
<1> QED
  BY <1>9, <1>10, <1>11, <1>12, <1>13, <1>14 DEF SyncIInv

-----------------------------------------------------------------------------
(***************************************************************************)
(* conn_routine().                                                         *)
(***************************************************************************)

\* What every step of a thread leaves alone; only the last one counts.
LEMMA ThreadFacts ==
    ASSUME SyncIInv, NEW k \in Conn, Thread(k)
    PROVE  /\ main # "gone" /\ thread[k] \in {"read", "write", "close", "count"}
           /\ \E l \in {"write", "close", "count", "done", "exited"} :
                 /\ thread' = [thread EXCEPT ![k] = l]
                 /\ l = "done" <=> thread[k] = "count"
           /\ UNCHANGED <<main, backlog, prevNConn, reported, made, cpc, sock, peer>>
<1>1. CASE ThreadRead(k)
  BY <1>1 DEF ThreadRead, In, cliVars
<1>2. CASE ThreadWrite(k)
  BY <1>2 DEF ThreadWrite, In, cliVars
<1>3. CASE ThreadClose(k) \/ ThreadCounts(k)
  BY <1>3 DEF ThreadClose, ThreadCounts, In, cliVars
<1> QED
  BY <1>1, <1>2, <1>3 DEF Thread

LEMMA ThreadSyncIInv == ASSUME SyncIInv, NEW k \in Conn, Thread(k) PROVE SyncIInv'
<1>1. /\ main # "gone" /\ thread[k] \in {"read", "write", "close", "count"}
      /\ UNCHANGED <<main, backlog, prevNConn, reported, made, cpc, sock, peer>>
  BY ThreadFacts
<1>2. PICK l \in {"write", "close", "count", "done", "exited"} :
         thread' = [thread EXCEPT ![k] = l] /\ (l = "done" <=> thread[k] = "count")
  BY ThreadFacts
<1>3. thread \in [Conn -> {"none", "read", "write", "close", "count", "done", "exited"}]
  BY DEF SyncIInv, SyncTypeOK
<1>4. /\ thread' \in [Conn -> {"none", "read", "write", "close", "count", "done", "exited"}]
      /\ thread'[k] = l /\ \A j \in Conn : j # k => thread'[j] = thread[j]
  BY <1>2, <1>3
\* The descriptor is closed with the step to "count", and kept by every other.
<1>5. /\ fds' = IF thread[k] = "close" THEN fds \ {k} ELSE fds
      /\ thread[k] = "close" => l = "count"
      /\ thread[k] \in {"read", "write"} => l \in {"write", "close", "exited"}
  <2>1. CASE ThreadRead(k)
    BY <1>3, <1>4, <2>1 DEF ThreadRead, In
  <2>2. CASE ThreadWrite(k)
    BY <1>3, <1>4, <2>2 DEF ThreadWrite, In
  <2>3. CASE ThreadClose(k) \/ ThreadCounts(k)
    BY <1>3, <1>4, <2>3 DEF ThreadClose, ThreadCounts, In
  <2> QED BY <2>1, <2>2, <2>3 DEF Thread
\* The response is written with the step to "close".
<1>6. /\ request' \subseteq Conn /\ response' \in {response, response \cup {k}}
      /\ response' # response => l = "close"
      /\ l = "exited" => response' = response /\ thread[k] \in {"read", "write"} /\ peer[k] # "open"
  <2>1. CASE ThreadRead(k)
    BY <1>3, <1>4, <2>1 DEF ThreadRead, In, SyncIInv, SyncTypeOK
  <2>2. CASE ThreadWrite(k)
    BY <1>3, <1>4, <2>2 DEF ThreadWrite, In, SyncIInv, SyncTypeOK
  <2>3. CASE ThreadClose(k) \/ ThreadCounts(k)
    BY <1>3, <1>4, <2>3 DEF ThreadClose, ThreadCounts, In, SyncIInv, SyncTypeOK
  <2> QED BY <2>1, <2>2, <2>3 DEF Thread
<1>7. /\ nConn' = Cardinality({j \in Conn : thread'[j] = "done"})
      /\ nConn <= nConn' /\ nConn' \in 0..MaxConns
  <2> DEFINE D == {j \in Conn : thread[j] = "done"}
  <2>1. IsFiniteSet(D) /\ nConn = Cardinality(D) /\ nConn \in 0..MaxConns
    BY DoneFacts DEF SyncIInv, EachCountedOnce, SyncTypeOK
  <2>2. CASE thread[k] = "count"
    <3>1. nConn' = nConn + 1
      BY <2>2 DEF Thread, ThreadRead, ThreadWrite, ThreadClose, ThreadCounts, In
    <3>2. {j \in Conn : thread'[j] = "done"} = D \cup {k} /\ k \notin D
      BY <1>2, <1>4, <2>2
    <3>3. Cardinality({j \in Conn : thread'[j] = "done"}) \in 0..MaxConns
      BY DoneFacts
    <3> HIDE DEF D
    <3>4. Cardinality(D \cup {k}) = Cardinality(D) + 1
      BY <2>1, <3>2, FS_AddElement
    <3> QED BY <2>1, <3>1, <3>2, <3>3, <3>4
  <2>3. CASE thread[k] # "count"
    <3>1. nConn' = nConn
      BY <2>3 DEF Thread, ThreadRead, ThreadWrite, ThreadClose, ThreadCounts, In
    <3>2. {j \in Conn : thread'[j] = "done"} = D
      BY <1>1, <1>2, <1>4, <2>3
    <3> QED BY <2>1, <3>1, <3>2
  <2> QED BY <2>2, <2>3
<1>8. SyncTypeOK'
  <2>1. prevNConn' \in 0..nConn' /\ reported' \in 0..nConn'
    <3>1. prevNConn \in 0..nConn /\ reported \in 0..nConn /\ nConn \in 0..MaxConns
      BY DEF SyncIInv, SyncTypeOK
    <3> QED BY <1>1, <1>7, <3>1, Numbers
  <2>2. fds' \subseteq Conn /\ response' \subseteq Conn
    BY <1>5, <1>6 DEF SyncIInv, SyncTypeOK
  <2> QED BY <1>1, <1>4, <1>6, <1>7, <2>1, <2>2 DEF SyncIInv, SyncTypeOK
<1>9. DescriptorsOwned'
  <2>1. fds \subseteq Conn
    BY DEF SyncIInv, SyncTypeOK
  <2> QED BY <1>1, <1>2, <1>4, <1>5, <2>1 DEF SyncIInv, DescriptorsOwned
<1>10. AnsweredLast'
  <2>1. response \subseteq Conn
    BY DEF SyncIInv, SyncTypeOK
  <2> QED BY <1>1, <1>2, <1>4, <1>5, <1>6, <2>1 DEF SyncIInv, AnsweredLast
<1>11. LeaksOnlyToTheUnanswered'
  <2> SUFFICES ASSUME NEW j \in Conn, thread'[j] = "exited" PROVE j \notin response' /\ peer'[j] # "open"
    BY DEF LeaksOnlyToTheUnanswered
  <2>1. CASE j = k
    BY <1>1, <1>4, <1>6, <2>1 DEF SyncIInv, AnsweredLast
  <2>2. CASE j # k
    BY <1>1, <1>4, <1>6, <2>2 DEF SyncIInv, LeaksOnlyToTheUnanswered
  <2> QED BY <2>1, <2>2
<1>12. InOrder'
  <2>1. main = "create" => Head(backlog) \in fds'
    <3> SUFFICES ASSUME main = "create" PROVE Head(backlog) \in fds'
      OBVIOUS
    <3>1. backlog # <<>> /\ backlog \in Seq(Conn) /\ Head(backlog) \in fds
      BY DEF SyncIInv, InOrder, SyncTypeOK
    <3>2. Len(backlog) \in Nat \ {0} /\ Head(backlog) = backlog[1] /\ Head(backlog) \in Conn
      BY <3>1, EmptySeq, HeadTailProperties
    <3>3. backlog[1] = made - Len(backlog) + 1 /\ made \in 0..MaxConns
      BY <3>2 DEF SyncIInv, InOrder, SyncTypeOK
    <3>4. thread[Head(backlog)] = "none"
      BY <3>2, <3>3, Numbers DEF SyncIInv, InOrder, Conn
    <3> QED BY <1>1, <1>5, <3>1, <3>4
  <2>2. \A j \in Conn : thread'[j] # "none" <=> thread[j] # "none"
    BY <1>1, <1>2, <1>4
  <2> QED BY <1>1, <2>1, <2>2 DEF SyncIInv, InOrder
<1>13. EachCountedOnce' /\ Connected'
  BY <1>1, <1>7 DEF SyncIInv, EachCountedOnce, Connected
<1> QED
  BY <1>8, <1>9, <1>10, <1>11, <1>12, <1>13 DEF SyncIInv

-----------------------------------------------------------------------------
(***************************************************************************)
(* The clients.                                                            *)
(***************************************************************************)

\* A connection goes to the end of the backlog.
LEMMA ConnectSyncIInv == ASSUME SyncIInv, NEW c \in Client, Connect(c) PROVE SyncIInv'
<1>1. /\ main # "gone" /\ made < MaxConns /\ made' = made + 1 /\ backlog' = Append(backlog, made')
      /\ cpc' = [cpc EXCEPT ![c] = "send"] /\ sock' = [sock EXCEPT ![c] = made']
      /\ UNCHANGED <<main, thread, fds, nConn, prevNConn, reported, peer, request, response>>
  BY DEF Connect
<1>2. made \in 0..MaxConns /\ backlog \in Seq(Conn)
  BY DEF SyncIInv, SyncTypeOK
<1>3. made' \in 1..MaxConns /\ made' \in 0..MaxConns /\ made' # 0
  BY <1>1, <1>2, Numbers
<1>4. /\ backlog' \in Seq(Conn) /\ backlog' # <<>> /\ Len(backlog') = Len(backlog) + 1
      /\ \A j \in 1..Len(backlog) : backlog'[j] = backlog[j]
      /\ backlog'[Len(backlog) + 1] = made' /\ Len(backlog) \in Nat
  <2>1. made' \in Conn
    BY <1>3 DEF Conn
  <2> HIDE DEF Conn
  <2> QED BY <1>1, <1>2, <2>1, AppendProperties, LenProperties
<1>5. backlog # <<>> => Head(backlog') = Head(backlog)
  <2> SUFFICES ASSUME backlog # <<>> PROVE Head(backlog') = Head(backlog)
    OBVIOUS
  <2>1. 1 \in 1..Len(backlog)
    BY <1>2, <1>4, EmptySeq
  <2>2. Head(backlog') = backlog'[1] /\ Head(backlog) = backlog[1]
    BY <1>2, <1>4
  <2> QED BY <1>4, <2>1, <2>2
<1>6. SyncTypeOK'
  BY <1>1, <1>3, <1>4 DEF SyncIInv, SyncTypeOK
<1>7. DescriptorsOwned'
  BY <1>1, <1>4, <1>5 DEF SyncIInv, DescriptorsOwned
<1>8. LeaksOnlyToTheUnanswered' /\ AnsweredLast' /\ EachCountedOnce'
  BY <1>1 DEF SyncIInv, LeaksOnlyToTheUnanswered, AnsweredLast, EachCountedOnce
<1>9. Connected'
  BY <1>1, <1>3 DEF SyncIInv, Connected, SyncTypeOK
<1>10. InOrder'
  <2>1. Len(backlog') <= made' /\ made' - Len(backlog') = made - Len(backlog)
    BY <1>1, <1>2, <1>4 DEF SyncIInv, InOrder
  <2>2. ASSUME NEW j \in 1..Len(backlog') PROVE backlog'[j] = made' - Len(backlog') + j
    <3>1. CASE j \in 1..Len(backlog)
      BY <1>4, <2>1, <3>1 DEF SyncIInv, InOrder
    <3>2. CASE j = Len(backlog) + 1
      BY <1>1, <1>2, <1>4, <3>2
    <3> QED BY <1>4, <3>1, <3>2
  <2>3. main = "create" => Head(backlog') \in fds
    BY <1>5 DEF SyncIInv, InOrder
  <2> QED BY <1>1, <1>4, <2>1, <2>2, <2>3 DEF SyncIInv, InOrder
<1> QED
  BY <1>6, <1>7, <1>8, <1>9, <1>10 DEF SyncIInv

\* What clients do after that changes nothing of the server.
LEMMA ClientSyncIInv ==
    ASSUME SyncIInv, NEW c \in Client, Send(c) \/ ReadAndClose(c) \/ Interrupt(c) \/ Start(c) \/ Reset(c)
    PROVE  SyncIInv'
<1>1. UNCHANGED srvVars /\ made' = made /\ response' = response
  BY DEF Send, ReadAndClose, Interrupt, Start, Reset
<1>2. /\ cpc \in [Client -> {"off", "connect", "send", "read"}] /\ sock \in [Client -> 0..MaxConns]
      /\ peer \in [Conn -> {"open", "closed", "reset"}] /\ request \subseteq Conn
  BY DEF SyncIInv, SyncTypeOK
<1>3. /\ cpc' \in [Client -> {"off", "connect", "send", "read"}] /\ sock' \in [Client -> 0..MaxConns]
      /\ \A d \in Client : cpc'[d] \in {"send", "read"} => sock'[d] # 0
  <2>1. 0 \in 0..MaxConns
    BY Numbers
  <2>2. CASE Send(c)
    BY <1>2, <2>2 DEF Send, SyncIInv, Connected
  <2>3. CASE ReadAndClose(c) \/ Interrupt(c) \/ Start(c)
    BY <1>2, <2>1, <2>3 DEF ReadAndClose, Interrupt, Start, SyncIInv, Connected
  <2>4. CASE Reset(c)
    BY <1>2, <2>4 DEF Reset, SyncIInv, Connected
  <2> QED BY <2>2, <2>3, <2>4
<1>4. /\ peer' \in [Conn -> {"open", "closed", "reset"}]
      /\ \A k \in Conn : peer[k] # "open" => peer'[k] # "open"
  <2>1. CASE Send(c) \/ Start(c)
    BY <1>2, <2>1 DEF Send, Start
  <2>2. CASE ReadAndClose(c) \/ Interrupt(c)
    <3>1. peer' = [peer EXCEPT ![sock[c]] = IF @ = "open" THEN "closed" ELSE @]
      BY <2>2 DEF ReadAndClose, Interrupt
    <3> QED BY <1>2, <3>1
  <2>3. CASE Reset(c)
    BY <1>2, <2>3 DEF Reset
  <2> QED BY <2>1, <2>2, <2>3
<1>5. request' \subseteq Conn
  <2>1. CASE Send(c)
    <3>1. request' = request \cup {sock[c]} /\ cpc[c] = "send"
      BY <2>1 DEF Send
    <3>2. sock[c] \in 0..MaxConns /\ sock[c] # 0
      BY <1>2, <3>1 DEF SyncIInv, Connected
    <3>3. sock[c] \in Conn
      BY <3>2, Numbers DEF Conn
    <3> QED BY <1>2, <3>1, <3>3
  <2>2. CASE ~Send(c)
    BY <1>2, <2>2 DEF ReadAndClose, Interrupt, Start, Reset
  <2> QED BY <2>1, <2>2
<1>6. SyncTypeOK'
  BY <1>1, <1>3, <1>4, <1>5 DEF SyncIInv, SyncTypeOK, srvVars
<1>7. LeaksOnlyToTheUnanswered'
  BY <1>1, <1>4 DEF SyncIInv, LeaksOnlyToTheUnanswered, srvVars
<1>8. DescriptorsOwned' /\ AnsweredLast' /\ EachCountedOnce' /\ InOrder'
  BY <1>1 DEF SyncIInv, DescriptorsOwned, AnsweredLast, EachCountedOnce, InOrder, srvVars
<1>9. Connected'
  BY <1>3 DEF Connected
<1> QED
  BY <1>6, <1>7, <1>8, <1>9 DEF SyncIInv

-----------------------------------------------------------------------------
(***************************************************************************)
(* The invariant and what follows from it.                                 *)
(***************************************************************************)
LEMMA NextSyncIInv == SyncIInv /\ [Next]_vars => SyncIInv'
<1> SUFFICES ASSUME SyncIInv, [Next]_vars PROVE SyncIInv'
  OBVIOUS
<1>1. CASE Main \/ ThreadNewConnFails
  BY <1>1, AcceptSyncIInv, ThreadNewConnSyncIInv, ReportSyncIInv DEF Main
<1>2. CASE \E k \in Conn : Thread(k)
  BY <1>2, ThreadSyncIInv
<1>3. ASSUME NEW c \in Client, Process(c) \/ Interrupt(c) \/ Start(c) \/ Reset(c) PROVE SyncIInv'
  BY <1>3, ConnectSyncIInv, ClientSyncIInv DEF Process
<1>4. CASE UNCHANGED vars
  BY <1>4 DEF SyncIInv, SyncTypeOK, DescriptorsOwned, LeaksOnlyToTheUnanswered, InOrder, AnsweredLast,
     EachCountedOnce, Connected, vars, srvVars, cliVars
<1> QED
  BY <1>1, <1>2, <1>3, <1>4 DEF Next

\* The invariant of the synchronous server: connections get their threads in
\* the order in which they were made, and a descriptor follows its connection
\* from accept() to close().
THEOREM SyncInvariance == Spec => []SyncIInv
  BY InitSyncIInv, NextSyncIInv, PTL DEF Spec

\* Every variable of srv.c and client.c keeps its type; in particular the
\* report, computed from several loads of n_conn, counts no connection twice.
THEOREM SyncTypes == Spec => []SyncTypeOK
<1>1. SyncIInv => SyncTypeOK
  BY DEF SyncIInv
<1> QED
  BY <1>1, SyncInvariance, PTL

\* No thread uses a descriptor that was closed, and every descriptor has an
\* owner.
THEOREM DescriptorOwnership == Spec => []DescriptorsOwned
<1>1. SyncIInv => DescriptorsOwned
  BY DEF SyncIInv
<1> QED
  BY <1>1, SyncInvariance, PTL

\* conn_routine() closes the socket of every client that it has answered.
THEOREM AnsweredAreClosed == Spec => []LeaksOnlyToTheUnanswered
<1>1. SyncIInv => LeaksOnlyToTheUnanswered
  BY DEF SyncIInv
<1> QED
  BY <1>1, SyncInvariance, PTL
=============================================================================
