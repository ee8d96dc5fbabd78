------------------------------ MODULE SyncSrv -------------------------------
(***************************************************************************)
(* The synchronous server src/srv/srv.c, which creates a thread for each   *)
(* connection, and the load clients src/client.c that connect to it, each  *)
(* in an endless loop.  A user may interrupt a client at any point and     *)
(* start it again, and a connection may be reset.                          *)
(*                                                                         *)
(* Connections are numbered in the order of connect().  The server holds   *)
(* one descriptor for each that is accepted and not closed.                *)
(***************************************************************************)
EXTENDS Integers, FiniteSets, Sequences

CONSTANTS
    Client,     \* client processes
    MaxConns,   \* bound: connections made in all
    MaxFd,      \* descriptors the server may have for connections
    MaxThreads  \* threads the system lets it have at once

ASSUME SyncBounds == MaxConns \in Nat /\ MaxFd \in Nat \ {0} /\ MaxThreads \in Nat \ {0}

Conn == 1..MaxConns

VARIABLES
    main,       \* where main() is; "gone": the process has exited, and what
                \* is said of it below is what was true then
    backlog,    \* connections that wait for accept()
    thread,     \* the connection's thread: where conn_routine() is
    fds,        \* connections the server has a descriptor of
    nConn, prevNConn, \* n_conn and prev_n_conn
    reported,   \* history: connections in the reports printed so far
    made,       \* connections made so far
    cpc,        \* where main() of each client is; "off": not running
    sock,       \* the connection of each client, or 0
    peer,       \* what became of the client's side: open, closed, reset
    request,    \* connections with a request not yet read
    response    \* connections whose response was written

srvVars == <<main, backlog, thread, fds, nConn, prevNConn, reported>>
cliVars == <<made, cpc, sock, peer>>
vars    == <<srvVars, cliVars, request, response>>

Live == {k \in Conn : thread[k] \in {"read", "write", "close", "count"}}

Init ==
    /\ main = "accept" /\ backlog = <<>> /\ fds = {}
    /\ thread = [k \in Conn |-> "none"]
    /\ nConn = 0 /\ prevNConn = 0 /\ reported = 0 /\ made = 0
    /\ cpc = [c \in Client |-> "connect"] /\ sock = [c \in Client |-> 0]
    /\ peer = [k \in Conn |-> "open"]
    /\ request = {} /\ response = {}

-----------------------------------------------------------------------------
(***************************************************************************)
(* main() of the server.                                                   *)
(***************************************************************************)

\* accept() takes a descriptor and then a connection.
Accept ==
    /\ main = "accept" /\ Cardinality(fds) < MaxFd /\ backlog # <<>>
    /\ fds' = fds \cup {Head(backlog)} /\ main' = "create"
    /\ UNCHANGED <<backlog, thread, nConn, prevNConn, reported, cliVars, request, response>>

\* Without a descriptor to take it fails at once, which ends the server.
AcceptFails ==
    /\ main = "accept" /\ Cardinality(fds) = MaxFd
    /\ main' = "gone"
    /\ UNCHANGED <<backlog, thread, fds, nConn, prevNConn, reported, cliVars, request, response>>

\* thread_new_conn() for the connection accepted last.
ThreadNewConn ==
    /\ main = "create" /\ Cardinality(Live) < MaxThreads
    /\ thread' = [thread EXCEPT ![Head(backlog)] = "read"]
    /\ backlog' = Tail(backlog) /\ main' = "created"
    /\ UNCHANGED <<fds, nConn, prevNConn, reported, cliVars, request, response>>

\* pthread_create() fails.  It does not set errno, so that what errno happens
\* to be decides: the server tries again (no change), or it exits.
ThreadNewConnFails ==
    /\ main = "create" /\ Cardinality(Live) = MaxThreads
    /\ main' = "gone"
    /\ UNCHANGED <<backlog, thread, fds, nConn, prevNConn, reported, cliVars, request, response>>

\* Less than a second has passed since the last report.
NoReport ==
    /\ main = "created" /\ main' = "accept"
    /\ UNCHANGED <<backlog, thread, fds, nConn, prevNConn, reported, cliVars, request, response>>

\* The report is printed from one atomic_load(&n_conn) ...
PrintReport ==
    /\ main = "created" /\ main' = "printed"
    /\ reported' = reported + nConn - prevNConn
    /\ UNCHANGED <<backlog, thread, fds, nConn, prevNConn, cliVars, request, response>>

\* A wrong variant of StoreReport that forgets prev_n_conn.
ForgetReport ==
    /\ main = "printed" /\ main' = "accept"
    /\ UNCHANGED <<backlog, thread, fds, nConn, prevNConn, reported, cliVars, request, response>>

\* ... and prev_n_conn is stored from another.
StoreReport ==
    /\ main = "printed" /\ main' = "accept"
    /\ prevNConn' = nConn
    /\ UNCHANGED <<backlog, thread, fds, nConn, reported, cliVars, request, response>>

-----------------------------------------------------------------------------
(***************************************************************************)
(* conn_routine(), in the thread of connection k.                          *)
(***************************************************************************)
In(k, l) == main # "gone" /\ thread[k] = l

\* A wrong variant of ThreadRead that reads until the stream ends.
ReadToTheEnd(k) ==
    /\ In(k, "read") /\ peer[k] # "open"
    /\ thread' = [thread EXCEPT ![k] = IF k \in request THEN "write" ELSE "exited"]
    /\ UNCHANGED <<main, backlog, fds, nConn, prevNConn, reported, cliVars, request, response>>

\* read() returns a request, the end of the stream, or an error.  In the last
\* two cases pthread_exit() ends the thread and leaves the socket open.
ThreadRead(k) ==
    /\ In(k, "read")
    /\ \/ /\ k \in request /\ request' = request \ {k}
          /\ thread' = [thread EXCEPT ![k] = "write"]
       \/ /\ (k \notin request /\ peer[k] = "closed") \/ peer[k] = "reset"
          /\ thread' = [thread EXCEPT ![k] = "exited"] /\ UNCHANGED request
    /\ UNCHANGED <<main, backlog, fds, nConn, prevNConn, reported, cliVars, response>>

\* A wrong variant of ThreadWrite that takes an incomplete write for a failure.
ShortWriteFails(k) ==
    /\ In(k, "write") /\ peer[k] # "reset"
    /\ response' = response \cup {k}
    /\ \E l \in {"close", "exited"} : thread' = [thread EXCEPT ![k] = l]
    /\ UNCHANGED <<main, backlog, fds, nConn, prevNConn, reported, cliVars, request>>

\* write(): it succeeds even if the client has closed, and fails after a reset.
ThreadWrite(k) ==
    /\ In(k, "write")
    /\ \/ /\ peer[k] # "reset" /\ response' = response \cup {k}
          /\ thread' = [thread EXCEPT ![k] = "close"]
       \/ /\ peer[k] = "reset" /\ UNCHANGED response
          /\ thread' = [thread EXCEPT ![k] = "exited"]
    /\ UNCHANGED <<main, backlog, fds, nConn, prevNConn, reported, cliVars, request>>

\* A wrong variant of ThreadClose: the descriptor is the one of another
\* connection by now.
CloseAnother(k) ==
    /\ In(k, "close") /\ thread' = [thread EXCEPT ![k] = "count"]
    /\ fds' = fds \ {CHOOSE f \in fds : \A g \in fds : g <= f}
    /\ UNCHANGED <<main, backlog, nConn, prevNConn, reported, cliVars, request, response>>

ThreadClose(k) ==
    /\ In(k, "close") /\ thread' = [thread EXCEPT ![k] = "count"]
    /\ fds' = fds \ {k}
    /\ UNCHANGED <<main, backlog, nConn, prevNConn, reported, cliVars, request, response>>

\* atomic_fetch_add(), and the end of the thread.
ThreadCounts(k) ==
    /\ In(k, "count") /\ thread' = [thread EXCEPT ![k] = "done"]
    /\ nConn' = nConn + 1
    /\ UNCHANGED <<main, backlog, fds, prevNConn, reported, cliVars, request, response>>

-----------------------------------------------------------------------------
(***************************************************************************)
(* src/client.c, and what may happen to it.                                *)
(***************************************************************************)

\* socket() and connect().  If nobody listens, connect() fails and "goto again"
\* repeats it without a change.
Connect(c) ==
    /\ cpc[c] = "connect" /\ main # "gone" /\ made < MaxConns
    /\ made' = made + 1 /\ backlog' = Append(backlog, made')
    /\ cpc' = [cpc EXCEPT ![c] = "send"] /\ sock' = [sock EXCEPT ![c] = made']
    /\ UNCHANGED <<main, thread, fds, nConn, prevNConn, reported, peer, request, response>>

Send(c) ==
    /\ cpc[c] = "send" /\ cpc' = [cpc EXCEPT ![c] = "read"]
    /\ request' = request \cup {sock[c]}
    /\ UNCHANGED <<srvVars, made, sock, peer, response>>

\* The server's side of the connection of c is closed.
Finished(k) == main = "gone" \/ peer[k] = "reset" \/ (thread[k] \in {"count", "done"} /\ k \notin fds)

\* One read(), whatever it returns, then close() and "goto again".
ReadAndClose(c) ==
    /\ cpc[c] = "read" /\ (sock[c] \in response \/ Finished(sock[c]))
    /\ cpc' = [cpc EXCEPT ![c] = "connect"] /\ sock' = [sock EXCEPT ![c] = 0]
    /\ peer' = [peer EXCEPT ![sock[c]] = IF @ = "open" THEN "closed" ELSE @]
    /\ UNCHANGED <<srvVars, made, request, response>>

\* A user interrupts the client; the kernel closes its socket.
Interrupt(c) ==
    /\ cpc[c] \in {"send", "read"}
    /\ cpc' = [cpc EXCEPT ![c] = "off"] /\ sock' = [sock EXCEPT ![c] = 0]
    /\ peer' = [peer EXCEPT ![sock[c]] = IF @ = "open" THEN "closed" ELSE @]
    /\ UNCHANGED <<srvVars, made, request, response>>
Start(c) ==
    /\ cpc[c] = "off" /\ cpc' = [cpc EXCEPT ![c] = "connect"]
    /\ UNCHANGED <<srvVars, made, sock, peer, request, response>>

\* The connection is reset.
Reset(c) ==
    /\ sock[c] # 0 /\ peer[sock[c]] = "open"
    /\ peer' = [peer EXCEPT ![sock[c]] = "reset"]
    /\ UNCHANGED <<srvVars, made, cpc, sock, request, response>>

-----------------------------------------------------------------------------
Main   == Accept \/ AcceptFails \/ ThreadNewConn \/ NoReport \/ PrintReport \/ StoreReport
Thread(k) == ThreadRead(k) \/ ThreadWrite(k) \/ ThreadClose(k) \/ ThreadCounts(k)
Process(c) == Connect(c) \/ Send(c) \/ ReadAndClose(c)

Next == \/ Main \/ ThreadNewConnFails
        \/ \E k \in Conn : Thread(k)
        \/ \E c \in Client : Process(c) \/ Interrupt(c) \/ Start(c) \/ Reset(c)

\* The system schedules every thread and process.  Nobody must interrupt a
\* client, start it again, or reset a connection, and thread_new_conn() may try
\* forever rather than exit.
Fairness == /\ WF_vars(Main)
            /\ \A k \in Conn : WF_vars(Thread(k))
            /\ \A c \in Client : WF_vars(Process(c))
Spec == Init /\ [][Next]_vars /\ Fairness

-----------------------------------------------------------------------------
(***************************************************************************)
(* Correctness.                                                            *)
(***************************************************************************)

\* Type invariant; the bounds of prevNConn and reported say that no connection
\* is counted or reported twice, whatever the three loads of n_conn return.
SyncTypeOK ==
    /\ main \in {"accept", "create", "created", "printed", "gone"}
    /\ backlog \in Seq(Conn) /\ fds \subseteq Conn
    /\ thread \in [Conn -> {"none", "read", "write", "close", "count", "done", "exited"}]
    /\ nConn \in 0..MaxConns /\ prevNConn \in 0..nConn /\ reported \in 0..nConn
    /\ made \in 0..MaxConns
    /\ cpc \in [Client -> {"off", "connect", "send", "read"}]
    /\ sock \in [Client -> 0..MaxConns]
    /\ peer \in [Conn -> {"open", "closed", "reset"}]
    /\ request \subseteq Conn /\ response \subseteq Conn

(***************************************************************************)
(* No thread works on a descriptor that another thread has closed, and     *)
(* apart from the connection being accepted, every descriptor is that of a *)
(* running thread or of one that ended in the middle of conn_routine().    *)
(***************************************************************************)
DescriptorsOwned ==
    /\ \A k \in Conn : thread[k] \in {"read", "write", "close", "exited"} => k \in fds
    /\ \A k \in fds : \/ thread[k] \in {"read", "write", "close", "exited"}
                      \/ main \in {"create", "gone"} /\ backlog # <<>> /\ k = Head(backlog)

(***************************************************************************)
(* A descriptor is leaked only to a client that left without its answer:   *)
(* conn_routine() closes the socket of everyone it has answered.           *)
(***************************************************************************)
LeaksOnlyToTheUnanswered ==
    \A k \in Conn : thread[k] = "exited" => k \notin response /\ peer[k] # "open"

\* What the code never states, but needs for the above: connections are
\* accepted in the order in which they were made, one at a time; a response is
\* the last thing a thread does for its client; and the report never runs
\* ahead of the number it was computed from.
InOrder ==
    /\ Len(backlog) <= made
    /\ \A j \in 1..Len(backlog) : backlog[j] = made - Len(backlog) + j
    /\ \A k \in Conn : thread[k] # "none" <=> k <= made - Len(backlog)
    /\ main = "create" => backlog # <<>> /\ Head(backlog) \in fds
AnsweredLast == \A k \in response : thread[k] \in {"close", "count", "done"}
EachCountedOnce ==
    /\ nConn = Cardinality({k \in Conn : thread[k] = "done"})
    /\ main \notin {"printed", "gone"} => reported <= prevNConn
Connected == \A c \in Client : cpc[c] \in {"send", "read"} => sock[c] # 0

\* The inductive invariant of the module.
SyncIInv == /\ SyncTypeOK /\ DescriptorsOwned /\ LeaksOnlyToTheUnanswered
            /\ InOrder /\ AnsweredLast /\ EachCountedOnce /\ Connected

(***************************************************************************)
(* A client that has sent its request and stays gets an answer, unless the *)
(* connection is reset or the server ends.                                 *)
(***************************************************************************)
RequestAnswered ==
    \A c \in Client : \A k \in Conn :
        cpc[c] = "read" /\ sock[c] = k ~>
            k \in response \/ sock[c] # k \/ peer[k] = "reset" \/ main = "gone"

(***************************************************************************)
(* A claim of the source that the code does not keep.  "creates 1 thread   *)
(* for each new connection" (src/README:1): no connection stays without    *)
(* its thread.                                                             *)
(***************************************************************************)
ThreadForEachConnection ==
    \A k \in Conn : k \in {backlog[j] : j \in DOMAIN backlog} ~> thread[k] # "none"
=============================================================================
