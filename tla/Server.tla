------------------------------- MODULE Server -------------------------------
(***************************************************************************)
(* The worker processes of srv_async on their common listening socket.     *)
(* Worker.tla shows one of them in detail; here a pass over its queue      *)
(* serves each connection at most one request, and what matters is who     *)
(* wakes up, who accepts, who sleeps, and what others lose when one exits. *)
(***************************************************************************)
EXTENDS Naturals, FiniteSets, Sequences

CONSTANTS
    Worker,     \* worker processes
    Conn,       \* clients; each has one connection at a time
    MaxFd       \* connections a worker has descriptors for

ASSUME ServerAssumption == MaxFd \in Nat \ {0} /\ Worker \cap {"none", "backlog"} = {}

VARIABLES
    backlog,    \* connections in the queue of the listening socket
    owner,      \* the worker that accepted each connection, "backlog" or "none"
    req,        \* what waits to be read: nothing, a request, or the last one
    active,     \* connections with is_active
    stale,      \* connections whose last_active is older than MAX_ACTIVE_TIMEOUT
    wpc,        \* where each worker is in handle_connections_routine(), or "gone"
    turn,       \* connections that its pass has yet to resume
    sigio       \* workers with a pending SIGIO

kernelVars == <<backlog, sigio>>
connVars   == <<owner, req, active, stale>>
vars       == <<kernelVars, connVars, wpc, turn>>

Own(w) == {c \in Conn : owner[c] = w}
Full(w) == Cardinality(Own(w)) >= MaxFd
Goto(w, l) == wpc' = [wpc EXCEPT ![w] = l]

\* Every worker has called listen(); none has a connection.
Init ==
    /\ backlog = <<>> /\ sigio = {}
    /\ owner = [c \in Conn |-> "none"] /\ req = [c \in Conn |-> "none"]
    /\ active = {} /\ stale = {}
    /\ wpc = [w \in Worker |-> "poll"] /\ turn = [w \in Worker |-> {}]

-----------------------------------------------------------------------------
(***************************************************************************)
(* A worker.                                                               *)
(***************************************************************************)

\* The pass goes over what the queue holds when it starts.
StartPass(w) == Goto(w, "pass") /\ turn' = [turn EXCEPT ![w] = {c \in Conn : owner'[c] = w}]

\* A wrong variant of PollReports: a sleeping worker is not woken.
PollReportsAwake(w) ==
    /\ wpc[w] = "poll" /\ backlog # <<>>
    /\ Goto(w, "accept")
    /\ UNCHANGED <<kernelVars, connVars, turn>>
\* epoll_pwait() reports the listening socket, level-triggered: to every
\* worker that looks before the connection is accepted, also out of its sleep.
PollReports(w) ==
    /\ wpc[w] \in {"poll", "asleep"} /\ backlog # <<>>
    /\ Goto(w, "accept")
    /\ UNCHANGED <<kernelVars, connVars, turn>>

\* accept() and create_new_conn().
AcceptConn(w) ==
    /\ wpc[w] = "accept" /\ backlog # <<>> /\ ~Full(w)
    /\ owner' = [owner EXCEPT ![Head(backlog)] = w]
    /\ active' = active \cup {Head(backlog)} /\ stale' = stale \ {Head(backlog)}
    /\ backlog' = Tail(backlog)
    /\ UNCHANGED <<req, sigio>>
    /\ StartPass(w)

\* A wrong variant of AcceptNone: accept() blocks, as without set_nonblock().
AcceptBlocks(w) ==
    /\ wpc[w] = "accept" /\ backlog # <<>> /\ Full(w)
    /\ UNCHANGED <<kernelVars, connVars>>
    /\ StartPass(w)

\* accept() fails with EAGAIN, as another worker was faster, or with EMFILE.
AcceptNone(w) ==
    /\ wpc[w] = "accept" /\ (backlog = <<>> \/ Full(w))
    /\ UNCHANGED <<kernelVars, connVars>>
    /\ StartPass(w)

\* epoll_pwait() with timeout 0 reports nothing.
PollNothing(w) ==
    /\ wpc[w] = "poll" /\ backlog = <<>> /\ active \cap Own(w) # {}
    /\ UNCHANGED <<kernelVars, connVars>>
    /\ StartPass(w)

\* epoll_pwait() with timeout -1 is interrupted by a SIGIO that was pending.
PollInterrupted(w) ==
    /\ wpc[w] = "poll" /\ backlog = <<>> /\ active \cap Own(w) = {}
    /\ w \in sigio /\ sigio' = sigio \ {w}
    /\ UNCHANGED <<backlog, connVars>>
    /\ StartPass(w)

FallAsleep(w) ==
    /\ wpc[w] = "poll" /\ backlog = <<>> /\ active \cap Own(w) = {} /\ w \notin sigio
    /\ Goto(w, "asleep")
    /\ UNCHANGED <<kernelVars, connVars, turn>>

\* A wrong variant of Serve: the pass comes back to a connection that closed.
ServeAgain(w, c) ==
    /\ wpc[w] = "pass" /\ c \in turn[w] /\ req[c] # "none"
    /\ turn' = [turn EXCEPT ![w] = IF req[c] = "last" THEN @ ELSE @ \ {c}]
    /\ req' = [req EXCEPT ![c] = "none"] /\ stale' = stale \ {c}
    /\ IF req[c] = "last" THEN owner' = [owner EXCEPT ![c] = "none"] /\ active' = active \ {c}
       ELSE active' = active \cup {c} /\ UNCHANGED owner
    /\ UNCHANGED <<kernelVars, wpc>>

\* A coroutine reads a request and answers it; after the last one it closes.
Serve(w, c) ==
    /\ wpc[w] = "pass" /\ c \in turn[w] /\ req[c] # "none"
    /\ turn' = [turn EXCEPT ![w] = @ \ {c}]
    /\ req' = [req EXCEPT ![c] = "none"] /\ stale' = stale \ {c}
    /\ IF req[c] = "last" THEN owner' = [owner EXCEPT ![c] = "none"] /\ active' = active \ {c}
       ELSE active' = active \cup {c} /\ UNCHANGED owner
    /\ UNCHANGED <<kernelVars, wpc>>

\* A wrong variant of FindNothing without curr_conn_set_inactive().
FindNothingActive(w, c) ==
    /\ wpc[w] = "pass" /\ c \in turn[w] /\ req[c] = "none"
    /\ turn' = [turn EXCEPT ![w] = @ \ {c}]
    /\ UNCHANGED <<kernelVars, connVars, wpc>>

\* Its read() would block; after a while without data it is inactive.
FindNothing(w, c) ==
    /\ wpc[w] = "pass" /\ c \in turn[w] /\ req[c] = "none"
    /\ turn' = [turn EXCEPT ![w] = @ \ {c}]
    /\ active' = IF c \in stale THEN active \ {c} ELSE active
    /\ UNCHANGED <<kernelVars, owner, req, stale, wpc>>

PassEnds(w) ==
    /\ wpc[w] = "pass" /\ turn[w] = {}
    /\ Goto(w, "poll")
    /\ UNCHANGED <<kernelVars, connVars, turn>>

\* The process ends: its connections, and what it was to do, end with it.
Exits(w, lost) ==
    /\ Goto(w, "gone") /\ turn' = [turn EXCEPT ![w] = {}] /\ sigio' = sigio \ {w}
    /\ owner' = [c \in Conn |-> IF c \in lost THEN "none" ELSE owner[c]]
    /\ req' = [c \in Conn |-> IF c \in lost THEN "none" ELSE req[c]]
    /\ active' = active \ lost /\ stale' = stale \ lost

\* create_new_conn() has no memory for a context: exit() in the loop.
CreateFails(w) ==
    /\ wpc[w] = "accept" /\ backlog # <<>> /\ ~Full(w)
    /\ backlog' = Tail(backlog)
    /\ Exits(w, Own(w) \cup {Head(backlog)})

\* A coroutine ends the process: SIGPIPE of a write(), or exit().
CoroutineDies(w) ==
    /\ wpc[w] = "pass" /\ turn[w] # {}
    /\ UNCHANGED backlog
    /\ Exits(w, Own(w))

Step(w) == \/ PollReports(w) \/ AcceptConn(w) \/ AcceptNone(w)
           \/ PollNothing(w) \/ PollInterrupted(w) \/ FallAsleep(w)
           \/ (\E c \in Conn : Serve(w, c) \/ FindNothing(w, c))
           \/ PassEnds(w) \/ CreateFails(w) \/ CoroutineDies(w)

-----------------------------------------------------------------------------
(***************************************************************************)
(* Clients, the kernel and the clock.                                      *)
(***************************************************************************)
\* (The backlog is there until the last process has ended, the master.)
Connect(c) ==
    /\ owner[c] = "none"
    /\ owner' = [owner EXCEPT ![c] = "backlog"] /\ backlog' = Append(backlog, c)
    /\ UNCHANGED <<sigio, req, active, stale, wpc, turn>>

\* A wrong variant of Signal: without sigprocmask() it is always lost.
SignalUnblocked(c) == UNCHANGED sigio
\* The owner gets SIGIO; in epoll_pwait() it is ignored and lost.
Signal(c) == sigio' = sigio \cup {w \in Worker : owner[c] = w /\ wpc[w] # "asleep"}

\* A request arrives; the last one asks to close the connection.
Send(c) ==
    /\ owner[c] # "none" /\ req[c] = "none"
    /\ \E r \in {"request", "last"} : req' = [req EXCEPT ![c] = r]
    /\ Signal(c)
    /\ UNCHANGED <<backlog, owner, active, stale, wpc, turn>>

GrowStale(c) ==
    /\ owner[c] \in Worker /\ c \notin stale
    /\ stale' = stale \cup {c}
    /\ UNCHANGED <<kernelVars, owner, req, active, wpc, turn>>

Next == \/ \E w \in Worker : Step(w)
        \/ \E c \in Conn : Connect(c) \/ Send(c) \/ GrowStale(c)

\* The kernel runs every worker that is not gone, and the clock does not stop.
Fairness == /\ \A w \in Worker : WF_vars(Step(w))
            /\ \A c \in Conn : WF_vars(GrowStale(c))

Spec == Init /\ [][Next]_vars /\ Fairness

-----------------------------------------------------------------------------
\* Types; and what a worker has yet to resume is its own.
ServerTypeOK ==
    /\ owner \in [Conn -> Worker \cup {"none", "backlog"}]
    /\ req \in [Conn -> {"none", "request", "last"}]
    /\ active \subseteq Conn /\ stale \subseteq Conn /\ sigio \subseteq Worker
    /\ wpc \in [Worker -> {"poll", "asleep", "accept", "pass", "gone"}]
    /\ \A w \in Worker : turn[w] \subseteq Own(w) /\ Cardinality(Own(w)) <= MaxFd
    /\ {backlog[k] : k \in DOMAIN backlog} = {c \in Conn : owner[c] = "backlog"}
    /\ Len(backlog) = Cardinality({c \in Conn : owner[c] = "backlog"})

\* The inductive invariant of the module: besides, a connection is in the
\* backlog once, and nobody has more connections than can be counted.
InBacklogOnce == /\ backlog \in Seq(Conn)
                 /\ \A j, k \in DOMAIN backlog : backlog[j] = backlog[k] => j = k
ServerIInv == /\ ServerTypeOK /\ InBacklogOnce
              /\ turn \in [Worker -> SUBSET Conn]
              /\ \A o \in Worker \cup {"backlog"} : IsFiniteSet({c \in Conn : owner[c] = o})

\* A request that came after the last read() of its connection is announced by
\* a pending SIGIO, or comes up in this pass or in the one about to start.
RequestsNoticed ==
    \A w \in Worker : \A c \in Own(w) :
        c \notin active /\ req[c] # "none" =>
            wpc[w] \in {"asleep", "accept"} \/ w \in sigio \/ (wpc[w] = "pass" /\ c \in turn[w])

(***************************************************************************)
(* No worker falls asleep over a request, whoever accepts connections      *)
(* meanwhile: each decides by its own count and its own SIGIO, and the     *)
(* one who loses a race for a connection makes another pass                *)
(* (srv_routines.c:121).                                                   *)
(***************************************************************************)
NoneSleepsOverRequest ==
    [][\A w \in Worker : wpc[w] # "asleep" /\ wpc'[w] = "asleep" =>
                            \A c \in Own(w) : req[c] = "none"]_vars

(***************************************************************************)
(* A connection is accepted in the end although the workers are busy with  *)
(* others, and some of them may exit, unless every worker that is left is  *)
(* at its limit of descriptors (epoll_pwait() in every round of            *)
(* handle_connections_routine()).                                          *)
(***************************************************************************)
NobodyCan == \A w \in Worker : Full(w) \/ wpc[w] = "gone"
AcceptedInTheEnd ==
    \A c \in Conn : owner[c] = "backlog" ~> (owner[c] # "backlog" \/ NobodyCan)

(***************************************************************************)
(* What arrives while the owner is awake is served: not even losing the    *)
(* race for a new connection, or having no descriptor for it, keeps a      *)
(* worker from those it has (set_nonblock() on the listening socket,       *)
(* srv_routines.c:91), as long as the worker lives.                        *)
(***************************************************************************)
Waits(c) == owner[c] \in Worker /\ req[c] # "none"
LosersServeOn ==
    \A c \in Conn : (Waits(c) /\ wpc[owner[c]] # "asleep") ~> ~Waits(c)

(***************************************************************************)
(* When clients leave it alone, a worker comes to rest, whoever accepted   *)
(* their connections.  The exception is a worker that has no descriptor    *)
(* left for a connection that waits: it polls and fails for ever           *)
(* (srv_routines.c:132).                                                   *)
(***************************************************************************)
Quiet == /\ \A c \in Conn : ~Waits(c)
         /\ backlog = <<>> \/ NobodyCan
RestsOrIsFull ==
    <>[]Quiet => <>[](\A w \in Worker : wpc[w] \in {"asleep", "gone"} \/ (Full(w) /\ backlog # <<>>))

(***************************************************************************)
(* As long as clients keep connecting, a request that reached a sleeping   *)
(* worker is served after all ("Handle all http requests received from     *)
(* client one by one", srv_routines.c:43).  True of one worker only: with  *)
(* several, another one may take every new connection.                     *)
(***************************************************************************)
NextConnectionHelps ==
    []<>(backlog # <<>>) => \A c \in Conn : Waits(c) ~> ~Waits(c)
=============================================================================
