---------------------------- MODULE ConnService ----------------------------
(***************************************************************************)
(* What a worker process of srv_async promises to the clients it accepted, *)
(* told in terms of their sockets only: connections are served one at a    *)
(* time, each in its own turn.  Contexts, their cache, the run queue and   *)
(* the counters of srv_conn_ctxt.c are invisible here; ConnCtx.tla         *)
(* implements this module.                                                 *)
(***************************************************************************)
CONSTANTS
    Fd,     \* the descriptors of connection sockets
    NoFd    \* no connection has the turn

VARIABLES
    serving,    \* the sockets that were accepted and are not closed
    busy,       \* those that must get a turn without waiting for their client
    turn,       \* the socket whose coroutine runs, or NoFd
    up          \* the process is alive

vars == <<serving, busy, turn, up>>

Init == serving = {} /\ busy = {} /\ turn = NoFd /\ up = TRUE

\* A new client is served; it is busy from the start.
Accept(s) ==
    /\ up /\ turn = NoFd
    /\ s \in Fd \ serving
    /\ serving' = serving \cup {s}
    /\ busy' = busy \cup {s}
    /\ UNCHANGED <<turn, up>>

\* A connection gets the processor.
Give(s) ==
    /\ up /\ turn = NoFd
    /\ s \in serving
    /\ turn' = s
    /\ UNCHANGED <<serving, busy, up>>

\* Its coroutine makes progress and keeps the processor ...
Progress ==
    /\ up /\ turn # NoFd
    /\ busy' = busy \cup {turn}
    /\ UNCHANGED <<serving, turn, up>>

\* ... or gives it back, still busy or waiting for its client ...
Yield ==
    /\ up /\ turn # NoFd
    /\ busy' \in {busy, busy \ {turn}}
    /\ turn' = NoFd
    /\ UNCHANGED <<serving, up>>

\* ... or closes the connection.
Close ==
    /\ up /\ turn # NoFd
    /\ serving' = serving \ {turn}
    /\ busy' = busy \ {turn}
    /\ turn' = NoFd
    /\ UNCHANGED up

\* The process ends with all its connections: in the turn of one of them ...
Die ==
    /\ up /\ turn # NoFd
    /\ up' = FALSE
    /\ turn' = NoFd
    /\ UNCHANGED <<serving, busy>>

\* ... or over a new client that it has no memory for.
Refuse(s) ==
    /\ up /\ turn = NoFd
    /\ s \in Fd \ serving
    /\ up' = FALSE
    /\ UNCHANGED <<serving, busy, turn>>

Next == \/ \E s \in Fd : Accept(s) \/ Give(s) \/ Refuse(s)
        \/ Progress \/ Yield \/ Close \/ Die

Spec == Init /\ [][Next]_vars
=============================================================================
