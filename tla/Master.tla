------------------------------- MODULE Master -------------------------------
(***************************************************************************)
(* The processes of srv_async: the master, which forks the workers and     *)
(* waits for them, and what SIGINT does to either.                         *)
(*                                                                         *)
(* A worker inherits the handler of the master with fork() and replaces it *)
(* in handle_connections_routine().  What it does after that is the        *)
(* subject of Worker.tla; here it only serves until it ends.  signal() has *)
(* the BSD semantics of the build (g++ defines _GNU_SOURCE): SIGINT is     *)
(* blocked while its handler runs, and wait() is restarted after it.       *)
(***************************************************************************)
EXTENDS Naturals

CONSTANTS
    NumWorkers, \* SRV_CONFIG.num_workers
    MaxInts     \* bound: how many times somebody sends SIGINT

ASSUME MasterBounds == NumWorkers \in Nat \ {0} /\ MaxInts \in Nat

Worker == 1..NumWorkers

VARIABLES
    main,       \* where main() of the master is; "done" when the process is gone
    i,          \* the index of its fork loop
    handler,    \* the master is in handle_sigint()
    pending,    \* SIGINT is pending for the master
    state,      \* each worker: the one forked in round w - 1 of the loop
    log,        \* SRV_CONFIG.log_file_desc of the master ...
    wlog,       \* ... and of each worker
    ints        \* how many times SIGINT was sent

vars == <<main, i, handler, pending, state, log, wlog, ints>>

\* "early": forked, but not yet at its own call of signal().
States == {"none", "early", "serving", "zombie", "reaped"}
Alive == {"early", "serving"}

Init ==
    /\ main = "start" /\ i = 0
    /\ handler = FALSE /\ pending = FALSE
    /\ state = [w \in Worker |-> "none"]
    /\ log \in {"file", "stdout"} /\ wlog = [w \in Worker |-> log]
    /\ ints = 0

-----------------------------------------------------------------------------
(***************************************************************************)
(* The master.                                                             *)
(***************************************************************************)

\* The process is in main(), not in a handler that interrupted it.
InMain(l) == main = l /\ ~handler

\* The configuration is read and signal(SIGINT, handle_sigint) called.
InstallHandler ==
    /\ InMain("start")
    /\ main' = "socket"
    /\ UNCHANGED <<i, handler, pending, state, log, wlog, ints>>

\* create_listening_socket(); a failure ends the server.
CreateSocket ==
    /\ InMain("socket")
    /\ main' \in {"fork", "done"}
    /\ UNCHANGED <<i, handler, pending, state, log, wlog, ints>>

\* One round of the fork loop.  A fork() that fails goes unnoticed.
Fork ==
    /\ InMain("fork") /\ i < NumWorkers
    /\ i' = i + 1
    /\ \/ /\ state' = [state EXCEPT ![i + 1] = "early"]
          /\ wlog' = [wlog EXCEPT ![i + 1] = log]
       \/ UNCHANGED <<state, wlog>>
    /\ UNCHANGED <<main, handler, pending, log, ints>>

ForkDone ==
    /\ InMain("fork") /\ i = NumWorkers
    /\ main' = "wait"
    /\ UNCHANGED <<i, handler, pending, state, log, wlog, ints>>

\* Two wrong variants of WaitEnds: waitpid() with WNOHANG in place of wait(),
\* and counting the ends of all n_w workers.
WaitEndsNoHang == \A w \in Worker : state[w] # "zombie"
WaitEndsCount == \A w \in Worker : state[w] = "reaped"

\* wait_for_workers() ends when wait() fails: no child is left.
WaitEnds == \A w \in Worker : state[w] \in {"none", "reaped"}

\* wait() returns a child that has ended.
WaitReturns(w) ==
    /\ state[w] = "zombie"
    /\ state' = [state EXCEPT ![w] = "reaped"]

\* A wrong variant of MainReaps with "if" for "while".
MainReapsOnce(w) ==
    /\ InMain("wait")
    /\ WaitReturns(w)
    /\ log' = "stdout" /\ main' = "done"
    /\ UNCHANGED <<i, handler, pending, wlog, ints>>

\* wait_for_workers() in main() ...
MainReaps(w) ==
    /\ InMain("wait")
    /\ WaitReturns(w)
    /\ UNCHANGED <<main, i, handler, pending, log, wlog, ints>>

\* ... and its end, close_srv_log() and the end of the process.
MainEnds ==
    /\ InMain("wait") /\ WaitEnds
    /\ log' = "stdout"
    /\ main' = "done"
    /\ UNCHANGED <<i, handler, pending, state, wlog, ints>>

\* wait_for_workers() in handle_sigint() ...
HandlerReaps(w) ==
    /\ handler
    /\ WaitReturns(w)
    /\ UNCHANGED <<main, i, handler, pending, log, wlog, ints>>

\* ... and its end: close_srv_log(), back to where main() was.  A SIGINT that
\* is pending calls the handler again.
HandlerEnds ==
    /\ handler /\ WaitEnds
    /\ log' = "stdout"
    /\ handler' = pending /\ pending' = FALSE
    /\ UNCHANGED <<main, i, state, wlog, ints>>

MasterStep ==
    \/ InstallHandler \/ CreateSocket \/ Fork \/ ForkDone
    \/ MainEnds \/ HandlerEnds
    \/ \E w \in Worker : MainReaps(w) \/ HandlerReaps(w)

-----------------------------------------------------------------------------
(***************************************************************************)
(* The workers.                                                            *)
(***************************************************************************)

\* signal(SIGINT, sigint_handler) in handle_connections_routine().
WorkerReady(w) ==
    /\ state[w] = "early"
    /\ state' = [state EXCEPT ![w] = "serving"]
    /\ UNCHANGED <<main, i, handler, pending, log, wlog, ints>>

\* The worker exits or is terminated by a signal (see Worker.tla).  Nobody
\* starts another one.
WorkerFails(w) ==
    /\ state[w] \in Alive
    /\ state' = [state EXCEPT ![w] = "zombie"]
    /\ UNCHANGED <<main, i, handler, pending, log, wlog, ints>>

-----------------------------------------------------------------------------
(***************************************************************************)
(* SIGINT, to one process or from the terminal to all of them.             *)
(***************************************************************************)

\* The master dies before it has a handler; later it runs handle_sigint(),
\* or keeps SIGINT pending if it does so already.
SigintMaster ==
    /\ main' = IF main = "start" THEN "done" ELSE main
    /\ handler' = (main \notin {"start", "done"})
    /\ pending' = (pending \/ handler)

\* sigint_handler() flushes the log and exits.  An early worker runs the
\* handle_sigint() that it inherited: it has no children to wait for, closes
\* its log and goes on.
SigintWorkers(W) ==
    /\ state' = [w \in Worker |-> IF w \in W /\ state[w] = "serving" THEN "zombie" ELSE state[w]]
    /\ wlog' = [w \in Worker |-> IF w \in W /\ state[w] = "early" THEN "stdout" ELSE wlog[w]]

Sigint ==
    /\ main # "done" /\ ints < MaxInts
    /\ ints' = ints + 1
    /\ \/ SigintMaster /\ SigintWorkers(Worker)
       \/ SigintMaster /\ UNCHANGED <<state, wlog>>
       \/ \E w \in Worker : /\ state[w] \in Alive
                            /\ SigintWorkers({w})
                            /\ UNCHANGED <<main, handler, pending>>
    /\ UNCHANGED <<i, log>>

WorkerStep(w) == WorkerReady(w) \/ WorkerFails(w)

Gone == main = "done" /\ UNCHANGED vars

Next == MasterStep \/ (\E w \in Worker : WorkerStep(w)) \/ Sigint \/ Gone

\* The kernel schedules the processes; it makes none of them fail.
Fairness == /\ WF_vars(MasterStep)
            /\ \A w \in Worker : WF_vars(WorkerReady(w))

Spec == Init /\ [][Next]_vars /\ Fairness

-----------------------------------------------------------------------------
(***************************************************************************)
(* Properties.                                                             *)
(***************************************************************************)

\* Types, and the workers that exist are those of the rounds done so far
\* (main() forks num_workers times at most).
MasterTypeOK ==
    /\ main \in {"start", "socket", "fork", "wait", "done"}
    /\ i \in 0..NumWorkers
    /\ handler \in BOOLEAN /\ pending \in BOOLEAN
    /\ state \in [Worker -> States]
    /\ log \in {"file", "stdout"} /\ wlog \in [Worker -> {"file", "stdout"}]
    /\ ints \in 0..MaxInts
    /\ \A w \in Worker : w > i => state[w] = "none"

\* The master does not end before its workers and leaves none as a zombie,
\* wherever SIGINT interrupts it: it calls wait_for_workers() at the end of
\* main(), and the handler's call of it may come in the middle of the fork
\* loop or of the other one.
NoOrphans == main = "done" => \A w \in Worker : state[w] \notin Alive \cup {"zombie"}

\* A worker that ends is waited for, in the handler or in main(), even if it
\* ends while the master still forks or handles SIGINT.
ZombiesReaped == \A w \in Worker : state[w] = "zombie" ~> state[w] = "reaped"

\* When the last worker has ended, so does the server, whether they failed or
\* SIGINT came, and also if some fork() had failed: neither loop waits for a
\* worker that is not there.
LastWorkerEndsServer ==
    (main = "wait" /\ \A w \in Worker : state[w] \notin Alive) ~> main = "done"

\* No worker runs the handler of the master ("Set new action for SIGINT
\* signal in all workers to avoid calling of SIGINT handler set by server
\* main process", handle_connections_routine()): a SIGINT to a worker ends
\* it.
WorkersAvoidMasterHandler ==
    [][\A w \in Worker : state[w] = "early" => wlog'[w] = wlog[w]]_vars

=============================================================================
