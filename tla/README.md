# srv_client: specifications

TLA+ specifications of `srv_async`, an HTTP server in which every worker
process serves many connections by coroutines, with model checking by TLC and
proofs by TLAPS. All paths below are relative to `src/srv_async/` unless
they begin with `src/`.

## 1. The system

A master process (`srv_async.c`) reads a configuration, binds a listening
socket and forks workers. Each worker (`srv_routines.c`) is a single thread:
it accepts connections on the shared socket, gives each a *connection context*
with a coroutine stack and a receive buffer (`srv_conn_ctxt.c`), and resumes
all coroutines one after the other in every *pass* of its loop. A coroutine
runs `handle_one_connection()`: receive a request, answer it, repeat
(`http/*.cpp`), on top of non-blocking `read()` and `write()` that switch back
to the loop when they would block (`srv_conn_send_recv.c`). Switches are
cooperative; the only asynchronous things are the clients, the kernel's queues,
the clock and the signals SIGIO, SIGPIPE and SIGINT. Nothing is persisted.

| component | state | operations | interacts with |
|---|---|---|---|
| connection contexts and scheduler, `srv_conn_ctxt.c` | cache of free contexts and its count; queue of connections, counts of active and inactive ones, current connection; flags, socket and times of every `conn_t` | fill, allocate, free, create, remove, close, set inactive, update active, switch | called by the loop and by coroutines; lists of `srv_qlist.h` |
| worker event loop, `srv_routines.c` | cursors of the pass, epoll timeout, signal mask | accept, poll, sleep, pass over the queue, exit | kernel (backlog, SIGIO), contexts |
| coroutine input and output, `srv_conn_send_recv.c` | bytes left of the current call | receive, send, block, time out, fail | sockets, contexts |
| request cycle, `http/srv_http_send_recv.cpp` | `recv_buf_have`, `recv_buf_curr`, the request and its response | receive header, receive body, send, keep alive | receive buffer of the context |
| HTTP messages, `http/srv_http_*msg*`, `http/srv_http_request_*` | one request, one response | parse, choose a status, serialise | request cycle |
| intrusive list, `srv_qlist.h` | two pointers in every entry | add, delete, traverse safely | contexts |
| socket set-up, `srv_sock.c` | flags of a descriptor | bind, non-blocking, asynchronous | master, loop, coroutine |
| master, `srv_async.c` | children, log file | fork, wait, SIGINT | workers by signals and wait |
| configuration, `srv_config.c` | `SRV_CONFIG` | file, command line | everything, read-only |
| logging, `LOG` in `srv_defs.h` | none | print | all |
| synchronous server, `src/srv/srv.c` | thread counter | accept, thread for each connection | none |
| load client, tests, `src/client.c`, `plug_tests/` | none | connect, request | servers, from outside |

What is hard about it, and what makes each component correct:

- *Contexts.* One link field serves two lists, a pass frees entries of the list
  it walks over, descriptors and contexts are reused at once, and the counters
  decide whether the loop sleeps. Correct means: no context lost or on both
  lists, counters that count, no shared socket, cursors that stay on the list,
  no step of a coroutine whose connection is closed.
- *Event loop.* The decision to sleep is taken from a counter before the system
  call. Correct means: no sleep while a connection has work, no spinning
  without work, every connection gets its turn.
- *Input and output.* End of file, reset, a blocking call and two timeouts can
  come at every point. Correct means: a failure ends that connection only, a
  silent client is dropped, data is read in the end.
- *Request cycle.* The buffer keeps the start of the next request, and the
  context passes from one client to the next. Correct means: every request is
  answered once, by the bytes of its own client only.
- *HTTP messages.* Correct means: the status that the source promises for every
  defect of a request, and a response after which client and server agree
  whether and where the connection goes on.
- *Several workers.* All of them are told of one connection. Correct means: it is
  accepted once, nobody who loses the race neglects other connections, and a
  shortage of descriptors stops neither.
- *Intrusive list.* Correct means: both pointers of every entry tell of the same
  list, also while a loop over it deletes entries.
- *Configuration.* Correct means: the last word counts, and no start from half of a
  command line.
- *Synchronous server.* Correct means: every connection gets its thread, its
  answer and its `close()`; the count is right.
- *Master.* Correct means: every fork is waited for, SIGINT ends everything.

`PROJECT.json` lists the hazards at their lines, with the properties that
would catch them.

## 2. Modules

| module | what it is |
|---|---|
| `ConnService` | abstract: the service of a worker in terms of sockets; one turn at a time |
| `ConnCtx` | the bookkeeping of `srv_conn_ctxt.c` and the control of the loop |
| `Worker` | extends `ConnCtx`: why each step is taken; sockets, clients, clock, SIGIO, SIGPIPE |
| `Master` | the processes: forks, waiting, SIGINT; a worker only serves until it ends |
| `Server` | several workers on one listening socket: who wakes, who accepts, who sleeps |
| `RecvBuf` | the receive buffer of one context, byte by byte, from client to client |
| `HttpMsg` | from a header to its response and to what becomes of the connection |
| `QList` | `srv_qlist.h` with pointers, and the sequences that they stand for |
| `Config` | defaults, `srv.config`, command line, log file |
| `SyncSrv` | `src/srv/srv.c` with its threads, and `src/client.c` |
| `MCConnCtx`, `MCWorker` | `ConnCtx` and `Worker` for TLC: symmetry, and an order of names for liveness |
| `MCRecvBuf`, `MCHttpMsg`, `MCConfig` | the inputs of these modules for TLC: streams, headers, files and command lines |
| `ListLemmas` | lemmas about lists without repetition |
| `ConnCtx_proofs` | the invariant of `ConnCtx` and its consequences, and that it implements `ConnService`, proved |
| `Worker_proofs` | the worker keeps to `ConnCtx`, and never sleeps over work, proved |
| `Server_proofs` | workers keep to their own connections and do not sleep over requests, proved |
| `Request_proofs` | `RecvBuf`: the buffer is not overrun, requests are cut exactly, headers are found; `HttpMsg`: the status, the conversions, persistence and message boundaries; proved |
| `SyncSrv_proofs` | threads, descriptors and the report of `src/srv/srv.c`, proved |
| `Main_proofs` | `Config`: the last word counts, and what crashes the start; `Master`: the master waits for all its workers; proved |
| `QList_proofs` | the pointers represent the lists, and the safe loop is safe, proved |

### ConnCtx

`pc` says where the worker is: `fill` in the loop of `fill_conn_ctx_cache()`,
`wait` before `epoll_pwait()`, `loop` at the head of `qlist_foreach_entry_safe`,
`run` in the coroutine of `currConn`, `back` after the switch to the main
context, `exited`. Lists are sequences with the head at index 1, as
`qlist_add_head()` is the only way in. `allocated` is the set of mapped
contexts, `opened` the set of open connection sockets. `cnt` of the fill loop is
`fill`, and the socket for which the cache is being filled is `newSock`.

`CreateNewConn` is all of `create_new_conn()` once a context is cached:
`alloc_conn_ctx()`, `init_new_conn_ctx()`, `add_conn_to_queue()`. `BackInLoop` is
the rest of the loop body (`remove_conn_from_queue()`, `free_closed_conn()` for a
completed connection) *and* the advance of both cursors. What a coroutine does
to the shared state is one of five actions: `CoStep` (`curr_conn_update_active()`),
`CoYield` (`swap_to_main_ctx()`), `CoBlock` (`curr_conn_set_inactive()` and the
switch), `CoClose` (`curr_conn_close()` and the switch), `CoDies`.

`ServiceSpec` is the refinement of `ConnService`: `serving`, `busy`, `turn` and
`up` are functions of the queue, the flags and `pc`. The service ends in the turn of a
connection (`Die`) or over a new client only (`Refuse`), and at no other time.

### Worker

Every step of the process is a step of `ConnCtx` conjoined with the reason the
code has for it. `loc` is where each coroutine continues (the values are listed
at `Locs`), `todo` is `to_recv` or `to_send`, `buf` is
`recv_buf_have - recv_buf_curr`, `parts` counts the chunks or packets to come.
Bytes are pieces: which pieces end a header, how long a body and a response
are, and whether the connection is kept alive are free choices, as all of that
is the client's. Times are flags: `stale` (`curr_conn_active_timeout()` would be
true), `opDue` (`curr_conn_op_timeout()`), `swapDue` (`need_ctx_swap()`); the actions
of `Tick` set them, the code that stores a time clears them.

The kernel: `rx` is the receive queue of a socket, `peer` what its client did,
`wfull` whether `write()` would block, `backlog` the connections `accept()` can
return. Other workers appear as connections that leave the backlog
(`AcceptFails`). SIGIO is blocked outside of `epoll_pwait()`, where it becomes
pending (`sigio`); with a pending SIGIO, `epoll_pwait()` with timeout -1 returns
EINTR at once (`PollInterrupted`). Inside a sleep it is unblocked but ignored,
so it is discarded (`Signal`).

### Master

`main` says where `main()` of the master is, `handler` whether `handle_sigint()`
has interrupted it; `wait_for_workers()` occurs in both (`MainReaps`, `MainEnds`,
`HandlerReaps`, `HandlerEnds`), and each end includes `close_srv_log()`. Worker `w` is the
one forked in round `w - 1` of the loop; `fork()` may fail, which the code does not
notice. A worker is `early` until its own `signal()` call, and `serving` from then on.
SIGINT goes to one process or, from a terminal, to all of them in one step. The
build compiles the C files with `$(CXX)`, where `signal()` has BSD semantics: the
signal is blocked during its handler (`pending`) and `wait()` is restarted.

`Worker` and `Master` share no variable: a worker is a `Process` of `Worker` between
`WorkerReady` and `WorkerFails`, and `pc = "exited"` there is `"zombie"` here.

### RecvBuf

One action per round of `recv_from_curr_conn()` and per part of `recv_http_hdr()` and
`recv_http_msg()`; `pc` is the place in `handle_one_client_request()`. `have` and `curr`
are `recv_buf_have` and `recv_buf_curr`, which a context keeps when it goes from one
client to the next (`InitNewConnCtx` changes nothing). `n0` and `n` are `prev_n_recv` of
`recv_from_curr_conn()` and its `n_recv`. A byte is a record of its character, its
client and its place in the stream of that client, so that properties can say
whose bytes a request is made of; the code, and hence every action, looks at the
character only. `IsHttpMessageEnd` compares what `is_http_message_end()` compares, stale
bytes included; `Segfaults` is the case in which its `strncmp()` reads on into the
guard page. What a header means is given by its first character, and is the
subject of `HttpMsg`. `RequestsCutExactly` compares by position: the k-th request handed on
is the piece of the stream behind the first k - 1, and what is received of the next is the
piece behind all of them. Switching, timeouts and the order of connections are in `Worker`.

### HttpMsg

A header is a record of what the parser can tell apart. `ParseRequestHeader` is the loop
over its lines: `FieldsParsed` is a recursive function whose value at k is the request after
k rounds of `ParseField`, which does nothing after the first failure as the early returns
do. `Create` and `MethodHasBody` read the table of methods. The connection is a cycle of
three actions, `Receive`, `Answer` and `Return`, and the next request begins with nothing
of the last. `ReceiveFails` and `SendFails` are the two other ways out of
`handle_one_client_request()`: no request was received, or the response was not sent to its
end; both close, the second whatever the response said. A number above `SizeTMax` is one
that `from_chars()` cannot convert (`IsSizeT`), which is another error than a length above the
limit. The value of a field is both the number it is and the set of options
it contains, as `Content-Length` is parsed by `from_chars()` and `Connection` searched by
`contains_ci()`.

### Server

A worker has six places: before `epoll_pwait()` (`poll`), asleep in it, before
`accept()`, and in a pass over the connections it owned when the pass began
(`turn`). The listening socket is level-triggered and shared: it is reported to
each worker that looks before the connection is accepted. `Full` is the limit of
descriptors: `accept()` fails and the connection stays in `backlog`. SIGIO goes
to the owner, as in `Worker`, and is lost while it sleeps. A worker exits when it has no
memory for the connection it accepted (`CreateFails`), or in one of its coroutines
(`CoroutineDies`); it is `gone` then, with its connections, and the others go on. A pass reads at most one
request of each connection; blocking in the middle of one is in `Worker`.

### QList

`next` and `prev` are the two pointers; `lists` is history: the sequences in terms of
which `ConnCtx` is written. One `qlist_foreach_entry_safe()` runs at a time (`over`,
`pos`, `posN`), and `visit` is what it has still to visit. The two guards `MayAddTo` and
`MayDelFrom` state how `handle_connections_routine()` and the functions it calls use the
list they go over: only the entry at the cursor leaves it, and nothing is added.
`qlist_foreach_entry()`, which the program does not use, is the mutant of `Advance`.

### Config

`conf` holds the last value of each key and `desc` the descriptor of the log, which
is a separate variable because a failing `fopen()` leaves the name of the file and a
null pointer, and a failing `malloc()` of the name leaves a null name and the old descriptor
(`TakesLogFile`). A null name is written "stdout", as `print_srv_config()` writes it. A refused
line ends the file but not the start, a refused option
ends the process. `Read` are the lines before the first refused one, `FromFile` what they
say of a key.

### SyncSrv

`main` is the loop of `main()`, `thread[k]` the place of the thread of connection `k` in
`conn_routine()`; a connection stands for its descriptor, as each has its own until
`close()`. `exited` is `pthread_exit()`, which leaves the socket open. The clients are
loops of connect, send, read, close; a user may interrupt and start them, and a
connection may be reset. The three loads of `n_conn` around a report are two
actions, as nothing is printed if the first finds no difference.

## 3. Checks

| run | module, cfg | what it shows |
|---|---|---|
| `ctx_safety` | `MCConnCtx`, `MCConnCtx.cfg` | types, lists, counters, sockets, cursors, no run of a closed connection; `ConnCtx` implements `ConnService` |
| `worker_input` | `MCWorker`, `MCWorkerInput.cfg` | `NoSleepOverWork`, `InactiveOnlyWhileWaiting` with input in pieces, end and reset |
| `worker_output` | `MCWorker`, `MCWorkerOutput.cfg` | `NoSleepOverWork` with clients that stop reading |
| `worker_live` | `MCWorker`, `MCWorkerLive.cfg` | `InputConsumed`: what comes while the worker is awake is read; `NoStarvation`: a busy client cannot hold the worker; `NoSpinning`: when clients fall silent for good, the worker falls asleep for good |
| `master` | `Master`, `MCMaster.cfg` | `NoOrphans`, `ZombiesReaped`, `LastWorkerEndsServer` |
| `server` | `Server`, `MCServer.cfg` | `NoneSleepsOverRequest`, `AcceptedInTheEnd`, `LosersServeOn`, `RestsOrIsFull` with two workers that may exit and too few descriptors |
| `server_flaky` | `Server`, `MCServerFlaky.cfg` | violated: `NextConnectionHelps` |
| `recv_buf` | `MCRecvBuf`, `MCRecvBuf.cfg` | requests are cut exactly, no whole header is waited for, the guard page is read only when the buffer is full |
| `http_msg` | `MCHttpMsg`, `MCHttpMsg.cfg` | status, persistence and message boundaries of every header with up to two fields |
| `qlist` | `QList`, `MCQList.cfg` | pointers represent the lists; the safe loop keeps its schedule |
| `config` | `MCConfig`, `MCConfig.cfg` | the last word counts; what crashes the start |
| `sync` | `SyncSrv`, `MCSyncSrv.cfg` | descriptors owned, leaks only to those unanswered, nothing reported twice, requests answered |

`server_flaky` ends with a counterexample: the worker sleeps with timeout -1, a
client of one of its keep-alive connections sends a request, SIGIO is discarded
(`signal(SIGIO, SIG_IGN)`, `srv_routines.c:75`), and every new connection, which
would wake the worker, is accepted by the other one first. This is what
`plug_tests/run_http_tests.sh:55-58` reports of a server with several workers.
With one worker the next connection does help (`MCServerOne.cfg`, holds).

**Inductive invariants.** `MCWorkerInductive.cfg`, `MCServerInductive.cfg`,
`MCRecvBufInductive.cfg`, `MCHttpMsgInductive.cfg`, `MCConfigInductive.cfg` and
`MCSyncSrvInductive.cfg` let TLC check, on the instances of the runs, the invariants from
which the theorems of section 4 follow (`WorkerIInv`, `ServerIInv` and `RequestsNoticed`,
`RecvBufIInv`, `HttpIInv`, `ConfigIInv`, `SyncIInv`), and `MCMasterTypes.cfg` the types of
`Master`. They hold; no run of their own is listed for them, as the proofs show more.

**Divergences.** The modules state more claims of comments and documents that the
code does not keep, each with a configuration in which TLC finds the
counterexample, `tlc -config <cfg> <module>`. They are kept apart from the runs,
as each concerns one short path:

| module, cfg | claim |
|---|---|
| `MCWorker`, `MCWorkerLostWakeup.cfg` | `RequestsServed` |
| `MCWorker`, `MCWorkerTimeout.cfg` | `TimeoutCloses` |
| `MCWorker`, `MCWorkerSigPipe.cfg` | `WriteFailureIsLocal` |
| `Master`, `MCMasterHandler.cfg` | `WorkersAvoidMasterHandler` |
| `MCRecvBuf`, `MCRecvBufForeign.cfg` | `OwnRequestsOnly` |
| `MCRecvBuf`, `MCRecvBufOverlong.cfg` | `ClosedAsDocumented` |
| `MCRecvBuf`, `MCRecvBufStale.cfg` | `EndIsTermination` |
| `MCHttpMsg`, `MCHttpMsgStatus.cfg` | `StatusTextHasIndex` |
| `MCHttpMsg`, `MCHttpMsgHead.cfg` | `HeadWithoutBody` |
| `SyncSrv`, `MCSyncSrvLeak.cfg` | `ThreadForEachConnection` |
| `MCConfig`, `MCConfigPort.cfg` | `PortAsInHelp` |

- `RequestsServed`: the worker sleeps with timeout -1, a client of an idle
  keep-alive connection sends its next request, SIGIO is discarded
  (`signal(SIGIO, SIG_IGN)`, `srv_routines.c:75`), and nobody reads the request
  until another client connects.
- `TimeoutCloses`: `curr_conn_op_timeout()` is called only after data was
  transferred (`srv_conn_send_recv.c:90`, `:143`), so a client that falls silent in
  the middle of a body is never dropped.
- `WriteFailureIsLocal`: SIGPIPE has its default action, so a `write()` to a connection that
  was reset ends the worker instead of that connection.
- `WorkersAvoidMasterHandler`: SIGINT between `fork()` and the worker's `signal()` call runs
  `handle_sigint()` in the worker, which closes its log and survives. A neighbour of
  this case contradicts no comment and is therefore no finding: SIGINT in the middle of the
  fork loop does not reach the workers forked afterwards, and the server goes on.
- `OwnRequestsOnly`: a client sends the start of another request after its last
  answered one and closes; `init_new_conn_ctx()` leaves `recv_buf_have` and
  `recv_buf_curr`, and the next client of the context is answered for these bytes.
- `ClosedAsDocumented`: a header that fills the buffer is not answered by 431 but by
  closing, as `recv_http_hdr()` finds no end in it.
- `EndIsTermination`: a short chunk, and behind it bytes of an earlier message that
  complete the terminator: `is_http_message_end()` says yes, no header is found, and
  the connection is closed in the middle of a request.
- `StatusTextHasIndex`: the response 501 reads entry 501 of a vector of 432.
- `HeadWithoutBody`: a HEAD request with an error is answered with a body.
- `ThreadForEachConnection`: one client interrupted between `connect()` and `send()` leaves its
  descriptor in the server for good; at the limit `accept()` fails, and the server
  exits although connections wait.
- `PortAsInHelp`: the help text allows port 65536, the code does not.

**Bounds.** The limits of the cache are 2 and 3 with four contexts, so that a
fill takes several rounds, a freed context meets a full cache, and the memory
runs out; the list operations are the same for 50 and 300. Two connections are
enough for one that runs and one that waits, and make every order of both in the
queue possible. `BufCap` and `Packet` are 1 or 2: a call that completes at once and
one that needs two system calls; `MaxParts` is 1 where a body or a response of
several parts matters. `MaxRx` and `MaxBacklog` are 1: they bound what the kernel
holds at a time, not what a client sends in the course of a behaviour.

`Master` runs with three workers and two SIGINTs: one can come while the handler
of the other runs, and a fork can fail before, between and after two that succeed.

`RecvBuf` has a buffer of 10 bytes and headers of at most 5, the shortest in which a
whole request fits behind another, a terminator can fall on every boundary of two
chunks, and a header can be too large and still fit; one body is
longer than the buffer. Two clients are the least for one to inherit. Chunks have
every length. `HttpMsg` takes every sequence of up to two of eleven fields, so that each
pair of defects and each pair of values of one name occurs, in both orders; `MaxBody` and
`SizeTMax` are small numbers that differ by more than one, and lengths are at and above both.
`Config` does the same with lines and options, among them a log file that cannot be
opened and one whose name finds no memory. `Server` has two workers and three
clients with one descriptor each, so that all can be full and one client waiting.
`SyncSrv` has three connections, two descriptors and two threads, so that both limits
are met while a thread still runs. `QList` has four nodes and two
lists: an entry with neighbours on both sides, one that is moved, and one elsewhere.

**Symmetry and order.** Safety runs use the symmetry of contexts and
descriptors. For liveness, where symmetry is unsound, `InOrder` makes the kernel
hand out the least free descriptor, as it does, and contexts in a fixed order;
contexts differ in their address only, which no code compares.

**Fairness.** The process takes steps as long as it can (`WF_vars(Process)`: the
kernel schedules a runnable process; a sleeping one has no step unless a client
connects), and the three clocks move on. Nothing is assumed of clients: they may
send for ever or never. In particular no fairness is assumed of the choice
between steps of one process, where the code is deterministic given the data. In
`Master` the master and the workers that start are scheduled; no worker has to
fail and nobody has to send SIGINT. In `Server` each worker is scheduled
(`WF_vars(Step(w))`, which a sleeping one does not use), and time goes on; no order
among workers is assumed, and that is what `server_flaky` uses. In `SyncSrv` every
thread and client is scheduled; nobody has to interrupt or reset. `RequestAnswered`
allows for the end of the server, which `MCSyncSrvLeak.cfg` shows.

**Mutants.** Each property is violated by a plausible mistake in a definition
that models code: the wrong variants stand before the definition they vary
(`FreeConnCtxLeak`, `BackInLoopStuckCursor`, `CondSwapNever`, ...).

## 4. Proofs

`ConnCtx_proofs` proves `CtxSpec => []IInv` for every `Ctx`, `Fd`, `MinCache` and
`MaxCache` that satisfy `CacheBounds` (a positive minimum, not above the maximum)
and `DistinctValues` (the list head, NULL and "no descriptor" are not contexts or
descriptors). `Ctx` and `Fd` may be infinite; lists are finite anyway.

The invariant is the conjunction of `TypeOK`, `OnOneList`, `CountersAgree`,
`SocketsOwned`, `CursorsValid`, `NeverRunCompleted` and `FillBounded`. None of the
parts is inductive alone. `CountersAgree` needs `CursorsValid`: the flag of the
connection that runs is counted only if that connection is on the queue. A live
connection running (`NeverRunCompleted`) is what makes `CoClose` close a socket that
is its own, so that `SocketsOwned` survives the reuse of descriptors.
`CursorsValid` needs `OnOneList`: only on a list without repetition is the
successor of an entry another entry, which stays when the entry is deleted.
`FillBounded` is the only addition: it keeps the count of the cache in its range
while `fill_conn_ctx_cache()` runs, and says that no socket waits for its context
during a pass.

The proof goes action by action (`FillAllocIInv`, `CreateIInv`, `BackInLoopIInv`,
`FlagIInv`, `CoCloseIInv`; `ControlIInv` for the steps that leave the bookkeeping
alone). It rests on `ListLemmas` (what `Cons`, `Tail` and `RemoveAt` do to the set of
entries) and on `CountRemove` and `CountMove` (how the number of entries with a flag
changes).

**`ConnCtx` implements `ConnService`.** `Refinement` is `CtxSpec => ServiceSpec` under the
mapping of `ConnCtx`: `serving` is the set of sockets of the live connections on the queue,
`busy` those with `is_active`, `turn` the socket of the coroutine that runs. With `IInv`, each
action of the service has one lemma (`CreateService`, `FillService`, `LoopService`,
`CoroutineService`), and steps that change none of the four are stutters (`SameService`). The
hard part is that the map from connections to sockets is one to one on live connections
only (`SocketsOwned`): a completed connection is still on the queue when the worker is back in
the loop, and its old descriptor must not count as its socket there. The end of the service
(`Die`, `Refuse`) is a step of its own: the process ends only in a coroutine, or
when it has no context for the connection it has just accepted.

**`Worker`.** `WorkerImplementsCtx` is `Spec => CtxSpec`: every step is one of `ConnCtx` or
leaves its variables alone, so `IInv` and all that follows from it hold of the worker for
free. `WorkerIInv` adds four parts to `IInv` and the types. `WorkNoticed` is the core: an
inactive connection for which there is work again is announced by a pending SIGIO, or
the pass under way or about to start has yet to resume it (`StillDue`), or the process sleeps
already; this is
what the code relies on when it blocks SIGIO outside of `epoll_pwait()` and lets EINTR
start another pass. It is preserved by the advance of the cursor only because
`CursorsValid` keeps the cursors on the queue, and by a coroutine that is set inactive only
because its `read()` or `write()` has just found nothing to do. `LocsFit` says where the
coroutine of an inactive connection can be, `TodoFits` what is left of its call (also part
of `WorkerTypes`: a call has a byte left to transfer, and no more than its buffer or packet holds),
`FillAtStart` that nothing is queued before the first fill is over. The proof states once
what every step of a coroutine has in common (`CoShape`) and treats clients, clock, loop
and coroutine apart. `NoLostWakeup` (`NoSleepOverWork`, about the step that falls asleep)
follows with `CountersAgree`: at `active_conn_cnt = 0` every live connection is inactive, and
without a pending SIGIO none of them has work. That SIGIO is *discarded* once the process
sleeps is the divergence `RequestsServed`, and no part of this.

**`Server`.** `ServerTypes` holds for any set of workers and clients, also infinite ones, and
any positive limit of descriptors; the worker names must differ from the two words that
`owner` uses besides. `ServerIInv` adds `InBacklogOnce` and that the connections of every
owner are finitely many, without which counting them would mean nothing.
`NoRequestSleptOver` (`NoneSleepsOverRequest`, about the step that falls asleep) needs
`RequestsNoticed`: a request that came after the last `read()` of its connection is announced by
a pending SIGIO of its owner, or comes up in the pass under way or about to start. A step of
one worker keeps it for the others because it takes nothing from them: of their
connections only they change the flags, and SIGIO goes to the owner (`StillNoticed`). A worker
that is told of a connection another one accepts forgets nothing either: it makes a
pass over everything it has (`PassNotices`). A worker that exits loses its connections and
takes none from the others (`ExitFacts`). This is `NoSleepOverWork` again where several
workers run, as the losers of a race leave `epoll_pwait()` with SIGIO still pending.

**`RecvBuf`.** `RecvBufIInv` is inductive for every buffer larger than the largest header,
every set of streams and every number of clients (`RecvBufBounds`). `CycleFits` says where the
counters are at each point of the cycle; in particular that the buffer is used up before
a body is waited for, which is why a body can be larger than the buffer. `FreshIsZero`:
the fresh buffer is zero behind what was received, so that a terminator found in
the first request of a context consists of received bytes. Three arguments carry the proof:
the first end of a header is the least index of a well-founded order and does not
change when bytes are added behind it (`FindEndFacts`, `PrefixEnd`, `EndFacts`); looking for
the terminator from three bytes before the new chunk misses none, and the comparison
leaves the buffer only if all but one byte of it are full (`ChunkEnd`); and a header and a
body cut at these places are the next piece of what was read (`ReceivedFacts`, `HandFacts`,
`PendingIsRead`). `HeaderGivenUpForAReason` is a property of steps, from the same invariant.

**`HttpMsg`.** `HttpIInv` says that the request and the response of the cycle are those that
parsing and `Create` make of the header that was sent; it is inductive for every set of requests
with any number of fields and every largest body (`HttpBounds`). The work is in what parsing
computes, and that is an induction over the fields. The theorems of the library for
induction take an operator and cannot be used here, so each induction is made by a least
counterexample: a set of natural numbers that is not empty has a least element
(`LeastExists`), and the set of the rounds at which something fails cannot have one.
`LoopTerminates` shows in this way that the recursive function exists, `LoopSteps` what its
rounds are, and `LoopFacts` that `ParsedWell` holds after each: no error so far if and only
if no line so far has a defect, an error is one of the defects seen, and otherwise the map of
headers has exactly the names seen, each with the value of the last field of that name
(`LastOfName`, in whatever case the names are written) and of the type its transformation
gives it. `DefectsFound` connects this with `Defects`, which looks at the header as a whole.
`RequestFacts`, `LengthFacts`, `ConnectionFacts` and `ResponseFacts` draw the conclusions from
which the five theorems follow: `StatusCorrect`, `TransformationsSafe`, `PersistenceOfHttp`,
`PersistenceTold` and `MessagesInSync`. `HttpIInv` by itself repeats what the actions assign, and
is only a lemma (`HttpInvariance`). `StatusCorrect` needs `LengthBounds` and `OverLimit`: which of
the two errors a length gets depends on the largest `size_t` as well as on the limit.
`PersistenceTold` is about complete responses: the server reads on only after one that said
keep-alive and was no error, and a receive or send that fails closes in every case.

**`Config`.** `ConfigIInv` is inductive for every set of files and command lines of any length
and every set of files that cannot be opened (`ConfigInputs`: lines and options are
sequences of settings and of the words that are none; "NULL" is no name of a file).
`InFile`: before each line, every setting has the last value of its key so far, and all lines
so far are in `Read`. `InCmdLine`: the same of the options, over what the file left; the
log file is the exception, as one that cannot be opened is stored: then the descriptor is
null until an option names another. One without memory for its name (`NameLost`) leaves the
descriptor as the lines before it did. The lemmas say how the last value changes with one more entry
(`LastOfStep`), what `Read` is where the reading ends (`ReadFacts`), and when the line that
ended it names a log file (`BrokenFacts`).

**`SyncSrv`.** `SyncIInv` is inductive for any numbers of clients, connections, descriptors and
threads. `InOrder`: connections get threads in the order in which they were made, so the
one at the head of the backlog has none yet and its descriptor is nobody else's.
`AnsweredLast`: a thread that has answered goes on to `close()` in any case. `EachCountedOnce`:
`n_conn` is the number of finished threads, and except between a report and the load that
follows it, the reports so far add up to no more than `prev_n_conn`. `Connected` ties a client
that waits to its own connection.

**`Master`.** `Main_proofs` proves `Spec => []NoOrphans` for every positive number of workers and
every number of SIGINTs. `NoOrphans` speaks of the end of the process only; the
invariant adds the types and that nothing was forked before the loop
(`NotStarted`), for the two ends that come without waiting: SIGINT at the start,
and a failing `create_listening_socket()`.

`Spec => []MasterTypeOK` follows from the same invariant.

**`QList`.** `QList_proofs` proves `Represents`, `LoopOnSchedule` and `QListTypeOK` for every set of
nodes and heads, from `DistinctCells` (the null pointer, nodes and heads differ). The
invariant adds `OnePlace` (an entry is on one list at one place) and `VisitOnce` (the loop
has nothing to visit twice). `OnePlace` makes the cells of all lists, taken as one
ring each, pairwise different (`Cells`), so that the two or three pointers an operation
writes belong to no other pair of neighbours (`InsertKeeps`, `DeleteKeeps`; both ways of
adding are one insertion between neighbours). `VisitOnce` shows that the entry the
body deletes lies before those still to visit, which therefore move up by one and
keep their order (`DeleteKeepsLoop`). With these theorems the sequences of `ConnCtx`,
about which `ConnCtx_proofs` speaks, stand for the pointers of the program.

**Only model-checked.** Every invariant and every action property of the passing runs is
proved. Liveness under fairness is out of the prover's reach and stays with TLC:
`InputConsumed`, `NoStarvation`, `NoSpinning`, `ZombiesReaped`, `LastWorkerEndsServer`,
`AcceptedInTheEnd`, `LosersServeOn`, `RestsOrIsFull`, `RequestAnswered`. So do the claims
under Divergences, which are false.

**Assumptions.** The proofs assume of the constants what the `ASSUME` of each module says, and
nothing else; the bounds of the runs are not among them. What is proved holds of the modules:
that the modules are the code is the business of the map in `PROJECT.json`.

## 5. Not modelled

- The text of messages (serialisation, pages, dates, how a line is split), logging,
  the printed rate of connections of `srv_async`.
- Reset of a connection that the server closes while input is unread (the client may
  lose the response): this is the kernel's doing after the last system call.
- `src/client.c` against `srv_async`: its request has no empty line in CR LF, so both
  sides wait.
- Stack overflow of a coroutine, and the C++ heap.
- The exit codes of workers, and the interplay of stdio buffers with `fork()`.
- Failure of `swapcontext()` and of `epoll_pwait()` for other reasons than EINTR;
  both end the process as `CoDies` and `FillExits` do.
- The components with status `not_modelled` in `PROJECT.json`.

## 6. Plan

The modules that were planned exist, and every invariant and action property of their
passing runs is proved. What is left, the most important first:

1. That `Server` is what `Worker` looks like from the listening socket. `Server` is not a
   refinement mapping away: a pass there serves a whole request of each connection, while a
   coroutine of `Worker` may take many passes for one. It needs a `Server` in which `Serve`
   begins and ends in different passes. Until then `NoSleepOverWork` and
   `NoneSleepsOverRequest` are proved side by side.
2. `RecvBuf` and `HttpMsg` in one module, with a header that is both bytes and fields, so
   that the length of a body is the one the header states and not one of a few.
