# A verification project for BAProjectS

BAProjectS is a Windows game-server framework in C++: `BACore` (networking over
I/O completion ports, buffers, threads, containers), `BALib` (the game server:
players, task threads, message handlers), a test server and a test client. This
directory holds TLA+ models of its concurrent and its error-prone parts, the TLC
configurations that check them on small instances, and TLAPS proofs of the
results that matter most for every instance.

Contents

1. The system: components, state, operations, interactions
2. The modules and how they correspond to the code
3. The runs, their bounds and what they show
4. Fairness
5. The proofs
6. Where the code and its comments disagree
7. What the models abstract from, and what is not modelled
8. Plan

## 1. The system

### Inventory

| Component | State | Operations | What makes it correct |
|---|---|---|---|
| `BANetworkEngine` | `_wait_sockets`, `_sockets`, `_listen_sockets`, `_delay_close_sockets`, `_listen_able`, two completion ports | `StartNetwork`, `Connect`, `Release` (main thread); `OnAccept`, `OnClose`, `DelayCloseSockets` (manager); `OnRecv`, `OnConnect`, `CloseSocket` (workers) | A listener's `_max_client` slots are neither multiplied nor lost; every socket has something that will come back for it; a closed socket waits out its delay; Release ends |
| `BASocket`, `BAOverlapped` | handle, pending operations, receive buffer; who owns the socket (`shared_ptr`) and who only refers to it (`weak_ptr`) | `Accept`, `Connect`, `Recv`, `Send`, `Shutdown`, `DelayClose`, `OnRecv`, `OnAccept`, `OnConnect` | The unlocked receive buffer has one user at a time; late completions of a dead socket do nothing |
| `BANetworkBuffer`, `BABufferContainer`, `BASession` | chain of units, read and write positions, `_size` | `GetRecvWsaBuf`, `UpdateRecv`, `Peek`, `Read`, `OnRecv` | The session is given exactly the messages the peer sent, however they are cut into completions; memory is bounded |
| `BaseFrame`, `SerializedObject` | `_queue_thread_tasks`, each object's `_serializer` | `StartTask`, `PopTaskQueue`, `PushTaskQueue`, `AddTask`, `Work`, `Release` | Tasks of one object never run concurrently, run in order, none is lost, and each object gets its turn |
| `BAAsyncThread` | `_state` | `Start`, `Stop`, `Join` | A stopped thread leaves its loop; joining does not hang |
| `GameServer`, `ActorManager`, `BAPlayer` | session table, actor table, the raw pointers `_object` and `_session` | `OnAcceptComplete`, `CreatePlayer`, `EnqueueMsg`, `CallHandle`, `BroadcastMsg`, `Release` | A message finds the player of its session; no task meets a half-made player; raw pointers outlive nothing; for every message its handler runs |
| Test client | the connection, what `OnConnectComplete` publishes, `TestObject` | `OnConnectComplete`, `Loop`, `AddNetworkTask` | The main thread finds what it waits for; each reply is handled with its own contents; `Loop` ends |
| `MultiToSingleList` | linked nodes, `_head`, `_tail` | `push_back`, `pop_front` | Without a lock it is a queue and frees no node somebody still writes to (nothing instantiates it yet) |
| `PushLockQueue` | the same on shared pointers | `push_back`, `pop_front`, `pop_all` | It is a queue (nothing instantiates it) |
| `BACircularQueue`, `BAMemoryPool`, `BAScheduler` | ring, chain of free cells, jobs ordered by time | push, pop, new, delete, `Loop`, `RegistJob` | The ring is a bounded list; no cell has two owners; jobs run when due, in time order (nothing instantiates them) |
| `BAEncryptor`, `BAValue`, locks, timers, logging | - | - | see section 7 |

### How they interact

The kernel posts completions to two ports. The **manager thread** is the only
consumer of the listen port (ACCEPT completions, CLOSE packets) and expires
delayed closes between two packets. The **workers** consume the socket port (RECV
and CONNECT completions). A worker that sees the end of a connection posts a CLOSE
packet to the manager, which closes the handle, keeps the object for five seconds
and then hands the slot back to the listener by issuing the next `AcceptEx`. The
**main thread** starts everything, may dial out and finally runs `Release`.

A worker that receives bytes advances the socket's buffer and lets the session
read every complete message; each becomes a task of the session's player. The
**task threads** of `BaseFrame` take players from a common queue, run their
tasks and put them back. The player itself is made by the manager, in
`OnAcceptComplete`, after the first receive of its session has been posted; a task
that moves a player sends to every player of `_actors`, through blocking sockets.

    main --StartNetwork/Connect/Release--> engine maps <--OnAccept/OnClose-- manager
                                              ^                               ^
                                  RegistSocket|                               | CLOSE packets
                                              +--------- workers -------------+
                                                            | EnqueueMsg -> AddTask
                                                            v
                                               object's list --Work--> task threads

### The hard behaviours

* The engine's four maps have no lock: who may touch them is a matter of which
  thread runs which handler.
* A socket can be asked to close many times, by different threads, at moments when
  it is being parsed, is already closed, or no longer exists.
* RECV and CLOSE completions hold weak references and may outlive their socket.
* Many results are ignored (`Recv` in `OnRecv`, `Listen` in `Initialize`, `Accept` in
  `UnregistSocket`): what is lost when one step of several fails?
* `Release` runs while all other threads still serve completions.
* A message can be cut at any byte, and the buffer's units can be exactly full.
* `Work` executes tasks without a lock, and a task may throw.
* A player becomes visible in five steps, to workers, to task threads and to
  broadcasts, while messages for it may already be arriving; it and its session point
  to each other with raw pointers and outlive the connection.
* A send blocks: one peer that does not read holds up task threads and the manager.
* `MultiToSingleList` publishes a node before it links it, and frees nodes whose addresses
  other threads still hold.

`PROJECT.json` lists each of them ("hazards") at its line with the properties
that speak of it.

## 2. The modules

| Module | What it is | Extends / uses |
|---|---|---|
| `BANetworkEngine` | the connection life cycle: all threads that touch the maps, the kernel and the peers | |
| `ConnectionSlots` | abstract: a listener's slots, each free, waiting, connected or dying | refined by `BANetworkEngine` |
| `MCBANetworkEngine` | instances for TLC (`MaxClient`, symmetry) | extends `BANetworkEngine` |
| `BANetworkEngine_proofs` | theorems about types and slots | extends `BANetworkEngine` |
| `SocketCare_proofs` | theorems about each socket, and the refinement of `ConnectionSlots` | extends `BANetworkEngine_proofs` |
| `ReceivePath` | the bytes of one connection: buffer chain, socket and session | |
| `MessageStream` | abstract: messages sent and the prefix of them delivered | refined by `ReceivePath` |
| `ReceivePath_proofs` | theorems, and the refinement of `MessageStream` | extends `ReceivePath`, `SetInduction` |
| `BaseFrame` | task threads, object queue, object lists | |
| `Mailboxes` | abstract: one mailbox per object, served in order, dead after a failure | refined by `BaseFrame` |
| `BaseFrame_proofs` | theorems | extends `BaseFrame` |
| `MultiToSingleList` | the lock-free list, access by access, with addresses that are reused | |
| `SendList` | abstract: a list that many append to and one takes from | refined by `MultiToSingleList` |
| `MultiToSingleList_proofs` | theorems, and the refinement of `SendList` | extends `MultiToSingleList`, `SetInduction` |
| `GameServer` | composition: the manager's `OnAcceptComplete`, the workers' `EnqueueMsg`, handlers and broadcasts on the task threads | extends `BaseFrame` |
| `GameServer_proofs` | theorems about the server and the client | extends `GameServer`, `TestClient`, `BaseFrame_proofs` |
| `TestClient` | the client: main thread, workers, its `TestObject` | |
| `MCGameServer` | the two programs for TLC; a behaviour is a run of one | extends `GameServer`, `TestClient` |
| `BAObjectCircularQueue` | the ring | implements `SendList` |
| `BAMemoryPool` | the pool behind `operator new` and `delete` | |
| `BAScheduler` | jobs to be done later | |
| `Containers_proofs` | theorems about ring, pool and scheduler | extends the three |
| `SetInduction` | induction over the naturals, for sets | extended by proof modules |
| `MCContainers` | the containers for TLC; a behaviour is a run of one | extends the four |

Definitions keep the source's names. A definition whose comment begins with
"Mutant:" is a plausible bug of the operator that follows it; it takes part in no
specification and is there to show that a property can fail: put in place of its
original it makes TLC report the property named for it in `PROJECT.json`.

### BANetworkEngine

| State | Code |
|---|---|
| `waiting`, `registered`, `delayClose` | `_wait_sockets`, `_sockets` (with the listen key or `CONNECT_SOCKET_KEY`), `_delay_close_sockets` |
| `handle`, `acceptSt`, `acceptOn`, `connectSt`, `recv` | `_socket` and the socket's operations in flight, by what the OVERLAPPED says |
| `closePkts` | CLOSE packets in the listen port |
| `listenSt`, `listenAble` | OS state of a listen socket, `_listen_able` |
| `mainPc`, `toArm`, `walkLeft`, `stopped` | where `StartNetwork` and `Release` are, the Accepts still to issue, what Release's loops still have to visit, threads stopped |
| `mgrPc`, `mgrSock`, `workerPc`, `workerSock` | the handler each thread is in and the socket it holds a `shared_ptr` to |
| `peer` | the remote end |
| `lost`, `abandoned` | history: Accept calls that failed, sockets left in a map by an ignored error |

`Alive(s)` says that some `shared_ptr` to the object exists; it is computed from the
maps, the ACCEPT and CONNECT overlapped and the running handlers, so an object dies
exactly when the last of them lets go, and `Open(s)` adds that its handle was not
closed. A socket identity is reused (`Fresh`) once nothing refers to it.

Each handler is one step, or two where another thread can see the middle:
`OnAccept` posts the first receive before it announces the session
(`OnAcceptComplete`), `OnRecv` parses before it posts the next receive (`RecvAgain`),
`OnCloseListener` and `Relisten` are the two halves of OnClose of a listen socket.
`Release` walks its two maps entry by entry while others insert and erase.

### ReceivePath

`buffer` is the chain from `_cur_read` on, the index of `_cur_write` in it and
`_size`. `Grown`/`WsaBufs` are GetRecvWsaBuf, `UpdateRecv`, `Read`, `Holds`
(`Readable`) and `FirstBytes` (`Peek`) the operations of the same purpose. The loops
over the chain are written once, as `EndOf`: the first unit that can take or give
what remains. `Complete(n)` is the kernel writing n bytes through the WSABUFs (`Written`), so a
counter that disagrees with where the bytes went is visible: a byte is the
number of its place in the peer's stream.

### BaseFrame

`queue` and `serializer` are the two kinds of lists; `threadPc`, `threadObj`, `batch`,
`running` are the locals of StartTask's loop and of `Work`. A step is what a thread
does between two lock acquisitions; `Execute` and `Executed` enclose a task so that
two tasks of one object could overlap if the code let them. `Throws` is the
exception that makes Work return false.

### MultiToSingleList

`head`, `tail`, `next`, `val` are the members; `allocated` is what the allocator has given out
and not got back, so an address can return as another node. `push_back` is three
steps: the first read of `_tail` (`Load`, with the creation of the still private node),
an iteration of the exchange (`Swing`, or `SwingFails`, which re-reads `_tail` and may be
spurious), and the store that links (`Link`). `pop_front` is one: only one thread
calls it, and the one shared word it reads, the first node's `_next`, never changes
again once it is not null.

### GameServer

`GameServer` has the variables of `BaseFrame` and its own, and its actions use those of
`BaseFrame` where the code calls it: `EnqueueMsg` ends in `AddTask`, `PushTaskQueue` is
`PushNew`, a task thread does `Pop`, `Splice`, `PushBack` and `Exit` as they are, and
`CallHandle`, `TaskDone` and `TaskThrows` are `Execute`, `Executed` and `Throws` with what the
task does.

| State | Code |
|---|---|
| `connectSessions`, `actors` | `_connect_sessions`, `_actors` |
| `object`, `ready` | sessions whose `_object` is set, players `Initailize` has run for |
| `socket`, `outbox` | how far the connection's life has come, the send buffer |
| `mgrPc`, `mgrSession` | where `OnAcceptComplete` and `CreatePlayer` are, and for whom |
| `parsing`, `variable`, `taskVar` | the session a worker is in `OnRecv` of, whether its local `msg` exists, and the worker whose `msg` a task captured by reference |
| `walking`, `cursor` | the threads in `BroadcastMsg` and their iterators; `_actors` is sorted by address |
| `fault` | an undefined access that took place; nothing happens after it |

`OnAcceptComplete` is one step per thing another thread can see: the session table,
`SetObject`, `_actors`, `Initailize`, `PushTaskQueue`, the first message. `SendMsg` is enabled
when the send returns: there is room, or the connection is broken, or the socket is gone.
Of the life of a connection only the order is kept here, open, broken, gone; `BANetworkEngine` has
the rest, and the rule that a socket has one receive outstanding is
its `RecvBufExclusive`. Undefined behaviour is a choice: a task
whose `msg` is gone reads anything (it moves the player or does not) or faults (`ReadsFreed`);
an iterator advanced while `CreatePlayer` inserts goes on or faults
(`RacesInsert`); the use of an unset `_object` faults (`EnqueueUnset`).

### TestClient

`members` are those of `_client_sessions`, `_player`, the session's `_object` and `start` that have been set;
`OnConnectComplete` sets them one by one on a worker. `SpinEnds` and `Iteration` are
`Loop`; `TestObject` inherits the list of `SerializedObject` but executes a task at once,
so `tasks` stays empty and `Work` finds nothing. `handled` records the reply each
CallHandle found in the worker's `msg`.

### Containers

The ring's `RingPop` is `front` with `Pop`, as a user calls them. In the pool `word` is the first word of a
cell, which is the link of the free chain or the object's own data, whichever wrote last. `NewThrows` is
an allocation that fails: a pool of fixed size has set `m_fix` by then and yields `nullptr` ever after.
In `BAScheduler` the call and the return of `Process` and of `Complete` are steps of their own, because the
callbacks may register any number of jobs in between (`Regist`); `RegistJob` inserts at the one place of the multimap that has the
times up to the new one in front and the later ones behind; iterator and `begin()` coincide, since what is passed is erased.

## 3. The runs

| Run | Configuration | Checks | Distinct states |
|---|---|---|---|
| `server` | 1 listener with 2 slots, 3 sockets, 2 workers | `TypeOK`, `SlotLedger`, `NoSlotForgotten`, `ClosedIffDelayed`, `RecvBufExclusive`, `AnnouncedOpen`, `OperationsTracked`, `ImplementsSlots` | 754,616 |
| `mixed` | 1 slot, 2 sockets, 2 workers, 2 outgoing connections | `NoSlotForgotten`, `ClosedIffDelayed`, `RecvBufExclusive`, `ImplementsSlots` | 430,468 |
| `reclaim` | 1 slot, 2 sockets, 1 worker, fair | `DeadConnectionsReclaimed` | 31,622 |
| `release` | the same with 1 outgoing connection, fair | `ReleaseTerminates` | 188,904 |
| `receive` | units of 4 bytes, 2 posted; messages of 2, 3 and 6 bytes, 3 of them | `TypeOK`, `NeverComeIn`, `SizeMatchesChain`, `NothingLeftUnread`, `ChainBounded`, `ImplementsStream`, `MessagesDelivered` | 15,360 |
| `tasks` | 2 objects, 3 tasks each, 2 threads, fair | `TypeOK`, `OnePlace`, `NoTaskLost`, `ImplementsMailboxes`, `TasksExecuted`, `ReleaseJoins` | 34,208 |
| `containers` | list: 2 producers, 2 pushes each, 4 addresses, fair; ring: 2 items, 5 pushes; pool: 2 blocks of 2; scheduler: 3 jobs, delays 0 to 2 | `TypeOK`, `NoUseAfterFree`, `ImplementsList`, `AllPopped`, `RingIsList`, `PoolExclusive`, `JobsDue` | 66,664 |
| `programs` | server: 2 connections, 1 message each, 2 task threads, 1 worker, send buffer of 1, fair; client: 1 worker, 3 requests, 3 replies, fair | `ServerTypeOK`, `RawPointersAlive`, `RunsInitialised`, `MessagesHandled`, `ClientDispatch`, `LoopEnds` | 89,952 |
| `single_thread`, `release_walk`, `listen_repeat` | 1 slot, 2 sockets, 1 worker | a comment of the code each, violated: section 6 | |
| `game_session` | 1 connection, 1 worker | `SessionHasObject`, violated: section 6 | |

### What they show

*Engine.* `SlotLedger`: the accepts still to issue, the waiting and the registered
sockets and the Accepts that failed add up to `_max_client` at every step until
Release clears the maps, although UnregistSocket arms the new socket before it
erases the old one. `NoSlotForgotten`: every socket of a map has a pending
operation, a handler, a CLOSE packet or a delay that will come back for it, except
those lost to an error the code ignores; the exceptions are enumerated by
`abandoned` (a failed ACCEPT completion, a client the port refuses, a failed
WSARecv), which is the list of leaks of the real program. `ClosedIffDelayed`: a
registered socket has its handle closed exactly while it is in the delay.
`RecvBufExclusive`: never two workers, or a worker and the kernel, in one receive
buffer, also when an identity has been reused. `AnnouncedOpen`: the session announced by
OnAcceptComplete has an open handle, although a worker may have seen its end by
then. `OperationsTracked` is the part of the inductive invariant that ties AcceptEx operations
to `_wait_sockets`. `ImplementsSlots`: all of it, interleaved as it may be, is a set
of slots that go free, waiting, connected, dying and waiting again.
`DeadConnectionsReclaimed`: the slot of a connection whose peer is gone comes back,
over both ports and the delay. `ReleaseTerminates`: Release ends.

*Receive path.* Whatever the sizes and however the stream is cut, the branch the code
marks "Never come in!" is not reached, the counters describe where the kernel put
the bytes, nothing complete stays unread, the chain has a bound that depends on the
largest message only, and the session gets the messages sent, in order, once.

*Task threads.* An object is at one place; tasks are not lost, doubled or
overtaken, also when another task throws; the threads implement one mailbox per
object; each task gets its turn; Release joins all threads although the queue is
never empty.

*List.* No producer links, and the popping thread follows, a node that was freed;
pushes take effect in the order of their exchanges and come out in that order, once; a
suspended producer delays what was pushed behind it but loses nothing. An exchange that
succeeds because an address came back is harmless: it compares with the
present tail, whoever owned the address before.

*Server.* `RunsInitialised`: whatever arrives while `OnAcceptComplete` is under way, a task thread
never has a player that is not in `_actors` with position, speed and id.
`RawPointersAlive`: a player's `_session` and a session's `_object` never dangle, although the
connection may break and its socket be destroyed at any time; it holds because the
tables never erase (its mutant drops one insertion). `MessagesHandled`: for a message that was read
CallHandle runs and returns, however the manager and the task threads hold each other up by sends,
as long as every peer reads or goes away: a send waits for room, but never for a connection that is
broken (its mutant tries a failed send again). It does not say that CallHandle finds the message: what a task reads
through its reference to a `msg` that is gone is anything (section 2).

*Client.* `ClientDispatch`: the main thread and the workers find what they use, and each reply
is handled once, in order, before `msg` is gone. The receive is posted before
`OnConnectComplete` sets `_object`; the one worker that main asks for is what keeps a reply from
overtaking it. `LoopEnds`: once connected, the client gets through its loop though the
connection breaks.

*Ring, pool, scheduler.* The ring refines the same abstract list as `MultiToSingleList` and refuses
only when full; the free chain of the pool and the cells in use always
partition the blocks; no job runs early, out of order or twice, or is left over by a `Loop` that found it due,
and when `Loop` has returned every job processed has been completed, in the same order.

### The bounds and why they are enough

* Two slots and three sockets: one connection can be dying while its successor is
  armed and another connection is active, and one identity is left for the Accept that
  UnregistSocket issues before it erases. With two workers two completions of one
  socket could be served at once if the protocol allowed it.
* `MaxConnects` bounds the dials; two allow a dialled socket to be registered while
  the other is closed and its identity reused.
* CLOSE packets need no bound: each has a cause (a receive that ended, Release's walk, a
  failed accept) that cannot recur without a new connection.
* One listener: listeners share nothing but the threads. The proofs are for any number.
* The liveness runs are smaller (one worker, one slot, no symmetry).
* Units of 4 bytes with two posted: 2, 3 and 6 let a message end with a unit, lie within
  one, begin in the middle and extend over three; the addresses (3) leave one byte
  of the first unit. Three messages are enough for the end of one, a whole one and the
  beginning of the next in one completion.
* Two objects and threads are needed for exclusion and for rotation; three tasks let a
  list be spliced while it is refilled twice.
* Four addresses for up to five nodes: the dummy is freed and its address given out while the other
  producer is between its read of `_tail` and its exchange.

* Two connections and two task threads: a player broadcasts while the other is being
  announced, or blocks on the other's send buffer. One message per player is what the
  temporal check can bear; longer lists are the subject of `tasks`, and the
  invariants are proved for any number. A send buffer of one message fills at once.
* `MaxSends` stands for the 10,001 requests of `Loop`; three with a buffer of one let a request block
  before, between and after replies.
* Five pushes send both indices of a ring of three slots round. Two blocks of two cells
  chain cells of different blocks in any order. Delays 0, 1 and 2 on a clock to 3 give jobs of
  equal, earlier and later times from inside the callbacks, one of them due at once.

Every bound is a constant: `Sockets`, `MaxConnects`, `MaxMessages`, `MaxTasks`, `MaxPushes`, `Nodes`,
`SendBuffer`, `MaxSends`, `MaxReplies`, `ServerBuffer`, `MaxRingPushes`, `MaxAllocs`, `MaxTime`, `MaxJobs`.
Deadlock is checked in every run; the steps `Terminated`, `Closed`, `Joined`, `Finished`, `Ended` and
`Rests` stand for a program that has ended, or that waits for a key.

## 4. Fairness

* `ThreadFairness`: a thread that can go on goes on (weak fairness for the main thread's
  loops and for the rest of a handler, so the application's callbacks are assumed to return; a callback
  that sends, as GameServer's does, returns only if the peer reads or goes away). `ManagerExit` and `WorkerExit` have strong
  fairness: the flag is tested at every iteration, between two packets.
* `ConnectionFairness`: a completion port serves its packets in turn, so a packet
  is not passed over for ever while its consumers keep dequeuing: strong fairness
  per packet, since the consumer is busy again and again. `Expire` is strong for the same
  reason and needs only the clock. `RecvEnds`: the kernel completes a receive whose
  connection is gone.
* `BaseFrame`: weak fairness for each thread's `Turn`, so a task that does not throw is assumed to end; nothing
  obliges one to throw. Strong fairness for leaving the loop, which is enabled only between two objects. Nothing forces the application to stop the first
  thread, hence `stopped # {}` in front of `Stop`.
* `ReceivePath`: weak fairness for the receiver and for the kernel's delivery.
* `MultiToSingleList`: a thread inside push_back runs on, and the weak exchange does not fail
  for ever against an unchanged tail; the consumer polls.
* `GameServer`: weak fairness for the manager inside `OnAcceptComplete`, for what each task thread does by
  running on (`Runs`) and for each peer's reading. What may happen to a thread but need not (`Fails`: a task throws, or
  a thread steps on freed memory) is left out, so nothing frees a thread from a blocked send but its peer. The last is an assumption on the peers, not on the code: against a peer that
  keeps the connection and never reads, sends block for ever and
  `MessagesHandled` is false (TLC finds this when the peers' fairness is taken out). Nothing is assumed of workers or of `Breaks`.
* `TestClient`: weak fairness for the main thread, and the server reads what it is sent. Nothing
  obliges the worker to finish OnConnectComplete; `LoopEnds` starts from there.
* Nobody is obliged to push, dial, accept, send, hang up or Release.

## 5. The proofs

`tlapm` checks them with Z3, Zenon and LS4.

| Theorem | Statement | Argument |
|---|---|---|
| `BANetworkEngine_proofs!TypeCorrect` | `Spec => []TypeOK` | `TypeOK` is inductive: one lemma per thread, one step per action |
| `BANetworkEngine_proofs!OperationsTrackedCorrect`, `SlotLedgerCorrect` | `Spec => []OperationsTracked`, `Spec => []SlotLedger` | the inductive invariant `LedgerInv` |
| `BANetworkEngine_proofs!MaxClientCorrect` | a listener never has more registered sockets than its `_max_client`, up to Release | from the ledger |
| `SocketCare_proofs!RecvBufExclusiveCorrect`, `ClosedIffDelayedCorrect`, `AnnouncedOpenCorrect`, `NoSlotForgottenCorrect` | `Spec => []` of each | the inductive invariant `CareInv` |
| `SocketCare_proofs!ImplementsSlotsCorrect` | `Spec => ImplementsSlots` | each step is one of `ConnectionSlots` or none; needs `CareInv`, the ledger and `OneMap` |
| `BaseFrame_proofs!TypeCorrect` | `Spec => []TypeOK` | inductive |
| `BaseFrame_proofs!OnePlaceCorrect` | `Spec => []OnePlace` | inductive with `TypeOK` |
| `BaseFrame_proofs!NoTaskLostCorrect` | `Spec => []NoTaskLost` | inductive with `TypeOK` and `OnePlace` |
| `BaseFrame_proofs!ImplementsMailboxesCorrect` | `Spec => ImplementsMailboxes` | each step is one of `Mailboxes` or none; needs `TypeOK` and `OnePlace` |
| `GameServer_proofs!ServerRunsFrame` | `ServerSpec => Spec` | every step of the server is a step of `BaseFrame` or leaves its variables alone |
| `GameServer_proofs!ServerTypeCorrect` | `ServerSpec => []ServerTypeOK` | inductive; the part of the frame is `BaseFrame_proofs` |
| `GameServer_proofs!RunsInitialisedCorrect`, `RawPointersAliveCorrect` | `ServerSpec => []RunsInitialised`, `ServerSpec => []RawPointersAlive` | the inductive invariant `ServerInv` |
| `GameServer_proofs!ServerTasks` | `ServerSpec => [](OnePlace /\ NoTaskLost)` | from `ServerRunsFrame` and the theorems on `BaseFrame` |
| `GameServer_proofs!ServerMailboxes` | `ServerSpec => ImplementsMailboxes` | the same |
| `GameServer_proofs!ClientDispatchCorrect` | `ClientSpec => []ClientDispatch` with one worker | the inductive invariant `ClientInv` |
| `Containers_proofs!RingIsListCorrect` | `RingSpec => RingIsList` | each step is one of `SendList` or none |
| `Containers_proofs!PoolExclusiveCorrect` | `PoolSpec => []PoolExclusive` | the inductive invariant `PoolInv` |
| `Containers_proofs!JobsDueCorrect` | `SchedSpec => JobsDue` | the inductive invariant `SchedInv` (the multimap is sorted; each job waits or was processed) |
| `MultiToSingleList_proofs!TypeCorrect` | `Spec => []TypeOK` | inductive |
| `MultiToSingleList_proofs!NoUseAfterFreeCorrect` | `Spec => []NoUseAfterFree` | the inductive invariant `Inv` (ownership of nodes) |
| `MultiToSingleList_proofs!ImplementsListCorrect` | `Spec => ImplementsList` | each step is one of `SendList` or none; the inductive invariant `ListInv` (`Inv` and a `Spine`) |
| `ReceivePath_proofs!TypeCorrect`, `UpdateRecvNeverFails`, `SizeIsContent`, `AllCompleteDelivered`, `ChainBound` | `Spec => []` of `TypeOK`, `NeverComeIn`, `SizeMatchesChain`, `NothingLeftUnread`, `ChainBounded` | the inductive invariant `RecvInv` |
| `ReceivePath_proofs!ImplementsStreamCorrect` | `Spec => ImplementsStream` | each step is one of `MessageStream` or none; needs `RecvInv` |
| `ReceivePath_proofs!MessagesWhole` | what was delivered is a prefix of what was sent, each message with its own bytes | from `RecvInv` |
| `ReceivePath_proofs!ReceivesHaveRoom` | every receive that is posted has a free unit of its own | from `RecvInv` |

*Why a strengthening.* `SlotLedger` is not inductive by itself. OnAccept moves a socket from
`_wait_sockets` to `_sockets` under the listener its AcceptEx was issued on; the sum
is preserved only if the socket was waiting under that very listener, and is not
counted in the other map already. OnConnect puts a socket under `ConnectKey`; that
leaves the sum alone only if the socket is in neither map. `OperationsTracked` says
both, and the invariant is `TypeOK /\ OperationsTracked /\ SlotLedger`. The cardinalities
are handled by four lemmas about counting the sockets a function maps to a value
(`CountType`, `CountAdd`, `CountRemove`, `CountSame`), on top of the library's facts about finite sets.

*CareInv* is about one socket at a time. None of the four properties is inductive: a completion
is handled long after the operation was issued, and what it finds depends on nobody having
touched the socket in between. `OperationsAlone` says so: while an AcceptEx or ConnectEx
is not handled yet, the socket is in no handler's hands, has no receive, is not registered, not
closed and not in Release's walk. So OnAccept and OnConnect post the only receive, which is
`RecvBufExclusive`, and find an open handle. `WalkRegistered` is the same for Release: what its loop still has
to visit is registered, so a CLOSE packet is never posted for a socket being accepted. `RegisteredKept` and
`WaitingKept` say of each kind of socket what will come back for it, which is
`NoSlotForgotten`, and need that every handler that ends has passed its socket on.

*ImplementsSlots.* A socket's `life` is read off the three maps, so the proof needs that it is in one of
`_wait_sockets` and `_sockets` only (`OneMap`), that OnAccept finds it waiting and
OnConnect finds it in neither (`OperationsTracked`), and that a new accept has a slot to spare: what
StartNetwork still has to issue is a summand of the ledger, hence the waiting and the registered
sockets are fewer than `_max_client`. UnregistSocket, which arms the new socket first, is the one
step that changes two sockets.

*ImplementsMailboxes.* A mailbox is what a thread has taken followed by what is left in the object's
list. Popping, splicing and pushing back leave it alone; the end of a task takes its first
element, because the thread's list comes first and nobody else holds the object (`OnePlace`).

*Receive path.* The chain of units is seen as one tape. Unit i has the positions from
`Base(i) + 1` to `Base(i) + Capacity`; the units before `_cur_write` are full to the end, those behind
it are empty, and only the first may have been read in part. Then what is to be read is one interval of
the tape, `_size` long (`OneTape`), and the loops over the chain, which subtract what each unit can take
or give until nothing remains, find the unit in which a position lies (`EndOfIs`). One lemma for each operation says
what it does to the tape: `UpdateRecvIs` moves its written end, `ReadIs` its read end and drops the
units behind it, `GrownIs` appends empty units, `LandedIs` says where the kernel's bytes come to lie.

None of the properties is inductive. That UpdateRecv finds room depends on what was posted for the completion,
that the counters fit on the kernel having filled the WSABUFs from the first on, and that the next message is whole on
what the tape holds. `RecvInv` has these as four parts: `RecvTypes`; `ChainIs`, which
has for each WSABUF a unit, and a spare one behind the last; `StreamIs`, by which the tape holds the stream's bytes
from the end of the last message delivered up to what has arrived, with those the kernel has written and
`_size` does not count yet (`Unbooked`); and `PostedIs`, by which a completion fits what was posted
and nobody waits while a whole message is there. The spare unit is what UpdateRecv needs when a completion fills
what was posted to the last byte, and the reason that `NeverComeIn` holds; it is also why a receive is never posted without room
(`ReceivesHaveRoom`), which would complete with zero bytes and be taken for the end of the
connection. `ChainBound` follows as the units before `_cur_write` hold less than
the largest message when nothing complete is left.

*ImplementsList.* `Chain` walks from node to node, along links that may be missing and nodes that
may be reused. The proof has the walk's course as a sequence instead (`Spine`): distinct allocated nodes from `_head` to
`_tail`, each the `Successor` of the one before it, be it linked or only exchanged for it. An exchange appends a node to it, a pop
takes the first off, a link and a free elsewhere change none of the successors, and `SpineChain` finds by induction
that the walk gives the values of the sequence.

*Scheduler.* `JobsDue` needs that the multimap is sorted by time and, for equal times, by the order of registration
(`Sorted`), whatever the callbacks insert while Loop walks: an insertion finds its one place (`Inserted`), and since what is
processed is taken off the front, nothing that is due is behind something that is not. That new jobs are registered
last makes the number of a job its rank among equal times. `Ledger` says that a job is in the multimap or has been processed, and
that what was completed followed by what is left in `complete_jobs` is what was processed; as numbers in a sorted multimap are
distinct, erasing one job takes its number out of it (`FirstErased`).

*Induction over data.* The library's induction theorems take a predicate, an operator, as a parameter, which the provers
cannot instantiate. `SetInduction` states induction for a set of numbers, an ordinary parameter:
a set that has 0 and every successor has every number. It is derived from the
library's theorem that strict inclusion of finite sets is well founded. What `FlattenSeq`, `Remaining`, `Before` and
`Chain` compute is proved with it.

*TestClient.* With one worker the callbacks on the network side are sequential: `Announced` follows
OnConnectComplete from member to member, and `HandledSoFar` says that every reply read but the one in the
worker's hands has been handled. With two workers a reply could be read before the
session has its object; the client starts one.

*Ring and pool.* For the ring it is enough that indices go round once at most, which turns the divisions
into cases. For the pool the invariant is that there is a way through all free cells
that starts at `m_free_ptr` and follows their first words; `new` takes its first cell, `delete` puts one in
front, an allocation makes a new one, and nobody writes to its cells meanwhile.

*OnePlace* needs all its four parts together: that a popped object leaves the queue
(`NotBoth`) follows from its being queued once, that pushing it back keeps
`QueuedOnce` follows from `NotBoth`, and that a new object may be pushed follows from
`InRotation`.

*NoTaskLost* lines three lists up: what an object has executed, what a thread has taken of it and what is
left in its list. AddTask appends to the last (`LineAdd`), Work's splice makes the last the second (`LineShift`), and the
end of a task moves the first element of the second to the end of the first (`LineMove`); the line as a whole changes only
when a task is added.

*GameServer.* `ServerRunsFrame` is what makes the composition cheap: with `FrameStep`, which says so
of one step, every invariant of `BaseFrame` holds of the server. The server's own
invariant, `ServerInv`, adds `Announced` to `ServerTypeOK` and `OnePlace`: the tables fill in the order of
OnAcceptComplete, each a subset of the one before (a session has an `_object` only if the
session table holds it, is in `_actors` only if it has an `_object`, is pushed only if it is in
`_actors` and ready), and the session the manager has in hand is in exactly those its position says. `RunsInitialised`
follows with `InRotation`, because what is queued or held has been pushed; `RawPointersAlive`
follows because whoever keeps a player alive has been pushed or is in the
manager's hands.

*NoUseAfterFree* rests on `Ownership`: every allocated node is pointed to from one
place only (`Reachable`), a new node is its producer's until it is linked (`NewNodes`), and a
former tail is the producer's that replaced it (`FormerTails`). `pop_front` frees a
node with a successor; a former tail has none yet; that it has none needs that no other
producer links the same node, and that is the distinctness in `FormerTails`, which an
exchange keeps since the present tail is nobody's former tail.

*Assumptions.* Engine: `Sockets` is finite (`FiniteAssumption`), `MaxClient` maps
listeners to naturals, the keys and identities are distinct (`KeyAssumption`, as the
code's `CONNECT_SOCKET_KEY` is no listener's handle), `MaxConnects` is a natural. BaseFrame: `NoObject`
is not an object, `MaxTasks` is a natural. GameServer: players are numbers from 1, as addresses
are ordered (`AddressAssumption`); the send buffer holds at least one message. List: `Null` is not an address, the addresses
are finite in number (`NodesAssumption`), `MaxPushes` is a natural. Receive path: a unit has at least one byte, two units at least are posted (the code
posts five; with one, a unit that is exactly full would leave a receive without room), a header has a byte at least and no message is
smaller than its header, and AcceptEx's addresses fit into one unit. Scheduler: delays are naturals. None limits the number of listeners,
workers, threads, objects or addresses. The runs evaluate every assumption.

Pool and ring: their sizes are positive. Client: the theorem assumes one worker.

*Only model-checked.* Liveness, which is out of the prover's reach: `DeadConnectionsReclaimed`, `ReleaseTerminates`,
`MessagesDelivered`, `TasksExecuted`, `ReleaseJoins`, `AllPopped`, `MessagesHandled` and `LoopEnds`. Every invariant and every
other action property or refinement of a passing run is a theorem; the four properties of section 6 are false.

## 6. Where the code and its comments disagree

Four runs each check a sentence of the code and find a counterexample.

* `single_thread`: the header calls the maps "Single Thread mem"
  (BANetworkEngine.h:26), but `OnConnect` runs `RegistSocket` on a worker
  (BANetworkEngine.cpp:177) while the manager works on the same maps.
  `std::map` is not safe for that: the models take each map operation as atomic,
  which is the best outcome such a race can have, so what holds
  here for outgoing connections holds only if a lock (or the PRE_CONNECT packet that
  nothing posts) serialises them.
* `release_walk`: "all connected socket close." (BANetworkEngine.cpp:298), but
  Release walks `_sockets` while the manager still accepts; a connection registered behind the walk
  gets no CLOSE.
* `listen_repeat`: "Repeat Listen;" (BANetworkEngine.cpp:113) always fails at `bind`
  on a bound socket, and the CLOSE packet goes round until Release.
* `game_session`: the session "connects the network engine and the player object"
  (BASession.h:9, in Korean), but a message can be read before it has a player:
  `OnAccept` posts the first receive (BASocket.cpp:195), `SetObject` comes later
  (ActorManager.cpp:10), and no constructor initialises `_object`, which `EnqueueMsg` calls through
  (BASession.cpp:39).

## 7. Abstractions and omissions

*Abstractions.*

* Completion ports are multisets, not queues: all orders a FIFO port
  can deliver are behaviours, and more. Properties that hold for the multiset hold for
  the queue.
* The five-second delay may end at any time after it began; the six-second sleep
  of Release may end before it. Properties do not rely on clocks.
* `DelayCloseSockets` copies the map before it walks the copy, which keeps an object
  alive a little longer than `Expire` does; nothing looks at it in between.
* `UpdateRecv` giving up leaves the buffer as it is (state `overrun`), since nobody reads it
  afterwards. A header that is not at a message boundary may say any size.
* `Connect` that fails returns without trace and is no step.
* The read of `_socket` and the call that uses it are one step, although another thread may
  close the handle in between.
* `Send` and the options of a socket change nothing the properties tell apart.

* In `GameServer`, `OnRecv` and `EnqueueMsg` stand for a completion with one message per
  iteration; how bytes become messages is `ReceivePath`. The first `receive` of a session may
  complete at any time after OnAccept. Positions are not modelled, so neither is the race
  between `GetPos` in `OnAcceptComplete` and a `Move` that a task thread executes
  for the same player, after `PushTaskQueue`.
* `SetObject` takes an `INetworkObject*`; both callers pass a shared pointer, which does not convert. The
  models take the object's address, which is all the callers can mean.
* In `GameServer`, what CallHandle reads of `msg` is one step when the task starts. `msg` may also go between two of its reads;
  what comes of it is among the outcomes of its being gone before. A connection that broke stays `broken`, and what it
  received before may still be read, until the socket is reclaimed.
* The header of a message is taken to be the one a conforming peer sends: sizes below the header's are not (`SizesAssumption`).
* The pool's cells have one size; the `size` that `operator new` is passed is not looked at by the code either.
* The pool's `operator new` may return nullptr although it is not declared `noexcept`; the model stops at the
  return. The OVERLAPPED base of a BAOverlapped is not zeroed by its constructors; what the kernel makes of it is outside.

*Not modelled.* `BAEncryptor` (`IsEncryt` is constantly false), `BAValue` (floating
point) and the arithmetic of a move, locks, timers, random numbers,
singletons and logging (thin wrappers), `World` and `Sector` (empty), the class `TestServer` (no program uses
it), the action agent (never consulted). What nothing calls in the parts that are used:
`OnPreConnct`, `PostCompletionPort`, and `Write`, `GetSendWsaBuf`, `UpdateSend` and `Reserve` of the
buffers; the program sends with `WSASend` directly. `PushLockQueue` cannot be instantiated:
`std::atomic` of a shared pointer needs C++20 and `pop_all` names undeclared variables.

## 8. Plan

In order of importance; all items but the last are done.

1. `BANetworkEngine` with `ConnectionSlots`; type and slot proofs.
2. `BaseFrame` with `Mailboxes`; type, place and order proofs.
3. `ReceivePath` with `MessageStream`.
4. The findings' runs.
5. `MultiToSingleList` with `SendList`; type and memory-safety proofs.
6. `GameServer`, composed with `BaseFrame`; the proofs carried over and its own.
7. `TestClient`.
8. The ring, the pool and the scheduler.
9. The socket-by-socket invariants of the engine, the refinements of `ConnectionSlots`, `Mailboxes` and
   `SendList` (by the ring), and the client's and the pool's invariants, proved.
10. The receive path's invariants and its refinement of `MessageStream`, the refinement of `SendList` by
    `MultiToSingleList` and the scheduler's order, proved; induction over data for them.
11. Left: the send side, once something calls it.
