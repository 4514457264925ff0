----------------------------- MODULE GameServer -----------------------------
(***************************************************************************)
(* The game server: what lies between the network engine and the task      *)
(* threads of BaseFrame, which this module extends.                        *)
(*                                                                         *)
(* The manager announces an accepted connection: OnAcceptComplete enters   *)
(* the session into _connect_sessions, creates its player and pushes it on *)
(* the task queue.  Workers meanwhile read messages and turn each into a   *)
(* task of the session's player; the first receive is posted before the    *)
(* session is announced.  A task thread that executes a move broadcasts it *)
(* to the players in _actors; a send blocks while the peer does not read.  *)
(*                                                                         *)
(* A session gets one player, so the two have one name, and the names are  *)
(* ordered as the addresses _actors is sorted by.                          *)
(***************************************************************************)
EXTENDS BaseFrame

CONSTANTS
    Workers,    \* worker threads of the engine
    SendBuffer  \* bound: messages the send buffer of a socket holds

ASSUME AddressAssumption == Objects \subseteq Nat \ {0}
ASSUME SendBufferAssumption == SendBuffer \in Nat \ {0}

VARIABLES
    connectSessions, \* _connect_sessions
    object,      \* sessions whose _object has been set
    actors,      \* _actors
    ready,       \* players Initailize has run for
    socket,      \* of a session: "none", "open", "broken", "gone"
    outbox,      \* messages in the socket's send buffer
    mgrPc,       \* where the manager is
    mgrSession,  \* the session it announces
    parsing,     \* the session a worker reads messages of
    variable,    \* does the worker's variable msg hold a message?
    taskVar,     \* the worker whose msg each task of a player refers to
    walking,     \* threads inside BroadcastMsg
    cursor,      \* its iterator: the last player that was sent to
    fault        \* "none", or what the program stepped on

netVars == <<socket, outbox, mgrPc, mgrSession, parsing, variable>>
tableVars == <<connectSessions, object, actors, ready>>
castVars == <<walking, cursor>>
serverVars == <<frameVars, netVars, tableVars, castVars, taskVar, fault>>

ServerInit ==
    /\ Init
    /\ connectSessions = {} /\ object = {} /\ actors = {} /\ ready = {}
    /\ socket = [s \in Objects |-> "none"]
    /\ outbox = [s \in Objects |-> 0]
    /\ mgrPc = "idle" /\ mgrSession = NoObject
    /\ parsing = [w \in Workers |-> NoObject]
    /\ variable = [w \in Workers |-> FALSE]
    /\ taskVar = [o \in Objects |-> << >>]
    /\ walking = {}
    /\ cursor = [t \in Threads |-> 0]
    /\ fault = "none"

----------------------------------------------------------------------------
(* Sockets and peers *)

\* Mutant: a send that fails is tried again.
SendMsgRetries(s) ==
    /\ socket[s] = "open" /\ outbox[s] < SendBuffer
    /\ outbox' = [outbox EXCEPT ![s] = @ + 1]

\* Mutant: the send does not wait for room.
SendMsgNow(s) ==
    outbox' = IF socket[s] = "open"
              THEN [outbox EXCEPT ![s] = @ + 1] ELSE outbox

\* BASession::SendMsg.  The socket is locked if it still exists; WSASend
\* blocks while the buffer is full and fails at once on a broken connection.
SendMsg(s) ==
    /\ socket[s] = "open" => outbox[s] < SendBuffer
    /\ outbox' = IF socket[s] = "open"
                 THEN [outbox EXCEPT ![s] = @ + 1] ELSE outbox

\* The peer reads a message.
PeerReads(s) ==
    /\ socket[s] = "open" /\ outbox[s] > 0
    /\ outbox' = [outbox EXCEPT ![s] = @ - 1]
    /\ UNCHANGED <<frameVars, tableVars, castVars, taskVar, fault, socket,
                   mgrPc, mgrSession, parsing, variable>>

\* The connection is lost; a blocked send returns.  What was received before is
\* still read.
Breaks(s) ==
    /\ socket[s] = "open"
    /\ socket' = [socket EXCEPT ![s] = "broken"]
    /\ outbox' = [outbox EXCEPT ![s] = 0]
    /\ UNCHANGED <<frameVars, tableVars, castVars, taskVar, fault,
                   mgrPc, mgrSession, parsing, variable>>

\* The manager lets go of the closed socket (DelayCloseSockets).
Expires(s) ==
    /\ mgrPc = "idle"
    /\ socket[s] = "broken" /\ \A w \in Workers : parsing[w] # s
    /\ socket' = [socket EXCEPT ![s] = "gone"]
    /\ UNCHANGED <<frameVars, tableVars, castVars, taskVar, fault, outbox,
                   mgrPc, mgrSession, parsing, variable>>

----------------------------------------------------------------------------
(* The manager: OnAccept and OnAcceptComplete *)

Goes(from, to) ==
    /\ mgrPc = from /\ mgrPc' = to
    /\ UNCHANGED <<castVars, taskVar, fault, parsing, variable>>

\* BANetworkEngine::OnAccept makes the session; BASocket::OnAccept posts the
\* first receive.
OnAccept(s) ==
    /\ Goes("idle", "insertSession")
    /\ socket[s] = "none"
    /\ socket' = [socket EXCEPT ![s] = "open"]
    /\ mgrSession' = s
    /\ UNCHANGED <<frameVars, tableVars, outbox>>

Creates(from, to) ==
    /\ Goes(from, to)
    /\ UNCHANGED <<frameVars, socket, outbox, mgrSession>>

\* Mutant: the table is forgotten.
InsertSessionNever ==
    /\ Creates("insertSession", "setObject")
    /\ UNCHANGED tableVars

\* OnAcceptComplete: the table keeps the session, for ever.
InsertSession ==
    /\ Creates("insertSession", "setObject")
    /\ connectSessions' = connectSessions \cup {mgrSession}
    /\ UNCHANGED <<object, actors, ready>>

\* ActorManager::CreatePlayer, up to its lock.
SetObject ==
    /\ Creates("setObject", "insertActor")
    /\ object' = object \cup {mgrSession}
    /\ UNCHANGED <<connectSessions, actors, ready>>

\* Mutant: CreatePlayer returns without Initailize.
InsertActorOnly ==
    /\ Creates("insertActor", "push")
    /\ actors' = actors \cup {mgrSession}
    /\ UNCHANGED <<connectSessions, object, ready>>

\* The player enters _actors and gets its id, under the lock.
InsertActor ==
    /\ Creates("insertActor", "initialize")
    /\ actors' = actors \cup {mgrSession}
    /\ UNCHANGED <<connectSessions, object, ready>>

Initailize ==
    /\ Creates("initialize", "push")
    /\ ready' = ready \cup {mgrSession}
    /\ UNCHANGED <<connectSessions, object, actors>>

\* PushTaskQueue: from here on its tasks are executed.
PushTaskQueue ==
    /\ Goes("push", "inform")
    /\ PushNew(mgrSession)
    /\ UNCHANGED <<tableVars, socket, outbox, mgrSession>>

\* The player is told where it stands; OnAccept returns.
InformPlayer ==
    /\ Goes("inform", "idle")
    /\ SendMsg(mgrSession)
    /\ mgrSession' = NoObject
    /\ UNCHANGED <<frameVars, tableVars, socket>>

Manager == \/ InsertSession \/ SetObject \/ InsertActor \/ Initailize
           \/ PushTaskQueue \/ InformPlayer

----------------------------------------------------------------------------
(* The workers: BASession::OnRecv *)

\* A completion of s, which may have been queued before the connection broke.
\* A socket has one receive outstanding at a time (RecvBufExclusive of
\* BANetworkEngine).
OnRecv(w, s) ==
    /\ mgrPc # "exited"
    /\ socket[s] \in {"open", "broken"}
    /\ parsing[w] = NoObject /\ \A u \in Workers : parsing[u] # s
    /\ parsing' = [parsing EXCEPT ![w] = s]
    /\ UNCHANGED <<frameVars, tableVars, castVars, taskVar, fault, socket,
                   outbox, mgrPc, mgrSession, variable>>

\* An iteration has read a message into msg.  EnqueueMsg makes the task, which
\* refers to msg itself, and gives it to _object ...
EnqueueMsg(w) ==
    LET s == parsing[w] IN
    /\ s \in object
    /\ ~variable[w]
    /\ AddTask(s)
    /\ taskVar' = [taskVar EXCEPT ![s] = Append(@, w)]
    /\ variable' = [variable EXCEPT ![w] = TRUE]
    /\ UNCHANGED <<tableVars, castVars, fault, socket, outbox, mgrPc,
                   mgrSession, parsing>>

\* ... or calls through an _object nobody has set yet.
EnqueueUnset(w) ==
    /\ parsing[w] \in Objects \ object
    /\ fault' = "object"
    /\ UNCHANGED <<frameVars, netVars, tableVars, castVars, taskVar>>

\* The iteration ends and msg is destroyed.
NextMsg(w) ==
    /\ variable[w]
    /\ variable' = [variable EXCEPT ![w] = FALSE]
    /\ UNCHANGED <<frameVars, tableVars, castVars, taskVar, fault, socket,
                   outbox, mgrPc, mgrSession, parsing>>

\* No further message is complete.
RecvReturns(w) ==
    /\ parsing[w] # NoObject /\ ~variable[w]
    /\ parsing' = [parsing EXCEPT ![w] = NoObject]
    /\ UNCHANGED <<frameVars, tableVars, castVars, taskVar, fault, socket,
                   outbox, mgrPc, mgrSession, variable>>

Worker(w) ==
    \/ \E s \in Objects : OnRecv(w, s)
    \/ EnqueueMsg(w) \/ EnqueueUnset(w) \/ NextMsg(w) \/ RecvReturns(w)

----------------------------------------------------------------------------
(* The task threads: PacketTask, NetPlayerHandler, BAPlayer *)

TaskSide == UNCHANGED <<netVars, tableVars, taskVar>>

\* The task's msg: the variable of the worker that made it.
Dangling(t) == ~variable[taskVar[threadObj[t]][Head(batch[t])]]

\* CallHandle looks the protocol up in the handler table.  A move is carried
\* out and broadcast; any other protocol does nothing.  If msg is gone by now
\* what is read there may be either.  The reads of msg are one step: if it goes
\* between them, what comes of it is what may come of its being gone before.
CallHandle(t) ==
    /\ Execute(t)
    /\ walking' \in {walking, walking \cup {t}}
    /\ UNCHANGED <<cursor, fault>> /\ TaskSide

\* Or the read faults.
ReadsFreed(t) ==
    /\ threadPc[t] = "work" /\ running[t] = 0 /\ batch[t] # << >>
    /\ Dangling(t)
    /\ fault' = "message"
    /\ UNCHANGED <<frameVars, castVars>> /\ TaskSide

\* BroadcastMsg: the next player of _actors, through its raw _session.
BroadcastTo(t, p) ==
    /\ t \in walking
    /\ p \in actors /\ p > cursor[t]
    /\ \A q \in actors : q > cursor[t] => q >= p
    /\ SendMsg(p)
    /\ cursor' = [cursor EXCEPT ![t] = p]
    /\ UNCHANGED <<frameVars, walking, tableVars, taskVar, fault, socket,
                   mgrPc, mgrSession, parsing, variable>>

\* The iterator is advanced without the lock InsertActor holds.  While an
\* insertion is going on this may go well, or not.
RacesInsert(t) ==
    /\ t \in walking /\ mgrPc = "insertActor"
    /\ fault' = "actors"
    /\ UNCHANGED <<frameVars, castVars>> /\ TaskSide

LeavesWalk(t) ==
    /\ walking' = walking \ {t}
    /\ cursor' = [cursor EXCEPT ![t] = 0]
    /\ UNCHANGED fault /\ TaskSide

BroadcastEnd(t) ==
    /\ t \in walking
    /\ \A q \in actors : q <= cursor[t]
    /\ LeavesWalk(t)
    /\ UNCHANGED frameVars

\* The task's handler has returned.
TaskDone(t) ==
    /\ t \notin walking
    /\ Executed(t)
    /\ UNCHANGED <<castVars, fault>> /\ TaskSide

TaskThrows(t) == Throws(t) /\ LeavesWalk(t)

\* Between tasks a thread does what BaseFrame says.
BetweenTasks(t) ==
    /\ Pop(t) \/ Splice(t) \/ PushBack(t) \/ Exit(t)
    /\ UNCHANGED <<castVars, fault>> /\ TaskSide

\* What a thread does by running on ...
Runs(t) ==
    \/ CallHandle(t) \/ (\E p \in Objects : BroadcastTo(t, p))
    \/ BroadcastEnd(t) \/ TaskDone(t) \/ BetweenTasks(t)

\* ... and what may come in between.
Fails(t) == ReadsFreed(t) \/ RacesInsert(t) \/ TaskThrows(t)

Thread(t) == Runs(t) \/ Fails(t)

----------------------------------------------------------------------------
(* Release *)

\* The engine's Release: the manager and the workers are joined, between two
\* packets, and the maps cleared.
EngineRelease ==
    /\ Goes("idle", "exited")
    /\ \A w \in Workers : parsing[w] = NoObject
    /\ socket' = [s \in Objects |-> IF socket[s] = "none" THEN "none" ELSE "gone"]
    /\ outbox' = [s \in Objects |-> 0]
    /\ UNCHANGED <<frameVars, tableVars, mgrSession>>

\* BaseFrame::Release goes on to the task threads.
StopTask(t) ==
    /\ mgrPc = "exited"
    /\ Stop(t)
    /\ UNCHANGED <<castVars, fault>> /\ TaskSide

Ended == (fault # "none" \/ Joined) /\ UNCHANGED serverVars

ServerNext ==
    \/ /\ fault = "none"
       /\ \/ \E s \in Objects : \/ PeerReads(s) \/ Breaks(s) \/ Expires(s)
                                \/ OnAccept(s)
          \/ Manager
          \/ \E w \in Workers : Worker(w)
          \/ \E t \in Threads : Thread(t) \/ StopTask(t)
          \/ EngineRelease
    \/ Ended

ServerSpec == ServerInit /\ [][ServerNext]_serverVars

Works(A) == fault = "none" /\ A

\* The manager and the task threads keep running, and a peer reads what it is
\* sent or its connection breaks: a peer that did neither would stop every
\* thread that sends to it, for nothing frees a thread from a blocked WSASend.
\* Nothing makes a task throw or a thread step on freed memory, a peer send or
\* the server stop.
ServerFairness ==
    /\ WF_serverVars(Works(Manager))
    /\ \A s \in Objects : WF_serverVars(Works(PeerReads(s)))
    /\ \A t \in Threads : WF_serverVars(Works(Runs(t)))

FairServerSpec == ServerSpec /\ ServerFairness

----------------------------------------------------------------------------
(* Properties *)

\* Every variable keeps to its range, the frame's as well; the manager holds a
\* session while it announces it, a task that walks is being executed, and of
\* every task it is known whose variable it refers to.
ServerTypeOK ==
    /\ TypeOK
    /\ connectSessions \subseteq Objects /\ object \subseteq Objects
    /\ actors \subseteq Objects /\ ready \subseteq Objects
    /\ socket \in [Objects -> {"none", "open", "broken", "gone"}]
    /\ outbox \in [Objects -> 0 .. SendBuffer]
    /\ mgrPc \in {"idle", "insertSession", "setObject", "insertActor",
                  "initialize", "push", "inform", "exited"}
    /\ mgrSession \in Objects \cup {NoObject}
    /\ mgrSession = NoObject <=> mgrPc \in {"idle", "exited"}
    /\ parsing \in [Workers -> Objects \cup {NoObject}]
    /\ variable \in [Workers -> BOOLEAN]
    /\ taskVar \in [Objects -> Seq(Workers)]
    /\ \A o \in Objects : Len(taskVar[o]) = added[o]
    /\ walking \subseteq {t \in Threads : running[t] # 0}
    /\ cursor \in [Threads -> Objects \cup {0}]
    /\ fault \in {"none", "object", "message", "actors"}

\* Somebody holds a shared_ptr to the session: the table, its socket, OnAccept.
SessionAlive(s) ==
    \/ s \in connectSessions
    \/ socket[s] \in {"open", "broken"}
    \/ mgrSession = s

\* ... to its player: _actors, the task queue, a task thread, OnAcceptComplete.
PlayerAlive(p) ==
    \/ p \in actors
    \/ Queued(p) \/ Held(p)
    \/ p \in object /\ mgrSession = p

\* The pointers between a session and its player are raw on both sides, and
\* are followed long after the connection is gone: a player's _session by every
\* broadcast, a session's _object by a worker that is still parsing.  Neither
\* ever outlives what it points to.
RawPointersAlive ==
    \A s \in Objects :
      /\ PlayerAlive(s) => SessionAlive(s)
      /\ SessionAlive(s) /\ s \in object => PlayerAlive(s)

\* Messages may be queued for a player as soon as SetObject has run, but no
\* task of a player is executed, nor its queue position taken, before the
\* manager has finished with it: a task finds position, speed and id set, and
\* its move is broadcast to itself as well.
RunsInitialised ==
    \A o \in Objects : Queued(o) \/ Held(o) => o \in actors \cap ready

\* BASession.h:9, a session connects the engine and a player: no message is
\* read from a session that has no player yet.
SessionHasObject == fault # "object"

\* For every message that was read, CallHandle is called and returns in the
\* end, however often the manager and the task threads are held up by full
\* send buffers and whatever connections break meanwhile, unless its player
\* has failed, the server is released or the program has faulted.  What
\* CallHandle finds in msg is another question: msg may be gone by then.
MessagesHandled ==
    \A o \in Objects : \A i \in 1 .. MaxTasks :
      added[o] >= i ~> \/ Len(executed[o]) >= i
                       \/ o \in failed
                       \/ mgrPc = "exited" \/ fault # "none"

=============================================================================
