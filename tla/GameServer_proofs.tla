--------------------------- MODULE GameServer_proofs ---------------------------
(***************************************************************************)
(* For any number of connections, workers, task threads and tasks: a       *)
(* GameServer uses its task threads as BaseFrame describes them, so what   *)
(* is proved of BaseFrame holds in the server; no task of a player runs    *)
(* before the player is complete; and the raw pointers between sessions    *)
(* and players never outlive what they point to.                           *)
(*                                                                         *)
(* The last two rest on Announced, which says how far OnAcceptComplete has *)
(* come with each session in terms of the tables it fills.                 *)
(*                                                                         *)
(* At the end the test client, for any number of requests and replies: it  *)
(* uses nothing OnConnectComplete has not set, and handles each reply with *)
(* its own contents.                                                       *)
(***************************************************************************)
EXTENDS GameServer, TestClient, BaseFrame_proofs

USE AddressAssumption, SendBufferAssumption

\* The initial state has the right types.
LEMMA ServerInitType == ServerInit => ServerTypeOK
  BY InitType DEF ServerInit, ServerTypeOK, Init

\* A step of the server is one of BaseFrame's, or leaves the frame alone.
LEMMA FrameStep ==
  ServerTypeOK /\ [ServerNext]_serverVars => [Next]_frameVars
<1> SUFFICES ASSUME ServerTypeOK, [ServerNext]_serverVars
             PROVE  [Next]_frameVars
  OBVIOUS
<1>1. ASSUME NEW s \in Objects,
             PeerReads(s) \/ Breaks(s) \/ Expires(s) \/ OnAccept(s)
      PROVE  UNCHANGED frameVars
  BY <1>1 DEF PeerReads, Breaks, Expires, OnAccept
<1>2. CASE Manager
  <2>1. CASE PushTaskQueue
    <3>1. PushNew(mgrSession)
      BY <2>1 DEF PushTaskQueue
    <3>2. mgrSession \in Objects
      BY <2>1 DEF PushTaskQueue, Goes, ServerTypeOK
    <3> QED
      BY <3>1, <3>2 DEF Next
  <2>2. CASE ~PushTaskQueue
    BY <1>2, <2>2 DEF Manager, InsertSession, SetObject, InsertActor,
                      Initailize, InformPlayer, Creates
  <2> QED
    BY <2>1, <2>2
<1>3. ASSUME NEW w \in Workers, Worker(w) PROVE [Next]_frameVars
  <2>1. CASE EnqueueMsg(w)
    <3>1. AddTask(parsing[w]) /\ parsing[w] \in Objects
      BY <2>1 DEF EnqueueMsg, ServerTypeOK
    <3> QED
      BY <3>1 DEF Next
  <2>2. CASE ~EnqueueMsg(w)
    BY <1>3, <2>2 DEF Worker, OnRecv, EnqueueUnset, NextMsg, RecvReturns
  <2> QED
    BY <2>1, <2>2
<1>4. ASSUME NEW t \in Threads, Thread(t) PROVE [Next]_frameVars
  <2>1. CASE CallHandle(t) \/ TaskDone(t) \/ TaskThrows(t) \/ BetweenTasks(t)
    <3>1. TaskThread(t)
      BY <2>1 DEF CallHandle, TaskDone, TaskThrows, BetweenTasks, TaskThread, Turn
    <3> QED
      BY <3>1 DEF Next
  <2>2. CASE ~(CallHandle(t) \/ TaskDone(t) \/ TaskThrows(t) \/ BetweenTasks(t))
    BY <1>4, <2>2 DEF Thread, Runs, Fails, ReadsFreed, BroadcastTo, RacesInsert,
                      BroadcastEnd
  <2> QED
    BY <2>1, <2>2
<1>5. ASSUME NEW t \in Threads, StopTask(t) PROVE [Next]_frameVars
  BY <1>5 DEF StopTask, Next
<1>6. CASE EngineRelease \/ Ended \/ UNCHANGED serverVars
  BY <1>6 DEF EngineRelease, Ended, serverVars
<1> QED
  BY <1>1, <1>2, <1>3, <1>4, <1>5, <1>6 DEF ServerNext

\* A send keeps the contents of the buffers within their bound.
LEMMA SendType ==
  ASSUME ServerTypeOK, NEW s \in Objects, SendMsg(s)
  PROVE  outbox' \in [Objects -> 0 .. SendBuffer]
  BY DEF SendMsg, ServerTypeOK

\* The manager's steps keep the types.
LEMMA ManagerType ==
  ASSUME ServerTypeOK, TypeOK', Manager
  PROVE  ServerTypeOK'
<1> USE DEF ServerTypeOK, Goes, Creates, castVars
<1>1. CASE InsertSession
  BY <1>1 DEF InsertSession, frameVars
<1>2. CASE SetObject
  BY <1>2 DEF SetObject, frameVars
<1>3. CASE InsertActor
  BY <1>3 DEF InsertActor, frameVars
<1>4. CASE Initailize
  BY <1>4 DEF Initailize, frameVars
<1>5. CASE PushTaskQueue
  BY <1>5 DEF PushTaskQueue, PushNew, work, tableVars
<1>6. CASE InformPlayer
  BY <1>6, SendType, ObjectAssumption DEF InformPlayer, frameVars, tableVars
<1> QED
  BY <1>1, <1>2, <1>3, <1>4, <1>5, <1>6 DEF Manager

\* A worker's steps keep the types; a task's number and the entry for its
\* variable are appended together.
LEMMA WorkerType ==
  ASSUME ServerTypeOK, TypeOK', NEW w \in Workers, Worker(w)
  PROVE  ServerTypeOK'
<1> USE DEF ServerTypeOK, castVars
<1>1. ASSUME NEW s \in Objects, OnRecv(w, s) PROVE ServerTypeOK'
  BY <1>1 DEF OnRecv, frameVars, tableVars
<1>2. CASE EnqueueMsg(w)
  <2> DEFINE s == parsing[w]
  <2>1. added \in [Objects -> Nat]
    <3>1. added \in [Objects -> 0 .. MaxTasks]
      BY DEF TypeOK
    <3> QED
      BY <3>1
  <2> HIDE DEF s
  <2>2. s \in Objects /\ AddTask(s)
    BY <1>2 DEF EnqueueMsg, s
  <2>3. taskVar' = [taskVar EXCEPT ![s] = Append(@, w)]
    BY <1>2 DEF EnqueueMsg, s
  <2>4. added' = [added EXCEPT ![s] = @ + 1]
    BY <2>2 DEF AddTask
  <2>5. taskVar[s] \in Seq(Workers) /\ Len(taskVar[s]) = added[s]
    BY <2>2
  <2>6. /\ Append(taskVar[s], w) \in Seq(Workers)
        /\ Len(Append(taskVar[s], w)) = added[s] + 1
    BY <2>5
  <2>7. /\ taskVar' \in [Objects -> Seq(Workers)]
        /\ \A o \in Objects : Len(taskVar'[o]) = added'[o]
    BY <2>1, <2>3, <2>6, <2>2, <2>4
  <2>8. running' = running /\ walking' = walking
    BY <1>2 DEF EnqueueMsg, AddTask, work
  <2> QED
    BY <1>2, <2>7, <2>8 DEF EnqueueMsg, tableVars
<1>3. CASE EnqueueUnset(w)
  BY <1>3 DEF EnqueueUnset, frameVars, netVars, tableVars
<1>4. CASE NextMsg(w)
  BY <1>4 DEF NextMsg, frameVars, tableVars
<1>5. CASE RecvReturns(w)
  BY <1>5 DEF RecvReturns, frameVars, tableVars
<1> QED
  BY <1>1, <1>2, <1>3, <1>4, <1>5 DEF Worker

\* The head of a sequence is one of its elements.
LEMMA HeadType ==
  ASSUME NEW S, NEW q \in Seq(S), q # << >>
  PROVE  Head(q) \in S
  OBVIOUS

\* The part of BaseFrame's invariant Execute's step needs.
LEMMA BatchType ==
  TypeOK => /\ batch \in [Threads -> Seq(1 .. MaxTasks)]
            /\ running \in [Threads -> 0 .. MaxTasks]
  BY DEF TypeOK

\* A task thread's steps keep the types: a thread that walks is in a task.
LEMMA ThreadType ==
  ASSUME ServerTypeOK, TypeOK', NEW t \in Threads, Thread(t)
  PROVE  ServerTypeOK'
<1> USE DEF ServerTypeOK, TaskSide, netVars, tableVars
<1>1. CASE CallHandle(t)
  <2>1. running'[t] # 0 /\ \A u \in Threads : u # t => running'[u] = running[u]
    <3>1. batch[t] \in Seq(1 .. MaxTasks) /\ running \in [Threads -> 0 .. MaxTasks]
      BY BatchType
    <3>2. batch[t] # << >> /\ running' = [running EXCEPT ![t] = Head(batch[t])]
      BY <1>1 DEF CallHandle, Execute
    <3>3. Head(batch[t]) \in 1 .. MaxTasks
      BY <3>1, <3>2, HeadType
    <3> QED
      BY <3>1, <3>2, <3>3
  <2> QED
    BY <1>1, <2>1 DEF CallHandle, Execute
<1>2. CASE ReadsFreed(t) \/ RacesInsert(t)
  BY <1>2 DEF ReadsFreed, RacesInsert, frameVars, castVars
<1>3. ASSUME NEW p \in Objects, BroadcastTo(t, p) PROVE ServerTypeOK'
  BY <1>3, SendType DEF BroadcastTo, frameVars
<1>4. CASE BroadcastEnd(t)
  BY <1>4 DEF BroadcastEnd, LeavesWalk, frameVars
<1>5. CASE TaskDone(t)
  <2>1. \A u \in Threads : u # t => running'[u] = running[u]
    BY <1>5 DEF TaskDone, Executed, TypeOK
  <2> QED
    BY <1>5, <2>1 DEF TaskDone, Executed, castVars
<1>6. CASE TaskThrows(t)
  <2>1. \A u \in Threads : u # t => running'[u] = running[u]
    BY <1>6 DEF TaskThrows, Throws, TypeOK
  <2> QED
    BY <1>6, <2>1 DEF TaskThrows, Throws, LeavesWalk
<1>7. CASE BetweenTasks(t)
  <2>1. running' = running /\ added' = added
    BY <1>7 DEF BetweenTasks, Pop, Splice, PushBack, Exit, work
  <2> QED
    BY <1>7, <2>1 DEF BetweenTasks, castVars
<1> QED
  BY <1>1, <1>2, <1>3, <1>4, <1>5, <1>6, <1>7 DEF Thread, Runs, Fails

\* Every step keeps the types.
LEMMA ServerTypeStep ==
  ServerTypeOK /\ [ServerNext]_serverVars => ServerTypeOK'
<1> SUFFICES ASSUME ServerTypeOK, [ServerNext]_serverVars
             PROVE  ServerTypeOK'
  OBVIOUS
<1>1. TypeOK'
  BY FrameStep, TypeStep DEF ServerTypeOK
<1>2. ASSUME NEW s \in Objects,
             PeerReads(s) \/ Breaks(s) \/ Expires(s) \/ OnAccept(s)
      PROVE  ServerTypeOK'
  <2> USE DEF ServerTypeOK, frameVars, tableVars, castVars
  <2>1. CASE PeerReads(s)
    BY <1>1, <2>1 DEF PeerReads
  <2>2. CASE Breaks(s)
    BY <1>1, <2>2 DEF Breaks
  <2>3. CASE Expires(s)
    BY <1>1, <2>3 DEF Expires
  <2>4. CASE OnAccept(s)
    BY <1>1, <2>4, ObjectAssumption DEF OnAccept, Goes
  <2> QED
    BY <1>2, <2>1, <2>2, <2>3, <2>4
<1>3. CASE Manager
  BY <1>1, <1>3, ManagerType
<1>4. ASSUME NEW w \in Workers, Worker(w) PROVE ServerTypeOK'
  BY <1>1, <1>4, WorkerType
<1>5. ASSUME NEW t \in Threads, Thread(t) PROVE ServerTypeOK'
  BY <1>1, <1>5, ThreadType
<1>6. ASSUME NEW t \in Threads, StopTask(t) PROVE ServerTypeOK'
  BY <1>1, <1>6 DEF StopTask, Stop, work, ServerTypeOK, TaskSide, netVars,
                    tableVars, castVars
<1>7. CASE EngineRelease
  BY <1>1, <1>7 DEF EngineRelease, Goes, ServerTypeOK, frameVars, tableVars,
                    castVars
<1>8. CASE UNCHANGED serverVars
  BY <1>1, <1>8 DEF serverVars, frameVars, netVars, tableVars, castVars,
                    ServerTypeOK
<1> QED
  BY <1>2, <1>3, <1>4, <1>5, <1>6, <1>7, <1>8 DEF ServerNext, Ended

\* The server's variables keep to their ranges, and its task threads, among
\* everything else that goes on, do what BaseFrame says.
THEOREM ServerTypeCorrect == ServerSpec => []ServerTypeOK
  BY ServerInitType, ServerTypeStep, PTL DEF ServerSpec

\* The server implements BaseFrame.
THEOREM ServerRunsFrame == ServerSpec => Spec
<1>1. ServerInit => Init
  BY DEF ServerInit
<1> QED
  BY <1>1, ServerTypeCorrect, FrameStep, PTL DEF ServerSpec, Spec

\* So in the server, too, a player is in one place and its messages' tasks are
\* neither lost, doubled nor overtaken.
THEOREM ServerTasks == ServerSpec => [](OnePlace /\ NoTaskLost)
  BY ServerRunsFrame, OnePlaceCorrect, NoTaskLostCorrect, PTL

\* And every player is a mailbox: its messages' tasks run one at a time and in
\* order, whatever the manager, the workers and the task threads do meanwhile.
THEOREM ServerMailboxes == ServerSpec => ImplementsMailboxes
  BY ServerRunsFrame, ImplementsMailboxesCorrect, PTL

----------------------------------------------------------------------------

\* How far a session has come: the tables fill in this order, and every session
\* but the manager's is in all of them or in none.
Announced ==
    /\ object \subseteq connectSessions
    /\ actors \subseteq object
    /\ object \subseteq actors \cup {mgrSession}
    /\ pushed \subseteq actors \cap ready
    /\ mgrPc \in {"setObject", "insertActor", "initialize", "push", "inform"}
         => mgrSession \in connectSessions
    /\ mgrPc \in {"insertActor", "initialize", "push", "inform"}
         => mgrSession \in object
    /\ mgrPc \in {"initialize", "push", "inform"} => mgrSession \in actors
    /\ mgrPc \in {"push", "inform"} => mgrSession \in ready
    /\ mgrPc # "insertActor" => object \subseteq actors

\* Initially there is no session.
LEMMA InitAnnounced == ServerInit => Announced
  BY DEF ServerInit, Init, Announced

\* Only the manager moves a session on.
LEMMA SameAnnounced ==
  ASSUME Announced, UNCHANGED <<tableVars, pushed, mgrPc, mgrSession>>
  PROVE  Announced'
  BY DEF Announced, tableVars

\* Every step keeps Announced.
LEMMA AnnouncedStep ==
  ServerTypeOK /\ Announced /\ [ServerNext]_serverVars => Announced'
<1> SUFFICES ASSUME ServerTypeOK, Announced, [ServerNext]_serverVars
             PROVE  Announced'
  OBVIOUS
<1>1. ASSUME NEW s \in Objects, PeerReads(s) \/ Breaks(s) \/ Expires(s)
      PROVE  Announced'
  BY <1>1, SameAnnounced DEF PeerReads, Breaks, Expires, frameVars
<1>2. ASSUME NEW s \in Objects, OnAccept(s) PROVE Announced'
  BY <1>2 DEF OnAccept, Goes, Announced, tableVars, frameVars
<1>3. CASE Manager
  <2> USE DEF Announced, Goes, Creates, frameVars, tableVars
  <2>1. CASE InsertSession
    BY <2>1 DEF InsertSession
  <2>2. CASE SetObject
    BY <2>2 DEF SetObject
  <2>3. CASE InsertActor
    BY <2>3 DEF InsertActor
  <2>4. CASE Initailize
    BY <2>4 DEF Initailize
  <2>5. CASE PushTaskQueue
    BY <2>5 DEF PushTaskQueue, PushNew
  <2>6. CASE InformPlayer
    BY <2>6 DEF InformPlayer
  <2> QED
    BY <1>3, <2>1, <2>2, <2>3, <2>4, <2>5, <2>6 DEF Manager
<1>4. ASSUME NEW w \in Workers, Worker(w) PROVE Announced'
  <2>1. UNCHANGED <<tableVars, pushed, mgrPc, mgrSession>>
    BY <1>4 DEF Worker, OnRecv, EnqueueMsg, AddTask, EnqueueUnset, NextMsg,
                RecvReturns, frameVars, netVars
  <2> QED
    BY <2>1, SameAnnounced
<1>5. ASSUME NEW t \in Threads, Thread(t) \/ StopTask(t) PROVE Announced'
  <2>1. CASE \/ CallHandle(t) \/ TaskDone(t) \/ TaskThrows(t)
             \/ BetweenTasks(t) \/ StopTask(t)
    <3>1. TaskSide
      BY <2>1 DEF CallHandle, TaskDone, TaskThrows, BetweenTasks, StopTask,
                  LeavesWalk
    <3>2. pushed' = pushed
      BY <2>1 DEF CallHandle, TaskDone, TaskThrows, BetweenTasks, StopTask,
                  Execute, Executed, Throws, Pop, Splice, PushBack, Exit, Stop
    <3> QED
      BY <3>1, <3>2, SameAnnounced DEF TaskSide, netVars
  <2>2. CASE \/ ReadsFreed(t) \/ RacesInsert(t) \/ BroadcastEnd(t)
             \/ \E p \in Objects : BroadcastTo(t, p)
    BY <2>2, SameAnnounced DEF ReadsFreed, RacesInsert, BroadcastEnd,
       BroadcastTo, LeavesWalk, TaskSide, netVars, frameVars
  <2> QED
    BY <1>5, <2>1, <2>2 DEF Thread, Runs, Fails
<1>6. CASE EngineRelease
  BY <1>6 DEF EngineRelease, Goes, Announced, tableVars, frameVars
<1>7. CASE UNCHANGED serverVars
  BY <1>7, SameAnnounced DEF serverVars, netVars, frameVars
<1> QED
  BY <1>1, <1>2, <1>3, <1>4, <1>5, <1>6, <1>7 DEF ServerNext, Ended

\* What holds at all times: the types, the frame's places and the tables.
ServerInv == ServerTypeOK /\ OnePlace /\ Announced

LEMMA ServerInvariant == ServerSpec => []ServerInv
<1>1. ServerInit => ServerInv
  BY ServerInitType, InitOnePlace, InitAnnounced DEF ServerInit, ServerInv
<1>2. ServerInv /\ [ServerNext]_serverVars => ServerInv'
  BY ServerTypeStep, FrameStep, OnePlaceStep, AnnouncedStep
     DEF ServerInv, ServerTypeOK
<1> QED
  BY <1>1, <1>2, PTL DEF ServerSpec

\* A player in the task queue or with a task thread has been pushed.
LEMMA InRotationPushed ==
  ASSUME OnePlace, NEW o \in Objects, Queued(o) \/ Held(o)
  PROVE  o \in pushed
  BY DEF OnePlace, InRotation

\* No task of a player runs before the manager has finished with the player,
\* however early messages for it arrive.
THEOREM RunsInitialisedCorrect == ServerSpec => []RunsInitialised
<1>1. ServerInv => RunsInitialised
  BY InRotationPushed DEF ServerInv, Announced, RunsInitialised
<1> QED
  BY <1>1, ServerInvariant, PTL

\* A player's raw _session and a session's raw _object never outlive what they
\* point to, for any number of connections, made and lost in any order.
THEOREM RawPointersAliveCorrect == ServerSpec => []RawPointersAlive
<1>1. ASSUME ServerInv, NEW s \in Objects
      PROVE  /\ PlayerAlive(s) => SessionAlive(s)
             /\ SessionAlive(s) /\ s \in object => PlayerAlive(s)
  <2> USE <1>1 DEF ServerInv, Announced
  <2>1. PlayerAlive(s) => SessionAlive(s)
    BY InRotationPushed DEF PlayerAlive, SessionAlive
  <2>2. s \in object => PlayerAlive(s)
    BY DEF PlayerAlive
  <2> QED
    BY <2>1, <2>2
<1>2. ServerInv => RawPointersAlive
  BY <1>1 DEF RawPointersAlive
<1> QED
  BY <1>2, ServerInvariant, PTL

----------------------------------------------------------------------------
(* The test client, with the one worker it starts *)

Members == {"_client_sessions", "_player", "_object", "start"}

Kinds ==
    /\ conn \in {"dialling", "up", "failed", "broken"}
    /\ members \subseteq Members
    /\ mainPc \in {"spin", "loop", "getchar"}
    /\ workerPc \in [ClientWorkers -> {"idle", "session", "player", "object",
                                       "start", "parse", "task"}]
    /\ msg \in [ClientWorkers -> Nat]
    /\ replies \in Nat
    /\ tasks = << >>
    /\ handled \in Seq(Nat)
    /\ unset = FALSE

\* OnConnectComplete sets one member after the other, and neither the reading
\* of replies nor the main thread begins before it is through.
MembersSet(w) ==
    /\ conn = "dialling" => workerPc[w] = "idle"
    /\ workerPc[w] \in {"player", "object", "start"} => "_client_sessions" \in members
    /\ workerPc[w] \in {"object", "start"} => "_player" \in members
    /\ workerPc[w] = "start" => "_object" \in members
    /\ workerPc[w] \in {"parse", "task"} => members = Members
    /\ workerPc[w] = "idle" /\ conn \in {"up", "broken"} => members = Members
    /\ "start" \in members => members = Members
    /\ mainPc = "loop" => "start" \in members

\* Every reply read has been handled but the one in the worker's hands.
HandledSoFar(w) ==
    /\ handled = [i \in 1 .. Len(handled) |-> i]
    /\ workerPc[w] # "task" => Len(handled) = replies
    /\ workerPc[w] = "task" => Len(handled) + 1 = replies /\ msg[w] = replies

ClientInv(w) == Kinds /\ MembersSet(w) /\ HandledSoFar(w)

\* The numbers up to n and the next.
LEMMA CountOn ==
    ASSUME NEW s \in Seq(Nat), s = [i \in 1 .. Len(s) |-> i]
    PROVE  /\ Append(s, Len(s) + 1) = [i \in 1 .. Len(s) + 1 |-> i]
           /\ Append(s, Len(s) + 1) \in Seq(Nat)
           /\ Len(Append(s, Len(s) + 1)) = Len(s) + 1
  OBVIOUS

\* An iteration of Loop finds no task: none is ever left for it.
LEMMA NoneLeft ==
    ASSUME NEW s \in Seq(Nat)
    PROVE  s \o [i \in 1 .. Len(<< >>) |-> msg[<< >>[i]]] = s
  OBVIOUS

LEMMA ClientNextInv ==
    ASSUME NEW w, ClientWorkers = {w}, ClientInv(w), [ClientNext]_clientVars
    PROVE  ClientInv(w)'
  <1> USE DEF ClientInv, Kinds, MembersSet, HandledSoFar, Members
  <1>1. CASE Down
    BY <1>1 DEF Down
  <1>a. CASE ServerReads
    BY <1>a DEF ServerReads
  <1>b. CASE SpinEnds
    BY <1>b DEF SpinEnds
  <1>2. CASE Iteration
    <2>1. handled' = handled
      BY <1>2, NoneLeft DEF Iteration
    <2>2. members = Members
      BY <1>2 DEF Iteration, Sends
    <2>3. {"_client_sessions", "_player"} \ members = {}
      BY <2>2
    <2>4. unset' = FALSE
      BY <1>2, <2>3 DEF Iteration
    <2>5. /\ tasks' = << >> /\ mainPc' \in {"loop", "getchar"}
          /\ UNCHANGED <<conn, members, workerPc, msg, replies>>
      BY <1>2 DEF Iteration
    <2> QED
      BY <2>1, <2>2, <2>4, <2>5
  <1>3. CASE OnConnect(w)
    BY <1>3 DEF OnConnect, Step
  <1>4. CASE OnConnectComplete(w)
    <2>1. CASE Sets(w, "session", "player", "_client_sessions")
      BY <2>1 DEF Sets, Step
    <2>2. CASE Sets(w, "player", "object", "_player")
      BY <2>2 DEF Sets, Step
    <2>3. CASE Sets(w, "object", "start", "_object")
      BY <2>3 DEF Sets, Step
    <2>4. CASE Sets(w, "start", "idle", "start")
      <3>1. members' = Members
        BY <2>4 DEF Sets, Step
      <3> QED
        BY <2>4, <3>1 DEF Sets, Step
    <2> QED
      BY <1>4, <2>1, <2>2, <2>3, <2>4 DEF OnConnectComplete
  <1>5. CASE OnReply(w) \/ OnReplyReturns(w)
    BY <1>5 DEF OnReply, OnReplyReturns, Step
  <1>6. CASE ReadReply(w)
    BY <1>6 DEF ReadReply, Step
  <1>7. CASE EnqueueReply(w)
    <2>1. handled' = Append(handled, Len(handled) + 1)
      BY <1>7 DEF EnqueueReply, AddNetworkTask, Step
    <2>2. /\ handled' = [i \in 1 .. Len(handled') |-> i]
          /\ handled' \in Seq(Nat) /\ Len(handled') = replies
      BY <1>7, <2>1, CountOn DEF EnqueueReply, Step
    <2> QED
      BY <1>7, <2>2 DEF EnqueueReply, AddNetworkTask, Step
  <1>8. CASE UNCHANGED clientVars
    BY <1>8 DEF clientVars
  <1> QED
    BY <1>1, <1>a, <1>b, <1>2, <1>3, <1>4, <1>5, <1>6, <1>7, <1>8
    DEF ClientNext, Main, Rests, ClientWorker

\* With one worker, TestClient's main thread and its network thread use only
\* what OnConnectComplete has set, and each reply is handled once, in order and
\* with its own contents, however many requests and replies there are.
THEOREM ClientDispatchCorrect ==
    ASSUME NEW w, ClientWorkers = {w}
    PROVE  ClientSpec => []ClientDispatch
  <1>1. ClientInit => ClientInv(w)
    BY DEF ClientInit, ClientInv, Kinds, MembersSet, HandledSoFar
  <1>2. ClientInv(w) /\ [ClientNext]_clientVars => ClientInv(w)'
    BY ClientNextInv
  <1>3. ClientInv(w) => ClientDispatch
    BY DEF ClientInv, Kinds, HandledSoFar, ClientDispatch
  <1> QED
    BY <1>1, <1>2, <1>3, PTL DEF ClientSpec

=============================================================================
