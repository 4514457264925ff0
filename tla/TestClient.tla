----------------------------- MODULE TestClient -----------------------------
(***************************************************************************)
(* The test client: the main thread dials, waits for OnConnectComplete and *)
(* then sends requests, while the engine's workers read the replies.  Its  *)
(* TestObject executes a message's task at once, on the worker, where      *)
(* BAPlayer defers it to the task threads of the server.                   *)
(***************************************************************************)
EXTENDS Naturals, Sequences

CONSTANTS
    ClientWorkers, \* what StartNetwork is told: one
    MaxSends,      \* requests Loop sends, 10001
    MaxReplies,    \* bound: replies the server sends
    ServerBuffer   \* bound: requests that fit before a send blocks

ASSUME ClientAssumption ==
    MaxSends \in Nat /\ MaxReplies \in Nat /\ ServerBuffer \in Nat \ {0}

VARIABLES
    conn,      \* the connection: "dialling", "up", "failed", "broken"
    members,   \* which of _client_sessions, _player, _object and start are set
    mainPc,    \* where main is: "spin", "loop", "getchar"
    requests,  \* requests sent
    unread,    \* requests the server has not read
    workerPc,  \* what a worker does
    msg,       \* the reply in its variable msg, 0 for none
    replies,   \* replies read
    tasks,     \* _serializer of TestObject: the worker whose msg a task refers to
    handled,   \* history: the reply each CallHandle found
    unset      \* history: something was used that was not set

clientVars == <<conn, members, mainPc, requests, unread, workerPc, msg, replies,
                tasks, handled, unset>>

ClientInit ==
    /\ conn = "dialling" /\ members = {}
    /\ mainPc = "spin" /\ requests = 0 /\ unread = 0
    /\ workerPc = [w \in ClientWorkers |-> "idle"]
    /\ msg = [w \in ClientWorkers |-> 0]
    /\ replies = 0 /\ tasks = << >> /\ handled = << >> /\ unset = FALSE

----------------------------------------------------------------------------
(* The connection and the workers *)

\* ConnectEx fails, or the connection breaks; a blocked send returns.
Down ==
    /\ \/ conn = "dialling" /\ conn' = "failed"
       \/ conn = "up" /\ conn' = "broken"
    /\ unread' = 0
    /\ UNCHANGED <<members, mainPc, requests, workerPc, msg, replies, tasks,
                   handled, unset>>

\* The server reads a request.
ServerReads ==
    /\ unread > 0 /\ unread' = unread - 1
    /\ UNCHANGED <<conn, members, mainPc, requests, workerPc, msg, replies,
                   tasks, handled, unset>>

Step(w, from, to) ==
    /\ workerPc[w] = from
    /\ workerPc' = [workerPc EXCEPT ![w] = to]
    /\ UNCHANGED <<mainPc, requests, unread>>

\* BASocket::OnConnect has posted the first receive.
OnConnect(w) ==
    /\ Step(w, "idle", "session")
    /\ conn = "dialling" /\ conn' = "up"
    /\ UNCHANGED <<members, msg, replies, tasks, handled, unset>>

Sets(w, from, to, what) ==
    /\ Step(w, from, to)
    /\ members' = members \cup {what}
    /\ UNCHANGED <<conn, msg, replies, tasks, handled, unset>>

\* OnConnectComplete.
OnConnectComplete(w) ==
    \/ Sets(w, "session", "player", "_client_sessions")
    \/ Sets(w, "player", "object", "_player")
    \/ Sets(w, "object", "start", "_object")
    \/ Sets(w, "start", "idle", "start")

\* A receive completes, before or after the connection breaks; the socket has
\* one outstanding.
OnReply(w) ==
    /\ Step(w, "idle", "parse")
    /\ conn \in {"up", "broken"}
    /\ \A u \in ClientWorkers : workerPc[u] \notin {"parse", "task"}
    /\ UNCHANGED <<conn, members, msg, replies, tasks, handled, unset>>

\* An iteration of BASession::OnRecv reads the next reply ...
ReadReply(w) ==
    /\ Step(w, "parse", "task")
    /\ replies < MaxReplies
    /\ replies' = replies + 1
    /\ msg' = [msg EXCEPT ![w] = replies']
    /\ UNCHANGED <<conn, members, tasks, handled, unset>>

\* Mutant: the task is left to Work, as BAPlayer does.
AddNetworkTaskDefers(w) ==
    /\ tasks' = Append(tasks, w)
    /\ UNCHANGED handled

\* TestObject::AddNetworkTask executes the task.
AddNetworkTask(w) ==
    /\ handled' = Append(handled, msg[w])
    /\ UNCHANGED tasks

\* ... EnqueueMsg hands it over, and msg is destroyed.
EnqueueReply(w) ==
    /\ Step(w, "task", "parse")
    /\ unset' = (unset \/ "_object" \notin members)
    /\ AddNetworkTask(w)
    /\ msg' = [msg EXCEPT ![w] = 0]
    /\ UNCHANGED <<conn, members, replies>>

OnReplyReturns(w) ==
    /\ Step(w, "parse", "idle")
    /\ UNCHANGED <<conn, members, msg, replies, tasks, handled, unset>>

ClientWorker(w) ==
    \/ OnConnect(w) \/ OnConnectComplete(w)
    \/ OnReply(w) \/ ReadReply(w) \/ EnqueueReply(w) \/ OnReplyReturns(w)

----------------------------------------------------------------------------
(* The main thread *)

\* Loop spins on start.
SpinEnds ==
    /\ mainPc = "spin" /\ "start" \in members
    /\ mainPc' = "loop"
    /\ UNCHANGED <<conn, members, requests, unread, workerPc, msg, replies,
                   tasks, handled, unset>>

\* Mutant: a request that cannot be sent is not counted.
SendsConnected == mainPc = "loop" /\ conn = "up"

\* An iteration is due whatever has become of the connection.
Sends == mainPc = "loop"

\* An iteration: Work, then a request, which blocks while the server reads
\* none; after the last one Loop returns.
Iteration ==
    /\ Sends
    /\ conn = "up" => unread < ServerBuffer
    /\ handled' = handled \o [i \in 1 .. Len(tasks) |-> msg[tasks[i]]]
    /\ tasks' = << >>
    /\ unset' = (unset \/ {"_client_sessions", "_player"} \ members # {})
    /\ unread' = IF conn = "up" THEN unread + 1 ELSE unread
    /\ requests' = requests + 1
    /\ mainPc' = IF requests' = MaxSends THEN "getchar" ELSE "loop"
    /\ UNCHANGED <<conn, members, workerPc, msg, replies>>

Main == SpinEnds \/ Iteration

\* A client that could not connect spins on; one that is done waits for a key.
Rests == UNCHANGED clientVars

ClientNext ==
    \/ Down \/ ServerReads \/ Main \/ Rests
    \/ \E w \in ClientWorkers : ClientWorker(w)

ClientSpec == ClientInit /\ [][ClientNext]_clientVars

----------------------------------------------------------------------------
(* Properties *)

\* What OnConnectComplete publishes is there when the main thread and the
\* reading of replies use it, and every reply is handled once, in the order
\* they came and with its own contents.  With one worker no reply can be read
\* before OnConnectComplete returns, although the receive is already posted.
ClientDispatch ==
    /\ ~unset
    /\ handled = [i \in 1 .. Len(handled) |-> i]

\* Loop returns once the connection is announced, even if it breaks: sends to
\* a dead session fail and are counted.
LoopEnds == "start" \in members ~> mainPc = "getchar"

=============================================================================
