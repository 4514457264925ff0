--------------------------- MODULE BANetworkEngine ---------------------------
(***************************************************************************)
(* The connection life cycle of BACore's BANetworkEngine.                  *)
(*                                                                         *)
(* Three kinds of threads share the engine's maps:                         *)
(*   - the application's main thread, which runs StartNetwork, Connect and *)
(*     Release;                                                            *)
(*   - the manager thread (SocketManageThreadLoop), the only consumer of   *)
(*     the listen completion port: ACCEPT and CLOSE completions, and the   *)
(*     expiry of delayed closes;                                           *)
(*   - the workers (NetworkThreadLoop), consumers of the socket completion *)
(*     port: RECV and CONNECT completions.                                 *)
(* The kernel and the peers are the environment.                           *)
(*                                                                         *)
(* A socket is the BASocket object, not the OS handle: it lives as long as *)
(* a shared_ptr to it exists (Alive), and BASocket's destructor closes its *)
(* handle.  Completion ports are modelled as multisets: every order a FIFO *)
(* port can deliver is a behaviour, and so are others.                     *)
(***************************************************************************)
EXTENDS Naturals, FiniteSets

CONSTANTS
    Sockets,     \* identities of BASocket objects, reused after destruction
    Listeners,   \* the listen sockets Initialize creates, one per NetworkConfig
    MaxClient,   \* NetworkConfig::_max_client of each listener
    Workers,     \* the threads StartNetwork runs NetworkThreadLoop on
    MaxConnects, \* bound: how many times the application calls Connect
    ConnectKey,  \* CONNECT_SOCKET_KEY, the listen key of a dialled socket
    None         \* "not in the map", "no socket"

ASSUME FiniteAssumption == IsFiniteSet(Sockets)
ASSUME MaxClientAssumption == MaxClient \in [Listeners -> Nat]
ASSUME KeyAssumption == /\ ConnectKey \notin Listeners \cup Sockets
                        /\ None \notin Listeners \cup Sockets \cup {ConnectKey}
                        /\ Sockets \cap Listeners = {}
ASSUME MaxConnectsAssumption == MaxConnects \in Nat

VARIABLES
    mainPc,      \* where the main thread is
    toArm,       \* Accept calls StartNetwork still has to make, per listener
    walkLeft,    \* what Release's loops have not visited yet
    connects,    \* Connect calls made
    listenAble,  \* _listen_able
    listenSt,    \* the OS state of each listen socket
    waiting,     \* _wait_sockets: socket -> listener
    registered,  \* _sockets: socket -> listener or ConnectKey
    delayClose,  \* _delay_close_sockets
    handle,      \* the socket's _socket handle is open
    acceptSt,    \* its AcceptEx operation (the overlapped owns the client)
    acceptOn,    \* the listener that operation was issued on
    connectSt,   \* its ConnectEx operation (the overlapped owns the socket)
    peer,        \* the remote end
    recv,        \* its WSARecv operation (the overlapped has a weak reference)
    closePkts,   \* CLOSE packets queued for it (weak references)
    mgrPc,       \* where the manager is
    mgrSock,     \* the socket of the OnAccept or OnClose the manager is in
    workerPc,    \* where each worker is
    workerSock,  \* the socket a worker holds a shared_ptr to
    stopped,     \* workers whose Stop() was called
    lost,        \* history: Accept calls that failed, per listener
    abandoned    \* history: sockets left in a map by an ignored error

mainVars   == <<mainPc, toArm, walkLeft, connects, listenAble, stopped>>
maps       == <<waiting, registered, delayClose>>
acceptVars == <<acceptSt, acceptOn>>
mgrVars    == <<mgrPc, mgrSock>>
workerVars == <<workerPc, workerSock>>
history    == <<lost, abandoned>>
threadVars == <<mgrVars, workerVars>>
ioVars     == <<listenSt, handle, acceptVars, connectSt, peer, recv, closePkts>>
vars       == <<mainVars, maps, ioVars, threadVars, history>>

----------------------------------------------------------------------------
(* References and handles *)

\* A shared_ptr to s exists: in one of the maps, in an ACCEPT or CONNECT
\* overlapped, or in a handler that is running.
Alive(s) == \/ waiting[s] # None
            \/ registered[s] # None
            \/ s \in delayClose
            \/ acceptSt[s] # "none"
            \/ connectSt[s] # "none"
            \/ mgrSock = s
            \/ \E w \in Workers : workerSock[w] = s

\* ~BASocket closes the handle, so a dead socket has none.
Open(s) == handle[s] /\ Alive(s)

\* An identity a new BASocket can take: no object, and no completion left that
\* was meant for an earlier one.
Fresh(s) == ~Alive(s) /\ closePkts[s] = 0 /\ recv[s] = "none"

Started == mainPc # "starting"
Waiting(l)    == {s \in Sockets : waiting[s] = l}
Registered(l) == {s \in Sockets : registered[s] = l}

----------------------------------------------------------------------------
(* The steps the handlers share *)

\* BASocket::Recv, result ignored by every caller.  WSARecv fails on a closed
\* handle and may fail on a connection the peer has reset; on an open handle
\* nothing will ever look at that socket again.
Recv(s) ==
    \/ /\ Open(s)
       /\ recv' = [recv EXCEPT ![s] = "posted"]
       /\ UNCHANGED abandoned
    \/ /\ Open(s) /\ peer[s] = "down"
       /\ abandoned' = abandoned \cup {s}
       /\ UNCHANGED recv
    \/ /\ ~Open(s)
       /\ UNCHANGED <<recv, abandoned>>

\* Mutant: CloseSocket only shuts the connection down.
CloseSocketShutdownOnly(x) == UNCHANGED closePkts

\* BANetworkEngine::CloseSocket: a CLOSE packet for the manager.  The shutdown
\* of the sending side only matters to the peer.
CloseSocket(x) == closePkts' = [closePkts EXCEPT ![x] = @ + 1]

\* Mutant: the accepted socket is not put into _wait_sockets.
ArmUnlisted(c, l) ==
    /\ Fresh(c)
    /\ acceptSt'  = [acceptSt  EXCEPT ![c] = "pending"]
    /\ acceptOn'  = [acceptOn  EXCEPT ![c] = l]
    /\ handle'    = [handle    EXCEPT ![c] = TRUE]
    /\ peer'      = [peer      EXCEPT ![c] = "none"]
    /\ abandoned' = abandoned \ {c}
    /\ UNCHANGED waiting

\* A new BASocket with an AcceptEx pending on l, put into _wait_sockets.
Arm(c, l) ==
    /\ Fresh(c)
    /\ waiting'   = [waiting   EXCEPT ![c] = l]
    /\ acceptSt'  = [acceptSt  EXCEPT ![c] = "pending"]
    /\ acceptOn'  = [acceptOn  EXCEPT ![c] = l]
    /\ handle'    = [handle    EXCEPT ![c] = TRUE]
    /\ peer'      = [peer      EXCEPT ![c] = "none"]
    /\ abandoned' = abandoned \ {c}

\* BANetworkEngine::Accept.  When InitSocket or AcceptEx fails the new object
\* is gone on return and the listener has one pending accept less than before.
Accept(l) ==
    \/ /\ listenSt[l] = "listening"
       /\ \E c \in Sockets : Arm(c, l)
       /\ UNCHANGED lost
    \/ /\ lost' = [lost EXCEPT ![l] = @ + 1]
       /\ UNCHANGED <<waiting, acceptVars, handle, peer, abandoned>>

\* Mutant: UnregistSocket does not find the listener.
RearmNever(k) ==
    UNCHANGED <<waiting, acceptVars, handle, peer, abandoned, lost>>

\* UnregistSocket's Accept for the listener a socket was registered under.
Rearm(k) ==
    IF k \in Listeners
    THEN Accept(k)
    ELSE UNCHANGED <<waiting, acceptVars, handle, peer, abandoned, lost>>

\* Mutant: OnAccept relies on the default argument of RegistSocket.
RegistSocketNoKey(s, k) ==
    /\ waiting' = [waiting EXCEPT ![s] = None]
    /\ registered' = [registered EXCEPT ![s] = ConnectKey]

\* Mutant: the socket is copied, not moved, to _sockets.
RegistSocketCopy(s, k) ==
    /\ registered' = [registered EXCEPT ![s] = k]
    /\ UNCHANGED waiting

\* BANetworkEngine::RegistSocket.
RegistSocket(s, k) ==
    /\ waiting' = [waiting EXCEPT ![s] = None]
    /\ registered' = [registered EXCEPT ![s] = k]

\* Mutant: the socket is put aside but not closed.
DelayedCloseKeepsHandle(s) ==
    /\ delayClose' = delayClose \cup {s}
    /\ UNCHANGED handle

\* The end of OnClose: into _delay_close_sockets, and closed.
DelayedClose(s) ==
    /\ delayClose' = delayClose \cup {s}
    /\ handle' = [handle EXCEPT ![s] = FALSE]

\* A worker's handler locks s, or takes it over from the overlapped, ...
Hold(w, pc, s) ==
    /\ workerPc' = [workerPc EXCEPT ![w] = pc]
    /\ workerSock' = [workerSock EXCEPT ![w] = s]

\* Mutant: the handler's reference outlives the handler.
LetGoLeaks(w) ==
    /\ workerPc' = [workerPc EXCEPT ![w] = "loop"]
    /\ UNCHANGED workerSock

\* ... and lets go of it when it returns.
LetGo(w) ==
    /\ workerPc' = [workerPc EXCEPT ![w] = "loop"]
    /\ workerSock' = [workerSock EXCEPT ![w] = None]

----------------------------------------------------------------------------
(* The main thread *)

Init ==
    /\ mainPc = "starting"
    /\ toArm = MaxClient
    /\ walkLeft = {}
    /\ connects = 0
    /\ listenAble = TRUE
    \* Initialize ignores what Listen returns.
    /\ listenSt \in [Listeners -> {"unbound", "bound", "listening"}]
    /\ waiting = [s \in Sockets |-> None]
    /\ registered = [s \in Sockets |-> None]
    /\ delayClose = {}
    /\ handle = [s \in Sockets |-> FALSE]
    /\ acceptSt = [s \in Sockets |-> "none"]
    /\ acceptOn = [s \in Sockets |-> None]
    /\ connectSt = [s \in Sockets |-> "none"]
    /\ peer = [s \in Sockets |-> "none"]
    /\ recv = [s \in Sockets |-> "none"]
    /\ closePkts = [x \in Sockets \cup Listeners |-> 0]
    /\ mgrPc = "loop"
    /\ mgrSock = None
    /\ workerPc = [w \in Workers |-> "loop"]
    /\ workerSock = [w \in Workers |-> None]
    /\ stopped = {}
    /\ lost = [l \in Listeners |-> 0]
    /\ abandoned = {}

\* StartNetwork, one iteration of its loops.
StartAccept(l) ==
    /\ mainPc = "starting"
    /\ toArm[l] > 0
    /\ Accept(l)
    /\ toArm' = [toArm EXCEPT ![l] = @ - 1]
    /\ UNCHANGED <<mainPc, walkLeft, connects, listenAble, stopped,
                   registered, delayClose, listenSt, connectSt, recv,
                   closePkts, threadVars>>

\* StartNetwork starts the threads.
StartThreads ==
    /\ mainPc = "starting"
    /\ \A l \in Listeners : toArm[l] = 0
    /\ mainPc' = "running"
    /\ UNCHANGED <<toArm, walkLeft, connects, listenAble, stopped, maps,
                   ioVars, threadVars, history>>

\* Connect: a new socket with a ConnectEx in flight.  A Connect that fails
\* leaves nothing behind and is not a step.
Connect(s) ==
    /\ mainPc = "running"
    /\ connects < MaxConnects
    /\ Fresh(s)
    /\ connects' = connects + 1
    /\ connectSt' = [connectSt EXCEPT ![s] = "pending"]
    /\ handle' = [handle EXCEPT ![s] = TRUE]
    /\ peer' = [peer EXCEPT ![s] = "none"]
    /\ abandoned' = abandoned \ {s}
    /\ UNCHANGED <<mainPc, toArm, walkLeft, listenAble, stopped, maps,
                   listenSt, acceptVars, recv, closePkts, threadVars, lost>>

\* Release begins.
ReleaseBegin ==
    /\ mainPc = "running"
    /\ listenAble' = FALSE
    /\ mainPc' = "closing"
    /\ walkLeft' = Listeners
    /\ UNCHANGED <<toArm, connects, stopped, maps, ioVars, threadVars,
                   history>>

\* The two loops of Release: "listen sockets close." and, while the other
\* threads insert and erase, "all connected socket close."
ReleaseVisit(x) ==
    /\ x \in walkLeft
    /\ CloseSocket(x)
    /\ walkLeft' = walkLeft \ {x}
    /\ UNCHANGED <<mainPc, toArm, connects, listenAble, stopped, maps, listenSt,
                   handle, acceptVars, connectSt, peer, recv, threadVars,
                   history>>

ReleaseWalkBegin ==
    /\ mainPc = "closing" /\ walkLeft = {}
    /\ mainPc' = "walking"
    /\ walkLeft' = {s \in Sockets : registered[s] # None}
    /\ UNCHANGED <<toArm, connects, listenAble, stopped, maps, ioVars,
                   threadVars, history>>

ReleaseSleep ==
    /\ mainPc = "walking" /\ walkLeft = {}
    /\ mainPc' = "sleeping"
    /\ UNCHANGED <<toArm, walkLeft, connects, listenAble, stopped, maps, ioVars,
                   threadVars, history>>

\* After six seconds: Stop the manager, the first of _threads, ...
ReleaseStopManager ==
    /\ mainPc = "sleeping"
    /\ mainPc' = "stopping"
    /\ UNCHANGED <<toArm, walkLeft, connects, listenAble, stopped, maps,
                   ioVars, threadVars, history>>

\* Mutant: Join before Stop.
ReleaseJoinFirst(w) ==
    /\ mainPc = "stopping"
    /\ mgrPc = "exited"
    /\ w \notin stopped /\ workerPc[w] = "exited"
    /\ stopped' = stopped \cup {w}
    /\ UNCHANGED <<mainPc, toArm, walkLeft, connects, listenAble, maps,
                   ioVars, threadVars, history>>

\* ... Join it, and then Stop and Join the workers one by one.
ReleaseStopWorker(w) ==
    /\ mainPc = "stopping"
    /\ mgrPc = "exited"
    /\ \A v \in stopped : workerPc[v] = "exited"
    /\ w \notin stopped
    /\ stopped' = stopped \cup {w}
    /\ UNCHANGED <<mainPc, toArm, walkLeft, connects, listenAble, maps,
                   ioVars, threadVars, history>>

\* The maps are cleared, which destroys the listen sockets too.
ReleaseClear ==
    /\ mainPc = "stopping"
    /\ mgrPc = "exited"
    /\ \A w \in Workers : workerPc[w] = "exited"
    /\ mainPc' = "released"
    /\ waiting' = [s \in Sockets |-> None]
    /\ registered' = [s \in Sockets |-> None]
    /\ delayClose' = {}
    /\ listenSt' = [l \in Listeners |-> "closed"]
    /\ UNCHANGED <<toArm, walkLeft, connects, listenAble, stopped, handle,
                   acceptVars, connectSt, peer, recv, closePkts, threadVars,
                   history>>

MainStep ==
    \/ \E l \in Listeners : StartAccept(l)
    \/ \E x \in Sockets \cup Listeners : ReleaseVisit(x)
    \/ \E w \in Workers : ReleaseStopWorker(w)
    \/ StartThreads \/ ReleaseWalkBegin \/ ReleaseSleep
    \/ ReleaseStopManager \/ ReleaseClear

----------------------------------------------------------------------------
(* The manager thread *)

\* Where Release's iterator stands relative to a node another thread inserts
\* decides whether the walk visits it.
Inserted(s) == IF mainPc = "walking"
               THEN walkLeft' \in {walkLeft, walkLeft \cup {s}}
               ELSE UNCHANGED walkLeft

\* Mutant: two threads serve the listen completion port.
ManagerReadyShared == Started /\ mgrPc # "exited"

ManagerReady == Started /\ mgrPc = "loop"

\* One iteration of DelayCloseSockets' loop, for a socket whose time has come:
\* UnregistSocket re-arms the listener it came from, then both maps drop it.
Expire(s) ==
    /\ ManagerReady
    /\ s \in delayClose
    /\ Rearm(registered[s])
    /\ registered' = [registered EXCEPT ![s] = None]
    /\ delayClose' = delayClose \ {s}
    /\ walkLeft' = walkLeft \ {s}
    /\ UNCHANGED <<mainPc, toArm, connects, listenAble, stopped, listenSt,
                   connectSt, recv, closePkts, threadVars>>

\* A failed ACCEPT completion: the socket of the overlapped is the listen
\* socket, so that is the one closed; the client stays in _wait_sockets.
AcceptFailed(c) ==
    /\ ManagerReady
    /\ acceptSt[c] = "failed"
    /\ CloseSocket(acceptOn[c])
    /\ acceptSt' = [acceptSt EXCEPT ![c] = "none"]
    /\ acceptOn' = [acceptOn EXCEPT ![c] = None]
    /\ abandoned' = abandoned \cup {c}
    /\ UNCHANGED <<mainVars, maps, listenSt, handle, connectSt, peer, recv,
                   threadVars, lost>>

\* OnAccept up to and including client->OnAccept, whose last act is Recv.
\* RegistSocket moves the client from _wait_sockets to _sockets.  From here the
\* handler, no longer the overlapped, is what keeps the client alive.
OnAccept(c) ==
    /\ ManagerReady
    /\ acceptSt[c] = "done"
    /\ RegistSocket(c, acceptOn[c])
    /\ acceptSt' = [acceptSt EXCEPT ![c] = "none"]
    /\ acceptOn' = [acceptOn EXCEPT ![c] = None]
    /\ Inserted(c)
    /\ Recv(c)
    /\ mgrPc' = "complete"
    /\ mgrSock' = c
    /\ UNCHANGED <<mainPc, toArm, connects, listenAble, stopped, delayClose,
                   listenSt, handle, connectSt, peer, closePkts, workerVars,
                   lost>>

\* OnAccept when the client cannot be registered with the completion port.
OnAcceptNoPort(c) ==
    /\ ManagerReady
    /\ acceptSt[c] = "done"
    /\ handle' = [handle EXCEPT ![c] = FALSE]
    /\ acceptSt' = [acceptSt EXCEPT ![c] = "none"]
    /\ acceptOn' = [acceptOn EXCEPT ![c] = None]
    /\ abandoned' = abandoned \cup {c}
    /\ UNCHANGED <<mainVars, maps, listenSt, connectSt, peer, recv, closePkts,
                   threadVars, lost>>

\* OnAcceptComplete has announced the session, and the handler returns.
OnAcceptComplete ==
    /\ mgrPc = "complete"
    /\ mgrPc' = "loop"
    /\ mgrSock' = None
    /\ UNCHANGED <<mainVars, maps, ioVars, workerVars, history>>

\* OnClose of a client.  A packet whose socket is gone, or is already waiting
\* for its delayed close, is dropped.
OnCloseClient(s) ==
    /\ ManagerReady
    /\ closePkts[s] > 0
    /\ closePkts' = [closePkts EXCEPT ![s] = @ - 1]
    /\ IF Alive(s) /\ s \notin delayClose
       THEN DelayedClose(s)
       ELSE UNCHANGED <<delayClose, handle>>
    /\ UNCHANGED <<mainVars, waiting, registered, listenSt, acceptVars,
                   connectSt, peer, recv, threadVars, history>>

\* OnClose of a listen socket, up to the test of _listen_able.
OnCloseListener(l) ==
    /\ ManagerReady
    /\ closePkts[l] > 0
    /\ closePkts' = [closePkts EXCEPT ![l] = @ - 1]
    /\ IF listenAble
       THEN /\ mgrPc' = "relisten"
            /\ mgrSock' = l
            /\ UNCHANGED listenSt
       ELSE /\ listenSt' = [listenSt EXCEPT ![l] = "closed"]
            /\ UNCHANGED mgrVars
    /\ UNCHANGED <<mainVars, maps, handle, acceptVars, connectSt, peer, recv,
                   workerVars, history>>

\* The rest of it.  Listen starts with a bind, which a bound socket refuses;
\* when Listen fails the CLOSE packet is posted again.  A listener is unbound
\* only if Initialize's bind failed; then no AcceptEx was ever pending on it and
\* nothing closes it before Release.
Relisten ==
    /\ mgrPc = "relisten"
    /\ IF listenSt[mgrSock] = "unbound"
       THEN /\ listenSt' = [listenSt EXCEPT ![mgrSock] = "listening"]
            /\ UNCHANGED closePkts
       ELSE /\ CloseSocket(mgrSock)
            /\ UNCHANGED listenSt
    /\ mgrPc' = "loop"
    /\ mgrSock' = None
    /\ UNCHANGED <<mainVars, maps, handle, acceptVars, connectSt, peer, recv,
                   workerVars, history>>

ManagerExit ==
    /\ ManagerReady
    /\ mainPc = "stopping"
    /\ mgrPc' = "exited"
    /\ UNCHANGED <<mainVars, maps, ioVars, mgrSock, workerVars, history>>

Manager ==
    \/ \E s \in Sockets : \/ Expire(s) \/ AcceptFailed(s) \/ OnAccept(s)
                          \/ OnAcceptNoPort(s) \/ OnCloseClient(s)
    \/ \E l \in Listeners : OnCloseListener(l)
    \/ OnAcceptComplete \/ Relisten \/ ManagerExit

----------------------------------------------------------------------------
(* The workers *)

WorkerReady(w) == Started /\ workerPc[w] = "loop"

\* Mutant: the next receive is posted before the messages are parsed.
OnRecvPostsFirst(w, s) ==
    /\ WorkerReady(w)
    /\ recv[s] = "data" /\ Alive(s)
    /\ recv' = [recv EXCEPT ![s] = "posted"]
    /\ Hold(w, "parse", s)
    /\ UNCHANGED <<mainVars, maps, listenSt, handle, acceptVars, connectSt,
                   peer, closePkts, mgrVars, history>>

\* A RECV completion with bytes: OnRecv locks the socket and starts parsing.
\* With the socket gone the completion does nothing.
OnRecv(w, s) ==
    /\ WorkerReady(w)
    /\ recv[s] = "data"
    /\ recv' = [recv EXCEPT ![s] = "none"]
    /\ IF Alive(s) THEN Hold(w, "parse", s) ELSE UNCHANGED workerVars
    /\ UNCHANGED <<mainVars, maps, listenSt, handle, acceptVars, connectSt,
                   peer, closePkts, mgrVars, history>>

\* BASocket::OnRecv has handed the messages to the session and posts the next
\* receive.
RecvAgain(w) ==
    /\ workerPc[w] = "parse"
    /\ Recv(workerSock[w])
    /\ LetGo(w)
    /\ UNCHANGED <<mainVars, maps, listenSt, handle, acceptVars, connectSt,
                   peer, closePkts, mgrVars, lost>>

\* A RECV completion of zero bytes or with an error: CloseSocket.
OnRecvEnd(w, s) ==
    /\ WorkerReady(w)
    /\ recv[s] = "ended"
    /\ recv' = [recv EXCEPT ![s] = "none"]
    /\ IF Alive(s)
       THEN CloseSocket(s) /\ Hold(w, "finish", s)
       ELSE UNCHANGED <<closePkts, workerVars>>
    /\ UNCHANGED <<mainVars, maps, listenSt, handle, acceptVars, connectSt,
                   peer, mgrVars, history>>

\* OnConnect: RegistSocket on this worker, then BASocket::OnConnect's Recv.
OnConnect(w, s) ==
    /\ WorkerReady(w)
    /\ connectSt[s] = "done"
    /\ connectSt' = [connectSt EXCEPT ![s] = "none"]
    /\ RegistSocket(s, ConnectKey)
    /\ Inserted(s)
    /\ Recv(s)
    /\ Hold(w, "finish", s)
    /\ UNCHANGED <<mainPc, toArm, connects, listenAble, stopped, delayClose,
                   listenSt, handle, acceptVars, peer, closePkts, mgrVars,
                   lost>>

\* A failed CONNECT completion: CloseSocket, and the overlapped is deleted.
ConnectFailed(w, s) ==
    /\ WorkerReady(w)
    /\ connectSt[s] = "failed"
    /\ connectSt' = [connectSt EXCEPT ![s] = "none"]
    /\ CloseSocket(s)
    /\ Hold(w, "finish", s)
    /\ UNCHANGED <<mainVars, maps, listenSt, handle, acceptVars, peer, recv,
                   mgrVars, history>>

\* The handler returns, after OnConnectComplete or CloseSocket.
HandlerReturn(w) ==
    /\ workerPc[w] = "finish"
    /\ LetGo(w)
    /\ UNCHANGED <<mainVars, maps, ioVars, mgrVars, history>>

WorkerExit(w) ==
    /\ workerPc[w] = "loop"
    /\ w \in stopped
    /\ workerPc' = [workerPc EXCEPT ![w] = "exited"]
    /\ UNCHANGED <<mainVars, maps, ioVars, mgrVars, workerSock, history>>

Worker(w) ==
    \/ \E s \in Sockets : \/ OnRecv(w, s) \/ OnRecvEnd(w, s)
                          \/ OnConnect(w, s) \/ ConnectFailed(w, s)
    \/ RecvAgain(w) \/ HandlerReturn(w) \/ WorkerExit(w)

----------------------------------------------------------------------------
(* The kernel and the peers *)

AcceptDone(c) ==
    /\ acceptSt[c] = "pending"
    /\ listenSt[acceptOn[c]] = "listening"
    /\ acceptSt' = [acceptSt EXCEPT ![c] = "done"]
    /\ peer' = [peer EXCEPT ![c] = "up"]
    /\ UNCHANGED <<mainVars, maps, listenSt, handle, acceptOn, connectSt,
                   recv, closePkts, threadVars, history>>

\* The connection was reset before it was accepted, or the listen socket was
\* closed.
AcceptAborted(c) ==
    /\ acceptSt[c] = "pending"
    /\ acceptSt' = [acceptSt EXCEPT ![c] = "failed"]
    /\ UNCHANGED <<mainVars, maps, listenSt, handle, acceptOn, connectSt,
                   peer, recv, closePkts, threadVars, history>>

ConnectDone(s) ==
    /\ connectSt[s] = "pending"
    /\ connectSt' = [connectSt EXCEPT ![s] = "done"]
    /\ peer' = [peer EXCEPT ![s] = "up"]
    /\ UNCHANGED <<mainVars, maps, listenSt, handle, acceptVars, recv,
                   closePkts, threadVars, history>>

ConnectRefused(s) ==
    /\ connectSt[s] = "pending"
    /\ connectSt' = [connectSt EXCEPT ![s] = "failed"]
    /\ UNCHANGED <<mainVars, maps, listenSt, handle, acceptVars, peer, recv,
                   closePkts, threadVars, history>>

PeerGone(s) ==
    /\ peer[s] = "up" /\ Alive(s)
    /\ peer' = [peer EXCEPT ![s] = "down"]
    /\ UNCHANGED <<mainVars, maps, listenSt, handle, acceptVars, connectSt,
                   recv, closePkts, threadVars, history>>

Arrive(s) ==
    /\ recv[s] = "posted"
    /\ Open(s) /\ peer[s] = "up"
    /\ recv' = [recv EXCEPT ![s] = "data"]
    /\ UNCHANGED <<mainVars, maps, listenSt, handle, acceptVars, connectSt,
                   peer, closePkts, threadVars, history>>

\* The peer closed or reset the connection, or the handle was closed here.
RecvEnds(s) ==
    /\ recv[s] = "posted"
    /\ ~Open(s) \/ peer[s] = "down"
    /\ recv' = [recv EXCEPT ![s] = "ended"]
    /\ UNCHANGED <<mainVars, maps, listenSt, handle, acceptVars, connectSt,
                   peer, closePkts, threadVars, history>>

Kernel ==
    \E s \in Sockets :
        \/ AcceptDone(s) \/ AcceptAborted(s) \/ ConnectDone(s)
        \/ ConnectRefused(s) \/ PeerGone(s) \/ Arrive(s) \/ RecvEnds(s)

----------------------------------------------------------------------------

\* The program has ended.
Terminated == mainPc = "released" /\ UNCHANGED vars

Next ==
    \/ MainStep
    \/ ReleaseBegin
    \/ \E s \in Sockets : Connect(s)
    \/ Manager
    \/ \E w \in Workers : Worker(w)
    \/ Kernel
    \/ Terminated

Spec == Init /\ [][Next]_vars

\* Every thread keeps running, and Stop ends each loop within an iteration.
ThreadFairness ==
    /\ WF_vars(MainStep)
    /\ WF_vars(OnAcceptComplete \/ Relisten)
    /\ SF_vars(ManagerExit)
    /\ \A w \in Workers : /\ WF_vars(RecvAgain(w) \/ HandlerReturn(w))
                          /\ SF_vars(WorkerExit(w))

\* A completion port serves its packets in turn, so none waits for ever while
\* its consumers keep dequeuing: strong fairness per packet.  Expiry needs only
\* the clock, and the kernel ends a receive whose connection is gone.
ConnectionFairness ==
    \A s \in Sockets :
      /\ SF_vars(\E w \in Workers : OnRecv(w, s) \/ OnRecvEnd(w, s))
      /\ SF_vars(OnCloseClient(s))
      /\ SF_vars(Expire(s))
      /\ WF_vars(RecvEnds(s))

ListenerFairness == \A l \in Listeners : SF_vars(OnCloseListener(l))

\* Each property is checked under no more fairness than it needs.  Nothing ever
\* makes the application call Connect or Release, a peer connect or hang up, or
\* a message arrive.
ConnectionSpec == Spec /\ ThreadFairness /\ ConnectionFairness
ReleaseSpec    == Spec /\ ThreadFairness /\ ListenerFairness

----------------------------------------------------------------------------
(* Type correctness *)

\* Every variable keeps to its range; in particular a worker that parses or
\* finishes a handler holds a socket.
TypeOK ==
    /\ mainPc \in {"starting", "running", "closing", "walking", "sleeping",
                   "stopping", "released"}
    /\ toArm \in [Listeners -> Nat]
    /\ walkLeft \subseteq Sockets \cup Listeners
    /\ connects \in Nat
    /\ listenAble \in BOOLEAN
    /\ listenSt \in [Listeners -> {"unbound", "bound", "listening", "closed"}]
    /\ waiting \in [Sockets -> Listeners \cup {None}]
    /\ registered \in [Sockets -> Listeners \cup {ConnectKey, None}]
    /\ delayClose \subseteq Sockets
    /\ handle \in [Sockets -> BOOLEAN]
    /\ acceptSt \in [Sockets -> {"none", "pending", "done", "failed"}]
    /\ acceptOn \in [Sockets -> Listeners \cup {None}]
    /\ connectSt \in [Sockets -> {"none", "pending", "done", "failed"}]
    /\ peer \in [Sockets -> {"none", "up", "down"}]
    /\ recv \in [Sockets -> {"none", "posted", "data", "ended"}]
    /\ closePkts \in [Sockets \cup Listeners -> Nat]
    /\ mgrPc \in {"loop", "complete", "relisten", "exited"}
    /\ mgrSock \in Sockets \cup Listeners \cup {None}
    /\ workerPc \in [Workers -> {"loop", "parse", "finish", "exited"}]
    /\ workerSock \in [Workers -> Sockets \cup {None}]
    /\ stopped \subseteq Workers
    /\ lost \in [Listeners -> Nat]
    /\ abandoned \subseteq Sockets
    /\ \A w \in Workers :
         (workerSock[w] # None) <=> (workerPc[w] \in {"parse", "finish"})
    /\ (mgrSock \in Sockets) <=> (mgrPc = "complete")
    /\ (mgrSock \in Listeners) <=> (mgrPc = "relisten")

----------------------------------------------------------------------------
(* Safety *)

\* _max_client is a ledger: until Release clears the maps, each of the accepts
\* StartNetwork issues for a listener is either still to be issued, waiting,
\* a registered connection, or an Accept call that failed.  OnAccept moves a
\* slot from one map to the other and UnregistSocket re-arms before it erases;
\* a slot counted twice would let a listener exceed its _max_client, and one
\* dropped would shrink the server for ever.
SlotLedger ==
    mainPc # "released" =>
      \A l \in Listeners :
        toArm[l] + Cardinality(Waiting(l)) + Cardinality(Registered(l)) + lost[l]
          = MaxClient[l]

\* Something will come back for every socket of _wait_sockets and _sockets: an
\* AcceptEx not yet handled, a receive in flight, a handler that holds it, a
\* CLOSE packet or a running delay.  The exceptions are the sockets lost to an
\* error the code ignores (a failed AcceptEx, a client the port refused, a
\* failed WSARecv).  Broken by any handler that ends without passing its socket
\* on.
InCare(s) ==
    \/ acceptSt[s] # "none"
    \/ recv[s] # "none"
    \/ \E w \in Workers : workerSock[w] = s
    \/ closePkts[s] > 0
    \/ s \in delayClose

NoSlotForgotten ==
    \A s \in Sockets :
      waiting[s] # None \/ registered[s] # None => InCare(s) \/ s \in abandoned

\* A registered socket's handle is closed exactly while _delay_close_sockets
\* has it: CloseSocket only asks, OnClose alone closes, and the entry stays
\* until the five seconds are over.  So no receive is ever ended by a close the
\* manager does not know of, and no closed socket keeps its slot unwatched.
ClosedIffDelayed ==
    \A s \in Sockets :
      registered[s] # None => (handle[s] <=> s \notin delayClose)

\* The receive buffer has no lock.  Whatever the number of workers, one worker
\* parses it at a time, and never while the kernel may write to it: the next
\* WSARecv is posted only after the parse.
RecvBufExclusive ==
    \A w \in Workers :
      workerPc[w] = "parse" =>
        /\ recv[workerSock[w]] = "none"
        /\ \A v \in Workers \ {w} :
             workerPc[v] = "parse" => workerSock[v] # workerSock[w]

\* OnAccept posts the first receive before it calls OnAcceptComplete, so a
\* worker may already see the peer hang up.  The application is nevertheless
\* given a registered socket with an open handle, because closing is left to
\* the manager, the thread OnAcceptComplete runs on.
AnnouncedOpen ==
    mgrPc = "complete" =>
      registered[mgrSock] \in Listeners /\ Open(mgrSock)

\* A pending operation and the maps agree.  An AcceptEx not handled yet belongs
\* to a socket that _wait_sockets files under the same listener, so OnAccept's
\* RegistSocket charges the connection to the slot Accept took; a socket being
\* dialled is in neither map, so OnConnect's RegistSocket takes nobody's slot.
OperationsTracked ==
    mainPc # "released" =>
      \A s \in Sockets :
        /\ acceptSt[s] # "none" => /\ acceptOn[s] \in Listeners
                                  /\ waiting[s] = acceptOn[s]
                                  /\ registered[s] = None
        /\ connectSt[s] # "none" => /\ waiting[s] = None
                                   /\ registered[s] = None
                                   /\ acceptSt[s] = "none"

----------------------------------------------------------------------------
(* Refinement *)

\* Where a socket is in the life ConnectionSlots describes.  The copy that
\* OnClose puts into _delay_close_sockets for a socket no longer registered is
\* not a slot.
Life(s) == CASE waiting[s] # None -> "armed"
             [] registered[s] # None /\ s \notin delayClose -> "live"
             [] registered[s] # None /\ s \in delayClose -> "closing"
             [] OTHER -> "free"

Key(s) == IF waiting[s] # None THEN waiting[s] ELSE registered[s]

Slots == INSTANCE ConnectionSlots WITH
           life <- [s \in Sockets |-> Life(s)],
           key  <- [s \in Sockets |-> Key(s)],
           up   <- mainPc # "released"

\* The three maps implement the slots of ConnectionSlots: no listener ever has
\* more than _max_client sockets armed, connected and closing together, a
\* connection is unregistered only after its quarantine, and the slot it frees
\* goes to a new socket of the same listener in the same step.
ImplementsSlots == Slots!SlotsSpec

----------------------------------------------------------------------------
(* Liveness *)

\* A connection whose peer is gone does not keep its slot: its receive ends, a
\* worker asks for the close, the manager closes the handle and, after the
\* delay, unregisters the socket.  Only a socket whose receive could not be
\* posted is exempt.
DeadConnectionsReclaimed ==
    \A s \in Sockets :
      (registered[s] # None /\ peer[s] = "down")
        ~> (registered[s] = None \/ s \in abandoned)

\* Release returns: the manager and every worker leave their loops whatever
\* completions keep arriving.
ReleaseTerminates == (mainPc = "closing") ~> (mainPc = "released")

----------------------------------------------------------------------------
(* What the comments say and the code does not do *)

\* BANetworkEngine.h:26 puts the maps under "Single Thread mem start": while
\* threads run, only the manager changes them.
ThreadsRunning ==
    Started /\ ~(mgrPc = "exited" /\ \A w \in Workers : workerPc[w] = "exited")

SingleThreadMem == [][ThreadsRunning /\ maps' # maps => Manager]_vars

\* BANetworkEngine.cpp:298, "all connected socket close.": when Release is past
\* its loop, each registered socket has been asked to close.
ReleaseClosesAll ==
    mainPc = "sleeping" =>
      \A s \in Sockets :
        registered[s] # None => closePkts[s] > 0 \/ s \in delayClose

\* BANetworkEngine.cpp:113, "Repeat Listen;": a CLOSE of a listener that may
\* still listen ends with a Listen that succeeds, unless Release comes first.
ListenRepeated ==
    \A l \in Listeners :
      (closePkts[l] > 0 /\ listenAble)
        ~> (closePkts[l] = 0 /\ mgrSock # l) \/ ~listenAble

=============================================================================
