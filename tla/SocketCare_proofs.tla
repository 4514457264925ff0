-------------------------- MODULE SocketCare_proofs --------------------------
(***************************************************************************)
(* Proofs about BANetworkEngine: what becomes of each single socket, for   *)
(* every number of sockets, listeners, slots and workers.                  *)
(***************************************************************************)
EXTENDS BANetworkEngine_proofs

\* An AcceptEx or ConnectEx that is not handled yet is all that happens to its
\* socket: no handler holds it, no receive is posted and nobody closes it.
OperationsAlone ==
    \A s \in Sockets :
      acceptSt[s] # "none" \/ connectSt[s] # "none" =>
        /\ acceptSt[s] = "none" \/ connectSt[s] = "none"
        /\ acceptSt[s] # "none" => acceptOn[s] \in Listeners
        /\ registered[s] = None /\ s \notin delayClose /\ s \notin walkLeft
        /\ handle[s] /\ closePkts[s] = 0 /\ recv[s] = "none"
        /\ \A w \in Workers : workerSock[w] # s

\* Release's walk has only registered sockets in front of it.
WalkRegistered ==
    /\ mainPc \in {"sleeping", "stopping", "released"} => walkLeft = {}
    /\ \A s \in Sockets : s \in walkLeft => registered[s] # None

Parsing(s) == \E w \in Workers : workerPc[w] = "parse" /\ workerSock[w] = s

\* Of the waiting sockets only abandoned ones have no AcceptEx.
WaitingKept ==
    \A s \in Sockets :
      waiting[s] # None => acceptSt[s] # "none" \/ s \in abandoned

\* NoSlotForgotten of the registered ones, without the handlers that are about
\* to return: those must have passed their socket on already.
RegisteredKept ==
    \A s \in Sockets :
      registered[s] # None =>
        \/ recv[s] # "none" \/ Parsing(s) \/ closePkts[s] > 0
        \/ s \in delayClose \/ s \in abandoned

Care == /\ OperationsAlone /\ WalkRegistered /\ WaitingKept /\ RegisteredKept
        /\ ClosedIffDelayed /\ RecvBufExclusive /\ AnnouncedOpen

\* The inductive invariant.
CareInv == TypeOK /\ Care

LEMMA CareInit == Init => CareInv
  BY TypeInit DEF Init, CareInv, Care, OperationsAlone, WalkRegistered,
     WaitingKept, RegisteredKept, ClosedIffDelayed, RecvBufExclusive,
     AnnouncedOpen

LEMMA CareKernel ==
    ASSUME CareInv, Kernel
    PROVE  Care'
  <1> USE DEF CareInv, Care, TypeOK, OperationsAlone, WalkRegistered,
              WaitingKept, RegisteredKept, Parsing, ClosedIffDelayed,
              RecvBufExclusive, AnnouncedOpen, Open, Alive,
              mainVars, maps, acceptVars, threadVars, mgrVars, workerVars,
              history
  <1>1. ASSUME NEW s \in Sockets, AcceptDone(s) \/ AcceptAborted(s)
        PROVE  Care'
    BY <1>1 DEF AcceptDone, AcceptAborted
  <1>2. ASSUME NEW s \in Sockets, ConnectDone(s) \/ ConnectRefused(s)
        PROVE  Care'
    BY <1>2 DEF ConnectDone, ConnectRefused
  <1>3. ASSUME NEW s \in Sockets, PeerGone(s) \/ Arrive(s) \/ RecvEnds(s)
        PROVE  Care'
    BY <1>3 DEF PeerGone, Arrive, RecvEnds
  <1> QED
    BY <1>1, <1>2, <1>3 DEF Kernel

\* Accept takes a socket that is nowhere, and touches no other.
LEMMA CareMain ==
    ASSUME CareInv, MainStep \/ ReleaseBegin \/ \E s \in Sockets : Connect(s)
    PROVE  Care'
  <1> USE KeyAssumption
      DEF CareInv, Care, TypeOK, OperationsAlone, WalkRegistered,
          WaitingKept, RegisteredKept, Parsing, ClosedIffDelayed,
          RecvBufExclusive, AnnouncedOpen, Open, Alive,
          mainVars, maps, ioVars, acceptVars, threadVars, mgrVars, workerVars,
          history
  <1>1. ASSUME NEW l \in Listeners, StartAccept(l) PROVE Care'
    BY <1>1 DEF StartAccept, Accept, Arm, Fresh
  <1>2. ASSUME NEW x \in Sockets \cup Listeners, ReleaseVisit(x) PROVE Care'
    BY <1>2 DEF ReleaseVisit, CloseSocket
  <1>3. CASE \/ StartThreads \/ ReleaseBegin \/ ReleaseWalkBegin
             \/ ReleaseSleep \/ ReleaseStopManager
    BY <1>3 DEF StartThreads, ReleaseBegin, ReleaseWalkBegin, ReleaseSleep,
                ReleaseStopManager
  <1>4. ASSUME NEW w \in Workers, ReleaseStopWorker(w) PROVE Care'
    BY <1>4 DEF ReleaseStopWorker
  <1>5. CASE ReleaseClear
    BY <1>5 DEF ReleaseClear
  <1>6. ASSUME NEW s \in Sockets, Connect(s) PROVE Care'
    BY <1>6 DEF Connect, Fresh
  <1> QED
    BY <1>1, <1>2, <1>3, <1>4, <1>5, <1>6 DEF MainStep

LEMMA CareManager ==
    ASSUME CareInv, Manager
    PROVE  Care'
  <1> USE KeyAssumption
      DEF CareInv, Care, TypeOK, OperationsAlone, WalkRegistered,
          WaitingKept, RegisteredKept, Parsing, ClosedIffDelayed,
          RecvBufExclusive, AnnouncedOpen, Open, Alive, ManagerReady,
          mainVars, maps, ioVars, acceptVars, threadVars, mgrVars, workerVars,
          history
  <1>1. ASSUME NEW s \in Sockets, Expire(s) PROVE Care'
    BY <1>1 DEF Expire, Rearm, Accept, Arm, Fresh
  <1>2. ASSUME NEW s \in Sockets, AcceptFailed(s) PROVE Care'
    BY <1>2 DEF AcceptFailed, CloseSocket
  <1>3. ASSUME NEW s \in Sockets, OnAccept(s) PROVE Care'
    BY <1>3 DEF OnAccept, RegistSocket, Inserted, Recv
  <1>4. ASSUME NEW s \in Sockets, OnAcceptNoPort(s) PROVE Care'
    BY <1>4 DEF OnAcceptNoPort
  <1>5. ASSUME NEW s \in Sockets, OnCloseClient(s) PROVE Care'
    BY <1>5 DEF OnCloseClient, DelayedClose
  <1>6. ASSUME NEW l \in Listeners, OnCloseListener(l) PROVE Care'
    BY <1>6 DEF OnCloseListener
  <1>7. CASE OnAcceptComplete
    BY <1>7 DEF OnAcceptComplete
  <1>8. CASE Relisten
    BY <1>8 DEF Relisten, CloseSocket
  <1>9. CASE ManagerExit
    BY <1>9 DEF ManagerExit
  <1> QED
    BY <1>1, <1>2, <1>3, <1>4, <1>5, <1>6, <1>7, <1>8, <1>9 DEF Manager

LEMMA CareWorker ==
    ASSUME CareInv, NEW w \in Workers, Worker(w)
    PROVE  Care'
  <1> USE KeyAssumption
      DEF CareInv, Care, TypeOK, OperationsAlone, WalkRegistered,
          WaitingKept, RegisteredKept, Parsing, ClosedIffDelayed,
          RecvBufExclusive, AnnouncedOpen, Open, Alive, WorkerReady, Hold,
          LetGo, mainVars, maps, ioVars, acceptVars, threadVars, mgrVars,
          workerVars, history
  <1>1. ASSUME NEW s \in Sockets, OnRecv(w, s) PROVE Care'
    BY <1>1 DEF OnRecv
  <1>2. ASSUME NEW s \in Sockets, OnRecvEnd(w, s) PROVE Care'
    BY <1>2 DEF OnRecvEnd, CloseSocket
  <1>3. ASSUME NEW s \in Sockets, OnConnect(w, s) PROVE Care'
    BY <1>3 DEF OnConnect, RegistSocket, Inserted, Recv
  <1>4. ASSUME NEW s \in Sockets, ConnectFailed(w, s) PROVE Care'
    BY <1>4 DEF ConnectFailed, CloseSocket
  <1>5. CASE RecvAgain(w)
    BY <1>5 DEF RecvAgain, Recv
  <1>6. CASE HandlerReturn(w)
    BY <1>6 DEF HandlerReturn
  <1>7. CASE WorkerExit(w)
    BY <1>7 DEF WorkerExit
  <1> QED
    BY <1>1, <1>2, <1>3, <1>4, <1>5, <1>6, <1>7 DEF Worker

LEMMA CareNext == CareInv /\ [Next]_vars => CareInv'
  <1> SUFFICES ASSUME CareInv, [Next]_vars PROVE CareInv'
    OBVIOUS
  <1>1. TypeOK'
    BY TypeMain, TypeManager, TypeWorker, TypeKernel, TypeStutter
    DEF CareInv, Next, Terminated
  <1>2. CASE UNCHANGED vars
    BY <1>1, <1>2
    DEF CareInv, Care, OperationsAlone, WalkRegistered, WaitingKept,
        RegisteredKept, Parsing, ClosedIffDelayed, RecvBufExclusive,
        AnnouncedOpen, Open, Alive, vars, mainVars, maps, ioVars, acceptVars,
        threadVars, mgrVars, workerVars, history
  <1>3. CASE Next
    BY <1>1, <1>2, <1>3, CareMain, CareManager, CareWorker, CareKernel
    DEF CareInv, Next, Terminated
  <1> QED
    BY <1>2, <1>3

LEMMA CareInvariant == Spec => []CareInv
  BY CareInit, CareNext, PTL DEF Spec

----------------------------------------------------------------------------

\* One worker at a time parses a receive buffer, and never while a receive is
\* posted into it, whatever the number of workers and of sockets.
THEOREM RecvBufExclusiveCorrect == Spec => []RecvBufExclusive
  <1>1. CareInv => RecvBufExclusive
    BY DEF CareInv, Care
  <1> QED
    BY <1>1, CareInvariant, PTL

\* A registered socket's handle is closed exactly while it waits out its delay.
THEOREM ClosedIffDelayedCorrect == Spec => []ClosedIffDelayed
  <1>1. CareInv => ClosedIffDelayed
    BY DEF CareInv, Care
  <1> QED
    BY <1>1, CareInvariant, PTL

\* The session OnAcceptComplete announces has an open handle.
THEOREM AnnouncedOpenCorrect == Spec => []AnnouncedOpen
  <1>1. CareInv => AnnouncedOpen
    BY DEF CareInv, Care
  <1> QED
    BY <1>1, CareInvariant, PTL

\* Something will come back for every socket in the maps, but for those an
\* ignored error has abandoned.
THEOREM NoSlotForgottenCorrect == Spec => []NoSlotForgotten
  <1>1. CareInv => NoSlotForgotten
    BY DEF CareInv, Care, WaitingKept, RegisteredKept, Parsing, InCare,
           NoSlotForgotten
  <1> QED
    BY <1>1, CareInvariant, PTL

----------------------------------------------------------------------------
(* The engine implements the slots of ConnectionSlots *)

\* A socket is in one map at most, and Release leaves nobody to change them.
OneMap ==
    /\ \A s \in Sockets : waiting[s] # None => registered[s] = None
    /\ mainPc = "released" =>
         /\ mgrPc = "exited" /\ \A w \in Workers : workerPc[w] = "exited"
         /\ \A s \in Sockets : waiting[s] = None /\ registered[s] = None

SlotsInv == LedgerInv /\ CareInv /\ OneMap

LEMMA OneMapNext == LedgerInv /\ CareInv /\ OneMap /\ [Next]_vars => OneMap'
  <1> SUFFICES ASSUME LedgerInv, CareInv, OneMap, [Next]_vars
               PROVE  OneMap'
    OBVIOUS
  <1> USE KeyAssumption
      DEF OneMap, vars, mainVars, maps, ioVars, acceptVars, threadVars,
          mgrVars, workerVars
  <1>1. CASE MainStep \/ ReleaseBegin \/ \E s \in Sockets : Connect(s)
    BY <1>1 DEF MainStep, StartAccept, Accept, Arm, Fresh, Alive, ReleaseVisit,
       ReleaseStopWorker, StartThreads, ReleaseBegin, ReleaseWalkBegin,
       ReleaseSleep, ReleaseStopManager, ReleaseClear, Connect, CareInv, TypeOK
  <1>2. CASE Manager
    BY <1>2 DEF Manager, ManagerReady, Expire, Rearm, Accept, Arm, Fresh, Alive,
       AcceptFailed, OnAccept, RegistSocket, OnAcceptNoPort, OnCloseClient,
       OnCloseListener, OnAcceptComplete, Relisten, ManagerExit, CareInv, TypeOK
  <1>3. CASE \E w \in Workers : Worker(w)
    BY <1>3 DEF Worker, WorkerReady, OnRecv, OnRecvEnd, OnConnect, RegistSocket,
       ConnectFailed, RecvAgain, HandlerReturn, WorkerExit, Hold, LetGo,
       CareInv, TypeOK
  <1>4. CASE Kernel
    BY <1>4 DEF Kernel, AcceptDone, AcceptAborted, ConnectDone, ConnectRefused,
       PeerGone, Arrive, RecvEnds
  <1>5. CASE UNCHANGED vars
    BY <1>5
  <1> QED
    BY <1>1, <1>2, <1>3, <1>4, <1>5 DEF Next, Terminated

LEMMA SlotsInvariant == Spec => []SlotsInv
  <1>1. Init => OneMap
    BY DEF Init, OneMap
  <1>2. SlotsInv /\ [Next]_vars => SlotsInv'
    BY LedgerNext, CareNext, OneMapNext DEF SlotsInv
  <1> QED
    BY <1>1, <1>2, LedgerInit, CareInit, PTL DEF Spec, SlotsInv

\* A step that leaves the maps alone leaves the slots alone.
LEMMA SlotsStutter ==
    ASSUME UNCHANGED maps, mainPc' = "released" <=> mainPc = "released"
    PROVE  UNCHANGED Slots!slotVars
  BY DEF Slots!slotVars, Life, Key, maps

\* A step that concerns one socket changes its place in life and key only.
LEMMA OneSocket ==
    ASSUME NEW s \in Sockets,
           \A r \in Sockets \ {s} : Life(r)' = Life(r) /\ Key(r)' = Key(r)
    PROVE  /\ [r \in Sockets |-> Life(r)]'
                = [[r \in Sockets |-> Life(r)] EXCEPT ![s] = Life(s)']
           /\ [r \in Sockets |-> Key(r)]'
                = [[r \in Sockets |-> Key(r)] EXCEPT ![s] = Key(s)']
  OBVIOUS

\* If its key stays, so do all keys.
LEMMA SameKeys ==
    ASSUME \A r \in Sockets : Key(r)' = Key(r)
    PROVE  [r \in Sockets |-> Key(r)]' = [r \in Sockets |-> Key(r)]
  OBVIOUS

\* A step that concerns two sockets changes their places only.
LEMMA TwoSockets ==
    ASSUME NEW s \in Sockets, NEW c \in Sockets, s # c,
           Life(s)' = "free", Life(c)' = "armed",
           Key(s)' = None, Key(c)' = Key(s),
           \A r \in Sockets \ {s, c} : Life(r)' = Life(r) /\ Key(r)' = Key(r)
    PROVE  /\ [r \in Sockets |-> Life(r)]'
                = [[r \in Sockets |-> Life(r)] EXCEPT ![s] = "free",
                                                      ![c] = "armed"]
           /\ [r \in Sockets |-> Key(r)]'
                = [[r \in Sockets |-> Key(r)] EXCEPT ![s] = None,
                                                     ![c] = Key(s)]
  OBVIOUS

\* StartNetwork issues an accept for a slot that is to spare.
LEMMA SlotsStartAccept ==
    ASSUME SlotsInv, NEW l \in Listeners, StartAccept(l)
    PROVE  [Slots!SlotsNext]_(Slots!slotVars)
  <1>1. CASE UNCHANGED waiting
    BY <1>1, SlotsStutter DEF StartAccept, maps
  <1>2. ASSUME NEW c \in Sockets, Arm(c, l)
        PROVE  Slots!Arm(c, l)
    <2>1. Cardinality(Slots!Holders(l)) < MaxClient[l]
      <3>1. Slots!Holders(l) = Waiting(l) \cup Registered(l)
        BY KeyAssumption
        DEF Slots!Holders, Key, Waiting, Registered, SlotsInv, OneMap
      <3>2. IsFiniteSet(Waiting(l)) /\ IsFiniteSet(Registered(l))
        BY CountType, CountsAreUnder
      <3>3. Cardinality(Waiting(l) \cup Registered(l))
              <= Cardinality(Waiting(l)) + Cardinality(Registered(l))
        <4>1. Cardinality(Waiting(l) \cap Registered(l)) \in Nat
          BY <3>2, FS_Intersection, FS_CardinalityType
        <4>2. Cardinality(Waiting(l) \cup Registered(l))
                = Cardinality(Waiting(l)) + Cardinality(Registered(l))
                    - Cardinality(Waiting(l) \cap Registered(l))
          BY <3>2, FS_Union
        <4> QED
          BY <4>1, <4>2, CountsType
      <3>4. Cardinality(Waiting(l) \cup Registered(l)) \in Nat
        BY <3>2, FS_Union, FS_CardinalityType
      <3>5. toArm[l] + Cardinality(Waiting(l)) + Cardinality(Registered(l))
              + lost[l] = MaxClient[l]
        BY DEF StartAccept, SlotsInv, LedgerInv, SlotLedger
      <3>6. toArm[l] > 0 /\ toArm[l] \in Nat /\ lost[l] \in Nat
        BY DEF StartAccept, SlotsInv, LedgerInv, TypeOK
      <3> QED
        BY <3>1, <3>3, <3>4, <3>5, <3>6, CountsType
    <2>2. waiting[c] = None /\ registered[c] = None
      BY <1>2 DEF Arm, Fresh, Alive
    <2>3. /\ Life(c) = "free" /\ Life(c)' = "armed" /\ Key(c)' = l
          /\ \A r \in Sockets \ {c} : Life(r)' = Life(r) /\ Key(r)' = Key(r)
      BY <1>2, <2>2, KeyAssumption
      DEF Life, Key, Arm, StartAccept, SlotsInv, CareInv, TypeOK
    <2>4. mainPc # "released" /\ mainPc' = mainPc
      BY DEF StartAccept
    <2>5. Slots!Cardinality(Slots!Holders(l)) < MaxClient[l]
      <3>1. Slots!Cardinality(Slots!Holders(l)) = Cardinality(Slots!Holders(l))
        BY Zenon DEF Slots!Cardinality, Cardinality, Slots!IsFiniteSet
      <3> QED
        BY <2>1, <3>1
    <2> QED
      BY <2>5, <2>3, <2>4, OneSocket DEF Slots!Arm
  <1> QED
    BY <1>1, <1>2 DEF StartAccept, Accept, Slots!SlotsNext

\* UnregistSocket gives the slot back and takes it for the next accept.
LEMMA SlotsExpire ==
    ASSUME SlotsInv, NEW s \in Sockets, Expire(s)
    PROVE  [Slots!SlotsNext]_(Slots!slotVars)
  <1> USE KeyAssumption DEF SlotsInv, OneMap, CareInv, TypeOK
  <1>0. mainPc # "released" /\ mainPc' = mainPc /\ s \in delayClose
    BY DEF Expire, ManagerReady
  <1>1. CASE registered[s] = None
    <2>1. UNCHANGED <<waiting, registered>>
      BY <1>1 DEF Expire, Rearm
    <2>2. UNCHANGED Slots!slotVars
      BY <1>0, <1>1, <2>1 DEF Expire, Slots!slotVars, Life, Key
    <2> QED
      BY <2>2
  <1>2. CASE registered[s] # None /\ UNCHANGED waiting
    <2>1. /\ Life(s) = "closing" /\ Life(s)' = "free" /\ Key(s)' = None
          /\ \A r \in Sockets \ {s} : Life(r)' = Life(r) /\ Key(r)' = Key(r)
      BY <1>0, <1>2 DEF Expire, Life, Key
    <2>2. Slots!Reclaim(s)
      BY <1>0, <2>1, OneSocket DEF Slots!Reclaim
    <2> QED
      BY <2>2 DEF Slots!SlotsNext
  <1>3. ASSUME registered[s] \in Listeners, NEW c \in Sockets,
               Arm(c, registered[s])
        PROVE  Slots!SlotsNext
    <2>1. /\ waiting[c] = None /\ registered[c] = None /\ c \notin delayClose
          /\ c # s /\ waiting[s] = None
      BY <1>0, <1>3 DEF Arm, Fresh, Alive
    <2>2. /\ Life(s) = "closing" /\ Life(s)' = "free" /\ Key(s)' = None
          /\ Life(c) = "free" /\ Life(c)' = "armed"
          /\ Key(s) = registered[s] /\ Key(c)' = Key(s)
          /\ \A r \in Sockets \ {s, c} :
               Life(r)' = Life(r) /\ Key(r)' = Key(r)
      BY <1>0, <1>3, <2>1 DEF Expire, Arm, Life, Key
    <2>3. /\ [r \in Sockets |-> Life(r)]'
               = [[r \in Sockets |-> Life(r)] EXCEPT ![s] = "free",
                                                     ![c] = "armed"]
          /\ [r \in Sockets |-> Key(r)]'
               = [[r \in Sockets |-> Key(r)] EXCEPT ![s] = None,
                                                    ![c] = Key(s)]
      BY <2>1, <2>2, TwoSockets
    <2>4. Slots!ReclaimAndArm(s, c)
      BY <1>0, <1>3, <2>2, <2>3 DEF Slots!ReclaimAndArm
    <2> QED
      BY <2>1, <2>4 DEF Slots!SlotsNext
  <1> QED
    BY <1>1, <1>2, <1>3 DEF Expire, Rearm, Accept

LEMMA SlotsManager ==
    ASSUME SlotsInv, Manager
    PROVE  [Slots!SlotsNext]_(Slots!slotVars)
  <1> USE KeyAssumption DEF SlotsInv, OneMap, CareInv, TypeOK
  <1>0. mainPc # "released" /\ mainPc' = mainPc
    BY DEF Manager, ManagerReady, Expire, AcceptFailed, OnAccept,
       OnAcceptNoPort, OnCloseClient, OnCloseListener, OnAcceptComplete,
       Relisten, ManagerExit, mainVars
  <1>1. ASSUME NEW s \in Sockets, Expire(s)
        PROVE  [Slots!SlotsNext]_(Slots!slotVars)
    BY <1>1, SlotsExpire
  <1>2. ASSUME NEW c \in Sockets, OnAccept(c)
        PROVE  Slots!SlotsNext
    <2>1. /\ waiting[c] = acceptOn[c] /\ acceptOn[c] \in Listeners
          /\ c \notin delayClose
      BY <1>0, <1>2
      DEF OnAccept, LedgerInv, OperationsTracked, Care, OperationsAlone
    <2>2. /\ Life(c) = "armed" /\ Life(c)' = "live" /\ Key(c)' = Key(c)
          /\ \A r \in Sockets \ {c} : Life(r)' = Life(r) /\ Key(r)' = Key(r)
      BY <1>0, <1>2, <2>1 DEF OnAccept, RegistSocket, Life, Key
    <2>3. Slots!Establish(c)
      BY <1>0, <2>2, OneSocket, SameKeys DEF Slots!Establish
    <2> QED
      BY <2>3 DEF Slots!SlotsNext
  <1>3. ASSUME NEW s \in Sockets, OnCloseClient(s)
        PROVE  [Slots!SlotsNext]_(Slots!slotVars)
    <2>1. CASE registered[s] # None /\ s \notin delayClose
      <3>1. /\ Life(s) = "live" /\ Life(s)' = "closing" /\ Key(s)' = Key(s)
            /\ \A r \in Sockets \ {s} :
                 Life(r)' = Life(r) /\ Key(r)' = Key(r)
        BY <1>0, <1>3, <2>1
        DEF OnCloseClient, DelayedClose, Alive, Life, Key
      <3>2. Slots!BeginClose(s)
        BY <1>0, <3>1, OneSocket, SameKeys DEF Slots!BeginClose
      <3> QED
        BY <3>2 DEF Slots!SlotsNext
    <2>2. CASE registered[s] = None \/ s \in delayClose
      <3>1. UNCHANGED Slots!slotVars
        BY <1>0, <1>3, <2>2
        DEF OnCloseClient, DelayedClose, Slots!slotVars, Life, Key
      <3> QED
        BY <3>1
    <2> QED
      BY <2>1, <2>2
  <1>4. ASSUME \/ \E s \in Sockets : AcceptFailed(s) \/ OnAcceptNoPort(s)
               \/ \E l \in Listeners : OnCloseListener(l)
               \/ OnAcceptComplete \/ Relisten \/ ManagerExit
        PROVE  UNCHANGED Slots!slotVars
    <2>1. UNCHANGED maps
      BY <1>4 DEF AcceptFailed, OnAcceptNoPort, OnCloseListener,
         OnAcceptComplete, Relisten, ManagerExit, maps
    <2> QED
      BY <1>0, <2>1, SlotsStutter
  <1> QED
    BY <1>1, <1>2, <1>3, <1>4 DEF Manager

LEMMA SlotsStep ==
    ASSUME SlotsInv, [Next]_vars
    PROVE  [Slots!SlotsNext]_(Slots!slotVars)
  <1> USE KeyAssumption DEF SlotsInv, OneMap, CareInv, TypeOK
  <1>1. ASSUME NEW l \in Listeners, StartAccept(l)
        PROVE  [Slots!SlotsNext]_(Slots!slotVars)
    BY <1>1, SlotsStartAccept
  <1>2. CASE ReleaseClear
    <2>1. Slots!Shutdown
      BY <1>2 DEF ReleaseClear, Slots!Shutdown, Life, Key
    <2> QED
      BY <2>1 DEF Slots!SlotsNext
  <1>3. ASSUME NEW w \in Workers, NEW s \in Sockets, OnConnect(w, s)
        PROVE  Slots!SlotsNext
    <2>1. /\ waiting[s] = None /\ registered[s] = None /\ s \notin delayClose
          /\ mainPc # "released"
      BY <1>3 DEF OnConnect, WorkerReady, LedgerInv, OperationsTracked, Care,
         OperationsAlone
    <2>2. /\ Life(s) = "free" /\ Life(s)' = "live" /\ Key(s)' = ConnectKey
          /\ \A r \in Sockets \ {s} : Life(r)' = Life(r) /\ Key(r)' = Key(r)
          /\ mainPc' = mainPc
      BY <1>3, <2>1 DEF OnConnect, RegistSocket, Life, Key
    <2>3. Slots!Dialled(s)
      BY <2>1, <2>2, OneSocket DEF Slots!Dialled
    <2> QED
      BY <2>3 DEF Slots!SlotsNext
  <1>4. ASSUME UNCHANGED <<maps, mainPc>>
        PROVE  UNCHANGED Slots!slotVars
    BY <1>4, SlotsStutter
  <1>5. CASE \/ StartThreads \/ ReleaseWalkBegin \/ ReleaseSleep
             \/ ReleaseStopManager \/ ReleaseBegin
             \/ (\E x \in Sockets \cup Listeners : ReleaseVisit(x))
             \/ (\E w \in Workers : ReleaseStopWorker(w))
             \/ (\E s \in Sockets : Connect(s))
    <2>1. UNCHANGED maps
      BY <1>5 DEF StartThreads, ReleaseWalkBegin, ReleaseSleep,
         ReleaseStopManager, ReleaseBegin, ReleaseVisit, ReleaseStopWorker,
         Connect, maps
    <2>2. \/ mainPc' # "released" /\ mainPc # "released"
          \/ mainPc' = mainPc
      BY <1>5 DEF StartThreads, ReleaseWalkBegin, ReleaseSleep,
         ReleaseStopManager, ReleaseBegin, ReleaseVisit, ReleaseStopWorker,
         Connect
    <2> QED
      BY <2>1, <2>2, SlotsStutter
  <1>6. ASSUME NEW w \in Workers, Worker(w),
               ~ \E s \in Sockets : OnConnect(w, s)
        PROVE  UNCHANGED <<maps, mainPc>>
    BY <1>6 DEF Worker, OnRecv, OnRecvEnd, ConnectFailed, RecvAgain,
       HandlerReturn, WorkerExit, mainVars, maps
  <1>7. CASE Kernel \/ UNCHANGED vars
    <2>1. UNCHANGED <<maps, mainPc>>
      BY <1>7 DEF Kernel, AcceptDone, AcceptAborted, ConnectDone,
         ConnectRefused, PeerGone, Arrive, RecvEnds, vars, mainVars, maps
    <2> QED
      BY <1>4, <2>1
  <1> QED
    BY <1>1, <1>2, <1>3, <1>4, <1>5, <1>6, <1>7, SlotsManager
    DEF Next, MainStep, Terminated

\* The three maps, changed by all threads, are a set of slots that are armed,
\* live, closing and armed again, never more of them than _max_client.
THEOREM ImplementsSlotsCorrect == Spec => ImplementsSlots
  <1>1. Init => Slots!SlotsInit
    BY DEF Init, Slots!SlotsInit, Life, Key
  <1>2. SlotsInv /\ [Next]_vars => [Slots!SlotsNext]_(Slots!slotVars)
    BY SlotsStep
  <1> QED
    BY <1>1, <1>2, SlotsInvariant, PTL
    DEF Spec, ImplementsSlots, Slots!SlotsSpec

=============================================================================
