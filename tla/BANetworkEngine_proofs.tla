------------------------ MODULE BANetworkEngine_proofs ------------------------
(***************************************************************************)
(* Proofs about BANetworkEngine, for every number of sockets, listeners,   *)
(* slots and workers.                                                      *)
(***************************************************************************)
EXTENDS BANetworkEngine, FiniteSetTheorems, TLAPS

----------------------------------------------------------------------------
(* Type correctness *)

\* Recv only touches recv and abandoned, and keeps their types.
LEMMA RecvType ==
    ASSUME TypeOK, NEW s \in Sockets, Recv(s)
    PROVE  /\ recv' \in [Sockets -> {"none", "posted", "data", "ended"}]
           /\ abandoned' \subseteq Sockets
  BY DEF TypeOK, Recv

\* Rearm, with the Accept and Arm it makes, keeps the types of what it touches.
LEMMA RearmType ==
    ASSUME TypeOK, NEW k, Rearm(k)
    PROVE  /\ waiting' \in [Sockets -> Listeners \cup {None}]
           /\ acceptSt' \in [Sockets -> {"none", "pending", "done", "failed"}]
           /\ acceptOn' \in [Sockets -> Listeners \cup {None}]
           /\ handle' \in [Sockets -> BOOLEAN]
           /\ peer' \in [Sockets -> {"none", "up", "down"}]
           /\ lost' \in [Listeners -> Nat]
           /\ abandoned' \subseteq Sockets
  <1>1. CASE \E c \in Sockets : Arm(c, k) /\ k \in Listeners /\ UNCHANGED lost
    <2>1. PICK c \in Sockets : Arm(c, k) /\ k \in Listeners /\ UNCHANGED lost
      BY <1>1
    <2> QED
      BY <2>1 DEF TypeOK, Arm
  <1>2. CASE /\ UNCHANGED <<waiting, acceptVars, handle, peer, abandoned>>
             /\ \/ lost' = [lost EXCEPT ![k] = @ + 1]
                \/ UNCHANGED lost
    BY <1>2 DEF TypeOK, acceptVars
  <1> QED
    BY <1>1, <1>2 DEF Rearm, Accept

\* CloseSocket counts one packet more.
LEMMA CloseSocketType ==
    ASSUME TypeOK, NEW x, CloseSocket(x)
    PROVE  closePkts' \in [Sockets \cup Listeners -> Nat]
  <1>1. CASE x \in Sockets \cup Listeners
    <2>1. closePkts[x] + 1 \in Nat
      BY <1>1 DEF TypeOK
    <2> QED
      BY <1>1, <2>1 DEF TypeOK, CloseSocket
  <1>2. CASE x \notin Sockets \cup Listeners
    BY <1>2 DEF TypeOK, CloseSocket
  <1> QED
    BY <1>1, <1>2

LEMMA TypeInit == Init => TypeOK
  BY MaxClientAssumption, KeyAssumption DEF Init, TypeOK

LEMMA TypeMain ==
    ASSUME TypeOK, MainStep \/ ReleaseBegin \/ \E s \in Sockets : Connect(s)
    PROVE  TypeOK'
  <1> USE DEF vars, mainVars, maps, ioVars, acceptVars, threadVars, mgrVars,
              workerVars, history
  <1>1. ASSUME NEW l \in Listeners, StartAccept(l) PROVE TypeOK'
    <2>1. Rearm(l)
      BY <1>1 DEF StartAccept, Rearm
    <2> QED
      BY <1>1, <2>1, RearmType DEF TypeOK, StartAccept
  <1>2. CASE StartThreads
    BY <1>2 DEF TypeOK, StartThreads
  <1>3. CASE ReleaseBegin
    BY <1>3 DEF TypeOK, ReleaseBegin
  <1>4. ASSUME NEW x \in Sockets \cup Listeners, ReleaseVisit(x) PROVE TypeOK'
    BY <1>4, CloseSocketType DEF TypeOK, ReleaseVisit
  <1>5. CASE ReleaseWalkBegin
    BY <1>5 DEF TypeOK, ReleaseWalkBegin
  <1>6. CASE ReleaseSleep
    BY <1>6 DEF TypeOK, ReleaseSleep
  <1>7. CASE ReleaseStopManager
    BY <1>7 DEF TypeOK, ReleaseStopManager
  <1>8. ASSUME NEW w \in Workers, ReleaseStopWorker(w) PROVE TypeOK'
    BY <1>8 DEF TypeOK, ReleaseStopWorker
  <1>9. CASE ReleaseClear
    BY <1>9 DEF TypeOK, ReleaseClear
  <1>10. ASSUME NEW s \in Sockets, Connect(s) PROVE TypeOK'
    BY <1>10 DEF TypeOK, Connect
  <1> QED
    BY <1>1, <1>2, <1>3, <1>4, <1>5, <1>6, <1>7, <1>8, <1>9, <1>10 DEF MainStep

LEMMA TypeManager ==
    ASSUME TypeOK, Manager
    PROVE  TypeOK'
  <1> USE KeyAssumption
      DEF vars, mainVars, maps, ioVars, acceptVars, threadVars, mgrVars,
          workerVars, history, ManagerReady
  <1>1. ASSUME NEW s \in Sockets, Expire(s) PROVE TypeOK'
    BY <1>1, RearmType DEF TypeOK, Expire
  <1>2. ASSUME NEW s \in Sockets, AcceptFailed(s) PROVE TypeOK'
    BY <1>2, CloseSocketType DEF TypeOK, AcceptFailed
  <1>3. ASSUME NEW s \in Sockets, OnAccept(s) PROVE TypeOK'
    BY <1>3, RecvType DEF TypeOK, OnAccept, RegistSocket, Inserted
  <1>4. ASSUME NEW s \in Sockets, OnAcceptNoPort(s) PROVE TypeOK'
    BY <1>4 DEF TypeOK, OnAcceptNoPort
  <1>5. ASSUME NEW s \in Sockets, OnCloseClient(s) PROVE TypeOK'
    <2>1. closePkts[s] - 1 \in Nat
      BY <1>5 DEF TypeOK, OnCloseClient
    <2>2. closePkts' \in [Sockets \cup Listeners -> Nat]
      BY <1>5, <2>1 DEF TypeOK, OnCloseClient
    <2>3. delayClose' \subseteq Sockets /\ handle' \in [Sockets -> BOOLEAN]
      <3>1. DelayedClose(s) \/ UNCHANGED <<delayClose, handle>>
        BY <1>5 DEF OnCloseClient
      <3> QED
        BY <3>1 DEF TypeOK, DelayedClose
    <2> QED
      BY <1>5, <2>2, <2>3 DEF TypeOK, OnCloseClient
  <1>6. ASSUME NEW l \in Listeners, OnCloseListener(l) PROVE TypeOK'
    BY <1>6 DEF TypeOK, OnCloseListener
  <1>7. CASE OnAcceptComplete
    BY <1>7 DEF TypeOK, OnAcceptComplete
  <1>8. CASE Relisten
    <2>1. closePkts' \in [Sockets \cup Listeners -> Nat]
      BY <1>8, CloseSocketType DEF TypeOK, Relisten
    <2> QED
      BY <1>8, <2>1 DEF TypeOK, Relisten
  <1>9. CASE ManagerExit
    BY <1>9 DEF TypeOK, ManagerExit
  <1> QED
    BY <1>1, <1>2, <1>3, <1>4, <1>5, <1>6, <1>7, <1>8, <1>9 DEF Manager

LEMMA TypeWorker ==
    ASSUME TypeOK, NEW w \in Workers, Worker(w)
    PROVE  TypeOK'
  <1> USE KeyAssumption
      DEF vars, mainVars, maps, ioVars, acceptVars, threadVars, mgrVars,
          workerVars, history, WorkerReady, Hold, LetGo
  <1>1. ASSUME NEW s \in Sockets, OnRecv(w, s) PROVE TypeOK'
    BY <1>1 DEF TypeOK, OnRecv
  <1>2. ASSUME NEW s \in Sockets, OnRecvEnd(w, s) PROVE TypeOK'
    BY <1>2, CloseSocketType DEF TypeOK, OnRecvEnd
  <1>3. ASSUME NEW s \in Sockets, OnConnect(w, s) PROVE TypeOK'
    BY <1>3, RecvType DEF TypeOK, OnConnect, RegistSocket, Inserted
  <1>4. ASSUME NEW s \in Sockets, ConnectFailed(w, s) PROVE TypeOK'
    BY <1>4, CloseSocketType DEF TypeOK, ConnectFailed
  <1>5. CASE RecvAgain(w)
    <2>1. workerSock[w] \in Sockets
      BY <1>5 DEF TypeOK, RecvAgain
    <2> QED
      BY <1>5, <2>1, RecvType DEF TypeOK, RecvAgain
  <1>6. CASE HandlerReturn(w)
    BY <1>6 DEF TypeOK, HandlerReturn
  <1>7. CASE WorkerExit(w)
    BY <1>7 DEF TypeOK, WorkerExit
  <1> QED
    BY <1>1, <1>2, <1>3, <1>4, <1>5, <1>6, <1>7 DEF Worker

LEMMA TypeKernel ==
    ASSUME TypeOK, Kernel
    PROVE  TypeOK'
  BY DEF TypeOK, Kernel, AcceptDone, AcceptAborted, ConnectDone,
         ConnectRefused, PeerGone, Arrive, RecvEnds, mainVars, maps, ioVars,
         acceptVars, threadVars, mgrVars, workerVars, history

LEMMA TypeStutter ==
    ASSUME TypeOK, UNCHANGED vars
    PROVE  TypeOK'
  BY DEF TypeOK, vars, mainVars, maps, ioVars, acceptVars, threadVars, mgrVars,
         workerVars, history

\* Every variable keeps to its range in every behaviour of the engine.
THEOREM TypeCorrect == Spec => []TypeOK
  <1>1. TypeOK /\ [Next]_vars => TypeOK'
    BY TypeMain, TypeManager, TypeWorker, TypeKernel, TypeStutter
    DEF Next, Terminated
  <1> QED
    BY <1>1, TypeInit, PTL DEF Spec

----------------------------------------------------------------------------
(* Counting *)

\* The sockets that map f files under l.
Under(f, l) == {s \in Sockets : f[s] = l}

\* There are finitely many of them.
LEMMA CountType ==
    ASSUME NEW f, NEW l
    PROVE  IsFiniteSet(Under(f, l)) /\ Cardinality(Under(f, l)) \in Nat
  <1>1. Under(f, l) \subseteq Sockets
    BY DEF Under
  <1>2. IsFiniteSet(Under(f, l))
    BY <1>1, FiniteAssumption, FS_Subset
  <1> QED
    BY <1>2, FS_CardinalityType

\* Filing one socket more under l adds one.
LEMMA CountAdd ==
    ASSUME NEW f, DOMAIN f = Sockets, NEW c \in Sockets, NEW l, f[c] # l
    PROVE  Cardinality(Under([f EXCEPT ![c] = l], l)) = Cardinality(Under(f, l)) + 1
  <1>1. Under([f EXCEPT ![c] = l], l) = Under(f, l) \cup {c}
    BY DEF Under
  <1>2. c \notin Under(f, l)
    BY DEF Under
  <1> QED
    BY <1>1, <1>2, CountType, FS_AddElement

\* Taking one out subtracts one.
LEMMA CountRemove ==
    ASSUME NEW f, DOMAIN f = Sockets, NEW c \in Sockets, NEW l, NEW v,
           f[c] = l, v # l
    PROVE  Cardinality(Under([f EXCEPT ![c] = v], l)) = Cardinality(Under(f, l)) - 1
  <1>1. Under([f EXCEPT ![c] = v], l) = Under(f, l) \ {c}
    BY DEF Under
  <1>2. c \in Under(f, l)
    BY DEF Under
  <1> QED
    BY <1>1, <1>2, CountType, FS_RemoveElement

\* A socket filed under something else before and after does not count.
LEMMA CountSame ==
    ASSUME NEW f, DOMAIN f = Sockets, NEW c \in Sockets, NEW l, NEW v,
           f[c] # l, v # l
    PROVE  Under([f EXCEPT ![c] = v], l) = Under(f, l)
  BY DEF Under

LEMMA CountsAreUnder ==
    \A l : Waiting(l) = Under(waiting, l) /\ Registered(l) = Under(registered, l)
  BY DEF Waiting, Registered, Under

\* The populations of a listener are natural numbers.
LEMMA CountsType ==
    \A l : /\ Cardinality(Waiting(l)) \in Nat
           /\ Cardinality(Registered(l)) \in Nat
  BY CountType, CountsAreUnder

----------------------------------------------------------------------------
(* The slot ledger *)

\* The inductive invariant.  SlotLedger alone is not inductive: OnAccept moves a
\* slot between the maps only if the client is in the one and not in the other,
\* which is what OperationsTracked says.
LedgerInv == TypeOK /\ OperationsTracked /\ SlotLedger

LEMMA LedgerInit == Init => LedgerInv
  <1> SUFFICES ASSUME Init PROVE LedgerInv
    OBVIOUS
  <1>1. OperationsTracked
    BY DEF Init, OperationsTracked
  <1>2. ASSUME NEW l \in Listeners
        PROVE  toArm[l] + Cardinality(Waiting(l)) + Cardinality(Registered(l))
                 + lost[l] = MaxClient[l]
    <2>1. Waiting(l) = {} /\ Registered(l) = {}
      BY KeyAssumption DEF Init, Waiting, Registered
    <2>2. toArm[l] = MaxClient[l] /\ lost[l] = 0 /\ MaxClient[l] \in Nat
      BY MaxClientAssumption DEF Init
    <2> QED
      BY <2>1, <2>2, FS_EmptySet
  <1> QED
    BY <1>1, <1>2, TypeInit DEF LedgerInv, SlotLedger

\* A step that leaves the maps and the counters alone, starts no operation and
\* does not undo Release keeps the ledger.
LEMMA LedgerFrame ==
    ASSUME LedgerInv,
           mainPc' # "released" => mainPc # "released",
           UNCHANGED <<waiting, registered, toArm, lost>>,
           \A s \in Sockets :
             /\ acceptSt'[s] # "none" =>
                  acceptSt[s] # "none" /\ acceptOn'[s] = acceptOn[s]
             /\ connectSt'[s] # "none" => connectSt[s] # "none"
    PROVE  OperationsTracked' /\ SlotLedger'
  BY DEF LedgerInv, TypeOK, OperationsTracked, SlotLedger, Waiting, Registered

\* Accept takes one slot, whether it succeeds or not.
LEMMA LedgerAccept ==
    ASSUME LedgerInv, mainPc # "released", NEW k \in Listeners, Accept(k)
    PROVE  \A l \in Listeners :
             Cardinality(Waiting(l))' + lost'[l]
               = Cardinality(Waiting(l)) + lost[l] + (IF l = k THEN 1 ELSE 0)
  <1> SUFFICES ASSUME NEW l \in Listeners
               PROVE  Cardinality(Waiting(l))' + lost'[l]
                        = Cardinality(Waiting(l)) + lost[l]
                            + (IF l = k THEN 1 ELSE 0)
    OBVIOUS
  <1>0. /\ DOMAIN waiting = Sockets
        /\ lost \in [Listeners -> Nat]
    BY DEF LedgerInv, TypeOK
  <1>1. Cardinality(Waiting(l)) \in Nat /\ lost[l] \in Nat
    BY <1>0, CountsType
  <1>2. ASSUME NEW c \in Sockets, Arm(c, k), UNCHANGED lost
        PROVE  Cardinality(Waiting(l))' = Cardinality(Waiting(l))
                                            + (IF l = k THEN 1 ELSE 0)
    <2>1. waiting[c] = None /\ None \notin Listeners
      BY <1>2, KeyAssumption DEF Arm, Fresh, Alive
    <2>2. waiting' = [waiting EXCEPT ![c] = k]
      BY <1>2 DEF Arm
    <2>3. Waiting(l) = Under(waiting, l) /\ Waiting(l)' = Under(waiting', l)
      BY DEF Waiting, Under
    <2>4. CASE l = k
      <3>1. Cardinality(Under(waiting', l)) = Cardinality(Under(waiting, l)) + 1
        BY <1>0, <2>1, <2>2, <2>4, CountAdd
      <3> QED
        BY <2>3, <2>4, <3>1
    <2>5. CASE l # k
      <3>1. Under(waiting', l) = Under(waiting, l)
        BY <1>0, <2>1, <2>2, <2>5, CountSame
      <3> QED
        BY <1>1, <2>3, <2>5, <3>1
    <2> QED
      BY <2>4, <2>5
  <1>3. CASE lost' = [lost EXCEPT ![k] = @ + 1] /\ UNCHANGED waiting
    BY <1>0, <1>1, <1>3 DEF Waiting
  <1> QED
    BY <1>1, <1>2, <1>3 DEF Accept

\* Accept starts an AcceptEx only on a socket that is nowhere yet, and files it.
LEMMA TrackedAccept ==
    ASSUME LedgerInv, mainPc # "released", NEW k \in Listeners, Accept(k),
           UNCHANGED connectSt,
           \A s \in Sockets : registered'[s] \in {registered[s], None}
    PROVE  OperationsTracked'
  <1> USE DEF LedgerInv, TypeOK, OperationsTracked
  <1>1. ASSUME NEW c \in Sockets, Arm(c, k)
        PROVE  OperationsTracked'
    <2>1. /\ waiting[c] = None /\ registered[c] = None
          /\ acceptSt[c] = "none" /\ connectSt[c] = "none"
      BY <1>1 DEF Arm, Fresh, Alive
    <2> QED
      BY <1>1, <2>1 DEF Arm
  <1>2. CASE UNCHANGED <<waiting, acceptVars>>
    BY <1>2 DEF acceptVars
  <1> QED
    BY <1>1, <1>2 DEF Accept, acceptVars

LEMMA LedgerStartAccept ==
    ASSUME LedgerInv, NEW k \in Listeners, StartAccept(k)
    PROVE  OperationsTracked' /\ SlotLedger'
  <1>1. mainPc = "starting" /\ mainPc' = "starting" /\ Accept(k)
    BY DEF StartAccept
  <1>2. OperationsTracked'
    BY <1>1, TrackedAccept DEF StartAccept
  <1>3. ASSUME NEW l \in Listeners
        PROVE  (toArm[l] + Cardinality(Waiting(l)) + Cardinality(Registered(l))
                 + lost[l] = MaxClient[l])'
    <2>1. /\ toArm[l] \in Nat /\ lost[l] \in Nat /\ lost'[l] \in Nat
          /\ toArm'[l] = toArm[l] - (IF l = k THEN 1 ELSE 0)
      BY <1>1, RearmType DEF StartAccept, LedgerInv, TypeOK, Rearm
    <2>2. /\ Cardinality(Waiting(l)) \in Nat
          /\ Cardinality(Waiting(l))' \in Nat
          /\ Cardinality(Registered(l)) \in Nat
      BY CountType DEF Waiting, Registered, Under
    <2>3. Registered(l)' = Registered(l)
      BY DEF StartAccept, Registered
    <2>4. Cardinality(Waiting(l))' + lost'[l]
            = Cardinality(Waiting(l)) + lost[l] + (IF l = k THEN 1 ELSE 0)
      BY <1>1, LedgerAccept
    <2>5. toArm[l] + Cardinality(Waiting(l)) + Cardinality(Registered(l))
            + lost[l] = MaxClient[l]
      BY <1>1 DEF LedgerInv, SlotLedger
    <2> QED
      BY <2>1, <2>2, <2>3, <2>4, <2>5
  <1> QED
    BY <1>2, <1>3 DEF SlotLedger

\* UnregistSocket arms one accept and erases one registration, of the same
\* listener.
LEMMA LedgerExpire ==
    ASSUME LedgerInv, NEW s \in Sockets, Expire(s), mainPc # "released"
    PROVE  OperationsTracked' /\ SlotLedger'
  <1>1. Rearm(registered[s]) /\ registered' = [registered EXCEPT ![s] = None]
    BY DEF Expire
  <1>2. UNCHANGED <<mainPc, toArm, connectSt>>
    BY DEF Expire
  <1>3. DOMAIN registered = Sockets /\ None \notin Listeners
    BY KeyAssumption DEF LedgerInv, TypeOK
  <1>4. ASSUME NEW l \in Listeners, l # registered[s]
        PROVE  Registered(l)' = Registered(l)
    <2>1. Under(registered', l) = Under(registered, l)
      BY <1>1, <1>3, <1>4, CountSame
    <2> QED
      BY <2>1 DEF Registered, Under
  <1>5. ASSUME NEW l \in Listeners, l = registered[s]
        PROVE  Cardinality(Registered(l)') = Cardinality(Registered(l)) - 1
    <2>1. Cardinality(Under(registered', l)) = Cardinality(Under(registered, l)) - 1
      BY <1>1, <1>3, <1>5, CountRemove
    <2> QED
      BY <2>1 DEF Registered, Under
  <1>6. CASE registered[s] \in Listeners
    <2>1. PICK k \in Listeners : k = registered[s]
      BY <1>6
    <2>2. Accept(k)
      BY <1>1, <2>1 DEF Rearm
    <2>3. OperationsTracked'
      BY <1>1, <1>2, <2>2, TrackedAccept DEF LedgerInv, TypeOK
    <2>4. ASSUME NEW l \in Listeners
          PROVE  (toArm[l] + Cardinality(Waiting(l))
                   + Cardinality(Registered(l)) + lost[l] = MaxClient[l])'
      <3>1. toArm[l] \in Nat /\ lost[l] \in Nat /\ lost'[l] \in Nat
        BY <1>1, RearmType DEF LedgerInv, TypeOK
      <3>2. /\ Cardinality(Waiting(l)) \in Nat
            /\ Cardinality(Waiting(l))' \in Nat
            /\ Cardinality(Registered(l)) \in Nat
        BY CountType DEF Waiting, Registered, Under
      <3>3. Cardinality(Waiting(l))' + lost'[l]
              = Cardinality(Waiting(l)) + lost[l] + (IF l = k THEN 1 ELSE 0)
        BY <2>2, LedgerAccept
      <3>4. toArm[l] + Cardinality(Waiting(l)) + Cardinality(Registered(l))
              + lost[l] = MaxClient[l]
        BY DEF LedgerInv, SlotLedger
      <3>5. Cardinality(Registered(l)')
              = Cardinality(Registered(l)) - (IF l = k THEN 1 ELSE 0)
        BY <1>4, <1>5, <2>1, <3>2
      <3> QED
        BY <1>2, <3>1, <3>2, <3>3, <3>4, <3>5
    <2> QED
      BY <2>3, <2>4 DEF SlotLedger
  <1>7. CASE registered[s] \notin Listeners
    <2>1. UNCHANGED <<waiting, acceptVars, lost>>
      BY <1>1, <1>7 DEF Rearm
    <2>2. \A l \in Listeners : Registered(l)' = Registered(l)
      BY <1>4, <1>7
    <2>3. SlotLedger'
      BY <1>2, <2>1, <2>2 DEF LedgerInv, SlotLedger, Waiting
    <2>4. OperationsTracked'
      BY <1>1, <1>2, <2>1 DEF LedgerInv, TypeOK, OperationsTracked, acceptVars
    <2> QED
      BY <2>3, <2>4
  <1> QED
    BY <1>6, <1>7

\* OnAccept moves one slot from _wait_sockets to _sockets, under one listener.
LEMMA LedgerOnAccept ==
    ASSUME LedgerInv, NEW c \in Sockets, OnAccept(c), mainPc # "released"
    PROVE  OperationsTracked' /\ SlotLedger'
  <1>1. /\ waiting' = [waiting EXCEPT ![c] = None]
        /\ registered' = [registered EXCEPT ![c] = acceptOn[c]]
        /\ acceptSt' = [acceptSt EXCEPT ![c] = "none"]
        /\ acceptOn' = [acceptOn EXCEPT ![c] = None]
        /\ UNCHANGED <<mainPc, toArm, lost, connectSt>>
    BY DEF OnAccept, RegistSocket
  <1>2. /\ acceptOn[c] \in Listeners /\ waiting[c] = acceptOn[c]
        /\ registered[c] = None /\ connectSt[c] = "none"
    BY DEF OnAccept, LedgerInv, OperationsTracked
  <1>3. /\ DOMAIN waiting = Sockets /\ DOMAIN registered = Sockets
        /\ None \notin Listeners
    BY KeyAssumption DEF LedgerInv, TypeOK
  <1>4. OperationsTracked'
    BY <1>1, <1>2 DEF LedgerInv, TypeOK, OperationsTracked
  <1>5. ASSUME NEW l \in Listeners
        PROVE  (toArm[l] + Cardinality(Waiting(l)) + Cardinality(Registered(l))
                 + lost[l] = MaxClient[l])'
    <2>1. toArm[l] \in Nat /\ lost[l] \in Nat
      BY DEF LedgerInv, TypeOK
    <2>2. Cardinality(Waiting(l)) \in Nat /\ Cardinality(Registered(l)) \in Nat
      BY CountsType
    <2>3. toArm[l] + Cardinality(Waiting(l)) + Cardinality(Registered(l))
            + lost[l] = MaxClient[l]
      BY DEF LedgerInv, SlotLedger
    <2>4. /\ Waiting(l) = Under(waiting, l) /\ Waiting(l)' = Under(waiting', l)
          /\ Registered(l) = Under(registered, l)
          /\ Registered(l)' = Under(registered', l)
      BY DEF Waiting, Registered, Under
    <2>5. CASE l = acceptOn[c]
      <3>1. Cardinality(Under(waiting', l)) = Cardinality(Under(waiting, l)) - 1
        BY <1>1, <1>2, <1>3, <2>5, CountRemove
      <3>2. Cardinality(Under(registered', l))
              = Cardinality(Under(registered, l)) + 1
        BY <1>1, <1>2, <1>3, <2>5, CountAdd
      <3> QED
        BY <1>1, <2>1, <2>2, <2>3, <2>4, <3>1, <3>2
    <2>6. CASE l # acceptOn[c]
      <3>1. Under(waiting', l) = Under(waiting, l)
        BY <1>1, <1>2, <1>3, <2>6, CountSame
      <3>2. Under(registered', l) = Under(registered, l)
        BY <1>1, <1>2, <1>3, <2>6, CountSame
      <3> QED
        BY <1>1, <2>1, <2>2, <2>3, <2>4, <3>1, <3>2
    <2> QED
      BY <2>5, <2>6
  <1> QED
    BY <1>4, <1>5 DEF SlotLedger

\* OnConnect registers a socket no listener has a slot for.
LEMMA LedgerOnConnect ==
    ASSUME LedgerInv, NEW w \in Workers, NEW s \in Sockets, OnConnect(w, s),
           mainPc # "released"
    PROVE  OperationsTracked' /\ SlotLedger'
  <1>1. /\ waiting' = [waiting EXCEPT ![s] = None]
        /\ registered' = [registered EXCEPT ![s] = ConnectKey]
        /\ connectSt' = [connectSt EXCEPT ![s] = "none"]
        /\ UNCHANGED <<mainPc, toArm, lost, acceptSt, acceptOn>>
    BY DEF OnConnect, RegistSocket, acceptVars
  <1>2. waiting[s] = None /\ registered[s] = None /\ acceptSt[s] = "none"
    BY DEF OnConnect, LedgerInv, OperationsTracked
  <1>3. /\ DOMAIN waiting = Sockets /\ DOMAIN registered = Sockets
        /\ None \notin Listeners /\ ConnectKey \notin Listeners
    BY KeyAssumption DEF LedgerInv, TypeOK
  <1>4. OperationsTracked'
    BY <1>1, <1>2 DEF LedgerInv, TypeOK, OperationsTracked
  <1>5. ASSUME NEW l \in Listeners
        PROVE  Waiting(l)' = Waiting(l) /\ Registered(l)' = Registered(l)
    <2>1. Under(waiting', l) = Under(waiting, l)
      BY <1>1, <1>2, <1>3, CountSame
    <2>2. Under(registered', l) = Under(registered, l)
      BY <1>1, <1>2, <1>3, CountSame
    <2> QED
      BY <2>1, <2>2 DEF Waiting, Registered, Under
  <1>6. SlotLedger'
    BY <1>1, <1>5 DEF LedgerInv, SlotLedger
  <1> QED
    BY <1>4, <1>6

\* Connect starts a ConnectEx only on a socket that is nowhere yet.
LEMMA LedgerConnect ==
    ASSUME LedgerInv, NEW s \in Sockets, Connect(s)
    PROVE  OperationsTracked' /\ SlotLedger'
  <1>1. /\ waiting[s] = None /\ registered[s] = None /\ acceptSt[s] = "none"
        /\ UNCHANGED <<mainPc, waiting, registered, toArm, lost, acceptSt, acceptOn>>
        /\ connectSt' = [connectSt EXCEPT ![s] = "pending"]
    BY DEF Connect, Fresh, Alive, maps, acceptVars
  <1>2. OperationsTracked'
    BY <1>1 DEF LedgerInv, TypeOK, OperationsTracked
  <1>3. SlotLedger'
    BY <1>1 DEF LedgerInv, SlotLedger, Waiting, Registered
  <1> QED
    BY <1>2, <1>3

LEMMA LedgerMain ==
    ASSUME LedgerInv, MainStep \/ ReleaseBegin
    PROVE  OperationsTracked' /\ SlotLedger'
  <1> USE DEF mainVars, maps, ioVars, acceptVars, history
  <1>1. ASSUME NEW l \in Listeners, StartAccept(l)
        PROVE  OperationsTracked' /\ SlotLedger'
    BY <1>1, LedgerStartAccept
  <1>2. ASSUME NEW x \in Sockets \cup Listeners, ReleaseVisit(x)
        PROVE  OperationsTracked' /\ SlotLedger'
    BY <1>2, LedgerFrame DEF ReleaseVisit
  <1>3. ASSUME NEW w \in Workers, ReleaseStopWorker(w)
        PROVE  OperationsTracked' /\ SlotLedger'
    BY <1>3, LedgerFrame DEF ReleaseStopWorker
  <1>4. CASE \/ StartThreads \/ ReleaseBegin \/ ReleaseWalkBegin
             \/ ReleaseSleep \/ ReleaseStopManager
    BY <1>4, LedgerFrame
    DEF StartThreads, ReleaseBegin, ReleaseWalkBegin, ReleaseSleep,
        ReleaseStopManager
  <1>5. CASE ReleaseClear
    BY <1>5 DEF ReleaseClear, OperationsTracked, SlotLedger
  <1> QED
    BY <1>1, <1>2, <1>3, <1>4, <1>5 DEF MainStep

LEMMA LedgerManager ==
    ASSUME LedgerInv, Manager, mainPc # "released"
    PROVE  OperationsTracked' /\ SlotLedger'
  <1> USE DEF mainVars, maps, ioVars, acceptVars, history
  <1>1. ASSUME NEW s \in Sockets, Expire(s)
        PROVE  OperationsTracked' /\ SlotLedger'
    BY <1>1, LedgerExpire
  <1>2. ASSUME NEW c \in Sockets, AcceptFailed(c)
        PROVE  OperationsTracked' /\ SlotLedger'
    BY <1>2, LedgerFrame DEF AcceptFailed, LedgerInv, TypeOK
  <1>3. ASSUME NEW c \in Sockets, OnAccept(c)
        PROVE  OperationsTracked' /\ SlotLedger'
    BY <1>3, LedgerOnAccept
  <1>4. ASSUME NEW c \in Sockets, OnAcceptNoPort(c)
        PROVE  OperationsTracked' /\ SlotLedger'
    BY <1>4, LedgerFrame DEF OnAcceptNoPort, LedgerInv, TypeOK
  <1>5. ASSUME NEW s \in Sockets, OnCloseClient(s)
        PROVE  OperationsTracked' /\ SlotLedger'
    BY <1>5, LedgerFrame DEF OnCloseClient
  <1>6. ASSUME NEW l \in Listeners, OnCloseListener(l)
        PROVE  OperationsTracked' /\ SlotLedger'
    BY <1>6, LedgerFrame DEF OnCloseListener
  <1>7. CASE OnAcceptComplete \/ Relisten \/ ManagerExit
    BY <1>7, LedgerFrame DEF OnAcceptComplete, Relisten, ManagerExit
  <1> QED
    BY <1>1, <1>2, <1>3, <1>4, <1>5, <1>6, <1>7 DEF Manager

LEMMA LedgerWorker ==
    ASSUME LedgerInv, NEW w \in Workers, Worker(w), mainPc # "released"
    PROVE  OperationsTracked' /\ SlotLedger'
  <1> USE DEF mainVars, maps, ioVars, acceptVars, history
  <1>1. ASSUME NEW s \in Sockets, OnRecv(w, s) \/ OnRecvEnd(w, s)
        PROVE  OperationsTracked' /\ SlotLedger'
    BY <1>1, LedgerFrame DEF OnRecv, OnRecvEnd
  <1>2. ASSUME NEW s \in Sockets, OnConnect(w, s)
        PROVE  OperationsTracked' /\ SlotLedger'
    BY <1>2, LedgerOnConnect
  <1>3. ASSUME NEW s \in Sockets, ConnectFailed(w, s)
        PROVE  OperationsTracked' /\ SlotLedger'
    BY <1>3, LedgerFrame DEF ConnectFailed, LedgerInv, TypeOK
  <1>4. CASE RecvAgain(w) \/ HandlerReturn(w) \/ WorkerExit(w)
    BY <1>4, LedgerFrame DEF RecvAgain, HandlerReturn, WorkerExit
  <1> QED
    BY <1>1, <1>2, <1>3, <1>4 DEF Worker

LEMMA LedgerKernel ==
    ASSUME LedgerInv, Kernel
    PROVE  OperationsTracked' /\ SlotLedger'
  <1> USE DEF mainVars, maps, ioVars, acceptVars, history
  <1>1. ASSUME NEW c \in Sockets, AcceptDone(c) \/ AcceptAborted(c)
        PROVE  OperationsTracked' /\ SlotLedger'
    BY <1>1, LedgerFrame DEF AcceptDone, AcceptAborted, LedgerInv, TypeOK
  <1>2. ASSUME NEW s \in Sockets, ConnectDone(s) \/ ConnectRefused(s)
        PROVE  OperationsTracked' /\ SlotLedger'
    BY <1>2, LedgerFrame DEF ConnectDone, ConnectRefused, LedgerInv, TypeOK
  <1>3. ASSUME NEW s \in Sockets, PeerGone(s) \/ Arrive(s) \/ RecvEnds(s)
        PROVE  OperationsTracked' /\ SlotLedger'
    BY <1>3, LedgerFrame DEF PeerGone, Arrive, RecvEnds
  <1> QED
    BY <1>1, <1>2, <1>3 DEF Kernel

\* After Release the maps are gone: nothing is left to keep.
LEMMA LedgerReleased ==
    ASSUME mainPc' = "released"
    PROVE  OperationsTracked' /\ SlotLedger'
  BY DEF OperationsTracked, SlotLedger

\* Only ReleaseClear reaches "released", and nothing leaves it.
LEMMA ReleasedStays ==
    ASSUME Next, mainPc = "released"
    PROVE  mainPc' = "released"
  <1> USE DEF mainVars, vars
  <1>1. CASE MainStep
    BY <1>1 DEF MainStep, StartAccept, ReleaseVisit, ReleaseStopWorker,
      StartThreads, ReleaseWalkBegin, ReleaseSleep, ReleaseStopManager,
      ReleaseClear
  <1>2. CASE ReleaseBegin \/ (\E s \in Sockets : Connect(s)) \/ Terminated
    BY <1>2 DEF ReleaseBegin, Connect, Terminated
  <1>3. CASE Manager
    BY <1>3 DEF Manager, Expire, AcceptFailed, OnAccept, OnAcceptNoPort,
      OnCloseClient, OnCloseListener, OnAcceptComplete, Relisten, ManagerExit
  <1>4. CASE \E w \in Workers : Worker(w)
    BY <1>4 DEF Worker, OnRecv, OnRecvEnd, OnConnect, ConnectFailed, RecvAgain,
      HandlerReturn, WorkerExit
  <1>5. CASE Kernel
    BY <1>5 DEF Kernel, AcceptDone, AcceptAborted, ConnectDone, ConnectRefused,
      PeerGone, Arrive, RecvEnds
  <1> QED
    BY <1>1, <1>2, <1>3, <1>4, <1>5 DEF Next

LEMMA LedgerNext == LedgerInv /\ [Next]_vars => LedgerInv'
  <1> SUFFICES ASSUME LedgerInv, [Next]_vars PROVE LedgerInv'
    OBVIOUS
  <1>1. TypeOK'
    BY TypeMain, TypeManager, TypeWorker, TypeKernel, TypeStutter
    DEF LedgerInv, Next, Terminated
  <1>2. OperationsTracked' /\ SlotLedger'
    <2>1. CASE UNCHANGED vars
      BY <2>1, LedgerFrame
      DEF vars, mainVars, maps, ioVars, acceptVars, history
    <2>2. CASE Next /\ mainPc = "released"
      BY <2>2, ReleasedStays, LedgerReleased
    <2>3. CASE Next /\ mainPc # "released"
      BY <2>1, <2>3, LedgerMain, LedgerConnect, LedgerManager, LedgerWorker,
         LedgerKernel DEF Next, Terminated
    <2> QED
      BY <2>1, <2>2, <2>3
  <1> QED
    BY <1>1, <1>2 DEF LedgerInv

\* A pending operation and the maps always agree.
THEOREM OperationsTrackedCorrect == Spec => []OperationsTracked
  <1>1. LedgerInv => OperationsTracked
    BY DEF LedgerInv
  <1> QED
    BY <1>1, LedgerInit, LedgerNext, PTL DEF Spec

\* No slot is lost or counted twice, for any number of sockets, listeners,
\* slots and workers.
THEOREM SlotLedgerCorrect == Spec => []SlotLedger
  <1>1. LedgerInv => SlotLedger
    BY DEF LedgerInv
  <1> QED
    BY <1>1, LedgerInit, LedgerNext, PTL DEF Spec

\* NetworkConfig::_max_client is a limit: a listener's connections, those that
\* are closing included, and its pending accepts never outnumber it.
MaxClientRespected ==
    mainPc # "released" =>
      \A l \in Listeners :
        Cardinality(Waiting(l)) + Cardinality(Registered(l)) <= MaxClient[l]

THEOREM MaxClientCorrect == Spec => []MaxClientRespected
  <1>1. LedgerInv => MaxClientRespected
    <2> SUFFICES ASSUME LedgerInv, mainPc # "released", NEW l \in Listeners
                 PROVE  Cardinality(Waiting(l)) + Cardinality(Registered(l))
                          <= MaxClient[l]
      BY DEF MaxClientRespected
    <2>1. toArm[l] \in Nat /\ lost[l] \in Nat
      BY DEF LedgerInv, TypeOK
    <2>2. Cardinality(Waiting(l)) \in Nat /\ Cardinality(Registered(l)) \in Nat
      BY CountsType
    <2>3. toArm[l] + Cardinality(Waiting(l)) + Cardinality(Registered(l))
            + lost[l] = MaxClient[l]
      BY DEF LedgerInv, SlotLedger
    <2> QED
      BY <2>1, <2>2, <2>3
  <1> QED
    BY <1>1, LedgerInit, LedgerNext, PTL DEF Spec

=============================================================================
