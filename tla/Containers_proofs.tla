--------------------------- MODULE Containers_proofs ---------------------------
(***************************************************************************)
(* BACore's ring, its pool of cells and its scheduler.  For every size of  *)
(* either the ring is a list for any number of pushes, and the pool never  *)
(* gives one cell to two objects and loses none, in whatever order it is   *)
(* used.  The scheduler's multimap stays sorted by time and registration   *)
(* whatever the callbacks register, so Loop meets the jobs in that order.  *)
(***************************************************************************)
EXTENDS BAObjectCircularQueue, BAMemoryPool, BAScheduler, FiniteSetTheorems,
        SequenceTheorems, TLAPS

(* The ring *)

\* An index that has gone round the ring at most once.
LEMMA Wrapped ==
    ASSUME NEW n \in Nat \ {0}, NEW x \in 0 .. 2 * n - 1
    PROVE  x % n = IF x < n THEN x ELSE x - n
  OBVIOUS

At(i) == (ringHead + i - 1) % (QueueSize + 1)

Items == [i \in 1 .. Held |-> slots[At(i)]]

RingInv ==
    /\ ringHead \in 0 .. QueueSize
    /\ ringTail \in 0 .. QueueSize
    /\ slots \in [0 .. QueueSize -> Nat]
    /\ ringPushed \in 0 .. MaxRingPushes

\* The indices without division.
LEMMA Around ==
    ASSUME NEW h \in 0 .. QueueSize, NEW t \in 0 .. QueueSize
    PROVE  /\ (h + 1) % (QueueSize + 1) = IF h = QueueSize THEN 0 ELSE h + 1
           /\ (t + QueueSize + 1 - h) % (QueueSize + 1)
                = IF t >= h THEN t - h ELSE t + QueueSize + 1 - h
           /\ \A i \in 1 .. QueueSize + 1 :
                (h + i - 1) % (QueueSize + 1)
                  = IF h + i - 1 <= QueueSize THEN h + i - 1
                    ELSE h + i - 1 - (QueueSize + 1)
  <1> USE RingAssumption
  <1> DEFINE n == QueueSize + 1
  <1>1. /\ n \in Nat \ {0}
        /\ h + 1 \in 0 .. 2 * n - 1
        /\ t + QueueSize + 1 - h \in 0 .. 2 * n - 1
        /\ \A i \in 1 .. n : h + i - 1 \in 0 .. 2 * n - 1
    OBVIOUS
  <1>2. \A x \in 0 .. 2 * n - 1 : x % n = IF x < n THEN x ELSE x - n
    BY <1>1, Wrapped
  <1> HIDE DEF n
  <1>3. n = QueueSize + 1
    BY DEF n
  <1>4. (h + 1) % n = IF h = QueueSize THEN 0 ELSE h + 1
    BY <1>1, <1>2, <1>3
  <1>5. (t + QueueSize + 1 - h) % n
          = IF t >= h THEN t - h ELSE t + QueueSize + 1 - h
    <2>1. PICK x \in 0 .. 2 * n - 1 : x = t + QueueSize + 1 - h
      BY <1>1
    <2>2. x % n = IF x < n THEN x ELSE x - n
      BY <1>2
    <2>3. (x < n <=> t < h) /\ x - n = t - h
      BY <1>3, <2>1
    <2> QED
      BY <2>1, <2>2, <2>3
  <1>6. ASSUME NEW i \in 1 .. n
        PROVE  (h + i - 1) % n = IF h + i - 1 <= QueueSize THEN h + i - 1
                                 ELSE h + i - 1 - n
    <2> DEFINE x == h + i - 1
    <2>1. x \in 0 .. 2 * n - 1
      BY <1>1
    <2>2. x < n <=> x <= QueueSize
      BY <1>1, <1>3
    <2> HIDE DEF x
    <2>3. x % n = IF x <= QueueSize THEN x ELSE x - n
      BY <1>2, <2>1, <2>2
    <2> QED
      BY <1>1, <2>3 DEF x
  <1> QED
    BY <1>3, <1>4, <1>5, <1>6

\* After, Held and At for the ring as it is and as it is after a step.
LEMMA Places ==
    ASSUME RingInv, RingInv'
    PROVE  /\ \A i \in 0 .. QueueSize :
                After(i) = IF i = QueueSize THEN 0 ELSE i + 1
           /\ Held = IF ringTail >= ringHead THEN ringTail - ringHead
                     ELSE ringTail + QueueSize + 1 - ringHead
           /\ Held' = IF ringTail' >= ringHead' THEN ringTail' - ringHead'
                      ELSE ringTail' + QueueSize + 1 - ringHead'
           /\ \A i \in 1 .. QueueSize + 1 :
                /\ At(i) = IF ringHead + i - 1 <= QueueSize THEN ringHead + i - 1
                           ELSE ringHead + i - 1 - (QueueSize + 1)
                /\ At(i)' = IF ringHead' + i - 1 <= QueueSize
                            THEN ringHead' + i - 1
                            ELSE ringHead' + i - 1 - (QueueSize + 1)
  BY Around DEF RingInv, After, Held, At

LEMMA RingInvNext ==
    ASSUME RingInv, [RingNext]_ringVars
    PROVE  RingInv'
  <1> USE RingAssumption
  <1>1. CASE RingPush
    BY <1>1, Around DEF RingPush, RingInv, After
  <1>2. CASE RingPop
    BY <1>2, Around DEF RingPop, RingInv, After
  <1>3. CASE UNCHANGED ringVars
    BY <1>3 DEF ringVars, RingInv
  <1> QED
    BY <1>1, <1>2, <1>3 DEF RingNext

\* A push appends to the items: the slot it writes is behind them.
LEMMA PushAppends ==
    ASSUME RingInv, RingPush
    PROVE  Items' = Append(Items, ringPushed')
  <1> USE RingAssumption
  <1>1. RingInv'
    BY RingInvNext DEF RingNext
  <1>2. /\ Held \in 0 .. QueueSize - 1 /\ Held' = Held + 1
        /\ At(Held + 1) = ringTail
        /\ \A i \in 1 .. Held : At(i) # ringTail /\ At(i) \in 0 .. QueueSize
    <2>1. /\ After(ringTail) = IF ringTail = QueueSize THEN 0 ELSE ringTail + 1
          /\ After(ringTail) # ringHead
          /\ ringTail' = After(ringTail) /\ ringHead' = ringHead
      BY <1>1, Places DEF RingPush, IsFull, RingInv
    <2>2. Held \in 0 .. QueueSize - 1 /\ Held' = Held + 1
      <3>1. /\ Held = IF ringTail >= ringHead THEN ringTail - ringHead
                      ELSE ringTail + QueueSize + 1 - ringHead
            /\ Held' = IF ringTail' >= ringHead' THEN ringTail' - ringHead'
                       ELSE ringTail' + QueueSize + 1 - ringHead'
        BY <1>1, Places
      <3>2. ringHead \in 0 .. QueueSize /\ ringTail \in 0 .. QueueSize
        BY DEF RingInv
      <3> HIDE DEF RingInv
      <3>3. CASE ringTail = QueueSize
        BY <2>1, <3>1, <3>2, <3>3
      <3>4. CASE ringTail # QueueSize
        BY <2>1, <3>1, <3>2, <3>4
      <3> QED
        BY <3>3, <3>4
    <2>3. Held = IF ringTail >= ringHead THEN ringTail - ringHead
                 ELSE ringTail + QueueSize + 1 - ringHead
      BY <1>1, Places
    <2>4. \A i \in 1 .. QueueSize + 1 :
            At(i) = IF ringHead + i - 1 <= QueueSize THEN ringHead + i - 1
                    ELSE ringHead + i - 1 - (QueueSize + 1)
      BY <1>1, Places
    <2>5. At(Held + 1) = ringTail
      BY <2>2, <2>3, <2>4 DEF RingInv
    <2>6. \A i \in 1 .. Held : At(i) # ringTail /\ At(i) \in 0 .. QueueSize
      BY <2>2, <2>3, <2>4 DEF RingInv
    <2> QED
      BY <2>2, <2>5, <2>6
  <1>3. \A i \in 1 .. QueueSize + 1 : At(i)' = At(i)
    BY <1>1, Places DEF RingPush
  <1>4. /\ \A i \in 1 .. Held : slots'[At(i)] = slots[At(i)]
        /\ slots'[At(Held + 1)] = ringPushed'
    BY <1>2 DEF RingPush, RingInv
  <1> QED
    BY <1>2, <1>3, <1>4 DEF Items

\* A pop takes the first item off.
LEMMA PopTakes ==
    ASSUME RingInv, RingPop
    PROVE  /\ Items # << >>
           /\ ringPopped' = Append(ringPopped, Head(Items))
           /\ Items' = Tail(Items)
  <1> USE RingAssumption
  <1>1. RingInv'
    BY RingInvNext DEF RingNext
  <1>2. /\ Held \in 1 .. QueueSize /\ Held' = Held - 1
        /\ At(1) = ringHead
        /\ \A i \in 1 .. Held - 1 : At(i)' = At(i + 1)
    <2>1. /\ ringHead' = IF ringHead = QueueSize THEN 0 ELSE ringHead + 1
          /\ ringTail' = ringTail /\ ringTail # ringHead
      BY <1>1, Places DEF RingPop, IsEmpty, RingInv
    <2>2. /\ Held = IF ringTail >= ringHead THEN ringTail - ringHead
                    ELSE ringTail + QueueSize + 1 - ringHead
          /\ Held' = IF ringTail' >= ringHead' THEN ringTail' - ringHead'
                     ELSE ringTail' + QueueSize + 1 - ringHead'
      BY <1>1, Places
    <2>3. Held \in 1 .. QueueSize /\ Held' = Held - 1
      BY <2>1, <2>2 DEF RingInv
    <2>4. \A i \in 1 .. QueueSize + 1 :
            /\ At(i) = IF ringHead + i - 1 <= QueueSize THEN ringHead + i - 1
                       ELSE ringHead + i - 1 - (QueueSize + 1)
            /\ At(i)' = IF ringHead' + i - 1 <= QueueSize
                        THEN ringHead' + i - 1
                        ELSE ringHead' + i - 1 - (QueueSize + 1)
      BY <1>1, Places
    <2>5. At(1) = ringHead
      BY <2>4 DEF RingInv
    <2>6. ASSUME NEW i \in 1 .. Held - 1
          PROVE  At(i)' = At(i + 1)
      BY <2>1, <2>3, <2>4 DEF RingInv
    <2> QED
      BY <2>3, <2>5, <2>6
  <1>3. slots' = slots
    BY DEF RingPop
  <1>4. Items' = Tail(Items) /\ Items # << >> /\ Head(Items) = slots[ringHead]
    BY <1>2, <1>3 DEF Items
  <1> QED
    BY <1>4 DEF RingPop

\* For every QUEUE_SIZE: what is pushed comes out once and in order however
\* often the indices wrap, and a full ring holds QUEUE_SIZE items.
THEOREM RingIsListCorrect == RingSpec => RingIsList
  <1> USE RingAssumption
  <1>1. RingInit => RingInv /\ Ring!ListInit
    <2> SUFFICES ASSUME RingInit PROVE RingInv /\ Ring!ListInit
      OBVIOUS
    <2>1. RingInv
      BY DEF RingInit, RingInv
    <2>2. Held = 0
      BY Around DEF RingInit, Held
    <2> QED
      BY <2>1, <2>2 DEF RingInit, Ring!ListInit
  <1>2. RingInv /\ [RingNext]_ringVars => RingInv'
    BY RingInvNext
  <1>3. RingInv /\ [RingNext]_ringVars
          => [Ring!Take \/ \E v \in 1 .. MaxRingPushes : Ring!Put(v)]_(Ring!listVars)
    <2> SUFFICES ASSUME RingInv, [RingNext]_ringVars
                 PROVE  [Ring!Take \/ \E v \in 1 .. MaxRingPushes : Ring!Put(v)]_(Ring!listVars)
      OBVIOUS
    <2>1. CASE RingPush
      <3>1. ringPushed' \in 1 .. MaxRingPushes /\ ringPopped' = ringPopped
        BY <2>1 DEF RingPush, RingInv
      <3>2. PICK v \in 1 .. MaxRingPushes : v = ringPushed'
        BY <3>1
      <3>3. Items' = Append(Items, v)
        BY <2>1, <3>2, PushAppends
      <3>4. Ring!Put(v)
        BY <3>1, <3>3 DEF Ring!Put, Items, At
      <3> QED
        BY <3>4
    <2>2. CASE RingPop
      BY <2>2, PopTakes DEF Ring!Take, Items, At
    <2>3. CASE UNCHANGED ringVars
      BY <2>3 DEF ringVars, Ring!listVars, Held
    <2> QED
      BY <2>1, <2>2, <2>3 DEF RingNext
  <1>4. RingInv => (IsFull => Held = QueueSize)
    <2> SUFFICES ASSUME RingInv, IsFull PROVE Held = QueueSize
      OBVIOUS
    <2>1. ringHead = IF ringTail = QueueSize THEN 0 ELSE ringTail + 1
      BY Around DEF RingInv, IsFull, After
    <2>2. Held = IF ringTail >= ringHead THEN ringTail - ringHead
                 ELSE ringTail + QueueSize + 1 - ringHead
      BY Around DEF RingInv, Held
    <2> QED
      BY <2>1, <2>2 DEF RingInv
  <1> QED
    BY <1>1, <1>2, <1>3, <1>4, PTL DEF RingSpec, RingIsList, Ring!ListSpec

----------------------------------------------------------------------------
(* The pool *)

\* Cells of the heap up to and without block b.
Behind(b) == b * PoolSize

LEMMA Blocks ==
    ASSUME NEW b \in Nat, b < MaxAllocs
    PROVE  /\ Behind(b) \in Nat /\ Behind(b + 1) = Behind(b) + PoolSize
           /\ PoolSize * MaxAllocs \in Nat
           /\ Behind(b + 1) <= PoolSize * MaxAllocs
           /\ Block(b) = Behind(b) + 1 .. Behind(b) + PoolSize
  <1> USE PoolAssumption
  <1>1. Behind(b) \in Nat /\ PoolSize * MaxAllocs \in Nat
    BY DEF Behind
  <1>2. Behind(b + 1) = Behind(b) + PoolSize
    BY DEF Behind
  <1>3. PICK k \in Nat : MaxAllocs = b + 1 + k
    <2>1. MaxAllocs - b - 1 \in Nat
      OBVIOUS
    <2> QED
      BY <2>1
  <1>4. PoolSize * MaxAllocs = Behind(b + 1) + k * PoolSize
    BY <1>3 DEF Behind
  <1>5. k * PoolSize \in Nat /\ Behind(b + 1) \in Nat
    BY DEF Behind
  <1> QED
    BY <1>1, <1>2, <1>4, <1>5 DEF Block, Behind

LEMMA BlocksSoFar ==
    ASSUME NEW b \in Nat, b <= MaxAllocs
    PROVE  Behind(b) \in Nat /\ Behind(b) <= PoolSize * MaxAllocs
  <1> USE PoolAssumption
  <1>1. CASE b = MaxAllocs
    BY <1>1 DEF Behind
  <1>2. CASE b < MaxAllocs
    BY <1>2, Blocks
  <1> QED
    BY <1>1, <1>2

\* c is a way through the cells of S that begins at p and follows w.
IsChain(c, S, p, w) ==
    /\ c \in [1 .. Cardinality(S) -> S]
    /\ \A i, j \in 1 .. Cardinality(S) : c[i] = c[j] => i = j
    /\ p = IF S = {} THEN 0 ELSE c[1]
    /\ \A i \in 1 .. Cardinality(S) :
         w[c[i]] = IF i + 1 \in 1 .. Cardinality(S) THEN c[i + 1] ELSE 0

PoolType ==
    /\ fixSize \in BOOLEAN /\ fix \in BOOLEAN
    /\ blocks \in 0 .. MaxAllocs
    /\ freePtr \in Nat
    /\ word \in [Cells -> Nat]
    /\ inUse \subseteq 1 .. Behind(blocks)
    /\ blocks > 0 => fix = fixSize
    /\ fixSize = TRUE => blocks <= 1

PoolInv ==
    /\ PoolType
    /\ \E c : IsChain(c, FreeCells, freePtr, word)

\* The free cells are finitely many, and none but cells.
LEMMA FreeFinite ==
    ASSUME PoolType
    PROVE  /\ IsFiniteSet(FreeCells)
           /\ Cardinality(FreeCells) \in Nat
           /\ Cardinality(FreeCells) = 0 <=> FreeCells = {}
           /\ FreeCells \subseteq Cells
           /\ FreeCells = 1 .. Behind(blocks) \ inUse
  <1>1. Behind(blocks) \in Nat /\ Behind(blocks) <= PoolSize * MaxAllocs
    BY BlocksSoFar DEF PoolType
  <1>2. IsFiniteSet(1 .. Behind(blocks))
    BY <1>1, FS_Interval
  <1>3. FreeCells = 1 .. Behind(blocks) \ inUse
    BY DEF FreeCells, Behind
  <1>4. IsFiniteSet(FreeCells)
    BY <1>2, <1>3, FS_Subset
  <1>5. FreeCells \subseteq Cells
    BY <1>1, <1>3, PoolAssumption DEF Cells
  <1> QED
    BY <1>3, <1>4, <1>5, FS_CardinalityType, FS_EmptySet

\* Taking the first cell off a chain.
LEMMA ChainTaken ==
    ASSUME NEW S, IsFiniteSet(S), S # {}, 0 \notin S,
           NEW c, NEW p, NEW w, IsChain(c, S, p, w)
    PROVE  /\ p \in S
           /\ \E d : IsChain(d, S \ {p}, w[p], w)
  <1> DEFINE n == Cardinality(S)
             d == [i \in 1 .. n - 1 |-> c[i + 1]]
             T == S \ {p}
  <1>1. n \in Nat \ {0}
    BY FS_CardinalityType, FS_EmptySet
  <1>2. p = c[1] /\ p \in S
    BY <1>1 DEF IsChain
  <1>3. IsFiniteSet(T) /\ Cardinality(T) = n - 1
    BY <1>2, FS_RemoveElement
  <1>4. T = {} <=> n = 1
    BY <1>1, <1>3, FS_EmptySet
  <1> HIDE DEF T, n
  <1>5. /\ c \in [1 .. n -> S]
        /\ \A i, j \in 1 .. n : c[i] = c[j] => i = j
        /\ \A i \in 1 .. n : w[c[i]] = IF i + 1 \in 1 .. n THEN c[i + 1] ELSE 0
    BY DEF IsChain, n
  <1>6. d \in [1 .. n - 1 -> T]
    BY <1>1, <1>2, <1>5 DEF T
  <1>7. \A i, j \in 1 .. n - 1 : d[i] = d[j] => i = j
    BY <1>1, <1>5
  <1>8. w[p] = IF T = {} THEN 0 ELSE d[1]
    BY <1>1, <1>2, <1>4, <1>5
  <1>9. \A i \in 1 .. n - 1 :
          w[d[i]] = IF i + 1 \in 1 .. n - 1 THEN d[i + 1] ELSE 0
    BY <1>1, <1>5
  <1>10. IsChain(d, T, w[p], w)
    BY <1>3, <1>6, <1>7, <1>8, <1>9 DEF IsChain
  <1> QED
    BY <1>2, <1>10 DEF T

\* Putting a cell in front of a chain.
LEMMA ChainPut ==
    ASSUME NEW S, IsFiniteSet(S), NEW c, NEW p, NEW w, IsChain(c, S, p, w),
           NEW e, e \notin S, NEW v, v[e] = p, \A s \in S : v[s] = w[s]
    PROVE  \E d : IsChain(d, S \cup {e}, e, v)
  <1> DEFINE n == Cardinality(S)
             d == [i \in 1 .. n + 1 |-> IF i = 1 THEN e ELSE c[i - 1]]
             T == S \cup {e}
  <1>1. n \in Nat /\ (n = 0 <=> S = {})
    BY FS_CardinalityType, FS_EmptySet
  <1>2. Cardinality(T) = n + 1 /\ T # {} /\ S \subseteq T /\ e \in T
    BY FS_AddElement
  <1> HIDE DEF T, n
  <1>3. /\ c \in [1 .. n -> S]
        /\ \A i, j \in 1 .. n : c[i] = c[j] => i = j
        /\ \A i \in 1 .. n : w[c[i]] = IF i + 1 \in 1 .. n THEN c[i + 1] ELSE 0
        /\ p = IF S = {} THEN 0 ELSE c[1]
    BY DEF IsChain, n
  <1>4. d \in [1 .. n + 1 -> T]
    BY <1>1, <1>2, <1>3
  <1>5. \A i, j \in 1 .. n + 1 : d[i] = d[j] => i = j
    BY <1>1, <1>3
  <1>6. \A i \in 1 .. n + 1 :
          v[d[i]] = IF i + 1 \in 1 .. n + 1 THEN d[i + 1] ELSE 0
    BY <1>1, <1>3
  <1>7. d[1] = e
    BY <1>1
  <1>8. IsChain(d, T, e, v)
    BY <1>2, <1>4, <1>5, <1>6, <1>7 DEF IsChain
  <1> QED
    BY <1>8 DEF T

\* A chain that visits none of the cells that change.
LEMMA ChainKept ==
    ASSUME NEW S, IsFiniteSet(S), NEW c, NEW p, NEW w, NEW v,
           IsChain(c, S, p, w), \A s \in S : v[s] = w[s]
    PROVE  IsChain(c, S, p, v)
  BY FS_CardinalityType DEF IsChain

\* The cells of a new block in a row.
LEMMA ChainNew ==
    ASSUME NEW a \in Nat, NEW n \in Nat \ {0}, NEW w,
           \A k \in 1 .. n :
             w[a + k] = IF k + 1 \in 1 .. n THEN a + k + 1 ELSE 0
    PROVE  IsFiniteSet(a + 1 .. a + n)
           /\ \E c : IsChain(c, a + 1 .. a + n, a + 1, w)
  <1> DEFINE c == [i \in 1 .. n |-> a + i]
             S == a + 1 .. a + n
  <1>1. Cardinality(S) = n /\ IsFiniteSet(S) /\ S # {}
    <2>1. a + 1 \in Int /\ a + n \in Int /\ a + 1 \in S
      OBVIOUS
    <2>2. /\ IsFiniteSet(S)
          /\ Cardinality(S) = IF a + 1 > a + n THEN 0 ELSE a + n - (a + 1) + 1
      BY <2>1, FS_Interval
    <2> QED
      BY <2>1, <2>2
  <1> HIDE DEF S
  <1>2. c \in [1 .. n -> S]
    BY DEF S
  <1>3. \A i, j \in 1 .. n : c[i] = c[j] => i = j
    OBVIOUS
  <1>4. \A i \in 1 .. n : w[c[i]] = IF i + 1 \in 1 .. n THEN c[i + 1] ELSE 0
    OBVIOUS
  <1>5. c[1] = a + 1
    OBVIOUS
  <1> HIDE DEF c
  <1>6. IsChain(c, S, a + 1, w)
    BY <1>1, <1>2, <1>3, <1>4, <1>5 DEF IsChain
  <1> QED
    BY <1>1, <1>6 DEF S

LEMMA PoolInvNext ==
    ASSUME PoolInv, [PoolNext]_poolVars
    PROVE  PoolInv'
  <1> USE PoolAssumption
  <1>a. PoolType
    BY DEF PoolInv
  <1>b. PICK c : IsChain(c, FreeCells, freePtr, word)
    BY DEF PoolInv
  <1>c. IsFiniteSet(FreeCells) /\ FreeCells \subseteq Cells /\ 0 \notin Cells
    BY <1>a, FreeFinite DEF Cells
  <1>d. FreeCells = 1 .. Behind(blocks) \ inUse
    BY <1>a, FreeFinite
  <1>e. FreeCells' = 1 .. Behind(blocks') \ inUse'
    BY DEF FreeCells, Behind
  <1>1. CASE New
    <2>1. FreeCells # {}
      BY <1>1, <1>b DEF New, IsChain
    <2>2. /\ freePtr \in FreeCells
          /\ \E d : IsChain(d, FreeCells \ {freePtr}, word[freePtr], word)
      BY <2>1, <1>b, <1>c, ChainTaken
    <2>3. /\ FreeCells' = FreeCells \ {freePtr}
          /\ freePtr' = word[freePtr] /\ word' = word
      BY <1>1, <1>d, <1>e DEF New, Gives
    <2>4. PoolType'
      BY <1>1, <1>a, <1>c, <1>d, <2>2, <2>3 DEF New, Gives, PoolType
    <2> QED
      BY <2>2, <2>3, <2>4 DEF PoolInv
  <1>2. CASE NewAllocates
    <2> DEFINE a == Behind(blocks)
               S == a + 1 .. a + PoolSize
    <2>1. /\ blocks \in Nat /\ blocks < MaxAllocs /\ blocks' = blocks + 1
          /\ fix' = fixSize /\ fixSize' = fixSize /\ fix = FALSE
      BY <1>2, <1>a DEF NewAllocates, Gives, PoolType
    <2>2. /\ a \in Nat /\ Behind(blocks') = a + PoolSize
          /\ a + PoolSize <= PoolSize * MaxAllocs
          /\ Block(blocks) = S
      BY <2>1, Blocks
    <2>3. FreeCells = {}
      BY <1>2, <1>a, <1>b, <1>c, FreeFinite DEF NewAllocates, IsChain
    <2>4. /\ inUse' = inUse \cup {a + 1}
          /\ word' = Linked(blocks) /\ freePtr' = word'[a + 1]
      BY <1>2 DEF NewAllocates, Gives, Behind
    <2> HIDE DEF a
    <2>5. S \subseteq Cells
      BY <2>2 DEF Cells
    <2>6. \A k \in 1 .. PoolSize :
            word'[a + k] = IF k + 1 \in 1 .. PoolSize THEN a + k + 1 ELSE 0
      BY <2>2, <2>4, <2>5 DEF Linked
    <2>7. IsFiniteSet(S) /\ \E d : IsChain(d, S, a + 1, word')
      BY <2>2, <2>6, ChainNew
    <2>8. a + 1 \in S /\ 0 \notin S
      BY <2>2
    <2>9. \E d : IsChain(d, S \ {a + 1}, word'[a + 1], word')
      BY <2>7, <2>8, ChainTaken
    <2>10. FreeCells' = S \ {a + 1}
      BY <1>a, <1>d, <1>e, <2>2, <2>3, <2>4 DEF PoolType, a
    <2>11. PoolType'
      <3>1. word' \in [Cells -> Nat]
        BY <1>a, <2>2, <2>4 DEF Linked, PoolType, Cells
      <3>2. freePtr' \in Nat
        BY <2>4, <2>5, <2>8, <3>1
      <3>3. inUse' \subseteq 1 .. Behind(blocks')
        <4>1. inUse \subseteq 1 .. a
          BY <1>a DEF PoolType, a
        <4> QED
          BY <2>2, <2>4, <4>1
      <3> QED
        BY <1>a, <2>1, <3>1, <3>2, <3>3 DEF PoolType
    <2> QED
      BY <2>4, <2>9, <2>10, <2>11 DEF PoolInv
  <1>3. ASSUME NEW e \in Cells, Writes(e) PROVE PoolInv'
    <2>1. /\ e \notin FreeCells /\ FreeCells' = FreeCells /\ freePtr' = freePtr
          /\ \A s \in FreeCells : word'[s] = word[s]
      BY <1>3, <1>a, <1>c, <1>d, <1>e DEF Writes, PoolType
    <2>2. IsChain(c, FreeCells, freePtr, word')
      BY <1>b, <1>c, <2>1, ChainKept
    <2>3. PoolType'
      BY <1>3, <1>a DEF Writes, PoolType, Data
    <2> QED
      BY <2>1, <2>2, <2>3 DEF PoolInv
  <1>4. ASSUME NEW e \in Cells, Delete(e) PROVE PoolInv'
    <2>1. /\ e \notin FreeCells /\ FreeCells' = FreeCells \cup {e}
          /\ freePtr' = e /\ word'[e] = freePtr
          /\ \A s \in FreeCells : word'[s] = word[s]
      BY <1>4, <1>a, <1>c, <1>d, <1>e DEF Delete, PoolType
    <2>2. \E d : IsChain(d, FreeCells \cup {e}, e, word')
      BY <1>b, <1>c, <2>1, ChainPut
    <2>3. PoolType'
      BY <1>4, <1>a DEF Delete, PoolType, Cells
    <2> QED
      BY <2>1, <2>2, <2>3 DEF PoolInv
  <1>5. CASE NewThrows \/ NewFails \/ UNCHANGED poolVars
    BY <1>5 DEF NewThrows, NewFails, poolVars, PoolInv, PoolType, FreeCells
  <1> QED
    BY <1>1, <1>2, <1>3, <1>4, <1>5 DEF PoolNext

\* Whatever the pool's size, its blocks and the order of operations: the free
\* chain runs through every cell that is not in use once, and through no other.
THEOREM PoolExclusiveCorrect == PoolSpec => []PoolExclusive
  <1>1. PoolInit => PoolInv
    <2> SUFFICES ASSUME PoolInit PROVE PoolInv
      OBVIOUS
    <2>1. PoolType
      <3>1. fixSize \in BOOLEAN /\ fix = FALSE /\ blocks = 0 /\ inUse = {}
        BY DEF PoolInit
      <3>2. word \in [Cells -> Nat] /\ freePtr \in Nat
        BY DEF PoolInit
      <3>3. blocks \in 0 .. MaxAllocs /\ blocks <= 1 /\ ~(blocks > 0)
        BY <3>1, PoolAssumption
      <3> QED
        BY <3>1, <3>2, <3>3 DEF PoolType
    <2>2. FreeCells = {} /\ Cardinality(FreeCells) = 0
      BY FreeFinite, PoolAssumption, <2>1 DEF PoolInit, FreeCells
    <2>3. IsChain([i \in 1 .. 0 |-> 0], FreeCells, freePtr, word)
      BY <2>2 DEF PoolInit, IsChain
    <2> QED
      BY <2>1, <2>3 DEF PoolInv
  <1>2. PoolInv /\ [PoolNext]_poolVars => PoolInv'
    BY PoolInvNext
  <1>3. PoolInv => PoolExclusive
    <2> SUFFICES ASSUME PoolInv PROVE PoolExclusive
      OBVIOUS
    <2>1. PICK c : IsChain(c, FreeCells, freePtr, word)
      BY DEF PoolInv
    <2>2. fixSize => blocks <= 1
      BY DEF PoolInv, PoolType
    <2> QED
      BY <2>1, <2>2 DEF IsChain, PoolExclusive
  <1> QED
    BY <1>1, <1>2, <1>3, PTL DEF PoolSpec

----------------------------------------------------------------------------
(* The scheduler *)

Job == [first : Nat, second : Nat]

\* A job a comes before a job b: its time is earlier, or it was registered first.
Earlier(a, b) == a.first < b.first \/ (a.first = b.first /\ a.second < b.second)

\* The multimap: each job at its time, in order.
Sorted(q) ==
    /\ q \in Seq(Job)
    /\ \A i, j \in 1 .. Len(q) : i < j => Earlier(q[i], q[j])

Registered(q, js) ==
    \A i \in 1 .. Len(q) :
      q[i].second \in 1 .. Len(js) /\ q[i].first = js[q[i].second]

SchedType ==
    /\ clock \in Nat /\ loopTime \in Nat /\ loopTime <= clock
    /\ loopPc \in {"out", "walk", "process", "complete", "completing"}
    /\ complete \in Seq(Nat) /\ completed \in Seq(Nat)
    /\ jobs \in Seq(Nat)
    /\ Sorted(waitJobs)
    /\ Registered(waitJobs, jobs)

On(q, j) == \E i \in 1 .. Len(q) : q[i].second = j

In(s, j) == \E i \in 1 .. Len(s) : s[i] = j

NoRepeat(s) == \A i, k \in 1 .. Len(s) : s[i] = s[k] => i = k

\* Every job registered waits or was processed, once; what was processed was
\* completed, but for the jobs in complete, and Loop leaves none of these.
Ledger ==
    /\ processed \in Seq(Nat)
    /\ \A i \in 1 .. Len(processed) : processed[i] \in 1 .. Len(jobs)
    /\ \A j \in 1 .. Len(jobs) : On(waitJobs, j) <=> ~In(processed, j)
    /\ NoRepeat(processed)
    /\ processed = completed \o complete
    /\ loopPc = "out" => complete = << >>

SchedInv == SchedType /\ Ledger

\* An element put in behind the first n, in front of the last m.
LEMMA Inserted ==
    ASSUME NEW q \in Seq(Job), NEW e \in Job, NEW n \in Nat, NEW m \in Nat,
           Len(q) = n + m,
           NEW r, r = SubSeq(q, 1, n) \o << e >> \o SubSeq(q, n + 1, Len(q))
    PROVE  /\ r \in Seq(Job) /\ Len(r) = n + 1 + m
           /\ \A i \in 1 .. n : r[i] = q[i]
           /\ r[n + 1] = e
           /\ \A i \in 1 .. m : r[n + 1 + i] = q[n + i]
  <1> DEFINE a == SubSeq(q, 1, n)
             b == SubSeq(q, n + 1, n + m)
             c == a \o << e >>
  <1>1. a \in Seq(Job) /\ Len(a) = n /\ \A i \in 1 .. n : a[i] = q[i]
    OBVIOUS
  <1>2. b \in Seq(Job) /\ Len(b) = m /\ \A i \in 1 .. m : b[i] = q[n + i]
    OBVIOUS
  <1>3. r = c \o b
    OBVIOUS
  <1> HIDE DEF a, b
  <1>4. << e >> \in Seq(Job) /\ Len(<< e >>) = 1 /\ << e >>[1] = e
    OBVIOUS
  <1>5. /\ c \in Seq(Job) /\ Len(c) = n + 1
        /\ \A i \in 1 .. n + 1 : c[i] = IF i <= n THEN a[i] ELSE << e >>[i - n]
    BY <1>1, <1>4, ConcatProperties
  <1>6. \A i \in 1 .. n : c[i] = q[i]
    <2> HIDE DEF c
    <2>1. \A i \in 1 .. n : i \in 1 .. n + 1 /\ i <= n
      OBVIOUS
    <2> QED
      BY <1>1, <1>5, <2>1
  <1>7. c[n + 1] = e
    <2>1. n + 1 \in 1 .. n + 1 /\ ~ (n + 1 <= n) /\ (n + 1) - n = 1
      OBVIOUS
    <2>2. c[n + 1] = << e >>[(n + 1) - n]
      BY <1>5, <2>1
    <2> QED
      BY <1>4, <2>1, <2>2
  <1> HIDE DEF c
  <1>8. /\ r \in Seq(Job) /\ Len(r) = n + 1 + m
        /\ \A i \in 1 .. n + 1 + m :
             r[i] = IF i <= n + 1 THEN c[i] ELSE b[i - (n + 1)]
    <2>1. /\ c \o b \in Seq(Job) /\ Len(c \o b) = Len(c) + Len(b)
          /\ \A i \in 1 .. Len(c) + Len(b) :
               (c \o b)[i] = IF i <= Len(c) THEN c[i] ELSE b[i - Len(c)]
      BY <1>2, <1>5, ConcatProperties
    <2>2. Len(c) = n + 1 /\ Len(b) = m /\ Len(c) + Len(b) = n + 1 + m
      BY <1>2, <1>5
    <2> QED
      BY <1>3, <2>1, <2>2
  <1>9. ASSUME NEW i \in 1 .. n PROVE r[i] = q[i]
    <2>1. i \in 1 .. n + 1 + m /\ i <= n + 1
      OBVIOUS
    <2> QED
      BY <1>6, <1>8, <2>1
  <1>10. r[n + 1] = e
    <2>1. n + 1 \in 1 .. n + 1 + m /\ n + 1 <= n + 1
      OBVIOUS
    <2> QED
      BY <1>7, <1>8, <2>1
  <1>11. ASSUME NEW i \in 1 .. m PROVE r[n + 1 + i] = q[n + i]
    <2>1. /\ n + 1 + i \in 1 .. n + 1 + m /\ ~ (n + 1 + i <= n + 1)
          /\ (n + 1 + i) - (n + 1) = i
      OBVIOUS
    <2>2. r[n + 1 + i] = b[(n + 1 + i) - (n + 1)]
      BY <1>8, <2>1
    <2> QED
      BY <1>2, <2>1, <2>2
  <1> QED
    BY <1>8, <1>9, <1>10, <1>11

\* The new job has the highest number: behind all of its time it is in order.
LEMMA RegistKeeps ==
    ASSUME clock \in Nat, jobs \in Seq(Nat), NEW delta \in Delays,
           NEW q, q = waitJobs, Sorted(q), Registered(q, jobs), RegistJob(delta)
    PROVE  /\ jobs' \in Seq(Nat) /\ Len(jobs') = Len(jobs) + 1
           /\ Sorted(waitJobs') /\ Registered(waitJobs', jobs')
           /\ \A j : On(waitJobs', j) <=> On(q, j) \/ j = Len(jobs) + 1
  <1>1. PICK t \in Nat, k \in Nat : t = clock + delta /\ k = Len(jobs)
    <2>1. delta \in Nat
      BY DelaysAssumption
    <2>2. clock + delta \in Nat /\ Len(jobs) \in Nat
      BY <2>1
    <2> QED
      BY <2>2
  <1>2. /\ jobs' = Append(jobs, t) /\ jobs' \in Seq(Nat) /\ Len(jobs') = k + 1
        /\ jobs'[k + 1] = t /\ \A i \in 1 .. k : jobs'[i] = jobs[i]
    BY <1>1 DEF RegistJob
  <1> DEFINE e == [first |-> t, second |-> k + 1]
  <1>3. PICK n \in Nat, m \in Nat :
          /\ Len(q) = n + m
          /\ \A i \in 1 .. n : q[i].first <= t
          /\ \A i \in n + 1 .. n + m : q[i].first > t
          /\ waitJobs' = SubSeq(q, 1, n) \o << e >> \o SubSeq(q, n + 1, Len(q))
    <2>1. PICK l \in Nat : l = Len(q)
      BY DEF Sorted
    <2>2. PICK n \in 0 .. l :
            /\ \A i \in 1 .. n : q[i].first <= t
            /\ \A i \in n + 1 .. l : q[i].first > t
            /\ waitJobs' = SubSeq(q, 1, n) \o << e >> \o SubSeq(q, n + 1, Len(q))
      BY <1>1, <1>2, <2>1 DEF RegistJob
    <2>3. n \in Nat /\ l - n \in Nat /\ l = n + (l - n)
      OBVIOUS
    <2> QED
      BY <2>1, <2>2, <2>3
  <1>4. e \in Job /\ e.first = t /\ e.second = k + 1
    BY DEF Job
  <1> HIDE DEF e
  <1>5. PICK r \in Seq(Job) :
          /\ r = waitJobs' /\ Len(r) = n + 1 + m
          /\ \A i \in 1 .. n : r[i] = q[i]
          /\ r[n + 1] = e
          /\ \A i \in 1 .. m : r[n + 1 + i] = q[n + i]
    <2>1. q \in Seq(Job)
      BY DEF Sorted
    <2>2. PICK r : r = waitJobs'
      OBVIOUS
    <2>3. /\ Len(q) = n + m /\ e \in Job
          /\ r = SubSeq(q, 1, n) \o << e >> \o SubSeq(q, n + 1, Len(q))
      BY <1>3, <1>4, <2>2
    <2>4. /\ r \in Seq(Job) /\ Len(r) = n + 1 + m
          /\ \A i \in 1 .. n : r[i] = q[i]
          /\ r[n + 1] = e
          /\ \A i \in 1 .. m : r[n + 1 + i] = q[n + i]
      <3> HIDE DEF Job
      <3>1. n \in Nat /\ m \in Nat
        OBVIOUS
      <3> QED
        BY <2>1, <2>3, <3>1, Inserted
    <2> QED
      BY <2>2, <2>4
  <1>6. ASSUME NEW i \in 1 .. n + m
        PROVE  /\ q[i].first \in Nat /\ q[i].second \in 1 .. k
               /\ q[i].first = jobs[q[i].second]
    <2>1. q \in Seq(Job) /\ i \in 1 .. Len(q)
      BY <1>3 DEF Sorted
    <2>2. q[i] \in Job
      BY <2>1
    <2> QED
      BY <1>1, <2>1, <2>2 DEF Registered, Job
  <1>7. \A i, j \in 1 .. n + m : i < j => Earlier(q[i], q[j])
    BY <1>3 DEF Sorted
  \* Every place but the new one's is that of an old job.
  <1>8. ASSUME NEW i \in 1 .. n + 1 + m
        PROVE  \/ i = n + 1
               \/ i \in 1 .. n /\ r[i] = q[i]
               \/ \E o \in 1 .. m : i = n + 1 + o /\ r[i] = q[n + o]
    <2>1. CASE i > n + 1
      <3>1. i - (n + 1) \in 1 .. m /\ i = n + 1 + (i - (n + 1))
        BY <2>1
      <3>2. PICK o \in 1 .. m : i = n + 1 + o
        BY <3>1
      <3> QED
        BY <1>5, <3>2
    <2>2. CASE i < n + 1
      <3>1. i \in 1 .. n
        BY <2>2
      <3> QED
        BY <1>5, <3>1
    <2> QED
      BY <2>1, <2>2
  <1>9. ASSUME NEW i \in 1 .. n + 1 + m, NEW j \in 1 .. n + 1 + m, i < j
        PROVE  Earlier(r[i], r[j])
    <2>1. CASE i = n + 1
      <3>1. PICK o \in 1 .. m : r[j] = q[n + o]
        <4>1. j # n + 1 /\ ~ (j \in 1 .. n)
          BY <1>9, <2>1
        <4> QED
          BY <1>8, <4>1
      <3>2. n + o \in 1 .. n + m /\ n + o \in n + 1 .. n + m
        OBVIOUS
      <3>3. q[n + o].first > t /\ q[n + o].first \in Nat
        BY <1>3, <1>6, <3>2
      <3> QED
        BY <1>4, <1>5, <2>1, <3>1, <3>3 DEF Earlier
    <2>2. CASE i \in 1 .. n /\ r[i] = q[i] /\ j = n + 1
      <3>1. i \in 1 .. n + m
        BY <2>2
      <3>2. PICK x \in Nat, y \in 1 .. k : x = q[i].first /\ y = q[i].second /\ x <= t
        BY <1>3, <1>6, <2>2, <3>1
      <3>3. x < t \/ (x = t /\ y < k + 1)
        BY <3>2
      <3> QED
        BY <1>4, <1>5, <2>2, <3>2, <3>3 DEF Earlier
    <2>3. CASE i \in 1 .. n /\ r[i] = q[i] /\ j # n + 1
      <3>1. PICK o \in 1 .. n + m : r[j] = q[o] /\ i < o
        <4>1. CASE j \in 1 .. n /\ r[j] = q[j]
          BY <1>9, <4>1
        <4>2. ASSUME NEW o \in 1 .. m, j = n + 1 + o, r[j] = q[n + o]
              PROVE  n + o \in 1 .. n + m /\ i < n + o
          BY <2>3
        <4> QED
          BY <1>8, <2>3, <4>1, <4>2
      <3>2. i \in 1 .. n + m
        BY <2>3
      <3> QED
        BY <1>7, <2>3, <3>1, <3>2
    <2>4. ASSUME NEW o \in 1 .. m, i = n + 1 + o, r[i] = q[n + o]
          PROVE  Earlier(r[i], r[j])
      <3>1. PICK u \in 1 .. m : j = n + 1 + u /\ r[j] = q[n + u]
        <4>1. j # n + 1 /\ ~ (j \in 1 .. n)
          BY <1>9, <2>4
        <4> QED
          BY <1>8, <4>1
      <3>2. n + o \in 1 .. n + m /\ n + u \in 1 .. n + m /\ n + o < n + u
        BY <1>9, <2>4, <3>1
      <3> QED
        BY <1>7, <2>4, <3>1, <3>2
    <2> QED
      BY <1>8, <2>1, <2>2, <2>3, <2>4
  <1>10. ASSUME NEW i \in 1 .. n + 1 + m
         PROVE  r[i].second \in 1 .. k + 1 /\ r[i].first = jobs'[r[i].second]
    <2>1. CASE i = n + 1
      BY <1>2, <1>4, <1>5, <2>1
    <2>2. CASE i # n + 1
      <3>1. PICK o \in 1 .. n + m : r[i] = q[o]
        <4>1. \A o \in 1 .. m : n + o \in 1 .. n + m
          OBVIOUS
        <4>2. i \in 1 .. n => i \in 1 .. n + m
          OBVIOUS
        <4> QED
          BY <1>8, <2>2, <4>1, <4>2
      <3>2. PICK y \in 1 .. k : y = q[o].second /\ q[o].first = jobs[y]
        BY <1>6
      <3>3. y \in 1 .. k + 1 /\ jobs'[y] = jobs[y]
        BY <1>2
      <3> QED
        BY <3>1, <3>2, <3>3
    <2> QED
      BY <2>1, <2>2
  <1>11. Sorted(r)
    BY <1>5, <1>9 DEF Sorted
  <1>12. Registered(r, jobs')
    BY <1>2, <1>5, <1>10 DEF Registered
  <1>13. ASSUME NEW j PROVE On(r, j) <=> On(q, j) \/ j = k + 1
    <2>1. ASSUME NEW i \in 1 .. n + 1 + m, r[i].second = j
          PROVE  On(q, j) \/ j = k + 1
      <3>1. CASE i = n + 1
        BY <1>4, <1>5, <2>1, <3>1
      <3>2. CASE i \in 1 .. n /\ r[i] = q[i]
        BY <1>3, <2>1, <3>2 DEF On
      <3>3. ASSUME NEW o \in 1 .. m, r[i] = q[n + o] PROVE On(q, j)
        <4>1. n + o \in 1 .. n + m
          OBVIOUS
        <4> QED
          BY <1>3, <2>1, <3>3, <4>1 DEF On
      <3> QED
        BY <1>8, <3>1, <3>2, <3>3
    <2>2. ASSUME NEW i \in 1 .. n + m, q[i].second = j
          PROVE  \E p \in 1 .. n + 1 + m : r[p].second = j
      <3>1. CASE i <= n
        <4>1. i \in 1 .. n /\ i \in 1 .. n + 1 + m
          BY <3>1
        <4> QED
          BY <1>5, <2>2, <4>1
      <3>2. CASE ~ (i <= n)
        <4>1. i - n \in 1 .. m /\ i = n + (i - n)
          BY <3>2
        <4>2. PICK o \in 1 .. m : i = n + o
          BY <4>1
        <4>3. n + 1 + o \in 1 .. n + 1 + m
          OBVIOUS
        <4> QED
          BY <1>5, <2>2, <4>2, <4>3
      <3> QED
        BY <3>1, <3>2
    <2>3. n + 1 \in 1 .. n + 1 + m /\ r[n + 1].second = k + 1
      BY <1>4, <1>5
    <2> QED
      BY <1>3, <1>5, <2>1, <2>2, <2>3 DEF On
  <1> QED
    BY <1>1, <1>2, <1>5, <1>11, <1>12, <1>13

\* The first job is erased, and it was there once.
LEMMA FirstErased ==
    ASSUME NEW q, NEW js, Sorted(q), Registered(q, js), q # << >>
    PROVE  /\ Sorted(Tail(q)) /\ Registered(Tail(q), js)
           /\ Head(q) = q[1] /\ 1 \in 1 .. Len(q)
           /\ \A j : On(Tail(q), j) <=> On(q, j) /\ j # Head(q).second
  <1>1. q \in Seq(Job)
    BY DEF Sorted
  <1>2. PICK l \in Nat : Len(q) = l + 1
    <2>1. Len(q) \in Nat /\ Len(q) # 0
      BY <1>1
    <2>2. Len(q) - 1 \in Nat /\ Len(q) = (Len(q) - 1) + 1
      BY <2>1
    <2> QED
      BY <2>2
  <1>3. PICK t \in Seq(Job) : t = Tail(q) /\ Len(t) = l
                              /\ \A i \in 1 .. l : t[i] = q[i + 1]
    <2>1. /\ Tail(q) \in Seq(Job) /\ Len(Tail(q)) = Len(q) - 1
          /\ \A i \in 1 .. Len(Tail(q)) : Tail(q)[i] = q[i + 1]
      BY <1>1, HeadTailProperties
    <2>2. Len(q) - 1 = l
      BY <1>2
    <2> QED
      BY <2>1, <2>2
  <1>4. \A i \in 1 .. l : i + 1 \in 1 .. Len(q)
    BY <1>2
  <1>5. ASSUME NEW i \in 1 .. l, NEW j \in 1 .. l, i < j
        PROVE  Earlier(t[i], t[j])
    <2>1. i + 1 < j + 1
      BY <1>5
    <2> QED
      BY <1>3, <1>4, <2>1 DEF Sorted
  <1>6. Sorted(t)
    BY <1>3, <1>5 DEF Sorted
  <1>7. Registered(t, js)
    BY <1>3, <1>4 DEF Registered
  <1>8. Head(q) = q[1] /\ 1 \in 1 .. Len(q)
    BY <1>1, <1>2
  <1>9. ASSUME NEW i \in 1 .. l PROVE t[i].second # q[1].second
    <2>1. Earlier(q[1], q[i + 1])
      <3>1. 1 < i + 1
        OBVIOUS
      <3> QED
        BY <1>4, <1>8, <3>1 DEF Sorted
    <2>2. q[1] \in Job /\ q[i + 1] \in Job
      BY <1>1, <1>4, <1>8
    <2>3. /\ q[1].first = js[q[1].second]
          /\ q[i + 1].first = js[q[i + 1].second]
      BY <1>4, <1>8 DEF Registered
    <2> QED
      BY <1>3, <2>1, <2>2, <2>3 DEF Earlier, Job
  <1>10. ASSUME NEW j PROVE On(t, j) <=> On(q, j) /\ j # q[1].second
    <2>1. ASSUME NEW i \in 1 .. l, t[i].second = j
          PROVE  On(q, j) /\ j # q[1].second
      BY <1>3, <1>4, <1>9, <2>1 DEF On
    <2>2. ASSUME NEW i \in 1 .. l + 1, q[i].second = j, j # q[1].second
          PROVE  \E p \in 1 .. l : t[p].second = j
      <3>1. i - 1 \in 1 .. l /\ i = (i - 1) + 1
        BY <2>2
      <3>2. PICK p \in 1 .. l : i = p + 1
        BY <3>1
      <3> QED
        BY <1>3, <2>2, <3>2
    <2> QED
      BY <1>2, <1>3, <2>1, <2>2 DEF On
  <1> QED
    BY <1>3, <1>6, <1>7, <1>8, <1>10

\* What Append adds to a sequence without repeats.
LEMMA AppendNew ==
    ASSUME NEW s \in Seq(Nat), NEW e \in Nat
    PROVE  /\ \A j : In(Append(s, e), j) <=> In(s, j) \/ j = e
           /\ NoRepeat(s) /\ ~In(s, e) => NoRepeat(Append(s, e))
  <1>1. PICK l \in Nat : l = Len(s)
    OBVIOUS
  <1>2. PICK r \in Seq(Nat) : /\ r = Append(s, e) /\ Len(r) = l + 1
                              /\ r[l + 1] = e /\ \A i \in 1 .. l : r[i] = s[i]
    <2>1. Append(s, e) \in Seq(Nat) /\ Len(Append(s, e)) = l + 1
      BY <1>1
    <2>2. Append(s, e)[l + 1] = e
      BY <1>1
    <2>3. \A i \in 1 .. l : Append(s, e)[i] = s[i]
      BY <1>1
    <2> QED
      BY <2>1, <2>2, <2>3
  <1>3. ASSUME NEW j PROVE In(r, j) <=> In(s, j) \/ j = e
    <2>1. \A i \in 1 .. l : i \in 1 .. l + 1
      OBVIOUS
    <2>2. l + 1 \in 1 .. l + 1
      OBVIOUS
    <2>3. \A i \in 1 .. l + 1 : i \in 1 .. l \/ i = l + 1
      OBVIOUS
    <2> QED
      BY <1>1, <1>2, <2>1, <2>2, <2>3 DEF In
  <1>4. ASSUME NoRepeat(s), ~In(s, e) PROVE NoRepeat(r)
    <2>1. \A i \in 1 .. l + 1 : i \in 1 .. l \/ i = l + 1
      OBVIOUS
    <2> QED
      BY <1>1, <1>2, <1>4, <2>1 DEF In, NoRepeat
  <1> QED
    BY <1>2, <1>3, <1>4

\* A job more at the end of what is to be completed.
LEMMA AppendBehind ==
    ASSUME NEW s \in Seq(Nat), NEW c \in Seq(Nat), NEW e \in Nat
    PROVE  Append(s \o c, e) = s \o Append(c, e)
  OBVIOUS

\* The first of what is to be completed goes to what has been.
LEMMA HeadMoved ==
    ASSUME NEW s \in Seq(Nat), NEW c \in Seq(Nat), c # << >>
    PROVE  /\ s \o c = Append(s, Head(c)) \o Tail(c)
           /\ Append(s, Head(c)) \in Seq(Nat) /\ Tail(c) \in Seq(Nat)
  OBVIOUS

\* A job is registered.
LEMMA RegistInv ==
    ASSUME SchedInv, Regist
    PROVE  SchedInv'
  <1> USE DEF SchedInv, SchedType
  <1>1. PICK delta \in Delays : RegistJob(delta)
    BY DEF Regist
  <1>2. /\ jobs' \in Seq(Nat) /\ Len(jobs') = Len(jobs) + 1
        /\ Sorted(waitJobs') /\ Registered(waitJobs', jobs')
        /\ \A j : On(waitJobs', j) <=> On(waitJobs, j) \/ j = Len(jobs) + 1
    BY <1>1, RegistKeeps
  <1>3. UNCHANGED <<clock, loopPc, loopTime, complete, processed, completed>>
    BY DEF Regist
  <1>4. PICK n \in Nat : n = Len(jobs)
    OBVIOUS
  <1>5. \A i \in 1 .. Len(processed) : processed[i] \in 1 .. n
    BY <1>4 DEF Ledger
  <1>6. ~In(processed, n + 1)
    BY <1>5 DEF In
  <1>7. \A j \in 1 .. n + 1 : On(waitJobs', j) <=> ~In(processed, j)
    <2>1. \A j \in 1 .. n + 1 : j \in 1 .. n \/ j = n + 1
      OBVIOUS
    <2> QED
      BY <1>2, <1>4, <1>6, <2>1 DEF Ledger
  <1>8. \A i \in 1 .. Len(processed) : processed[i] \in 1 .. n + 1
    BY <1>5
  <1>9. Ledger'
    BY <1>2, <1>3, <1>4, <1>7, <1>8 DEF Ledger
  <1> QED
    BY <1>2, <1>3, <1>9

\* The first job is processed.
LEMMA ProcessInv ==
    ASSUME SchedInv, Process
    PROVE  SchedInv'
  <1> USE DEF SchedInv
  <1> DEFINE e == Head(waitJobs).second
  <1>1. /\ waitJobs # << >> /\ waitJobs' = Tail(waitJobs)
        /\ complete' = Append(complete, e) /\ processed' = Append(processed, e)
        /\ loopPc' = "process"
        /\ UNCHANGED <<clock, loopTime, jobs, completed>>
    BY DEF Process, FirstDue, LoopGoes
  <1>2. /\ Sorted(waitJobs') /\ Registered(waitJobs', jobs)
        /\ Head(waitJobs) = waitJobs[1] /\ 1 \in 1 .. Len(waitJobs)
        /\ \A j : On(waitJobs', j) <=> On(waitJobs, j) /\ j # e
    BY <1>1, FirstErased DEF SchedType
  <1>3. PICK n \in Nat : n = Len(jobs)
    BY DEF SchedType
  <1>4. e \in 1 .. n /\ e \in Nat
    BY <1>2, <1>3 DEF SchedType, Registered
  <1>5. On(waitJobs, e)
    BY <1>2 DEF On
  <1>6. ~In(processed, e)
    BY <1>3, <1>4, <1>5 DEF Ledger
  <1> HIDE DEF e
  <1>7. SchedType'
    BY <1>1, <1>2, <1>4 DEF SchedType
  <1>8. /\ \A j : In(processed', j) <=> In(processed, j) \/ j = e
        /\ NoRepeat(processed')
    BY <1>1, <1>4, <1>6, AppendNew DEF Ledger
  <1>9. processed' \in Seq(Nat)
    BY <1>1, <1>4 DEF Ledger
  <1>10. ASSUME NEW i \in 1 .. Len(processed') PROVE processed'[i] \in 1 .. n
    <2>1. In(processed', processed'[i])
      BY DEF In
    <2>2. In(processed, processed'[i]) \/ processed'[i] = e
      BY <1>8, <2>1
    <2> QED
      BY <1>3, <1>4, <2>2 DEF In, Ledger
  <1>11. \A j \in 1 .. n : On(waitJobs', j) <=> ~In(processed', j)
    BY <1>2, <1>3, <1>8 DEF Ledger
  <1>12. processed' = completed' \o complete'
    BY <1>1, <1>4, AppendBehind DEF SchedType, Ledger
  <1>13. Ledger'
    BY <1>1, <1>3, <1>8, <1>9, <1>10, <1>11, <1>12 DEF Ledger
  <1> QED
    BY <1>7, <1>13

LEMMA SchedInvNext ==
    ASSUME SchedInv, [SchedNext]_schedVars
    PROVE  SchedInv'
  <1> USE DEF SchedInv, SchedType, Ledger, LoopGoes
  <1>1. CASE Tick
    BY <1>1 DEF Tick
  <1>2. CASE Loop
    BY <1>2 DEF Loop
  <1>3. CASE WalkEnds
    BY <1>3 DEF WalkEnds
  <1>4. CASE Complete
    <2>1. /\ complete # << >> /\ complete' = Tail(complete)
          /\ completed' = Append(completed, Head(complete))
          /\ loopPc' = "completing"
          /\ UNCHANGED <<clock, waitJobs, loopTime, jobs, processed>>
      BY <1>4 DEF Complete
    <2>2. /\ completed \o complete = completed' \o complete'
          /\ completed' \in Seq(Nat) /\ complete' \in Seq(Nat)
      BY <2>1, HeadMoved
    <2> QED
      BY <2>1, <2>2
  <1>5. CASE CallbackReturns
    BY <1>5 DEF CallbackReturns
  <1>6. CASE LoopReturns
    BY <1>6 DEF LoopReturns
  <1>7. CASE UNCHANGED schedVars
    BY <1>7 DEF schedVars
  <1> QED
    BY <1>1, <1>2, <1>3, <1>4, <1>5, <1>6, <1>7, RegistInv, ProcessInv DEF SchedNext

\* Nothing but Process adds to processed.
LEMMA LongerIsProcess ==
    ASSUME SchedInv, [SchedNext]_schedVars,
           NEW j \in 1 .. Len(jobs), processed' = Append(processed, j)
    PROVE  Process /\ j = Head(waitJobs).second
  <1>1. processed \in Seq(Nat) /\ j \in Nat
    BY DEF SchedInv, SchedType, Ledger
  <1>2. processed' # processed
    BY <1>1
  <1>3. Process
    BY <1>2 DEF SchedNext, Tick, Regist, Loop, WalkEnds, Complete,
                CallbackReturns, LoopReturns, schedVars
  <1>4. /\ processed' = Append(processed, Head(waitJobs).second)
        /\ waitJobs # << >>
    BY <1>3 DEF Process, FirstDue
  <1>5. Head(waitJobs).second \in Nat
    <2>1. Head(waitJobs) = waitJobs[1] /\ 1 \in 1 .. Len(waitJobs)
      BY <1>4, FirstErased DEF SchedInv, SchedType
    <2>2. waitJobs[1] \in Job
      BY <2>1 DEF SchedInv, SchedType, Sorted
    <2> QED
      BY <2>1, <2>2 DEF Job
  <1>6. j = Head(waitJobs).second
    <2>1. ASSUME NEW s \in Seq(Nat), NEW a \in Nat, NEW b \in Nat,
                 Append(s, a) = Append(s, b)
          PROVE  a = b
      <3>1. Append(s, a)[Len(s) + 1] = a /\ Append(s, b)[Len(s) + 1] = b
        OBVIOUS
      <3> QED
        BY <2>1, <3>1
    <2> QED
      BY <1>1, <1>4, <1>5, <2>1
  <1> QED
    BY <1>3, <1>6

\* For any delays, any number of jobs and whatever the callbacks register: no job
\* is processed before its time, ahead of one that has waited for an earlier
\* time, or twice; when Loop turns to completing, no job is left whose time had
\* come when it was called; and each job processed is completed once, in order.
THEOREM JobsDueCorrect == SchedSpec => JobsDue
  <1>1. SchedInit => SchedInv
    <2> SUFFICES ASSUME SchedInit PROVE SchedInv
      OBVIOUS
    <2>1. Sorted(<< >>) /\ Registered(<< >>, << >>)
      BY DEF Sorted, Registered
    <2>2. << >> = << >> \o << >>
      OBVIOUS
    <2> QED
      BY <2>1, <2>2 DEF SchedInit, SchedInv, SchedType, Ledger, NoRepeat
  <1>2. ASSUME SchedInv, [SchedNext]_schedVars PROVE SchedInv'
    BY <1>2, SchedInvNext
  <1>3. ASSUME SchedInv, [SchedNext]_schedVars, NEW j \in DOMAIN jobs
        PROVE  /\ processed' = Append(processed, j)
                    => /\ jobs[j] <= clock
                       /\ \A k \in DOMAIN jobs : Waits(k) => ~Before(k, j)
               /\ loopPc = "walk" /\ loopPc' = "complete"
                    => (Waits(j) => jobs[j] > loopTime)
    <2>1. /\ Sorted(waitJobs) /\ Registered(waitJobs, jobs)
          /\ waitJobs \in Seq(Job) /\ jobs \in Seq(Nat)
          /\ clock \in Nat /\ loopTime \in Nat /\ loopTime <= clock
      BY <1>3 DEF SchedInv, SchedType, Sorted
    <2>2. ASSUME processed' = Append(processed, j)
          PROVE  /\ jobs[j] <= clock
                 /\ \A k \in DOMAIN jobs : Waits(k) => ~Before(k, j)
      <3>1. /\ j = Head(waitJobs).second
            /\ waitJobs # << >> /\ Head(waitJobs).first <= loopTime
        <4>1. j \in 1 .. Len(jobs)
          BY <2>1
        <4> QED
          BY <1>3, <2>2, <4>1, LongerIsProcess DEF Process, FirstDue
      <3>2. Head(waitJobs) = waitJobs[1] /\ 1 \in 1 .. Len(waitJobs)
        BY <2>1, <3>1, FirstErased
      <3>3. PICK t \in Nat : t = waitJobs[1].first /\ t = jobs[j] /\ t <= loopTime
        BY <2>1, <3>1, <3>2 DEF Registered, Job
      <3>4. ASSUME NEW k \in DOMAIN jobs, Waits(k) PROVE ~Before(k, j)
        <4>1. PICK i \in 1 .. Len(waitJobs) : waitJobs[i].second = k
          BY <2>1, <3>4 DEF Waits
        <4>2. CASE i = 1
          <5>1. k = j
            BY <3>1, <3>2, <4>1, <4>2
          <5>2. k \in Nat /\ jobs[k] \in Nat
            BY <2>1
          <5> QED
            BY <5>1, <5>2 DEF Before
        <4>3. CASE i # 1
          <5>1. 1 < i
            BY <4>1, <4>3
          <5>2. Earlier(waitJobs[1], waitJobs[i])
            BY <2>1, <3>2, <4>1, <5>1 DEF Sorted
          <5>3. PICK u \in Nat : u = waitJobs[i].first /\ u = jobs[k]
            BY <2>1, <4>1 DEF Registered, Job
          <5>4. t < u \/ (t = u /\ j < k)
            BY <3>1, <3>2, <3>3, <4>1, <5>2, <5>3 DEF Earlier
          <5>5. j \in Nat /\ k \in Nat
            BY <2>1
          <5> QED
            BY <3>3, <5>3, <5>4, <5>5 DEF Before
        <4> QED
          BY <4>2, <4>3
      <3> QED
        BY <2>1, <3>3, <3>4
    <2>3. ASSUME loopPc = "walk", loopPc' = "complete", Waits(j)
          PROVE  jobs[j] > loopTime
      <3>1. ~ FirstDue
        BY <1>3, <2>3 DEF SchedNext, Tick, Regist, Loop, Process, WalkEnds, Complete,
                          CallbackReturns, LoopReturns, LoopGoes, schedVars
      <3>2. PICK i \in 1 .. Len(waitJobs) : waitJobs[i].second = j
        BY <2>1, <2>3 DEF Waits
      <3>3. waitJobs # << >>
        <4>1. waitJobs = << >> => Len(waitJobs) = 0
          OBVIOUS
        <4> QED
          BY <3>2, <4>1
      <3>4. Head(waitJobs) = waitJobs[1] /\ 1 \in 1 .. Len(waitJobs)
        BY <2>1, <3>3, FirstErased
      <3>5. PICK t \in Nat : t = waitJobs[1].first /\ t > loopTime
        <4>1. waitJobs[1] \in Job
          BY <2>1, <3>4
        <4>2. PICK t \in Nat : t = waitJobs[1].first
          BY <4>1 DEF Job
        <4>3. ~ (t <= loopTime)
          BY <3>1, <3>3, <3>4, <4>2 DEF FirstDue
        <4> QED
          BY <2>1, <4>2, <4>3
      <3>6. PICK u \in Nat : u = waitJobs[i].first /\ u = jobs[j]
        <4>1. waitJobs[i] \in Job
          BY <2>1, <3>2
        <4> QED
          BY <2>1, <3>2, <4>1 DEF Registered, Job
      <3>7. t <= u
        <4>1. CASE i = 1
          <5>1. waitJobs[i] = waitJobs[1]
            BY <4>1
          <5>2. t = u
            BY <3>5, <3>6, <5>1
          <5> QED
            BY <5>2
        <4>2. CASE i # 1
          <5>1. 1 < i
            BY <3>2, <4>2
          <5>2. Earlier(waitJobs[1], waitJobs[i])
            BY <2>1, <3>2, <3>4, <5>1 DEF Sorted
          <5> QED
            BY <3>5, <3>6, <5>2 DEF Earlier
        <4> QED
          BY <4>1, <4>2
      <3> QED
        BY <2>1, <3>5, <3>6, <3>7
    <2> QED
      BY <2>2, <2>3
  <1>4. SchedInv /\ [SchedNext]_schedVars =>
          [\A j \in DOMAIN jobs :
             /\ processed' = Append(processed, j)
                  => /\ jobs[j] <= clock
                     /\ \A k \in DOMAIN jobs : Waits(k) => ~Before(k, j)
             /\ loopPc = "walk" /\ loopPc' = "complete"
                  => (Waits(j) => jobs[j] > loopTime)]_schedVars
    BY <1>3
  <1>5. SchedInv => RunsOnce
    <2> SUFFICES ASSUME SchedInv PROVE RunsOnce
      OBVIOUS
    <2>1. DOMAIN jobs = 1 .. Len(jobs) /\ DOMAIN processed = 1 .. Len(processed)
          /\ DOMAIN waitJobs = 1 .. Len(waitJobs)
      BY DEF SchedInv, SchedType, Ledger, Sorted
    <2>2. loopPc = "out" => completed = processed
      BY DEF SchedInv, SchedType, Ledger
    <2> QED
      BY <2>1, <2>2 DEF SchedInv, Ledger, On, In, NoRepeat, RunsOnce, Waits, Ran
  <1> QED
    BY <1>1, <1>2, <1>4, <1>5, PTL DEF SchedSpec, JobsDue

=============================================================================
