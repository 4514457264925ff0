----------------------- MODULE MultiToSingleList_proofs -----------------------
(***************************************************************************)
(* For any number of producers, pushes and addresses: no thread touches a  *)
(* freed node, and the list implements SendList.                           *)
(*                                                                         *)
(* NoUseAfterFree is not inductive.  That the node a producer will link    *)
(* has not been freed rests on its _next being null while pop_front frees  *)
(* only nodes with a successor; that its _next is still null rests on no   *)
(* other producer linking the same node; and that the popped list goes on  *)
(* in allocated nodes rests on every node being pointed to from one place. *)
(* Ownership says these things.                                            *)
(*                                                                         *)
(* For the refinement the nodes from _head to _tail are a sequence, each   *)
(* the Successor of the one before it (Spine).  Swing appends to it, Pop   *)
(* takes its first off, and Chain, which walks from _head, finds its rest. *)
(***************************************************************************)
EXTENDS MultiToSingleList, SetInduction, SequenceTheorems

USE NullAssumption, PushesAssumption

\* The nodes that can be reached: each from one place.
Reachable ==
    /\ head \in allocated /\ tail \in allocated
    /\ next[tail] = Null
    /\ \A n \in allocated :
         next[n] # Null => next[n] \in allocated /\ next[n] # head
    /\ \A m, n \in allocated : next[m] = next[n] /\ next[m] # Null => m = n

\* A new node belongs to its producer until it is linked.
NewNodes ==
    /\ \A p \in Producers : InPush(p) =>
         /\ newNode[p] \in allocated /\ newNode[p] # head
         /\ \A n \in allocated : next[n] # newNode[p]
    /\ \A p, q \in Producers :
         InPush(p) /\ InPush(q) /\ newNode[p] = newNode[q] => p = q
    /\ \A p \in Producers : pc[p] = "swing" =>
         newNode[p] # tail /\ next[newNode[p]] = Null

\* A former tail belongs to the producer that replaced it.
FormerTails ==
    /\ \A p \in Producers : Linking(p) =>
         /\ curTail[p] \in allocated /\ curTail[p] # tail
         /\ next[curTail[p]] = Null
    /\ \A p, q \in Producers :
         Linking(p) /\ Linking(q) /\ curTail[p] = curTail[q] => p = q
    /\ \A p, q \in Producers :
         Linking(p) /\ pc[q] = "swing" => curTail[p] # newNode[q]

Ownership == Reachable /\ NewNodes /\ FormerTails

Inv == TypeOK /\ Ownership

----------------------------------------------------------------------------

\* The constructor's list has the right types.
LEMMA InitType == Init => TypeOK
  BY DEF Init, TypeOK, InPush

\* Appending to a sequence keeps its type.
LEMMA AppendType ==
  ASSUME NEW S, NEW s \in Seq(S), NEW e \in S
  PROVE  Append(s, e) \in Seq(S)
  OBVIOUS

\* Every step keeps the types.
LEMMA TypeStep == TypeOK /\ [Next]_listState => TypeOK'
<1> SUFFICES ASSUME TypeOK, [Next]_listState PROVE TypeOK'
  OBVIOUS
<1> USE DEF TypeOK, InPush
<1>1. ASSUME NEW p \in Producers, Load(p) PROVE TypeOK'
  <2>1. pushes' \in [Producers -> 0 .. MaxPushes] /\ pushes'[p] \in 1 .. MaxPushes
    BY <1>1 DEF Load
  <2>2. <<p, pushes'[p]>> \in Values
    BY <2>1 DEF Values
  <2> QED
    BY <1>1, <2>1, <2>2 DEF Load
<1>2. ASSUME NEW p \in Producers, Swing(p) PROVE TypeOK'
  BY <1>2 DEF Swing
<1>3. ASSUME NEW p \in Producers, SwingFails(p) PROVE TypeOK'
  BY <1>3 DEF SwingFails
<1>4. ASSUME NEW p \in Producers, Link(p) PROVE TypeOK'
  BY <1>4 DEF Link
<1>5. CASE Pop
  <2>1. head' \in Nodes
    BY <1>5 DEF Pop
  <2>2. popped' \in Seq(Values \cup {Null})
    BY <1>5, <2>1, AppendType DEF Pop
  <2> QED
    BY <1>5, <2>1, <2>2 DEF Pop
<1>6. CASE UNCHANGED listState
  BY <1>6 DEF listState
<1> QED
  BY <1>1, <1>2, <1>3, <1>4, <1>5, <1>6 DEF Next, Producer

\* Every variable of the list keeps to its range, and a producer owns a node
\* exactly while it is in push_back.
THEOREM TypeCorrect == Spec => []TypeOK
  BY InitType, TypeStep, PTL DEF Spec

----------------------------------------------------------------------------

\* The constructor's dummy node is all there is.
LEMMA InitOwnership == Init => Ownership
  BY DEF Init, Ownership, Reachable, NewNodes, FormerTails, InPush, Linking

\* A new node is nobody else's.
LEMMA LoadOwnership ==
  ASSUME Inv, NEW p \in Producers, Load(p)
  PROVE  Ownership'
<1> USE DEF Inv, TypeOK, Ownership, InPush, Linking
<1> PICK n \in Nodes \ allocated :
      /\ allocated' = allocated \cup {n}
      /\ newNode' = [newNode EXCEPT ![p] = n]
      /\ next' = [next EXCEPT ![n] = Null]
  BY DEF Load
<1>1. Reachable'
  BY DEF Load, Reachable
<1>2. NewNodes'
  BY DEF Load, Reachable, NewNodes
<1>3. FormerTails'
  BY DEF Load, Reachable, NewNodes, FormerTails
<1> QED
  BY <1>1, <1>2, <1>3

\* The exchange succeeds only on the present tail, which no other producer has
\* replaced, whatever became of its address in between.
LEMMA SwingOwnership ==
  ASSUME Inv, NEW p \in Producers, Swing(p)
  PROVE  Ownership'
<1> USE DEF Inv, TypeOK, Ownership, InPush, Linking
<1>1. Reachable'
  BY DEF Swing, Reachable, NewNodes
<1>2. NewNodes'
  BY DEF Swing, NewNodes
<1>3. FormerTails'
  BY DEF Swing, Reachable, NewNodes, FormerTails
<1> QED
  BY <1>1, <1>2, <1>3

\* A linked node leaves its producer's hands.
LEMMA LinkOwnership ==
  ASSUME Inv, NEW p \in Producers, Link(p)
  PROVE  Ownership'
<1> USE DEF Inv, TypeOK, Ownership, InPush, Linking
<1>1. Reachable'
  BY DEF Link, Reachable, NewNodes, FormerTails
<1>2. NewNodes'
  BY DEF Link, NewNodes, FormerTails
<1>3. FormerTails'
  BY DEF Link, FormerTails
<1> QED
  BY <1>1, <1>2, <1>3

\* The node that is freed has a successor, so it is nobody's former tail.
LEMMA PopOwnership ==
  ASSUME Inv, Pop
  PROVE  Ownership'
<1> USE DEF Inv, TypeOK, Ownership, InPush, Linking
<1>1. Reachable'
  BY DEF Pop, Reachable
<1>2. NewNodes'
  BY DEF Pop, Reachable, NewNodes
<1>3. FormerTails'
  BY DEF Pop, Reachable, FormerTails
<1> QED
  BY <1>1, <1>2, <1>3

\* The invariant is inductive.
LEMMA InvStep == Inv /\ [Next]_listState => Inv'
<1> SUFFICES ASSUME Inv, [Next]_listState PROVE Inv'
  OBVIOUS
<1>1. TypeOK'
  BY TypeStep DEF Inv
<1>2. ASSUME NEW p \in Producers, SwingFails(p) PROVE Ownership'
  BY <1>2 DEF Inv, TypeOK, Ownership, Reachable, NewNodes, FormerTails, InPush,
              Linking, SwingFails
<1>3. ASSUME UNCHANGED listState PROVE Ownership'
  BY <1>3 DEF Inv, Ownership, Reachable, NewNodes, FormerTails, InPush, Linking,
              listState
<1>4. Ownership'
  BY <1>2, <1>3, LoadOwnership, SwingOwnership, LinkOwnership, PopOwnership
     DEF Next, Producer
<1> QED
  BY <1>1, <1>4 DEF Inv

\* No thread touches a freed node, although pop_front frees nodes without a
\* lock and the allocator gives their addresses out again.
THEOREM NoUseAfterFreeCorrect == Spec => []NoUseAfterFree
<1>1. Init => Inv
  BY InitType, InitOwnership DEF Inv
<1>2. Inv => NoUseAfterFree
  BY DEF Inv, Ownership, Reachable, NewNodes, FormerTails, NoUseAfterFree
<1> QED
  BY <1>1, <1>2, InvStep, PTL DEF Spec

----------------------------------------------------------------------------
(* The list as a sequence of nodes *)

\* s are the nodes from _head to _tail, each the successor of the one before it.
Spine(s) ==
    /\ s \in Seq(Nodes) /\ Len(s) > 0
    /\ \A i \in 1 .. Len(s) : s[i] \in allocated
    /\ s[1] = head /\ s[Len(s)] = tail
    /\ \A i \in 1 .. Len(s) - 1 : Successor(s[i]) = s[i + 1]
    /\ \A i, j \in 1 .. Len(s) : s[i] = s[j] => i = j

\* What a producer is about to push is a value.
NewValues == \A p \in Producers : InPush(p) => val[newNode[p]] \in Values

ListInv == Inv /\ NewValues /\ \E s : Spine(s)

\* The successor without a choice: a node has one producer at most.
LEMMA SuccessorIs ==
  ASSUME Inv, NEW n \in Nodes
  PROVE  /\ next[n] # Null => Successor(n) = next[n]
         /\ \A p \in Producers :
              Linking(p) /\ curTail[p] = n => Successor(n) = newNode[p]
         /\ next[n] = Null /\ (\A p \in Producers : ~ (Linking(p) /\ curTail[p] = n))
              => Successor(n) = Null
<1>1. ASSUME NEW p \in Producers, Linking(p), curTail[p] = n
      PROVE  Successor(n) = newNode[p]
  <2>1. next[n] = Null
    BY <1>1 DEF Inv, Ownership, FormerTails
  <2>2. \A q \in Producers : Linking(q) /\ curTail[q] = n => q = p
    BY <1>1 DEF Inv, Ownership, FormerTails
  <2>3. (CHOOSE q \in Producers : Linking(q) /\ curTail[q] = n) = p
    BY <1>1, <2>2
  <2> QED
    BY <1>1, <2>1, <2>3 DEF Successor
<1> QED
  BY <1>1 DEF Successor

\* The tail has no successor.
LEMMA TailIsLast == Inv => Successor(tail) = Null
<1> SUFFICES ASSUME Inv PROVE Successor(tail) = Null
  OBVIOUS
<1>1. tail \in Nodes /\ next[tail] = Null
      /\ \A p \in Producers : ~ (Linking(p) /\ curTail[p] = tail)
  BY DEF Inv, TypeOK, Ownership, Reachable, FormerTails
<1> QED
  BY <1>1, SuccessorIs

\* A step that leaves a node's _next and the producers about to link it alone
\* leaves its successor alone.
LEMMA SuccessorKept ==
  ASSUME Inv, Inv', NEW n \in Nodes, next'[n] = next[n],
         \A p \in Producers : Linking(p)' /\ curTail'[p] = n <=>
                              Linking(p) /\ curTail[p] = n,
         \A p \in Producers : Linking(p) /\ curTail[p] = n =>
                              newNode'[p] = newNode[p]
  PROVE  Successor(n)' = Successor(n)
<1>1. CASE \E p \in Producers : Linking(p) /\ curTail[p] = n
  <2>1. PICK p \in Producers : Linking(p) /\ curTail[p] = n
    BY <1>1
  <2>2. next[n] = Null /\ next'[n] = Null
    BY <2>1 DEF Inv, Ownership, FormerTails
  <2>3. \A q \in Producers : Linking(q) /\ curTail[q] = n => q = p
    BY <2>1 DEF Inv, Ownership, FormerTails
  <2>4. (CHOOSE q \in Producers : Linking(q) /\ curTail[q] = n) = p
    BY <2>1, <2>3
  <2>5. (CHOOSE q \in Producers : Linking(q)' /\ curTail'[q] = n) = p
    BY <2>1, <2>3
  <2>6. Successor(n) = newNode[p]
    BY <2>1, <2>2, <2>4 DEF Successor
  <2>7. Successor(n)' = newNode'[p]
    BY <2>1, <2>2, <2>5 DEF Successor
  <2> QED
    BY <2>1, <2>6, <2>7
<1>2. CASE ~ \E p \in Producers : Linking(p) /\ curTail[p] = n
  BY <1>2 DEF Successor
<1> QED
  BY <1>1, <1>2

\* c is the walk along the successors that Chain takes.
IsWalk(c) ==
    c = [i \in 0 .. Cardinality(Nodes) |->
           IF i = 0 THEN head
           ELSE IF c[i - 1] = Null THEN Null ELSE Successor(c[i - 1])]

Visited(c) == {i \in 1 .. Cardinality(Nodes) : c[i] # Null}

ChainOf(c) == [i \in 1 .. Cardinality(Visited(c)) |-> c[i]]

\* There are no more nodes on the way than addresses.
LEMMA SpineFits ==
  ASSUME NEW s, Spine(s)
  PROVE  Cardinality(Nodes) \in Nat /\ Len(s) <= Cardinality(Nodes)
<1>1. IsFiniteSet(Nodes) /\ Cardinality(Nodes) \in Nat
  BY NodesAssumption, FS_CardinalityType
<1>2. s \in Injection(1 .. Len(s), Nodes)
  BY DEF Spine, Injection, IsInjective
<1>3. Cardinality(1 .. Len(s)) <= Cardinality(Nodes)
  BY <1>1, <1>2, FS_Injection
<1>4. Len(s) \in Nat /\ Len(s) > 0
  BY DEF Spine
<1>5. Cardinality(1 .. Len(s)) = Len(s)
  BY <1>4, FS_Interval
<1> QED
  BY <1>1, <1>3, <1>5

\* The walk follows the spine, and then stays at Null.
LEMMA WalkIs ==
  ASSUME Inv, NEW s, Spine(s), NEW c, IsWalk(c)
  PROVE  \A i \in 0 .. Cardinality(Nodes) :
           c[i] = IF i < Len(s) THEN s[i + 1] ELSE Null
<1>1. PICK n \in Nat, l \in Nat : n = Cardinality(Nodes) /\ l = Len(s) /\ l > 0
  BY SpineFits DEF Spine
<1>2. \A i \in 0 .. n :
        c[i] = IF i = 0 THEN head
               ELSE IF c[i - 1] = Null THEN Null ELSE Successor(c[i - 1])
  BY <1>1, Zenon DEF IsWalk
<1> DEFINE S == {i \in Nat : i <= n => c[i] = IF i < l THEN s[i + 1] ELSE Null}
<1>3. 0 \in S
  BY <1>1, <1>2 DEF Spine
<1>4. ASSUME NEW i \in Nat, i \in S PROVE i + 1 \in S
  <2>1. SUFFICES ASSUME i + 1 <= n
                 PROVE  c[i + 1] = IF i + 1 < l THEN s[i + 1 + 1] ELSE Null
    OBVIOUS
  <2>2. c[i] = IF i < l THEN s[i + 1] ELSE Null
    BY <1>1, <1>4, <2>1
  <2>3. c[i + 1] = IF c[i] = Null THEN Null ELSE Successor(c[i])
    <3>1. i + 1 \in 0 .. n /\ i + 1 # 0 /\ (i + 1) - 1 = i
      BY <1>1, <2>1
    <3> QED
      BY <1>2, <3>1
  <2>4. CASE ~ (i < l)
    BY <1>1, <2>2, <2>3, <2>4
  <2>5. CASE i < l
    <3>1. i + 1 \in 1 .. l /\ s[i + 1] \in Nodes
      BY <1>1, <2>5 DEF Spine
    <3>2. c[i + 1] = Successor(s[i + 1])
      BY <2>2, <2>3, <2>5, <3>1
    <3>3. CASE i + 1 < l
      <4>1. i + 1 \in 1 .. Len(s) - 1
        BY <1>1, <3>3
      <4> QED
        BY <1>1, <3>2, <3>3, <4>1 DEF Spine
    <3>4. CASE i + 1 = l
      BY <1>1, <3>2, <3>4, TailIsLast DEF Spine
    <3> QED
      BY <1>1, <2>5, <3>3, <3>4
  <2> QED
    BY <2>4, <2>5
<1> HIDE DEF S
<1>5. Nat \subseteq S
  BY <1>3, <1>4, NatSetInduction
<1> QED
  BY <1>1, <1>5 DEF S

\* Chain is what follows the first node of the spine.
SpineChain == \A s : Inv /\ Spine(s) => Chain = Tail(s)

LEMMA ChainIsTail == SpineChain
<1> SUFFICES ASSUME NEW s, Inv, Spine(s) PROVE Chain = Tail(s)
  BY DEF SpineChain
<1>1. PICK n \in Nat, l \in Nat :
        n = Cardinality(Nodes) /\ l = Len(s) /\ 0 < l /\ l <= n
  BY SpineFits DEF Spine
<1> DEFINE w == [i \in 0 .. n |-> IF i < l THEN s[i + 1] ELSE Null]
<1>2. IsWalk(w)
  <2>1. ASSUME NEW i \in 0 .. n
        PROVE  w[i] = IF i = 0 THEN head
                      ELSE IF w[i - 1] = Null THEN Null ELSE Successor(w[i - 1])
    <3>1. CASE i = 0
      BY <1>1, <3>1 DEF Spine
    <3>2. CASE i > 0 /\ i - 1 < l
      <4>1. i \in 1 .. l /\ i - 1 \in 0 .. n /\ (i - 1) + 1 = i /\ s[i] \in Nodes
        BY <1>1, <3>2 DEF Spine
      <4>2. w[i - 1] = s[i] /\ w[i - 1] # Null
        BY <3>2, <4>1
      <4>3. Successor(s[i]) = IF i < l THEN s[i + 1] ELSE Null
        <5>1. CASE i < l
          <6>1. i \in 1 .. Len(s) - 1
            BY <1>1, <4>1, <5>1
          <6> QED
            BY <5>1, <6>1 DEF Spine
        <5>2. CASE i = l
          BY <1>1, <5>2, TailIsLast DEF Spine
        <5> QED
          BY <4>1, <5>1, <5>2
      <4> HIDE DEF w
      <4>4. w[i] = IF i < l THEN s[i + 1] ELSE Null
        BY DEF w
      <4> QED
        BY <3>2, <4>2, <4>3, <4>4
    <3>3. CASE i > 0 /\ ~ (i - 1 < l)
      BY <1>1, <3>3
    <3> QED
      BY <3>1, <3>2, <3>3
  <2>2. w = [i \in 0 .. n |-> w[i]]
    OBVIOUS
  <2> HIDE DEF w
  <2>3. w = [i \in 0 .. n |-> IF i = 0 THEN head
                 ELSE IF w[i - 1] = Null THEN Null ELSE Successor(w[i - 1])]
    BY <2>1, <2>2, Zenon
  <2> QED
    BY <1>1, <2>3 DEF IsWalk
<1>3. PICK c : IsWalk(c) /\ Chain = ChainOf(c)
  <2>1. Chain = ChainOf(CHOOSE c : IsWalk(c))
    BY DEF Chain, ChainOf, Visited, IsWalk
  <2> QED
    BY <1>2, <2>1
<1>4. \A i \in 0 .. n : c[i] = IF i < l THEN s[i + 1] ELSE Null
  BY <1>1, <1>3, WalkIs
<1>5. Visited(c) = 1 .. l - 1
  <2>1. ASSUME NEW i \in 1 .. n PROVE c[i] # Null <=> i < l
    <3>1. i \in 0 .. n
      OBVIOUS
    <3>2. i < l => i + 1 \in 1 .. l
      BY <1>1
    <3>3. i < l => s[i + 1] \in Nodes
      BY <1>1, <3>2 DEF Spine
    <3> QED
      BY <1>4, <3>1, <3>3
  <2> QED
    BY <1>1, <2>1 DEF Visited
<1>6. Cardinality(1 .. l - 1) = l - 1
  BY <1>1, FS_Interval
<1>7. Chain = [i \in 1 .. l - 1 |-> c[i]]
  BY <1>3, <1>5, <1>6 DEF ChainOf
<1>8. /\ Tail(s) \in Seq(Nodes) /\ Len(Tail(s)) = l - 1
      /\ \A i \in 1 .. l - 1 : Tail(s)[i] = s[i + 1]
  <2>1. s \in Seq(Nodes) /\ s # << >>
    BY <1>1 DEF Spine
  <2> QED
    BY <1>1, <2>1, HeadTailProperties
<1>9. \A i \in 1 .. l - 1 : c[i] = s[i + 1]
  BY <1>1, <1>4
<1>10. Chain \in Seq(Nodes) /\ Len(Chain) = l - 1
  <2>1. \A i \in 1 .. l - 1 : i + 1 \in 1 .. Len(s)
    BY <1>1
  <2>2. \A i \in 1 .. l - 1 : c[i] \in Nodes
    BY <1>9, <2>1 DEF Spine
  <2> QED
    BY <1>1, <1>7, <2>2
<1>11. \A i \in 1 .. l - 1 : Chain[i] = Tail(s)[i]
  BY <1>7, <1>8, <1>9
<1> QED
  BY <1>8, <1>10, <1>11, SeqEqual

LEMMA ChainIsTailNext == SpineChain'
  BY ChainIsTail, PTL

\* The values of the nodes behind the first of s.
BehindFirst(s, v) == [i \in 1 .. Len(s) - 1 |-> v[s[i + 1]]]

\* The items of the list, by the spine.
LEMMA ItemsAre ==
  ASSUME Inv, NEW s, Spine(s)
  PROVE  /\ Chain = Tail(s)
         /\ [i \in 1 .. Len(Chain) |-> val[Chain[i]]]
              = BehindFirst(s, val)
<1>1. Chain = Tail(s)
  BY ChainIsTail DEF SpineChain
<1>2. s \in Seq(Nodes) /\ s # << >>
  BY DEF Spine
<1> QED
  BY <1>1, <1>2, HeadTailProperties DEF BehindFirst

\* The same after a step.
LEMMA ItemsAreNext ==
  ASSUME Inv', NEW s, Spine(s)'
  PROVE  /\ Chain' = Tail(s)
         /\ [i \in 1 .. Len(Chain') |-> val'[Chain'[i]]]
              = BehindFirst(s, val')
<1>1. Chain' = Tail(s)
  BY ChainIsTailNext DEF SpineChain
<1>2. s \in Seq(Nodes) /\ s # << >>
  BY DEF Spine
<1> QED
  BY <1>1, <1>2, HeadTailProperties DEF BehindFirst

----------------------------------------------------------------------------
(* The spine from step to step *)

\* A step that frees nothing and leaves _head, _tail and the spine's successors
\* alone.
LEMMA SpineKept ==
  ASSUME NEW s, Spine(s), UNCHANGED <<head, tail>>, allocated \subseteq allocated',
         \A n \in allocated : Successor(n)' = Successor(n)
  PROVE  Spine(s)'
<1>1. ASSUME NEW i \in 1 .. Len(s) - 1 PROVE Successor(s[i])' = s[i + 1]
  <2>1. i \in 1 .. Len(s) /\ s[i] \in allocated
    BY DEF Spine
  <2>2. Successor(s[i])' = Successor(s[i])
    BY <2>1
  <2> QED
    BY <2>2 DEF Spine
<1>2. \A i \in 1 .. Len(s) : s[i] \in allocated'
  BY DEF Spine
<1> QED
  BY <1>1, <1>2 DEF Spine

\* The items are the same if their values are.
LEMMA ItemsKept ==
  ASSUME Inv, Inv', NEW s, Spine(s), Spine(s)',
         \A n \in allocated : val'[n] = val[n], UNCHANGED popped
  PROVE  UNCHANGED List!listVars
<1>1. \A i \in 1 .. Len(s) - 1 : val'[s[i + 1]] = val[s[i + 1]]
  <2>1. ASSUME NEW i \in 1 .. Len(s) - 1 PROVE i + 1 \in 1 .. Len(s)
    BY DEF Spine
  <2> QED
    BY <2>1 DEF Spine
<1>2. BehindFirst(s, val') = BehindFirst(s, val)
  BY <1>1 DEF BehindFirst
<1> QED
  BY <1>2, ItemsAre, ItemsAreNext DEF List!listVars

LEMMA LoadList ==
  ASSUME ListInv, Inv', NEW p \in Producers, Load(p)
  PROVE  ListInv' /\ UNCHANGED List!listVars
<1>1. PICK s : Spine(s)
  BY DEF ListInv
<1>2. PICK n \in Nodes \ allocated :
        /\ allocated' = allocated \cup {n}
        /\ newNode' = [newNode EXCEPT ![p] = n]
        /\ next' = [next EXCEPT ![n] = Null]
        /\ val' = [val EXCEPT ![n] = <<p, pushes'[p]>>]
  BY DEF Load
<1>3. Inv /\ TypeOK /\ Ownership
  BY DEF ListInv, Inv
<1>4. ASSUME NEW m \in allocated
      PROVE  Successor(m)' = Successor(m) /\ val'[m] = val[m]
  <2>1. m \in Nodes /\ m # n
    BY <1>2, <1>3, <1>4 DEF TypeOK
  <2>2. next'[m] = next[m] /\ val'[m] = val[m]
    BY <1>2, <1>3, <2>1 DEF TypeOK
  <2>3. \A q \in Producers : Linking(q)' /\ curTail'[q] = m <=>
                             Linking(q) /\ curTail[q] = m
    BY <1>3 DEF Load, TypeOK, Linking
  <2>4. \A q \in Producers : Linking(q) => newNode'[q] = newNode[q]
    BY <1>2, <1>3 DEF Load, TypeOK, Linking
  <2> QED
    BY <1>3, <2>1, <2>2, <2>3, <2>4, SuccessorKept
<1>5. Spine(s)'
  BY <1>1, <1>2, <1>4, SpineKept DEF Load
<1>6. NewValues'
  <2>1. pushes'[p] \in 1 .. MaxPushes /\ <<p, pushes'[p]>> \in Values
    BY <1>3 DEF Load, TypeOK, Values
  <2>2. ASSUME NEW q \in Producers, InPush(q)' PROVE val'[newNode'[q]] \in Values
    <3>1. CASE q = p
      BY <1>2, <1>3, <2>1, <3>1 DEF TypeOK
    <3>2. CASE q # p
      <4>1. InPush(q) /\ newNode'[q] = newNode[q]
        BY <1>2, <1>3, <2>2, <3>2 DEF Load, TypeOK, InPush
      <4>2. newNode[q] \in allocated /\ val[newNode[q]] \in Values
        BY <1>3, <4>1 DEF ListInv, NewValues, Ownership, NewNodes
      <4> QED
        BY <1>4, <4>1, <4>2
    <3> QED
      BY <3>1, <3>2
  <2> QED
    BY <2>2 DEF NewValues
<1>7. UNCHANGED List!listVars
  BY <1>1, <1>3, <1>4, <1>5, ItemsKept DEF Load
<1> QED
  BY <1>5, <1>6, <1>7 DEF ListInv

\* What SuccessorIs says, of the list after a step.
SuccessorsKnown ==
    Inv => \A n \in Nodes :
      /\ next[n] # Null => Successor(n) = next[n]
      /\ \A p \in Producers :
           Linking(p) /\ curTail[p] = n => Successor(n) = newNode[p]

LEMMA SuccessorsAre == SuccessorsKnown
  BY SuccessorIs DEF SuccessorsKnown

LEMMA SuccessorsAreNext == SuccessorsKnown'
  BY SuccessorsAre, PTL

\* A new node is not in the list.
LEMMA NewNodeApart ==
  ASSUME Inv, NEW s, Spine(s), NEW p \in Producers, pc[p] = "swing",
         NEW i \in 1 .. Len(s)
  PROVE  s[i] # newNode[p]
<1>1. Ownership /\ TypeOK
  BY DEF Inv
<1>2. InPush(p) /\ newNode[p] # Null
  BY <1>1 DEF InPush, TypeOK
<1>3. CASE i = 1
  BY <1>1, <1>2, <1>3 DEF Spine, Ownership, NewNodes
<1>4. CASE i > 1
  <2>1. PICK j \in 1 .. Len(s) - 1 : i = j + 1
    <3>1. i - 1 \in 1 .. Len(s) - 1 /\ i = (i - 1) + 1
      BY <1>4 DEF Spine
    <3> QED
      BY <3>1
  <2>2. /\ Successor(s[j]) = s[i] /\ s[j] \in allocated /\ s[i] \in allocated
        /\ s[j] \in Nodes /\ s[i] # Null
    BY <1>1, <2>1 DEF Spine, TypeOK
  <2>3. CASE next[s[j]] # Null
    <3>1. s[i] = next[s[j]]
      BY <2>2, <2>3, SuccessorIs
    <3> QED
      BY <1>1, <1>2, <2>2, <3>1 DEF Ownership, NewNodes
  <2>4. CASE \E q \in Producers : Linking(q) /\ curTail[q] = s[j]
    <3>1. PICK q \in Producers : Linking(q) /\ curTail[q] = s[j]
      BY <2>4
    <3>2. s[i] = newNode[q] /\ InPush(q) /\ q # p
      BY <2>2, <3>1, SuccessorIs DEF Linking, InPush
    <3> QED
      BY <1>1, <1>2, <3>2 DEF Ownership, NewNodes
  <2> QED
    BY <2>2, <2>3, <2>4, SuccessorIs
<1> QED
  BY <1>3, <1>4 DEF Spine

\* The exchange appends the new node to the spine.
LEMMA SwingList ==
  ASSUME ListInv, Inv', NEW p \in Producers, Swing(p)
  PROVE  ListInv' /\ \E v \in Values : List!Put(v)
<1>1. PICK s : Spine(s)
  BY DEF ListInv
<1>2. Inv /\ TypeOK /\ Ownership /\ NewValues
  BY DEF ListInv, Inv
<1>3. /\ pc[p] = "swing" /\ tail = curTail[p] /\ tail' = newNode[p]
      /\ pc' = [pc EXCEPT ![p] = "link"]
      /\ UNCHANGED <<head, next, val, allocated, newNode, curTail, pushes, popped>>
  BY DEF Swing
<1>4. PICK n \in Nodes : n = newNode[p] /\ n \in allocated /\ val[n] \in Values
  BY <1>2, <1>3 DEF TypeOK, InPush, Ownership, NewNodes, NewValues
<1>5. PICK l \in Nat : l = Len(s) /\ l > 0
  BY <1>1 DEF Spine
<1>6. /\ s \in Seq(Nodes) /\ s[l] = tail
      /\ \A i, j \in 1 .. l : s[i] = s[j] => i = j
      /\ \A i \in 1 .. l : s[i] \in allocated /\ s[i] # n
  BY <1>1, <1>2, <1>3, <1>4, <1>5, NewNodeApart DEF Spine
<1> DEFINE t == Append(s, n)
<1>7. /\ t \in Seq(Nodes) /\ Len(t) = l + 1 /\ t[l + 1] = n
      /\ \A i \in 1 .. l : t[i] = s[i]
      /\ Tail(t) = Append(Tail(s), n)
  BY <1>4, <1>5, <1>6, AppendProperties, HeadTailAppend
<1> HIDE DEF t
<1>8. ASSUME NEW m \in allocated, m # tail PROVE Successor(m)' = Successor(m)
  <2>1. m \in Nodes /\ next'[m] = next[m]
    BY <1>2, <1>3 DEF TypeOK
  <2>2. \A q \in Producers : Linking(q)' /\ curTail'[q] = m <=>
                             Linking(q) /\ curTail[q] = m
    BY <1>2, <1>3, <1>8 DEF TypeOK, Linking
  <2> QED
    BY <1>2, <1>3, <2>1, <2>2, SuccessorKept
<1>9. Successor(s[l])' = n
  <2>1. PICK m \in Nodes : m = s[l] /\ m = tail
    BY <1>2, <1>6 DEF TypeOK
  <2>2. Linking(p)' /\ curTail'[p] = m /\ newNode'[p] = n
    BY <1>2, <1>3, <1>4, <2>1 DEF TypeOK, Linking
  <2>3. Successor(m)' = newNode'[p]
    BY <2>2, SuccessorsAreNext DEF SuccessorsKnown
  <2> QED
    BY <2>1, <2>2, <2>3
<1>10. Spine(t)'
  <2>1. ASSUME NEW i \in 1 .. l PROVE Successor(t[i])' = t[i + 1]
    <3>1. CASE i = l
      BY <1>6, <1>7, <1>9, <3>1
    <3>2. CASE i < l
      <4>1. i \in 1 .. Len(s) - 1 /\ i + 1 \in 1 .. l
        BY <1>5, <3>2
      <4>2. s[i] # tail /\ s[i] \in allocated
        BY <1>5, <1>6, <3>2
      <4>3. Successor(s[i])' = s[i + 1]
        BY <1>1, <1>8, <4>1, <4>2 DEF Spine
      <4> QED
        BY <1>7, <4>1, <4>3
    <3> QED
      BY <3>1, <3>2
  <2>2. \A i, j \in 1 .. l + 1 : t[i] = t[j] => i = j
    BY <1>6, <1>7
  <2>3. \A i \in 1 .. l + 1 : t[i] \in allocated'
    BY <1>3, <1>4, <1>6, <1>7
  <2>4. t[1] = head' /\ t[l + 1] = tail'
    BY <1>1, <1>3, <1>4, <1>5, <1>7 DEF Spine
  <2>5. Len(t) - 1 = l
    BY <1>7
  <2>6. Len(t) = l + 1 /\ Len(t) > 0 /\ t \in Seq(Nodes)
    BY <1>7
  <2> QED
    BY <2>1, <2>2, <2>3, <2>4, <2>5, <2>6 DEF Spine
<1>11. NewValues'
  BY <1>2, <1>3 DEF NewValues, InPush, TypeOK
<1>12. List!Put(val[n])
  <2>1. /\ Chain = Tail(s)
        /\ [i \in 1 .. Len(Chain) |-> val[Chain[i]]]
             = BehindFirst(s, val)
    BY <1>1, <1>2, ItemsAre
  <2>2. /\ Chain' = Tail(t)
        /\ [i \in 1 .. Len(Chain') |-> val'[Chain'[i]]]
             = BehindFirst(t, val')
    BY <1>10, ItemsAreNext
  <2>3. BehindFirst(t, val') = Append(BehindFirst(s, val), val[n])
    <3> DEFINE f == [i \in 1 .. l |-> val'[t[i + 1]]]
               g == [i \in 1 .. l - 1 |-> val[s[i + 1]]]
               V == Values \cup {Null}
    <3>1. ASSUME NEW i \in 1 .. l - 1
          PROVE  g[i] = val[s[i + 1]] /\ f[i] = g[i] /\ g[i] \in V
      <4>1. i + 1 \in 1 .. l /\ i \in 1 .. l
        BY <1>5
      <4>2. s[i + 1] \in Nodes /\ t[i + 1] = s[i + 1]
        BY <1>5, <1>6, <1>7, <4>1
      <4> QED
        BY <1>2, <1>3, <4>1, <4>2 DEF TypeOK
    <3>2. f[l] = val[n] /\ val[n] \in V
      BY <1>3, <1>4, <1>5, <1>7
    <3>3. l - 1 \in Nat
      BY <1>5
    <3>4. g \in Seq(V) /\ Len(g) = l - 1
      <4>1. g \in [1 .. l - 1 -> V]
        BY <3>1
      <4> HIDE DEF g, V
      <4>2. DOMAIN g = 1 .. l - 1
        BY <4>1
      <4> QED
        BY <3>3, <4>1, <4>2
    <3>5. f \in Seq(V) /\ Len(f) = l
      <4>1. \A i \in 1 .. l : i = l \/ i \in 1 .. l - 1
        BY <1>5
      <4>2. f \in [1 .. l -> V]
        BY <3>1, <3>2, <4>1
      <4> HIDE DEF f, V
      <4>3. DOMAIN f = 1 .. l
        BY <4>2
      <4> QED
        BY <1>5, <4>2, <4>3
    <3>6. \A i \in 1 .. l - 1 : f[i] = g[i]
      BY <3>1
    <3> HIDE DEF f, g, V
    <3>7. /\ Append(g, val[n]) \in Seq(V) /\ Len(Append(g, val[n])) = l
          /\ \A i \in 1 .. l - 1 : Append(g, val[n])[i] = g[i]
          /\ Append(g, val[n])[l] = val[n]
      BY <1>5, <3>2, <3>4, AppendProperties
    <3>8. \A i \in 1 .. l : f[i] = Append(g, val[n])[i]
      <4>1. \A i \in 1 .. l : i = l \/ i \in 1 .. l - 1
        BY <1>5
      <4> QED
        BY <3>2, <3>6, <3>7, <4>1
    <3>9. f = Append(g, val[n])
      BY <3>5, <3>7, <3>8, SeqEqual
    <3>10. Len(t) - 1 = l /\ Len(s) - 1 = l - 1
      BY <1>5, <1>7
    <3> QED
      BY <3>9, <3>10 DEF f, g, BehindFirst
  <2> QED
    BY <1>3, <2>1, <2>2, <2>3 DEF List!Put
<1>13. \E v \in Values : List!Put(v)
  <2>1. PICK v \in Values : v = val[n]
    BY <1>4
  <2>2. List!Put(v)
    BY <1>12, <2>1 DEF List!Put
  <2> QED
    BY <2>2
<1>14. ListInv'
  BY <1>10, <1>11 DEF ListInv
<1> QED
  BY <1>13, <1>14

\* A failed exchange changes nothing the list is made of.
LEMMA SwingFailsList ==
  ASSUME ListInv, Inv', NEW p \in Producers, SwingFails(p)
  PROVE  ListInv' /\ UNCHANGED List!listVars
<1>1. PICK s : Spine(s)
  BY DEF ListInv
<1>2. Inv /\ TypeOK /\ NewValues
  BY DEF ListInv, Inv
<1>3. ASSUME NEW m \in allocated PROVE Successor(m)' = Successor(m)
  <2>1. m \in Nodes /\ next'[m] = next[m]
    BY <1>2 DEF SwingFails, TypeOK
  <2>2. \A q \in Producers : Linking(q)' /\ curTail'[q] = m <=>
                             Linking(q) /\ curTail[q] = m
    BY <1>2 DEF SwingFails, TypeOK, Linking
  <2> QED
    BY <1>2, <2>1, <2>2, SuccessorKept DEF SwingFails
<1>4. Spine(s)'
  BY <1>1, <1>3, SpineKept DEF SwingFails
<1>5. NewValues'
  BY <1>2 DEF NewValues, InPush, SwingFails
<1> QED
  BY <1>1, <1>2, <1>4, <1>5, ItemsKept DEF ListInv, SwingFails

\* The link turns a successor to be into a successor.
LEMMA LinkList ==
  ASSUME ListInv, Inv', NEW p \in Producers, Link(p)
  PROVE  ListInv' /\ UNCHANGED List!listVars
<1>1. PICK s : Spine(s)
  BY DEF ListInv
<1>2. Inv /\ TypeOK /\ Ownership /\ NewValues
  BY DEF ListInv, Inv
<1>3. /\ Linking(p)
      /\ next' = [next EXCEPT ![curTail[p]] = newNode[p]]
      /\ pc' = [pc EXCEPT ![p] = "idle"]
      /\ newNode' = [newNode EXCEPT ![p] = Null]
      /\ curTail' = [curTail EXCEPT ![p] = Null]
      /\ UNCHANGED <<head, tail, val, allocated, pushes, popped>>
  BY DEF Link, Linking
<1>4. newNode[p] \in Nodes /\ curTail[p] \in Nodes
  BY <1>2, <1>3 DEF TypeOK, InPush, Linking
<1>5. ASSUME NEW m \in allocated PROVE Successor(m)' = Successor(m)
  <2>1. m \in Nodes
    BY <1>2 DEF TypeOK
  <2>2. CASE m = curTail[p]
    <3>1. Successor(m) = newNode[p]
      BY <1>2, <1>3, <2>1, <2>2, SuccessorIs
    <3>2. next'[m] = newNode[p] /\ next'[m] # Null
      BY <1>2, <1>3, <1>4, <2>1, <2>2 DEF TypeOK
    <3>3. Successor(m)' = next'[m]
      BY <2>1, <3>2, SuccessorsAreNext DEF SuccessorsKnown
    <3> QED
      BY <3>1, <3>2, <3>3
  <2>3. CASE m # curTail[p]
    <3>1. next'[m] = next[m]
      BY <1>2, <1>3, <1>4, <2>1, <2>3 DEF TypeOK
    <3>2. \A q \in Producers : Linking(q)' /\ curTail'[q] = m <=>
                               Linking(q) /\ curTail[q] = m
      BY <1>2, <1>3, <2>1, <2>3 DEF TypeOK, Linking
    <3>3. \A q \in Producers : Linking(q) /\ curTail[q] = m =>
                               newNode'[q] = newNode[q]
      BY <1>2, <1>3, <2>3 DEF TypeOK
    <3> QED
      BY <1>2, <2>1, <3>1, <3>2, <3>3, SuccessorKept
  <2> QED
    BY <2>2, <2>3
<1>6. Spine(s)'
  BY <1>1, <1>3, <1>5, SpineKept
<1>7. NewValues'
  BY <1>2, <1>3 DEF NewValues, InPush, TypeOK
<1> QED
  BY <1>1, <1>2, <1>3, <1>6, <1>7, ItemsKept DEF ListInv

\* pop_front takes the first node off the spine.
LEMMA PopList ==
  ASSUME ListInv, Inv', Pop
  PROVE  ListInv' /\ List!Take
<1>1. PICK s : Spine(s)
  BY DEF ListInv
<1>2. Inv /\ TypeOK /\ Ownership /\ NewValues
  BY DEF ListInv, Inv
<1>3. /\ next[head] # Null /\ head' = next[head]
      /\ allocated' = allocated \ {head}
      /\ popped' = Append(popped, val[head'])
      /\ UNCHANGED <<tail, next, val, pc, newNode, curTail, pushes>>
  BY DEF Pop
<1>4. PICK l \in Nat : l = Len(s) /\ l > 1
  <2>1. Len(s) # 1
    BY <1>1, <1>2, <1>3 DEF Spine, Ownership, Reachable
  <2>2. PICK l \in Nat : l = Len(s) /\ l > 0
    BY <1>1 DEF Spine
  <2>3. l > 1
    BY <2>1, <2>2
  <2> QED
    BY <2>2, <2>3
<1>5. /\ s \in Seq(Nodes) /\ s[1] = head /\ s[l] = tail
      /\ \A i, j \in 1 .. l : s[i] = s[j] => i = j
      /\ \A i \in 1 .. l : s[i] \in allocated
      /\ \A i \in 1 .. l - 1 : Successor(s[i]) = s[i + 1]
  BY <1>1, <1>4 DEF Spine
<1> DEFINE t == Tail(s)
<1>6. /\ t \in Seq(Nodes) /\ Len(t) = l - 1
      /\ \A i \in 1 .. l - 1 : t[i] = s[i + 1]
  <2>1. s # << >>
    BY <1>4
  <2> QED
    BY <1>4, <1>5, <2>1, HeadTailProperties
<1> HIDE DEF t
<1>7. s[2] = head'
  <2>1. 1 \in 1 .. l - 1 /\ s[1] \in Nodes
    BY <1>4, <1>5
  <2>2. Successor(s[1]) = next[head]
    BY <1>2, <1>3, <1>5, <2>1, SuccessorIs
  <2> QED
    BY <1>3, <1>5, <2>1, <2>2
<1>8. \A m : Successor(m)' = Successor(m)
  BY <1>3 DEF Successor, Linking
<1>9. Spine(t)'
  <2>1. ASSUME NEW i \in 1 .. l - 2 PROVE Successor(t[i])' = t[i + 1]
    <3>1. i \in 1 .. l - 1 /\ i + 1 \in 1 .. l - 1
      BY <1>4
    <3> QED
      BY <1>5, <1>6, <1>8, <3>1
  <2>2. ASSUME NEW i \in 1 .. l - 1, NEW j \in 1 .. l - 1, t[i] = t[j]
        PROVE  i = j
    <3>1. i + 1 \in 1 .. l /\ j + 1 \in 1 .. l
      BY <1>4
    <3>2. s[i + 1] = s[j + 1]
      BY <1>6, <2>2
    <3>3. i + 1 = j + 1
      BY <1>5, <3>1, <3>2
    <3> QED
      BY <3>3
  <2>3. ASSUME NEW i \in 1 .. l - 1 PROVE t[i] \in allocated'
    <3>1. i + 1 \in 1 .. l /\ 1 \in 1 .. l /\ i + 1 # 1
      BY <1>4
    <3> QED
      BY <1>3, <1>5, <1>6, <3>1
  <2>4. t[1] = head' /\ t[l - 1] = tail'
    <3>1. 1 \in 1 .. l - 1 /\ l - 1 \in 1 .. l - 1 /\ 1 + 1 = 2 /\ (l - 1) + 1 = l
      BY <1>4
    <3> QED
      BY <1>3, <1>5, <1>6, <1>7, <3>1
  <2>5. Len(t) - 1 = l - 2 /\ Len(t) > 0
    BY <1>4, <1>6
  <2> QED
    BY <1>6, <2>1, <2>2, <2>3, <2>4, <2>5 DEF Spine
<1>10. NewValues'
  BY <1>2, <1>3 DEF NewValues, InPush
<1>11. List!Take
  <2>1. [i \in 1 .. Len(Chain) |-> val[Chain[i]]] = BehindFirst(s, val)
    BY <1>1, <1>2, ItemsAre
  <2>2. [i \in 1 .. Len(Chain') |-> val'[Chain'[i]]] = BehindFirst(t, val')
    BY <1>9, ItemsAreNext
  <2>3. /\ BehindFirst(s, val) # << >>
        /\ Head(BehindFirst(s, val)) = val[s[2]]
        /\ BehindFirst(t, val') = Tail(BehindFirst(s, val))
    <3> DEFINE f == BehindFirst(s, val)
               g == BehindFirst(t, val')
               V == Values \cup {Null}
    <3>1. ASSUME NEW i \in 1 .. l - 1 PROVE f[i] = val[s[i + 1]] /\ f[i] \in V
      <4>1. i + 1 \in 1 .. l
        BY <1>4
      <4> QED
        BY <1>2, <1>4, <1>5, <4>1 DEF TypeOK, BehindFirst
    <3>2. ASSUME NEW i \in 1 .. l - 2 PROVE g[i] = f[i + 1]
      <4>1. i + 1 \in 1 .. l - 1 /\ i \in 1 .. Len(t) - 1
        BY <1>4, <1>6
      <4>2. g[i] = val[t[i + 1]]
        BY <1>3, <4>1 DEF BehindFirst
      <4> QED
        BY <1>6, <3>1, <4>1, <4>2
    <3>3. l - 1 \in Nat /\ l - 2 \in Nat /\ 1 \in 1 .. l - 1
          /\ \A i \in 1 .. l - 2 : i + 1 \in 1 .. l - 1
      BY <1>4
    <3>4. f \in Seq(V) /\ Len(f) = l - 1
      <4>1. f \in [1 .. l - 1 -> V]
        BY <1>4, <3>1 DEF BehindFirst
      <4> HIDE DEF f, V
      <4>2. DOMAIN f = 1 .. l - 1
        BY <4>1
      <4> QED
        BY <3>3, <4>1, <4>2
    <3>5. g \in Seq(V) /\ Len(g) = l - 2
      <4>1. DOMAIN g = 1 .. l - 2 /\ g = [i \in 1 .. l - 2 |-> g[i]]
        BY <1>4, <1>6 DEF BehindFirst
      <4>2. \A i \in 1 .. l - 2 : g[i] \in V
        BY <3>1, <3>2, <3>3
      <4> HIDE DEF f, g, V
      <4>3. g \in [1 .. l - 2 -> V]
        BY <4>1, <4>2
      <4> QED
        BY <3>3, <4>1, <4>3
    <3> HIDE DEF f, g, V
    <3>6. f # << >>
      BY <1>4, <3>4
    <3>7. /\ Head(f) = f[1] /\ Tail(f) \in Seq(V) /\ Len(Tail(f)) = l - 2
          /\ \A i \in 1 .. l - 2 : Tail(f)[i] = f[i + 1]
      <4>1. (l - 1) - 1 = l - 2
        BY <1>4
      <4> QED
        BY <3>4, <3>6, <4>1, HeadTailProperties
    <3>8. g = Tail(f)
      BY <3>2, <3>5, <3>7, SeqEqual
    <3>9. f[1] = val[s[2]]
      BY <3>1, <3>3
    <3> QED
      BY <3>6, <3>7, <3>8, <3>9 DEF f, g
  <2> QED
    BY <1>3, <1>7, <2>1, <2>2, <2>3 DEF List!Take
<1> QED
  BY <1>9, <1>10, <1>11 DEF ListInv

\* MultiToSingleList is a list that any number of threads append to: a push takes
\* effect when _tail swings, whatever other threads have exchanged and linked in
\* between, and pop_front takes the oldest value.
THEOREM ImplementsListCorrect == Spec => ImplementsList
<1>1. ASSUME Init PROVE ListInv /\ List!ListInit
  <2>1. Inv
    BY <1>1, InitType, InitOwnership DEF Inv
  <2>2. NewValues
    BY <1>1 DEF Init, NewValues, InPush
  <2>3. /\ head \in Nodes /\ tail = head /\ allocated = {head} /\ popped = << >>
    BY <1>1 DEF Init
  <2>4. Spine(<<head>>)
    BY <2>3 DEF Spine
  <2>5. [i \in 1 .. Len(Chain) |-> val[Chain[i]]] = BehindFirst(<<head>>, val)
    BY <2>1, <2>4, ItemsAre
  <2>6. BehindFirst(<<head>>, val) = << >>
    BY DEF BehindFirst
  <2> QED
    BY <2>1, <2>2, <2>3, <2>4, <2>5, <2>6 DEF ListInv, List!ListInit
<1>2. ASSUME ListInv, [Next]_listState
      PROVE  ListInv'
             /\ [List!Take \/ \E v \in Values : List!Put(v)]_(List!listVars)
  <2>1. Inv'
    BY <1>2, InvStep DEF ListInv
  <2>2. CASE UNCHANGED listState
    <3>1. \A m : Successor(m)' = Successor(m)
      BY <2>2 DEF Successor, Linking, listState
    <3>2. PICK s : Spine(s)
      BY <1>2 DEF ListInv
    <3>3. Spine(s)'
      BY <2>2, <3>1, <3>2, SpineKept DEF listState
    <3>4. NewValues'
      BY <1>2, <2>2 DEF ListInv, NewValues, InPush, listState
    <3> QED
      BY <1>2, <2>1, <2>2, <3>2, <3>3, <3>4, ItemsKept DEF ListInv, listState
  <2> QED
    BY <1>2, <2>1, <2>2, LoadList, SwingList, SwingFailsList, LinkList, PopList
       DEF Next, Producer
<1> QED
  BY <1>1, <1>2, PTL DEF Spec, ImplementsList, List!ListSpec

=============================================================================
