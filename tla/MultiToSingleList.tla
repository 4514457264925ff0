--------------------------- MODULE MultiToSingleList ---------------------------
(***************************************************************************)
(* BACore's list between many pushing threads and one popping thread.      *)
(* push_back swings _tail to a new node with compare_exchange_weak and     *)
(* links the old tail to it afterwards; pop_front frees the node _head     *)
(* pointed to.  There is no lock, and the allocator gives freed nodes out  *)
(* again, so the address a thread read from _tail may by the time of its   *)
(* compare_exchange be another node's.                                     *)
(***************************************************************************)
EXTENDS Naturals, Sequences, FiniteSets

CONSTANTS
    Producers,  \* threads that call push_back
    Nodes,      \* addresses the allocator can return
    MaxPushes,  \* bound: push_back calls of a producer
    Null        \* nullptr

ASSUME NullAssumption == Null \notin Nodes
ASSUME PushesAssumption == MaxPushes \in Nat
\* There are only so many addresses.
ASSUME NodesAssumption == IsFiniteSet(Nodes)

\* A producer numbers the values it pushes.
Values == Producers \X (1 .. MaxPushes)

VARIABLES
    head,      \* _head, which only the popping thread reads and writes
    tail,      \* _tail
    next,      \* _next of each node; of a freed one, what it last was
    val,       \* _val of each node, Null for T()
    allocated, \* nodes that have been allocated and not deleted
    pc,        \* where each producer is in push_back
    newNode,   \* its new_node
    curTail,   \* its cur_tail
    pushes,    \* push_back calls it has begun
    popped     \* history: the values popped

listState == <<head, tail, next, val, allocated, pc, newNode, curTail, pushes,
               popped>>

\* The constructor: one dummy node.
Init ==
    /\ \E dummy \in Nodes :
         head = dummy /\ tail = dummy /\ allocated = {dummy}
    /\ next = [n \in Nodes |-> Null]
    /\ val = [n \in Nodes |-> Null]
    /\ pc = [p \in Producers |-> "idle"]
    /\ newNode = [p \in Producers |-> Null]
    /\ curTail = [p \in Producers |-> Null]
    /\ pushes = [p \in Producers |-> 0]
    /\ popped = << >>

----------------------------------------------------------------------------
(* push_back *)

\* The new node, which no other thread can see yet, and the first read of _tail.
Load(p) ==
    /\ pc[p] = "idle" /\ pushes[p] < MaxPushes
    /\ pushes' = [pushes EXCEPT ![p] = @ + 1]
    /\ \E n \in Nodes \ allocated :
         /\ allocated' = allocated \cup {n}
         /\ newNode' = [newNode EXCEPT ![p] = n]
         /\ next' = [next EXCEPT ![n] = Null]
         /\ val' = [val EXCEPT ![n] = <<p, pushes'[p]>>]
    /\ curTail' = [curTail EXCEPT ![p] = tail]
    /\ pc' = [pc EXCEPT ![p] = "swing"]
    /\ UNCHANGED <<head, tail, popped>>

\* Mutant: _tail is stored to without comparing it.
SwingStore(p) ==
    /\ pc[p] = "swing"
    /\ tail' = newNode[p]
    /\ pc' = [pc EXCEPT ![p] = "link"]
    /\ UNCHANGED <<head, next, val, allocated, newNode, curTail, pushes, popped>>

\* Mutant: push_back returns after the exchange.
SwingReturns(p) ==
    /\ pc[p] = "swing" /\ tail = curTail[p]
    /\ tail' = newNode[p]
    /\ pc' = [pc EXCEPT ![p] = "idle"]
    /\ UNCHANGED <<head, next, val, allocated, newNode, curTail, pushes, popped>>

\* compare_exchange_weak succeeds.
Swing(p) ==
    /\ pc[p] = "swing" /\ tail = curTail[p]
    /\ tail' = newNode[p]
    /\ pc' = [pc EXCEPT ![p] = "link"]
    /\ UNCHANGED <<head, next, val, allocated, newNode, curTail, pushes, popped>>

\* compare_exchange_weak fails, possibly spuriously, and reads _tail again.
SwingFails(p) ==
    /\ pc[p] = "swing"
    /\ curTail' = [curTail EXCEPT ![p] = tail]
    /\ UNCHANGED <<head, tail, next, val, allocated, pc, newNode, pushes, popped>>

\* Mutant: the node that is the tail now is linked.
LinkTail(p) ==
    /\ pc[p] = "link"
    /\ next' = [next EXCEPT ![curTail[p]] = tail]
    /\ pc' = [pc EXCEPT ![p] = "idle"]
    /\ newNode' = [newNode EXCEPT ![p] = Null]
    /\ curTail' = [curTail EXCEPT ![p] = Null]
    /\ UNCHANGED <<head, tail, val, allocated, pushes, popped>>

\* The store that makes the node reachable.
Link(p) ==
    /\ pc[p] = "link"
    /\ next' = [next EXCEPT ![curTail[p]] = newNode[p]]
    /\ pc' = [pc EXCEPT ![p] = "idle"]
    /\ newNode' = [newNode EXCEPT ![p] = Null]
    /\ curTail' = [curTail EXCEPT ![p] = Null]
    /\ UNCHANGED <<head, tail, val, allocated, pushes, popped>>

----------------------------------------------------------------------------
(* pop_front *)

\* Mutant: the node whose value was popped is freed, not the one before it.
PopFreesValue ==
    /\ next[head] # Null
    /\ allocated' = allocated \ {next[head]}
    /\ head' = next[head]
    /\ popped' = Append(popped, val[head'])
    /\ UNCHANGED <<tail, next, val, pc, newNode, curTail, pushes>>

\* Where the first node has a successor.  Otherwise pop_front returns without
\* touching anything.
Pop ==
    /\ next[head] # Null
    /\ allocated' = allocated \ {head}
    /\ head' = next[head]
    /\ popped' = Append(popped, val[head'])
    /\ UNCHANGED <<tail, next, val, pc, newNode, curTail, pushes>>

----------------------------------------------------------------------------

\* Every producer has made its calls and the list is empty.
Finished == /\ \A p \in Producers : pc[p] = "idle" /\ pushes[p] = MaxPushes
            /\ next[head] = Null

Producer(p) == Load(p) \/ Swing(p) \/ SwingFails(p) \/ Link(p)

Next ==
    \/ \E p \in Producers : Producer(p)
    \/ Pop
    \/ Finished /\ UNCHANGED listState

Spec == Init /\ [][Next]_listState

\* A thread inside push_back is scheduled again, and compare_exchange_weak does
\* not fail for ever when it is retried with the present tail.  The popping
\* thread polls.  Nothing makes a producer call push_back.
FairSpec ==
    /\ Spec
    /\ \A p \in Producers : /\ SF_listState(Swing(p))
                            /\ WF_listState(SwingFails(p) \/ Link(p))
    /\ WF_listState(Pop)

----------------------------------------------------------------------------
(* Properties *)

Linking(p) == pc[p] = "link"
InPush(p)  == pc[p] # "idle"

\* Every variable keeps to its range, and a producer owns a node exactly while
\* it is in push_back.
TypeOK ==
    /\ head \in Nodes /\ tail \in Nodes
    /\ next \in [Nodes -> Nodes \cup {Null}]
    /\ val \in [Nodes -> Values \cup {Null}]
    /\ allocated \subseteq Nodes
    /\ pc \in [Producers -> {"idle", "swing", "link"}]
    /\ newNode \in [Producers -> Nodes \cup {Null}]
    /\ curTail \in [Producers -> Nodes \cup {Null}]
    /\ pushes \in [Producers -> 0 .. MaxPushes]
    /\ popped \in Seq(Values \cup {Null})
    /\ \A p \in Producers : /\ InPush(p) <=> newNode[p] \in Nodes
                            /\ InPush(p) <=> curTail[p] \in Nodes

\* No thread touches a freed node: the popping thread reads _head and its
\* successor, and a producer about to link writes to the node that was the tail
\* when its compare_exchange succeeded, which nobody has linked or freed since,
\* even if the address was given out again between its load and its exchange.
NoUseAfterFree ==
    /\ head \in allocated
    /\ next[head] # Null => next[head] \in allocated
    /\ \A p \in Producers :
         /\ InPush(p) => newNode[p] \in allocated
         /\ Linking(p) => curTail[p] \in allocated /\ next[curTail[p]] = Null

\* The successor of a node: linked already, or about to be.
Successor(n) ==
    IF next[n] # Null THEN next[n]
    ELSE IF \E p \in Producers : Linking(p) /\ curTail[p] = n
         THEN newNode[CHOOSE p \in Producers : Linking(p) /\ curTail[p] = n]
         ELSE Null

\* The nodes behind the one _head points to, whose value has been popped.
Chain == LET c[i \in 0 .. Cardinality(Nodes)] ==
               IF i = 0 THEN head
               ELSE IF c[i - 1] = Null THEN Null ELSE Successor(c[i - 1])
             nodes == {i \in 1 .. Cardinality(Nodes) : c[i] # Null}
         IN  [i \in 1 .. Cardinality(nodes) |-> c[i]]

\* A push takes effect when _tail swings.  From then on the value is in the
\* list, behind all those whose push took effect earlier and before all later
\* ones, and is popped once.
List == INSTANCE SendList WITH
          items <- [i \in 1 .. Len(Chain) |-> val[Chain[i]]],
          taken <- popped

ImplementsList == List!ListSpec

\* What has been pushed is popped, even if the thread that pushed the node
\* before it was suspended between its exchange and its link.
AllPopped ==
    \A v \in Values :
      pushes[v[1]] >= v[2] ~> \E i \in 1 .. Len(popped) : popped[i] = v

=============================================================================
