------------------------ MODULE BAObjectCircularQueue ------------------------
(***************************************************************************)
(* BACore's ring of QUEUE_SIZE items in QUEUE_SIZE + 1 slots, for one      *)
(* thread.  Equal indices mean empty, so one slot always stays free.       *)
(***************************************************************************)
EXTENDS Naturals, Sequences

CONSTANTS
    QueueSize,    \* QUEUE_SIZE
    MaxRingPushes \* bound: items pushed, numbered from 1

ASSUME RingAssumption == QueueSize \in Nat \ {0} /\ MaxRingPushes \in Nat

VARIABLES
    ringHead, ringTail, \* head, tail
    slots,              \* queue
    ringPushed,         \* history: items offered and accepted so far
    ringPopped          \* history: the items popped

ringVars == <<ringHead, ringTail, slots, ringPushed, ringPopped>>

After(i) == (i + 1) % (QueueSize + 1)

RingInit ==
    /\ ringHead = 0 /\ ringTail = 0
    /\ slots = [i \in 0 .. QueueSize |-> 0]
    /\ ringPushed = 0 /\ ringPopped = << >>

IsEmpty == ringHead = ringTail

\* Mutant: the index is not wrapped before it is compared.
IsFullUnwrapped == ringTail + 1 = ringHead

IsFull == After(ringTail) = ringHead

\* A full ring refuses the item.
RingPush ==
    /\ ~IsFull /\ ringPushed < MaxRingPushes
    /\ ringPushed' = ringPushed + 1
    /\ slots' = [slots EXCEPT ![ringTail] = ringPushed']
    /\ ringTail' = After(ringTail)
    /\ UNCHANGED <<ringHead, ringPopped>>

\* front and Pop; Pop of an empty ring does nothing.
RingPop ==
    /\ ~IsEmpty
    /\ ringPopped' = Append(ringPopped, slots[ringHead])
    /\ ringHead' = After(ringHead)
    /\ UNCHANGED <<ringTail, slots, ringPushed>>

RingNext == RingPush \/ RingPop \/ UNCHANGED ringVars

RingSpec == RingInit /\ [][RingNext]_ringVars

----------------------------------------------------------------------------

Held == (ringTail + QueueSize + 1 - ringHead) % (QueueSize + 1)

\* The items from head on, going round, are a list: what is pushed comes out
\* once and in order however often the indices wrap, and a push is refused
\* only when QUEUE_SIZE items are inside.
Ring == INSTANCE SendList WITH
          Values <- 1 .. MaxRingPushes,
          items <- [i \in 1 .. Held |->
                      slots[(ringHead + i - 1) % (QueueSize + 1)]],
          taken <- ringPopped

RingIsList == Ring!ListSpec /\ [](IsFull => Held = QueueSize)

=============================================================================
