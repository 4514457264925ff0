----------------------------- MODULE MCContainers -----------------------------
(***************************************************************************)
(* BACore's containers and the scheduler, for TLC.  They share nothing: a  *)
(* behaviour is a run of one of them.                                      *)
(***************************************************************************)
EXTENDS MultiToSingleList, BAObjectCircularQueue, BAMemoryPool, BAScheduler

VARIABLE container  \* the one that runs

containerVars == <<container, listState, ringVars, poolVars, schedVars>>

OfList(A)  == /\ container = "list" /\ A
              /\ UNCHANGED <<container, ringVars, poolVars, schedVars>>
OfRing(A)  == /\ container = "ring" /\ A
              /\ UNCHANGED <<container, listState, poolVars, schedVars>>
OfPool(A)  == /\ container = "pool" /\ A
              /\ UNCHANGED <<container, listState, ringVars, schedVars>>
OfSched(A) == /\ container = "scheduler" /\ A
              /\ UNCHANGED <<container, listState, ringVars, poolVars>>

ContainerInit ==
    /\ container \in {"list", "ring", "pool", "scheduler"}
    /\ Init /\ RingInit /\ PoolInit /\ SchedInit
    /\ container # "pool" => ~fixSize

ContainerNext ==
    \/ OfList(Next) \/ OfRing(RingNext) \/ OfPool(PoolNext) \/ OfSched(SchedNext)

\* The fairness of MultiToSingleList's FairSpec.
ListFairness ==
    /\ \A p \in Producers :
         /\ SF_containerVars(OfList(Swing(p)))
         /\ WF_containerVars(OfList(SwingFails(p) \/ Link(p)))
    /\ WF_containerVars(OfList(Pop))

ContainerSpec ==
    ContainerInit /\ [][ContainerNext]_containerVars /\ ListFairness

=============================================================================
