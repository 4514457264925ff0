------------------------- MODULE MCBANetworkEngine -------------------------
(***************************************************************************)
(* Instances of BANetworkEngine for TLC.                                   *)
(***************************************************************************)
EXTENDS BANetworkEngine, TLC

CONSTANTS MaxSlots  \* the _max_client every listener is configured with

MCMaxClient == [l \in Listeners |-> MaxSlots]

\* Sockets and workers are interchangeable.
Symmetry == Permutations(Sockets) \cup Permutations(Workers)

=============================================================================
