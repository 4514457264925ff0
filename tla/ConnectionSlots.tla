--------------------------- MODULE ConnectionSlots ---------------------------
(***************************************************************************)
(* What BANetworkEngine promises about connections, without threads,       *)
(* completion ports or operating system.  A listener has MaxClient slots.  *)
(* A slot is armed (an accept is waiting), live (a connection), closing    *)
(* (closed, in quarantine) and then armed again for a new socket, or lost. *)
(* A dialled connection has the same life but no slot to give back.        *)
(***************************************************************************)
EXTENDS Naturals, FiniteSets

CONSTANTS Sockets, Listeners, MaxClient, ConnectKey, None

VARIABLES
    life,   \* "free", "armed", "live" or "closing"
    key,    \* the listener a socket belongs to, ConnectKey, or None
    up      \* the engine has not been released

slotVars == <<life, key, up>>

Holders(l) == {s \in Sockets : key[s] = l}

SlotsInit ==
    /\ life = [s \in Sockets |-> "free"]
    /\ key = [s \in Sockets |-> None]
    /\ up = TRUE

\* An accept starts to wait on l, which has a slot to spare.
Arm(s, l) ==
    /\ up /\ life[s] = "free"
    /\ Cardinality(Holders(l)) < MaxClient[l]
    /\ life' = [life EXCEPT ![s] = "armed"]
    /\ key' = [key EXCEPT ![s] = l]
    /\ UNCHANGED up

\* A client is accepted on the listener that waited for it.
Establish(s) ==
    /\ up /\ life[s] = "armed"
    /\ life' = [life EXCEPT ![s] = "live"]
    /\ UNCHANGED <<key, up>>

\* A dialled connection is up.
Dialled(s) ==
    /\ up /\ life[s] = "free"
    /\ life' = [life EXCEPT ![s] = "live"]
    /\ key' = [key EXCEPT ![s] = ConnectKey]
    /\ UNCHANGED up

\* A live connection is closed and starts its quarantine.
BeginClose(s) ==
    /\ up /\ life[s] = "live"
    /\ life' = [life EXCEPT ![s] = "closing"]
    /\ UNCHANGED <<key, up>>

\* The quarantine of s ends and its slot is lost: nothing is armed for it.
Reclaim(s) ==
    /\ up /\ life[s] = "closing"
    /\ life' = [life EXCEPT ![s] = "free"]
    /\ key' = [key EXCEPT ![s] = None]
    /\ UNCHANGED up

\* The quarantine of s ends and its slot is armed for another socket, in one
\* step: the listener never has one holder more or, in between, one less.
ReclaimAndArm(s, c) ==
    /\ up /\ life[s] = "closing" /\ life[c] = "free"
    /\ key[s] \in Listeners
    /\ life' = [life EXCEPT ![s] = "free", ![c] = "armed"]
    /\ key' = [key EXCEPT ![s] = None, ![c] = key[s]]
    /\ UNCHANGED up

Shutdown ==
    /\ up
    /\ up' = FALSE
    /\ life' = [s \in Sockets |-> "free"]
    /\ key' = [s \in Sockets |-> None]

SlotsNext ==
    \/ \E s \in Sockets :
         \/ \E l \in Listeners : Arm(s, l)
         \/ Establish(s) \/ Dialled(s) \/ BeginClose(s) \/ Reclaim(s)
         \/ \E c \in Sockets \ {s} : ReclaimAndArm(s, c)
    \/ Shutdown

SlotsSpec == SlotsInit /\ [][SlotsNext]_slotVars

=============================================================================
