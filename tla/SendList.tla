------------------------------- MODULE SendList -------------------------------
(***************************************************************************)
(* What MultiToSingleList promises, without nodes and pointers: a list to  *)
(* which any number of threads append and from which one takes the oldest. *)
(***************************************************************************)
EXTENDS Sequences

CONSTANT Values

VARIABLES
    items,  \* values appended and not taken
    taken   \* values taken, in order

listVars == <<items, taken>>

ListInit == items = << >> /\ taken = << >>

Put(v) == items' = Append(items, v) /\ UNCHANGED taken

Take ==
    /\ items # << >>
    /\ taken' = Append(taken, Head(items))
    /\ items' = Tail(items)

ListSpec == ListInit /\ [][Take \/ \E v \in Values : Put(v)]_listVars

=============================================================================
