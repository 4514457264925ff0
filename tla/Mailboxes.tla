------------------------------ MODULE Mailboxes ------------------------------
(***************************************************************************)
(* What BaseFrame and SerializedObject promise about tasks, without        *)
(* threads, queues or locks: every object has a mailbox and handles its    *)
(* tasks one by one in the order they were posted, until it fails.         *)
(***************************************************************************)
EXTENDS Naturals, Sequences

CONSTANTS Objects, MaxTasks

VARIABLES
    mailbox,  \* tasks posted and not handled, per object
    handled,  \* tasks handled, in order
    failed    \* objects one of whose tasks threw

mailVars == <<mailbox, handled, failed>>

MailInit ==
    /\ mailbox = [o \in Objects |-> << >>]
    /\ handled = [o \in Objects |-> << >>]
    /\ failed = {}

Post(o, i) ==
    /\ mailbox' = [mailbox EXCEPT ![o] = Append(@, i)]
    /\ UNCHANGED <<handled, failed>>

Handle(o) ==
    /\ o \notin failed
    /\ mailbox[o] # << >>
    /\ mailbox' = [mailbox EXCEPT ![o] = Tail(@)]
    /\ handled' = [handled EXCEPT ![o] = Append(@, Head(mailbox[o]))]
    /\ UNCHANGED failed

\* A task throws: it and some of the tasks behind it are gone, and the object
\* handles nothing any more.
Fail(o) ==
    /\ o \notin failed
    /\ \E n \in 1 .. Len(mailbox[o]) :
         mailbox' = [mailbox EXCEPT ![o] = SubSeq(@, n + 1, Len(@))]
    /\ failed' = failed \cup {o}
    /\ UNCHANGED handled

MailNext ==
    \E o \in Objects :
      \/ \E i \in 1 .. MaxTasks : Post(o, i)
      \/ Handle(o) \/ Fail(o)

MailSpec == MailInit /\ [][MailNext]_mailVars

=============================================================================
