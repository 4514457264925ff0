------------------------------ MODULE BaseFrame ------------------------------
(***************************************************************************)
(* BALib's task threads: BaseFrame's queue of SerializedObjects and each   *)
(* object's own list of tasks.                                             *)
(*                                                                         *)
(* An object (a player) is pushed on _queue_thread_tasks once, by          *)
(* GameServer::OnAcceptComplete.  A task thread pops it, splices its list, *)
(* executes the tasks without holding any lock and pushes the object back. *)
(* Network workers add tasks (one per message) at any time.  The queue and *)
(* each list have a lock of their own; a step here is what a thread does   *)
(* between two acquisitions.                                               *)
(*                                                                         *)
(* Tasks are numbered in the order their object received them.             *)
(***************************************************************************)
EXTENDS Naturals, Sequences, FiniteSets

CONSTANTS
    Objects,   \* SerializedObjects
    Threads,   \* the threads StartTask runs
    MaxTasks,  \* bound: tasks an object receives
    NoObject   \* a null shared_ptr

ASSUME ObjectAssumption == NoObject \notin Objects
ASSUME TaskAssumption == MaxTasks \in Nat

VARIABLES
    queue,      \* _queue_thread_tasks
    serializer, \* _serializer of each object
    added,      \* tasks each object has received
    threadPc,   \* where each task thread is
    threadObj,  \* the object a thread has popped
    batch,      \* the list Work spliced off
    running,    \* the task a thread is inside, 0 for none
    executed,   \* history: the tasks executed to their end, in order
    failed,     \* history: objects whose Work returned false
    pushed,     \* history: objects OnAcceptComplete has pushed
    stopped     \* threads whose Stop() was called

frameVars == <<queue, serializer, added, threadPc, threadObj, batch, running,
               executed, failed, pushed, stopped>>
work == <<batch, running, executed, failed>>

Init ==
    /\ queue = << >>
    /\ serializer = [o \in Objects |-> << >>]
    /\ added = [o \in Objects |-> 0]
    /\ threadPc = [t \in Threads |-> "loop"]
    /\ threadObj = [t \in Threads |-> NoObject]
    /\ batch = [t \in Threads |-> << >>]
    /\ running = [t \in Threads |-> 0]
    /\ executed = [o \in Objects |-> << >>]
    /\ failed = {}
    /\ pushed = {}
    /\ stopped = {}

----------------------------------------------------------------------------
(* The network side *)

\* PushTaskQueue, under the frame's lock.
Enqueue(o) == queue' = Append(queue, o)

\* GameServer::OnAcceptComplete gives a new player to the task threads.
PushNew(o) ==
    /\ o \notin pushed
    /\ pushed' = pushed \cup {o}
    /\ Enqueue(o)
    /\ UNCHANGED <<serializer, added, threadPc, threadObj, work, stopped>>

\* Mutant: AddTask puts the task in front.
AddTaskFront(o) ==
    /\ added[o] < MaxTasks
    /\ added' = [added EXCEPT ![o] = @ + 1]
    /\ serializer' = [serializer EXCEPT ![o] = <<added'[o]>> \o @]
    /\ UNCHANGED <<queue, threadPc, threadObj, work, pushed, stopped>>

\* A worker has parsed a message for o: AddTask, under the object's lock.  The
\* session has its object before OnAcceptComplete pushes it, and keeps it.
AddTask(o) ==
    /\ added[o] < MaxTasks
    /\ added' = [added EXCEPT ![o] = @ + 1]
    /\ serializer' = [serializer EXCEPT ![o] = Append(@, added'[o])]
    /\ UNCHANGED <<queue, threadPc, threadObj, work, pushed, stopped>>

----------------------------------------------------------------------------
(* The task threads *)

Goto(t, pc) == threadPc' = [threadPc EXCEPT ![t] = pc]

\* Mutant: the object is looked at but stays in the queue.
PopPeeks(t) ==
    /\ threadPc[t] = "loop"
    /\ queue # << >>
    /\ threadObj' = [threadObj EXCEPT ![t] = Head(queue)]
    /\ Goto(t, "popped")
    /\ UNCHANGED <<queue, serializer, added, work, pushed, stopped>>

\* PopTaskQueue.  An empty queue yields nullptr and the loop starts over.
Pop(t) ==
    /\ threadPc[t] = "loop"
    /\ queue # << >>
    /\ threadObj' = [threadObj EXCEPT ![t] = Head(queue)]
    /\ queue' = Tail(queue)
    /\ Goto(t, "popped")
    /\ UNCHANGED <<serializer, added, work, pushed, stopped>>

\* Mutant: the list is copied, not spliced.
SpliceCopy(t) ==
    /\ threadPc[t] = "popped"
    /\ batch' = [batch EXCEPT ![t] = serializer[threadObj[t]]]
    /\ Goto(t, "work")
    /\ UNCHANGED <<queue, serializer, added, threadObj, running, executed,
                   failed, pushed, stopped>>

\* Work: the whole list is taken over under the object's lock.
Splice(t) ==
    LET o == threadObj[t] IN
    /\ threadPc[t] = "popped"
    /\ batch' = [batch EXCEPT ![t] = serializer[o]]
    /\ serializer' = [serializer EXCEPT ![o] = << >>]
    /\ Goto(t, "work")
    /\ UNCHANGED <<queue, added, threadObj, running, executed, failed, pushed,
                   stopped>>

\* Execute of the first task left begins ...
Execute(t) ==
    /\ threadPc[t] = "work"
    /\ running[t] = 0 /\ batch[t] # << >>
    /\ running' = [running EXCEPT ![t] = Head(batch[t])]
    /\ UNCHANGED <<queue, serializer, added, threadPc, threadObj, batch,
                   executed, failed, pushed, stopped>>

\* ... and ends; the task is erased from the list.
Executed(t) ==
    LET o == threadObj[t] IN
    /\ threadPc[t] = "work"
    /\ running[t] # 0
    /\ executed' = [executed EXCEPT ![o] = Append(@, running[t])]
    /\ batch' = [batch EXCEPT ![t] = Tail(@)]
    /\ running' = [running EXCEPT ![t] = 0]
    /\ UNCHANGED <<queue, serializer, added, threadPc, threadObj, failed,
                   pushed, stopped>>

\* Mutant: the thread goes on as if Work had not returned.
ThrowsKeepsObject(t) ==
    /\ threadPc[t] = "work"
    /\ running[t] # 0
    /\ failed' = failed \cup {threadObj[t]}
    /\ running' = [running EXCEPT ![t] = 0]
    /\ Goto(t, "loop")
    /\ UNCHANGED <<queue, serializer, added, threadObj, batch, executed, pushed,
                   stopped>>

\* The task throws: the rest of the list is destroyed with it, Work returns
\* false and the thread does not push the object back.
Throws(t) ==
    /\ threadPc[t] = "work"
    /\ running[t] # 0
    /\ failed' = failed \cup {threadObj[t]}
    /\ batch' = [batch EXCEPT ![t] = << >>]
    /\ running' = [running EXCEPT ![t] = 0]
    /\ threadObj' = [threadObj EXCEPT ![t] = NoObject]
    /\ Goto(t, "loop")
    /\ UNCHANGED <<queue, serializer, added, executed, pushed, stopped>>

\* Mutant: an object without tasks is not pushed back.
PushBackBusy(t) ==
    /\ threadPc[t] = "work"
    /\ running[t] = 0 /\ batch[t] = << >>
    /\ IF serializer[threadObj[t]] # << >>
       THEN Enqueue(threadObj[t])
       ELSE UNCHANGED queue
    /\ threadObj' = [threadObj EXCEPT ![t] = NoObject]
    /\ Goto(t, "loop")
    /\ UNCHANGED <<serializer, added, work, pushed, stopped>>

\* The list is done; Update leaves the tasks alone, and the object goes to the
\* end of the queue.
PushBack(t) ==
    /\ threadPc[t] = "work"
    /\ running[t] = 0 /\ batch[t] = << >>
    /\ Enqueue(threadObj[t])
    /\ threadObj' = [threadObj EXCEPT ![t] = NoObject]
    /\ Goto(t, "loop")
    /\ UNCHANGED <<serializer, added, work, pushed, stopped>>

\* Mutant: a thread finishes what is queued before it exits.
ExitDrained(t) ==
    /\ threadPc[t] = "loop"
    /\ t \in stopped /\ queue = << >>
    /\ Goto(t, "exited")
    /\ UNCHANGED <<queue, serializer, added, threadObj, work, pushed, stopped>>

\* A stopped thread leaves its loop between two objects.
Exit(t) ==
    /\ threadPc[t] = "loop"
    /\ t \in stopped
    /\ Goto(t, "exited")
    /\ UNCHANGED <<queue, serializer, added, threadObj, work, pushed, stopped>>

\* What a thread does by running on.
Turn(t) ==
    \/ Pop(t) \/ Splice(t) \/ Execute(t) \/ Executed(t) \/ PushBack(t) \/ Exit(t)

TaskThread(t) == Turn(t) \/ Throws(t)

----------------------------------------------------------------------------
(* Release *)

\* BaseFrame::Release stops and joins the task threads one after the other.
Stop(t) ==
    /\ \A u \in stopped : threadPc[u] = "exited"
    /\ t \notin stopped
    /\ stopped' = stopped \cup {t}
    /\ UNCHANGED <<queue, serializer, added, threadPc, threadObj, work, pushed>>

\* Every task thread has been joined.
Joined == \A t \in Threads : threadPc[t] = "exited"

Next ==
    \/ \E o \in Objects : PushNew(o) \/ AddTask(o)
    \/ \E t \in Threads : TaskThread(t) \/ Stop(t)
    \/ Joined /\ UNCHANGED frameVars

Spec == Init /\ [][Next]_frameVars

\* Threads keep running and a task that does not throw ends; nothing makes one
\* throw.  A stopped thread tests its flag between two objects, so it exits
\* after the object it is at.  Nothing makes the application stop the first
\* thread, but Release goes on once it has begun.
Fairness ==
    /\ \A t \in Threads :
         /\ WF_frameVars(Turn(t))
         /\ SF_frameVars(Exit(t))
         /\ WF_frameVars(stopped # {} /\ Stop(t))

FairSpec == Spec /\ Fairness

----------------------------------------------------------------------------
(* Properties *)

\* The tasks of o some thread has spliced off.
Taken(o) == IF \E t \in Threads : threadObj[t] = o
            THEN batch[CHOOSE t \in Threads : threadObj[t] = o]
            ELSE << >>

Pending(o) == Taken(o) \o serializer[o]

\* Every variable keeps to its range; a thread holds an object from Pop to the
\* end of the turn, and tasks only while it works.
TypeOK ==
    /\ queue \in Seq(Objects)
    /\ serializer \in [Objects -> Seq(1 .. MaxTasks)]
    /\ added \in [Objects -> 0 .. MaxTasks]
    /\ threadPc \in [Threads -> {"loop", "popped", "work", "exited"}]
    /\ threadObj \in [Threads -> Objects \cup {NoObject}]
    /\ batch \in [Threads -> Seq(1 .. MaxTasks)]
    /\ running \in [Threads -> 0 .. MaxTasks]
    /\ executed \in [Objects -> Seq(1 .. MaxTasks)]
    /\ failed \subseteq Objects
    /\ pushed \subseteq Objects
    /\ stopped \subseteq Threads
    /\ \A t \in Threads :
         /\ threadObj[t] \in Objects <=> threadPc[t] \in {"popped", "work"}
         /\ threadPc[t] # "work" => batch[t] = << >>
         /\ running[t] # 0 => batch[t] # << >> /\ running[t] = Head(batch[t])

Queued(o) == \E i \in 1 .. Len(queue) : queue[i] = o
Held(o)   == \E t \in Threads : threadObj[t] = o

QueuedOnce == \A i, j \in 1 .. Len(queue) : queue[i] = queue[j] => i = j
HeldOnce   == \A t, u \in Threads :
                threadObj[t] = threadObj[u] /\ threadObj[t] # NoObject => t = u
NotBoth    == \A o \in Objects : ~(Queued(o) /\ Held(o))
InRotation == /\ failed \subseteq pushed
              /\ \A o \in Objects :
                   o \in pushed \ failed <=> Queued(o) \/ Held(o)

\* An object is in one place: at one position of the queue, or with one thread,
\* or nowhere if it has not been pushed yet or has failed.  This, and no lock,
\* is what keeps two threads from executing tasks of one object at once, and an
\* object from dropping out of the rotation.
OnePlace == QueuedOnce /\ HeldOnce /\ NotBoth /\ InRotation

\* No task is lost, duplicated or overtaken: until an object fails, what was
\* executed, what a thread has taken and what is still in the list are, in this
\* order, all the tasks it received.
NoTaskLost ==
    \A o \in Objects \ failed :
      executed[o] \o Pending(o) = [i \in 1 .. added[o] |-> i]

\* The threads implement the mailboxes: one task of an object at a time, in
\* order, and none after it has failed.
Mail == INSTANCE Mailboxes WITH
          mailbox <- [o \in Objects |-> Pending(o)],
          handled <- executed

ImplementsMailboxes == Mail!MailSpec

\* Every object gets its turn: while the threads run, a task an object has
\* received is executed, however busy the other objects are, unless the object
\* fails.
TasksExecuted ==
    \A o \in Objects : \A i \in 1 .. MaxTasks :
      (o \in pushed /\ added[o] >= i)
        ~> (Len(executed[o]) >= i \/ o \in failed \/ stopped # {})

\* Release returns.
ReleaseJoins == (stopped # {}) ~> Joined

=============================================================================
