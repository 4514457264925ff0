--------------------------- MODULE BaseFrame_proofs ---------------------------
(***************************************************************************)
(* For any number of objects, task threads and tasks: BaseFrame's          *)
(* variables keep to their ranges, an object is in one place, no task is   *)
(* lost, and the frame implements Mailboxes.                               *)
(*                                                                         *)
(* TypeOK /\ OnePlace is inductive.  TypeOK is needed in it: that a thread *)
(* at "loop" holds no object is what makes Pop's object the only one of    *)
(* the thread.                                                             *)
(***************************************************************************)
EXTENDS BaseFrame, TLAPS

USE ObjectAssumption, TaskAssumption

\* The initial state has the right types.
LEMMA InitType == Init => TypeOK
  BY DEF Init, TypeOK

\* Appending to a sequence keeps its type.
LEMMA AppendType ==
  ASSUME NEW S, NEW s \in Seq(S), NEW e \in S
  PROVE  Append(s, e) \in Seq(S)
  OBVIOUS

\* A task gets the next number, and there is room for it.
LEMMA AddedType ==
  ASSUME TypeOK, NEW o \in Objects, AddTask(o)
  PROVE  /\ added' \in [Objects -> 0 .. MaxTasks]
         /\ added[o] + 1 \in 1 .. MaxTasks
         /\ added'[o] = added[o] + 1
<1>1. added \in [Objects -> 0 .. MaxTasks]
  BY DEF TypeOK
<1>2. added[o] < MaxTasks /\ added' = [added EXCEPT ![o] = @ + 1]
  BY DEF AddTask
<1>3. added[o] + 1 \in 1 .. MaxTasks
  BY <1>1, <1>2
<1> QED
  BY <1>1, <1>2, <1>3

\* Every step keeps the types.
LEMMA TypeStep == TypeOK /\ [Next]_frameVars => TypeOK'
<1> SUFFICES ASSUME TypeOK, [Next]_frameVars PROVE TypeOK'
  OBVIOUS
<1> USE DEF TypeOK
<1>1. ASSUME NEW o \in Objects, PushNew(o) PROVE TypeOK'
  BY <1>1 DEF PushNew, Enqueue, work
<1>2. ASSUME NEW o \in Objects, AddTask(o) PROVE TypeOK'
  <2>1. added' \in [Objects -> 0 .. MaxTasks] /\ added'[o] \in 1 .. MaxTasks
    BY <1>2, AddedType
  <2>2. serializer' \in [Objects -> Seq(1 .. MaxTasks)]
    BY <1>2, <2>1, AppendType DEF AddTask
  <2> QED
    BY <1>2, <2>1, <2>2 DEF AddTask, work
<1>3. ASSUME NEW t \in Threads, Pop(t) PROVE TypeOK'
  BY <1>3 DEF Pop, Goto, work
<1>4. ASSUME NEW t \in Threads, Splice(t) PROVE TypeOK'
  BY <1>4 DEF Splice, Goto
<1>5. ASSUME NEW t \in Threads, Execute(t) PROVE TypeOK'
  BY <1>5 DEF Execute
<1>6. ASSUME NEW t \in Threads, Executed(t) PROVE TypeOK'
  <2> DEFINE o == threadObj[t]
  <2>1. o \in Objects /\ running[t] \in 1 .. MaxTasks /\ batch[t] # << >>
    BY <1>6 DEF Executed
  <2>2. executed' \in [Objects -> Seq(1 .. MaxTasks)]
    BY <1>6, <2>1, AppendType DEF Executed
  <2>3. batch' \in [Threads -> Seq(1 .. MaxTasks)]
    <3>1. Tail(batch[t]) \in Seq(1 .. MaxTasks)
      BY <2>1
    <3> QED
      BY <1>6, <3>1 DEF Executed
  <2>4. \A u \in Threads :
          /\ threadObj'[u] \in Objects <=> threadPc'[u] \in {"popped", "work"}
          /\ threadPc'[u] # "work" => batch'[u] = << >>
          /\ running'[u] # 0 =>
               batch'[u] # << >> /\ running'[u] = Head(batch'[u])
    BY <1>6 DEF Executed
  <2> QED
    BY <1>6, <2>2, <2>3, <2>4 DEF Executed
<1>7. ASSUME NEW t \in Threads, Throws(t) PROVE TypeOK'
  BY <1>7 DEF Throws, Goto
<1>8. ASSUME NEW t \in Threads, PushBack(t) PROVE TypeOK'
  BY <1>8 DEF PushBack, Enqueue, Goto, work
<1>9. ASSUME NEW t \in Threads, Exit(t) PROVE TypeOK'
  BY <1>9 DEF Exit, Goto, work
<1>10. ASSUME NEW t \in Threads, Stop(t) PROVE TypeOK'
  BY <1>10 DEF Stop, work
<1>11. CASE UNCHANGED frameVars
  BY <1>11 DEF frameVars
<1> QED
  BY <1>1, <1>2, <1>3, <1>4, <1>5, <1>6, <1>7, <1>8, <1>9, <1>10, <1>11
     DEF Next, TaskThread, Turn

\* BaseFrame's variables keep to their ranges: a thread holds an object from
\* PopTaskQueue to the end of its turn and tasks only while it works.
THEOREM TypeCorrect == Spec => []TypeOK
  BY InitType, TypeStep, PTL DEF Spec

----------------------------------------------------------------------------

\* Initially nothing is pushed, queued or held.
LEMMA InitOnePlace == Init => OnePlace
  BY DEF Init, OnePlace, QueuedOnce, HeldOnce, NotBoth, InRotation, Queued, Held

\* A step that leaves the queue, the threads' objects and the two histories
\* alone leaves every object where it is.
LEMMA SamePlace ==
  ASSUME OnePlace, UNCHANGED <<queue, threadObj, failed, pushed>>
  PROVE  OnePlace'
  BY DEF OnePlace, QueuedOnce, HeldOnce, NotBoth, InRotation, Queued, Held

\* What is at the places of Append(q, e).
LEMMA AppendPlaces ==
  ASSUME NEW S, NEW q \in Seq(S), NEW e \in S
  PROVE  /\ Len(Append(q, e)) = Len(q) + 1
         /\ \A i \in 1 .. Len(q) : Append(q, e)[i] = q[i]
         /\ Append(q, e)[Len(q) + 1] = e
  OBVIOUS

\* What is at the places of Tail(q).
LEMMA TailPlaces ==
  ASSUME NEW S, NEW q \in Seq(S), q # << >>
  PROVE  /\ Len(q) \in Nat \ {0}
         /\ Head(q) = q[1]
         /\ Len(Tail(q)) = Len(q) - 1
         /\ \A i \in 1 .. Len(q) - 1 : Tail(q)[i] = q[i + 1]
  OBVIOUS

\* Pushing an object that is in no place gives it one.
LEMMA PushPlace ==
  ASSUME TypeOK, OnePlace, NEW o \in Objects, ~Queued(o), Enqueue(o)
  PROVE  /\ QueuedOnce'
         /\ \A p \in Objects : Queued(p)' <=> Queued(p) \/ p = o
<1>1. queue \in Seq(Objects) /\ queue' = Append(queue, o) /\ QueuedOnce
  BY DEF TypeOK, Enqueue, OnePlace
<1>2. /\ Len(queue) \in Nat
      /\ Len(queue') = Len(queue) + 1
      /\ \A i \in 1 .. Len(queue) : queue'[i] = queue[i]
      /\ queue'[Len(queue) + 1] = o
  BY <1>1, AppendPlaces
<1>3. QueuedOnce'
  BY <1>1, <1>2 DEF QueuedOnce, Queued
<1>4. ASSUME NEW p \in Objects PROVE Queued(p)' <=> Queued(p) \/ p = o
  BY <1>2 DEF Queued
<1> QED
  BY <1>3, <1>4

\* Taking the first object off the queue leaves the others where they are.
LEMMA PopPlace ==
  ASSUME TypeOK, OnePlace, queue # << >>, queue' = Tail(queue)
  PROVE  /\ QueuedOnce'
         /\ Head(queue) \in Objects /\ Queued(Head(queue))
         /\ \A p \in Objects : Queued(p)' <=> Queued(p) /\ p # Head(queue)
<1>1. queue \in Seq(Objects) /\ QueuedOnce
  BY DEF TypeOK, OnePlace
<1>2. /\ Len(queue) \in Nat \ {0}
      /\ Head(queue) = queue[1] /\ queue[1] \in Objects
      /\ Len(queue') = Len(queue) - 1
      /\ \A i \in 1 .. Len(queue) - 1 : queue'[i] = queue[i + 1]
  BY <1>1, TailPlaces
<1>3. QueuedOnce'
  BY <1>1, <1>2 DEF QueuedOnce
<1>4. ASSUME NEW p \in Objects
      PROVE  Queued(p)' <=> Queued(p) /\ p # Head(queue)
  <2>1. ASSUME NEW i \in 1 .. Len(queue'), queue'[i] = p
        PROVE  Queued(p) /\ p # Head(queue)
    <3>1. i + 1 \in 1 .. Len(queue) /\ queue[i + 1] = p
      BY <1>2, <2>1
    <3> QED
      BY <1>1, <1>2, <3>1 DEF Queued, QueuedOnce
  <2>2. ASSUME NEW i \in 1 .. Len(queue), queue[i] = p, p # Head(queue)
        PROVE  Queued(p)'
    <3>1. i - 1 \in 1 .. Len(queue') /\ queue'[i - 1] = p
      BY <1>2, <2>2
    <3> QED
      BY <3>1 DEF Queued
  <2> QED
    BY <2>1, <2>2 DEF Queued
<1>5. Queued(Head(queue))
  BY <1>2 DEF Queued
<1> QED
  BY <1>2, <1>3, <1>4, <1>5

\* Every step keeps every object in one place.
LEMMA OnePlaceStep ==
  TypeOK /\ OnePlace /\ [Next]_frameVars => OnePlace'
<1> SUFFICES ASSUME TypeOK, OnePlace, [Next]_frameVars PROVE OnePlace'
  OBVIOUS
<1>1. ASSUME NEW o \in Objects, PushNew(o) PROVE OnePlace'
  <2>1. ~Queued(o) /\ ~Held(o)
    BY <1>1 DEF PushNew, OnePlace, InRotation
  <2>2. QueuedOnce' /\ \A p \in Objects : Queued(p)' <=> Queued(p) \/ p = o
    BY <1>1, <2>1, PushPlace DEF PushNew
  <2>3. o \notin failed
    BY <1>1, <2>1 DEF PushNew, OnePlace, InRotation
  <2>4. HeldOnce' /\ \A p \in Objects : Held(p)' <=> Held(p)
    BY <1>1 DEF PushNew, OnePlace, HeldOnce, Held
  <2>5. pushed' = pushed \cup {o} /\ failed' = failed
    BY <1>1 DEF PushNew, work
  <2>6. NotBoth'
    BY <2>1, <2>2, <2>4 DEF OnePlace, NotBoth
  <2>7. InRotation'
    BY <2>2, <2>3, <2>4, <2>5 DEF OnePlace, InRotation
  <2> QED
    BY <2>2, <2>4, <2>6, <2>7 DEF OnePlace
<1>2. ASSUME NEW o \in Objects, AddTask(o) PROVE OnePlace'
  BY <1>2, SamePlace DEF AddTask, work
<1>3. ASSUME NEW t \in Threads, Pop(t) PROVE OnePlace'
  <2> DEFINE o == Head(queue)
  <2>1. /\ QueuedOnce' /\ o \in Objects /\ Queued(o)
        /\ \A p \in Objects : Queued(p)' <=> Queued(p) /\ p # o
    BY <1>3, PopPlace DEF Pop
  <2>2. ~Held(o)
    BY <2>1 DEF OnePlace, NotBoth
  <2>3. threadObj[t] \notin Objects
    BY <1>3 DEF Pop, TypeOK
  <2>4. /\ threadObj' \in [Threads -> Objects \cup {NoObject}]
        /\ threadObj'[t] = o
        /\ \A u \in Threads \ {t} : threadObj'[u] = threadObj[u]
    BY <1>3, <2>1 DEF Pop, TypeOK
  <2>5. HeldOnce'
    BY <2>2, <2>4 DEF OnePlace, HeldOnce, Held
  <2>6. \A p \in Objects : Held(p)' <=> Held(p) \/ p = o
    BY <2>3, <2>4 DEF Held
  <2> QED
    BY <1>3, <2>1, <2>2, <2>5, <2>6 DEF Pop, work, OnePlace, NotBoth, InRotation
<1>4. ASSUME NEW t \in Threads, Splice(t) PROVE OnePlace'
  BY <1>4, SamePlace DEF Splice
<1>5. ASSUME NEW t \in Threads, Execute(t) PROVE OnePlace'
  BY <1>5, SamePlace DEF Execute
<1>6. ASSUME NEW t \in Threads, Executed(t) PROVE OnePlace'
  BY <1>6, SamePlace DEF Executed
<1>7. ASSUME NEW t \in Threads, threadObj[t] \in Objects,
             threadObj' = [threadObj EXCEPT ![t] = NoObject]
      PROVE  /\ HeldOnce'
             /\ \A p \in Objects : Held(p)' <=> Held(p) /\ p # threadObj[t]
  <2>1. /\ threadObj'[t] = NoObject
        /\ \A u \in Threads \ {t} : threadObj'[u] = threadObj[u]
    BY <1>7 DEF TypeOK
  <2> QED
    BY <1>7, <2>1, ObjectAssumption DEF OnePlace, HeldOnce, Held
<1>8. ASSUME NEW t \in Threads, Throws(t) PROVE OnePlace'
  <2>1. threadObj[t] \in Objects /\ Held(threadObj[t])
    BY <1>8 DEF Throws, TypeOK, Held
  <2>2. HeldOnce' /\ \A p \in Objects : Held(p)' <=> Held(p) /\ p # threadObj[t]
    BY <1>7, <1>8, <2>1 DEF Throws
  <2>3. QueuedOnce' /\ \A p \in Objects : Queued(p)' <=> Queued(p)
    BY <1>8 DEF Throws, OnePlace, QueuedOnce, Queued
  <2> QED
    BY <1>8, <2>1, <2>2, <2>3 DEF Throws, OnePlace, NotBoth, InRotation
<1>9. ASSUME NEW t \in Threads, PushBack(t) PROVE OnePlace'
  <2>1. threadObj[t] \in Objects /\ Held(threadObj[t])
    BY <1>9 DEF PushBack, TypeOK, Held
  <2>2. HeldOnce' /\ \A p \in Objects : Held(p)' <=> Held(p) /\ p # threadObj[t]
    BY <1>7, <1>9, <2>1 DEF PushBack
  <2>3. ~Queued(threadObj[t])
    BY <2>1 DEF OnePlace, NotBoth
  <2>4. QueuedOnce' /\ \A p \in Objects :
                          Queued(p)' <=> Queued(p) \/ p = threadObj[t]
    BY <1>9, <2>1, <2>3, PushPlace DEF PushBack
  <2> QED
    BY <1>9, <2>1, <2>2, <2>3, <2>4
       DEF PushBack, work, OnePlace, NotBoth, InRotation
<1>10. ASSUME NEW t \in Threads, Exit(t) PROVE OnePlace'
  BY <1>10, SamePlace DEF Exit, work
<1>11. ASSUME NEW t \in Threads, Stop(t) PROVE OnePlace'
  BY <1>11, SamePlace DEF Stop, work
<1>12. CASE UNCHANGED frameVars
  BY <1>12, SamePlace DEF frameVars
<1> QED
  BY <1>1, <1>2, <1>3, <1>4, <1>5, <1>6, <1>8, <1>9, <1>10, <1>11, <1>12
     DEF Next, TaskThread, Turn

\* An object pushed on the task queue is at one place of the queue or with one
\* task thread until one of its tasks throws: no two threads ever execute tasks
\* of the same object, without any lock around Execute.
THEOREM OnePlaceCorrect == Spec => []OnePlace
<1>1. Init => TypeOK /\ OnePlace
  BY InitType, InitOnePlace
<1>2. TypeOK /\ OnePlace /\ [Next]_frameVars => TypeOK' /\ OnePlace'
  BY TypeStep, OnePlaceStep
<1> QED
  BY <1>1, <1>2, PTL DEF Spec

----------------------------------------------------------------------------

\* Three lists in a row, and the operations on lists under names of their own:
\* what follows needs only the four facts stated here.
Line(r, s, t) == r \o (s \o t)
Add(s, e) == Append(s, e)
First(s) == Head(s)
Rest(s) == Tail(s)

\* Appending to the third list.
LEMMA LineAdd ==
  ASSUME NEW S, NEW r \in Seq(S), NEW s \in Seq(S), NEW t \in Seq(S), NEW e
  PROVE  Line(r, s, Add(t, e)) = Add(Line(r, s, t), e)
<1>1. /\ r \in Seq(S \cup {e}) /\ s \in Seq(S \cup {e})
      /\ t \in Seq(S \cup {e})
  OBVIOUS
<1>2. s \o Append(t, e) = Append(s \o t, e) /\ s \o t \in Seq(S \cup {e})
  BY <1>1
<1>3. r \o Append(s \o t, e) = Append(r \o (s \o t), e)
  BY <1>1, <1>2
<1> QED
  BY <1>2, <1>3 DEF Add, Line

\* Moving an element from the front of the second list to the end of the first.
LEMMA LineMove ==
  ASSUME NEW S, NEW r \in Seq(S), NEW s \in Seq(S), NEW t \in Seq(S),
         s # << >>
  PROVE  Line(Add(r, First(s)), Rest(s), t) = Line(r, s, t)
  BY DEF Line, Add, First, Rest

\* The third list becomes the second.
LEMMA LineShift ==
  ASSUME NEW S, NEW r \in Seq(S), NEW s \in Seq(S)
  PROVE  Line(r, s, << >>) = Line(r, << >>, s)
  BY DEF Line

\* The numbers up to n + 1.
LEMMA CountAppend ==
  ASSUME NEW n \in Nat
  PROVE  Add([i \in 1 .. n |-> i], n + 1) = [i \in 1 .. n + 1 |-> i]
  BY DEF Add

\* An object's tasks are all accounted for.
Accounted(o) ==
  Line(executed[o], Taken(o), serializer[o]) = [i \in 1 .. added[o] |-> i]

LEMMA AccountedDef == NoTaskLost <=> \A o \in Objects \ failed : Accounted(o)
  BY DEF NoTaskLost, Pending, Accounted, Line

\* What is taken of an object is the list of the one thread that holds it.
LEMMA TakenHeld ==
  ASSUME HeldOnce, NEW t \in Threads, threadObj[t] # NoObject
  PROVE  Taken(threadObj[t]) = batch[t]
  BY DEF Taken, HeldOnce

LEMMA TakenFree ==
  ASSUME NEW o \in Objects, ~Held(o)
  PROVE  Taken(o) = << >>
  BY DEF Taken, Held

\* The lists are lists of task numbers.
LEMMA ListTypes ==
  ASSUME TypeOK, OnePlace, NEW o \in Objects
  PROVE  /\ executed[o] \in Seq(1 .. MaxTasks)
         /\ serializer[o] \in Seq(1 .. MaxTasks)
         /\ Taken(o) \in Seq(1 .. MaxTasks)
         /\ added[o] \in 0 .. MaxTasks
<1>1. Taken(o) \in Seq(1 .. MaxTasks)
  <2>1. ASSUME NEW t \in Threads, threadObj[t] = o
        PROVE  Taken(o) = batch[t]
    BY <2>1, TakenHeld, ObjectAssumption DEF OnePlace
  <2>2. batch \in [Threads -> Seq(1 .. MaxTasks)]
    BY DEF TypeOK
  <2>3. CASE Held(o)
    BY <2>1, <2>2, <2>3 DEF Held
  <2>4. CASE ~Held(o)
    <3>1. Taken(o) = << >>
      BY <2>4, TakenFree
    <3>2. << >> \in Seq(1 .. MaxTasks)
      OBVIOUS
    <3> QED
      BY <3>1, <3>2
  <2> QED
    BY <2>3, <2>4
<1> QED
  BY <1>1 DEF TypeOK

\* Other objects' lists stay with their threads.
LEMMA TakenOther ==
  ASSUME HeldOnce, HeldOnce', NEW o \in Objects,
         \A t \in Threads : /\ threadObj[t] = o <=> threadObj'[t] = o
                            /\ threadObj[t] = o => batch'[t] = batch[t]
  PROVE  Taken(o)' = Taken(o)
<1>1. CASE Held(o)
  <2>1. PICK t \in Threads : threadObj[t] = o
    BY <1>1 DEF Held
  <2>2. Taken(o) = batch[t]
    BY <2>1, TakenHeld, ObjectAssumption
  <2>3. threadObj'[t] = o /\ \A u \in Threads : threadObj'[u] = o => u = t
    BY <2>1, ObjectAssumption DEF HeldOnce
  <2>4. Taken(o)' = batch'[t]
    BY <2>3 DEF Taken
  <2> QED
    BY <2>1, <2>2, <2>4
<1>2. CASE ~Held(o)
  BY <1>2 DEF Held, Taken
<1> QED
  BY <1>1, <1>2

\* Initially no object has received a task.
LEMMA InitNoTaskLost == Init => NoTaskLost
  BY DEF Init, NoTaskLost, Pending, Taken

\* A step that changes nobody's lists loses no task.
LEMMA SameTasks ==
  ASSUME NoTaskLost, UNCHANGED <<executed, serializer, added, failed>>,
         \A o \in Objects : Taken(o)' = Taken(o)
  PROVE  NoTaskLost'
  BY DEF NoTaskLost, Pending

\* What the steps do to what is taken.  Most leave it alone: the objects popped
\* and pushed back have nothing taken.
LEMMA TakenSame ==
  ASSUME TypeOK, OnePlace, [Next]_frameVars,
         \A t \in Threads : ~(Splice(t) \/ Executed(t) \/ Throws(t)),
         NEW p \in Objects
  PROVE  Taken(p)' = Taken(p)
<1>a. HeldOnce /\ HeldOnce'
  BY OnePlaceStep DEF OnePlace
<1>b. threadObj \in [Threads -> Objects \cup {NoObject}]
  BY DEF TypeOK
<1>1. CASE UNCHANGED <<threadObj, batch>>
  BY <1>1, <1>a, TakenOther
<1>2. ASSUME NEW t \in Threads, Pop(t) PROVE Taken(p)' = Taken(p)
  <2>1. PICK o \in Objects : o = Head(queue) /\ Queued(o)
    BY <1>2, PopPlace DEF Pop
  <2>2. ~Held(o)
    BY <2>1 DEF OnePlace, NotBoth
  <2>3. threadObj[t] \notin Objects /\ batch[t] = << >>
    BY <1>2 DEF Pop, TypeOK
  <2>4. /\ threadObj'[t] = o /\ batch' = batch
        /\ \A u \in Threads : u # t => threadObj'[u] = threadObj[u]
    BY <1>2, <1>b, <2>1 DEF Pop, work
  <2>5. CASE p = o
    <3>1. Taken(o) = << >>
      BY <2>1, <2>2, TakenFree
    <3>2. \A u \in Threads : threadObj'[u] = o => u = t
      BY <2>2, <2>4 DEF Held
    <3>3. Taken(o)' = batch'[t]
      BY <3>2, <2>4 DEF Taken
    <3> QED
      BY <3>1, <3>3, <2>3, <2>4, <2>5
  <2>6. CASE p # o
    BY <2>3, <2>4, <2>6, <1>a, TakenOther
  <2> QED
    BY <2>5, <2>6
<1>3. ASSUME NEW t \in Threads, PushBack(t) PROVE Taken(p)' = Taken(p)
  <2>1. PICK o \in Objects : o = threadObj[t] /\ batch[t] = << >>
    BY <1>3 DEF PushBack, TypeOK
  <2>2. /\ threadObj'[t] = NoObject /\ batch' = batch
        /\ \A u \in Threads : u # t => threadObj'[u] = threadObj[u]
    BY <1>3, <1>b DEF PushBack, work
  <2>3. CASE p = o
    <3>1. Taken(o) = << >>
      BY <2>1, <1>a, TakenHeld, ObjectAssumption
    <3>2. \A u \in Threads : threadObj'[u] # o
      BY <1>a, <2>1, <2>2, ObjectAssumption DEF HeldOnce
    <3> QED
      BY <3>1, <3>2, <2>3 DEF Taken
  <2>4. CASE p # o
    BY <2>1, <2>2, <2>4, <1>a, TakenOther, ObjectAssumption
  <2> QED
    BY <2>3, <2>4
<1> QED
  BY <1>1, <1>2, <1>3 DEF Next, TaskThread, Turn, PushNew, AddTask, Execute, Exit,
     Stop, work, frameVars

\* Splice takes the list of the thread's object, and nothing was taken of it.
LEMMA TakenSplice ==
  ASSUME TypeOK, OnePlace, NEW t \in Threads, Splice(t),
         NEW o \in Objects, o = threadObj[t]
  PROVE  /\ Taken(o) = << >>
         /\ Taken(o)' = serializer[o]
         /\ \A p \in Objects : p # o => Taken(p)' = Taken(p)
<1>a. HeldOnce /\ HeldOnce'
  <2>1. Next
    BY DEF Next, TaskThread, Turn
  <2>2. OnePlace'
    BY <2>1, OnePlaceStep
  <2> QED
    BY <2>2 DEF OnePlace
<1>1. batch[t] = << >>
  BY DEF Splice, TypeOK
<1>2. threadObj' = threadObj
  BY DEF Splice
<1>3. batch'[t] = serializer[o] /\ \A u \in Threads : u # t => batch'[u] = batch[u]
  BY <1>1 DEF Splice, TypeOK
<1>4. Taken(o) = batch[t]
  BY <1>1, <1>a, TakenHeld, ObjectAssumption
<1>5. \A u \in Threads : threadObj'[u] = o => u = t
  BY <1>1, <1>2, <1>a, ObjectAssumption DEF HeldOnce
<1>6. Taken(o)' = batch'[t]
  BY <1>5, <1>1, <1>2 DEF Taken
<1>7. ASSUME NEW p \in Objects, p # o PROVE Taken(p)' = Taken(p)
  BY <1>1, <1>2, <1>3, <1>7, <1>a, TakenOther
<1> QED
  BY <1>1, <1>3, <1>4, <1>6, <1>7

\* The end of a task takes it off the front of what its thread has taken.
LEMMA TakenExecuted ==
  ASSUME TypeOK, OnePlace, NEW t \in Threads, Executed(t),
         NEW o \in Objects, o = threadObj[t]
  PROVE  /\ batch[t] # << >> /\ running[t] = First(batch[t])
         /\ Taken(o) = batch[t]
         /\ Taken(o)' = Rest(batch[t])
         /\ \A p \in Objects : p # o => Taken(p)' = Taken(p)
<1>a. HeldOnce /\ HeldOnce'
  <2>1. Next
    BY DEF Next, TaskThread, Turn
  <2>2. OnePlace'
    BY <2>1, OnePlaceStep
  <2> QED
    BY <2>2 DEF OnePlace
<1>1. batch[t] # << >> /\ running[t] = Head(batch[t])
  BY DEF Executed, TypeOK
<1>2. threadObj' = threadObj
  BY DEF Executed
<1>3. /\ batch'[t] = Tail(batch[t])
      /\ \A u \in Threads : u # t => batch'[u] = batch[u]
  BY DEF Executed, TypeOK
<1>4. Taken(o) = batch[t]
  BY <1>1, <1>a, TakenHeld, ObjectAssumption
<1>5. \A u \in Threads : threadObj'[u] = o => u = t
  BY <1>1, <1>2, <1>a, ObjectAssumption DEF HeldOnce
<1>6. Taken(o)' = batch'[t]
  BY <1>5, <1>1, <1>2 DEF Taken
<1>7. ASSUME NEW p \in Objects, p # o PROVE Taken(p)' = Taken(p)
  BY <1>1, <1>2, <1>3, <1>7, <1>a, TakenOther
<1> QED
  BY <1>1, <1>3, <1>4, <1>6, <1>7 DEF First, Rest

\* A task that throws takes everything with it that was taken of its object.
LEMMA TakenThrows ==
  ASSUME TypeOK, OnePlace, NEW t \in Threads, Throws(t),
         NEW o \in Objects, o = threadObj[t]
  PROVE  /\ batch[t] # << >>
         /\ Taken(o) = batch[t]
         /\ Taken(o)' = << >>
         /\ \A p \in Objects : p # o => Taken(p)' = Taken(p)
<1>a. HeldOnce /\ HeldOnce'
  <2>1. Next
    BY DEF Next, TaskThread, Turn
  <2>2. OnePlace'
    BY <2>1, OnePlaceStep
  <2> QED
    BY <2>2 DEF OnePlace
<1>1. batch[t] # << >>
  BY DEF Throws, TypeOK
<1>2. /\ threadObj'[t] = NoObject
      /\ \A u \in Threads : u # t => threadObj'[u] = threadObj[u]
      /\ \A u \in Threads : u # t => batch'[u] = batch[u]
  BY DEF Throws, TypeOK
<1>3. Taken(o) = batch[t]
  BY <1>1, <1>a, TakenHeld, ObjectAssumption
<1>4. \A u \in Threads : threadObj'[u] # o
  BY <1>1, <1>2, <1>a, ObjectAssumption DEF HeldOnce
<1>5. Taken(o)' = << >>
  BY <1>4 DEF Taken
<1>6. ASSUME NEW p \in Objects, p # o PROVE Taken(p)' = Taken(p)
  BY <1>1, <1>2, <1>6, <1>a, TakenOther, ObjectAssumption
<1> QED
  BY <1>1, <1>3, <1>5, <1>6

\* Every step keeps every task.
LEMMA NoTaskLostStep ==
  TypeOK /\ OnePlace /\ NoTaskLost /\ [Next]_frameVars => NoTaskLost'
<1> SUFFICES ASSUME TypeOK, OnePlace, NoTaskLost, [Next]_frameVars
             PROVE  NoTaskLost'
  OBVIOUS
<1>a. NoTaskLost' <=> \A o \in Objects \ failed' : Accounted(o)'
  BY DEF NoTaskLost, Pending, Accounted, Line
<1>1. ASSUME NEW o \in Objects, AddTask(o) PROVE NoTaskLost'
  <2>1. UNCHANGED <<executed, failed>>
    BY <1>1 DEF AddTask, work
  <2>2. \A p \in Objects : Taken(p)' = Taken(p)
    <3>1. UNCHANGED <<threadObj, batch>>
      BY <1>1 DEF AddTask, work
    <3> QED
      BY <3>1 DEF Taken
  <2>3. /\ added'[o] = added[o] + 1
        /\ serializer'[o] = Add(serializer[o], added[o] + 1)
    BY <1>1 DEF AddTask, TypeOK, Add
  <2>4. \A p \in Objects : p # o => /\ added'[p] = added[p]
                                   /\ serializer'[p] = serializer[p]
    BY <1>1 DEF AddTask, TypeOK
  <2>5. Line(executed[o], Taken(o), Add(serializer[o], added[o] + 1))
          = Add(Line(executed[o], Taken(o), serializer[o]), added[o] + 1)
    <3>1. /\ executed[o] \in Seq(1 .. MaxTasks)
          /\ serializer[o] \in Seq(1 .. MaxTasks)
          /\ Taken(o) \in Seq(1 .. MaxTasks)
      BY ListTypes
    <3> QED
      BY <3>1, LineAdd
  <2>6. Add([i \in 1 .. added[o] |-> i], added[o] + 1)
          = [i \in 1 .. added[o] + 1 |-> i]
    <3>1. added[o] \in Nat
      BY ListTypes
    <3> QED
      BY <3>1, CountAppend
  <2>7. o \notin failed => Accounted(o)'
    BY <2>1, <2>2, <2>3, <2>5, <2>6, AccountedDef DEF Accounted
  <2>8. \A p \in Objects : p # o /\ p \notin failed => Accounted(p)'
    BY <2>1, <2>2, <2>4, AccountedDef DEF Accounted
  <2> QED
    BY <2>1, <2>7, <2>8, <1>a
<1>2. ASSUME NEW t \in Threads, Splice(t) PROVE NoTaskLost'
  <2>1. PICK o \in Objects : o = threadObj[t]
    BY <1>2 DEF Splice, TypeOK
  <2>2. /\ Taken(o) = << >> /\ Taken(o)' = serializer[o]
        /\ \A p \in Objects : p # o => Taken(p)' = Taken(p)
    BY <1>2, <2>1, TakenSplice
  <2>3. executed' = executed /\ added' = added /\ failed' = failed
    BY <1>2 DEF Splice
  <2>4. /\ serializer'[o] = << >>
        /\ \A p \in Objects : p # o => serializer'[p] = serializer[p]
    BY <1>2, <2>1 DEF Splice, TypeOK
  <2>5. Line(executed[o], serializer[o], << >>)
          = Line(executed[o], << >>, serializer[o])
    <3>1. /\ executed[o] \in Seq(1 .. MaxTasks)
          /\ serializer[o] \in Seq(1 .. MaxTasks)
      BY ListTypes
    <3> QED
      BY <3>1, LineShift
  <2>6. o \notin failed => Accounted(o)'
    BY <2>2, <2>3, <2>4, <2>5, AccountedDef DEF Accounted
  <2>7. \A p \in Objects : p # o /\ p \notin failed => Accounted(p)'
    BY <2>2, <2>3, <2>4, AccountedDef DEF Accounted
  <2> QED
    BY <2>3, <2>6, <2>7, <1>a
<1>3. ASSUME NEW t \in Threads, Executed(t) PROVE NoTaskLost'
  <2>1. PICK o \in Objects : o = threadObj[t]
    BY <1>3 DEF Executed, TypeOK
  <2>2. /\ batch[t] # << >> /\ running[t] = First(batch[t])
        /\ Taken(o) = batch[t] /\ Taken(o)' = Rest(batch[t])
        /\ \A p \in Objects : p # o => Taken(p)' = Taken(p)
    BY <1>3, <2>1, TakenExecuted
  <2>3. serializer' = serializer /\ added' = added /\ failed' = failed
    BY <1>3 DEF Executed
  <2>4. /\ executed'[o] = Add(executed[o], First(batch[t]))
        /\ \A p \in Objects : p # o => executed'[p] = executed[p]
    BY <1>3, <2>1, <2>2 DEF Executed, TypeOK, Add
  <2>5. Line(Add(executed[o], First(batch[t])), Rest(batch[t]), serializer[o])
          = Line(executed[o], batch[t], serializer[o])
    <3>1. /\ executed[o] \in Seq(1 .. MaxTasks)
          /\ serializer[o] \in Seq(1 .. MaxTasks)
          /\ batch[t] \in Seq(1 .. MaxTasks)
      BY <2>2, ListTypes
    <3> QED
      BY <3>1, <2>2, LineMove
  <2>6. o \notin failed => Accounted(o)'
    BY <2>2, <2>3, <2>4, <2>5, AccountedDef DEF Accounted
  <2>7. \A p \in Objects : p # o /\ p \notin failed => Accounted(p)'
    BY <2>2, <2>3, <2>4, AccountedDef DEF Accounted
  <2> QED
    BY <2>3, <2>6, <2>7, <1>a
<1>4. ASSUME NEW t \in Threads, Throws(t) PROVE NoTaskLost'
  <2>1. /\ failed' = failed \cup {threadObj[t]}
        /\ executed' = executed /\ serializer' = serializer /\ added' = added
    BY <1>4 DEF Throws
  <2>2. PICK o \in Objects : o = threadObj[t]
    BY <1>4 DEF Throws, TypeOK
  <2>3. \A p \in Objects : p # o => Taken(p)' = Taken(p)
    BY <1>4, <2>2, TakenThrows
  <2> QED
    BY <2>1, <2>2, <2>3 DEF NoTaskLost, Pending
<1>5. CASE /\ \A t \in Threads : ~(Splice(t) \/ Executed(t) \/ Throws(t))
           /\ UNCHANGED <<executed, serializer, added, failed>>
  BY <1>5, TakenSame, SameTasks
<1>6. CASE \/ \E o \in Objects : PushNew(o)
           \/ \E t \in Threads : \/ Pop(t) \/ Execute(t) \/ PushBack(t)
                                 \/ Exit(t) \/ Stop(t)
           \/ UNCHANGED frameVars
  <2>1. UNCHANGED <<executed, serializer, added, failed>>
    BY <1>6 DEF PushNew, Pop, Execute, PushBack, Exit, Stop, work, frameVars
  <2> QED
    BY <2>1, <1>2, <1>3, <1>4, <1>5
<1> QED
  BY <1>1, <1>2, <1>3, <1>4, <1>6 DEF Next, TaskThread, Turn

\* Until an object fails, what was executed, what a thread has taken and what is
\* in the object's list are, in this order, all the tasks it received, for any
\* number of objects, threads and tasks.
THEOREM NoTaskLostCorrect == Spec => []NoTaskLost
<1>1. Init => TypeOK /\ OnePlace /\ NoTaskLost
  BY InitType, InitOnePlace, InitNoTaskLost
<1>2. TypeOK /\ OnePlace /\ NoTaskLost /\ [Next]_frameVars
        => TypeOK' /\ OnePlace' /\ NoTaskLost'
  BY TypeStep, OnePlaceStep, NoTaskLostStep
<1> QED
  BY <1>1, <1>2, PTL DEF Spec

----------------------------------------------------------------------------

\* Two lists in a row: appending to the second ...
LEMMA TwoAdd ==
  ASSUME NEW S, NEW r \in Seq(S), NEW s \in Seq(S), NEW e \in S
  PROVE  r \o Append(s, e) = Append(r \o s, e)
  OBVIOUS

\* ... taking off the front of the first ...
LEMMA TwoRest ==
  ASSUME NEW S, NEW r \in Seq(S), NEW s \in Seq(S), r # << >>
  PROVE  /\ r \o s # << >>
         /\ Head(r \o s) = Head(r)
         /\ Tail(r \o s) = Tail(r) \o s
  OBVIOUS

\* ... and dropping the first.
LEMMA TwoDrop ==
  ASSUME NEW S, NEW r \in Seq(S), NEW s \in Seq(S), r # << >>
  PROVE  /\ Len(r) \in 1 .. Len(r \o s)
         /\ << >> \o s = SubSeq(r \o s, Len(r) + 1, Len(r \o s))
  OBVIOUS

\* Every object's mailbox and history are changed by one step at its place only.
LEMMA OneMailbox ==
  ASSUME NEW o \in Objects, NEW x, Pending(o)' = x,
         \A p \in Objects : p # o => Pending(p)' = Pending(p)
  PROVE  [p \in Objects |-> Pending(p)]'
           = [[p \in Objects |-> Pending(p)] EXCEPT ![o] = x]
  OBVIOUS

\* A step that leaves every mailbox alone, and what was handled.
LEMMA MailStutter ==
  ASSUME UNCHANGED <<executed, failed>>,
         \A p \in Objects : Pending(p)' = Pending(p)
  PROVE  UNCHANGED Mail!mailVars
  BY DEF Mail!mailVars

\* Every step of the threads is a step of the mailboxes, or none.
LEMMA MailStep ==
  TypeOK /\ OnePlace /\ [Next]_frameVars => [Mail!MailNext]_(Mail!mailVars)
<1> SUFFICES ASSUME TypeOK, OnePlace, [Next]_frameVars
             PROVE  [Mail!MailNext]_(Mail!mailVars)
  OBVIOUS
<1>1. ASSUME NEW o \in Objects, AddTask(o)
      PROVE  Mail!MailNext
  <2>1. UNCHANGED <<threadObj, batch, executed, failed>>
    BY <1>1 DEF AddTask, work
  <2>2. \A p \in Objects : Taken(p)' = Taken(p)
    BY <2>1 DEF Taken
  <2>3. /\ added[o] + 1 \in 1 .. MaxTasks
        /\ serializer'[o] = Append(serializer[o], added[o] + 1)
        /\ \A p \in Objects : p # o => serializer'[p] = serializer[p]
    <3>1. /\ added[o] + 1 \in 1 .. MaxTasks /\ added'[o] = added[o] + 1
      BY <1>1, AddedType
    <3>2. serializer' = [serializer EXCEPT ![o] = Append(@, added'[o])]
      BY <1>1 DEF AddTask
    <3>3. serializer \in [Objects -> Seq(1 .. MaxTasks)]
      BY DEF TypeOK
    <3> QED
      BY <3>1, <3>2, <3>3
  <2>4. Pending(o)' = Append(Pending(o), added[o] + 1)
    <3>1. Taken(o) \o Append(serializer[o], added[o] + 1)
            = Append(Taken(o) \o serializer[o], added[o] + 1)
      <4>1. /\ Taken(o) \in Seq(1 .. MaxTasks)
            /\ serializer[o] \in Seq(1 .. MaxTasks)
        BY ListTypes
      <4>2. PICK a \in Seq(1 .. MaxTasks), b \in Seq(1 .. MaxTasks), n \in 1 .. MaxTasks :
              a = Taken(o) /\ b = serializer[o] /\ n = added[o] + 1
        BY <2>3, <4>1
      <4>3. a \o Append(b, n) = Append(a \o b, n)
        BY TwoAdd
      <4> QED
        BY <4>2, <4>3
    <3>2. Pending(o)' = Taken(o) \o Append(serializer[o], added[o] + 1)
      BY <2>2, <2>3 DEF Pending
    <3> QED
      BY <3>1, <3>2 DEF Pending
  <2>5. \A p \in Objects : p # o => Pending(p)' = Pending(p)
    BY <2>2, <2>3 DEF Pending
  <2>6. Mail!Post(o, added[o] + 1)
    BY <2>1, <2>4, <2>5, OneMailbox DEF Mail!Post
  <2> QED
    BY <2>3, <2>6 DEF Mail!MailNext
<1>2. ASSUME NEW t \in Threads, Splice(t)
      PROVE  UNCHANGED Mail!mailVars
  <2>1. PICK o \in Objects : o = threadObj[t]
    BY <1>2 DEF Splice, TypeOK
  <2>2. /\ Taken(o) = << >> /\ Taken(o)' = serializer[o]
        /\ \A p \in Objects : p # o => Taken(p)' = Taken(p)
    BY <1>2, <2>1, TakenSplice
  <2>3. /\ serializer'[o] = << >>
        /\ \A p \in Objects : p # o => serializer'[p] = serializer[p]
        /\ UNCHANGED <<executed, failed>>
    <3>1. serializer \in [Objects -> Seq(1 .. MaxTasks)]
      BY DEF TypeOK
    <3>2. /\ serializer' = [serializer EXCEPT ![o] = << >>]
          /\ UNCHANGED <<executed, failed>>
      BY <1>2, <2>1 DEF Splice
    <3> QED
      BY <3>1, <3>2
  <2>4. Pending(o)' = Pending(o)
    BY <2>2, <2>3, ListTypes DEF Pending
  <2> QED
    BY <2>2, <2>3, <2>4, MailStutter DEF Pending
<1>3. ASSUME NEW t \in Threads, Executed(t)
      PROVE  Mail!MailNext
  <2>1. PICK o \in Objects : o = threadObj[t]
    BY <1>3 DEF Executed, TypeOK
  <2>2. /\ batch[t] # << >> /\ running[t] = Head(batch[t])
        /\ Taken(o) = batch[t] /\ Taken(o)' = Tail(batch[t])
        /\ \A p \in Objects : p # o => Taken(p)' = Taken(p)
    BY <1>3, <2>1, TakenExecuted DEF First, Rest
  <2>3. serializer' = serializer /\ failed' = failed
    BY <1>3 DEF Executed
  <2>4. executed' = [executed EXCEPT ![o] = Append(@, Head(Pending(o)))]
        /\ Pending(o) # << >> /\ Pending(o)' = Tail(Pending(o))
    <3>1. /\ batch[t] \o serializer[o] # << >>
          /\ Head(batch[t] \o serializer[o]) = Head(batch[t])
          /\ Tail(batch[t] \o serializer[o]) = Tail(batch[t]) \o serializer[o]
      <4>1. /\ batch[t] \in Seq(1 .. MaxTasks)
            /\ serializer[o] \in Seq(1 .. MaxTasks)
        BY <2>2, ListTypes
      <4> QED
        BY <2>2, <4>1, TwoRest
    <3>2. /\ Pending(o) = batch[t] \o serializer[o]
          /\ Pending(o)' = Tail(batch[t]) \o serializer[o]
      BY <2>2, <2>3 DEF Pending
    <3>3. executed' = [executed EXCEPT ![o] = Append(@, Head(batch[t]))]
      BY <1>3, <2>1, <2>2 DEF Executed
    <3> QED
      BY <3>1, <3>2, <3>3
  <2>5. o \notin failed
    BY <2>1 DEF OnePlace, InRotation, NotBoth, Held
  <2>6. \A p \in Objects : p # o => Pending(p)' = Pending(p)
    BY <2>2, <2>3 DEF Pending
  <2>7. Mail!Handle(o)
    BY <2>3, <2>4, <2>5, <2>6, OneMailbox DEF Mail!Handle
  <2> QED
    BY <2>7 DEF Mail!MailNext
<1>4. ASSUME NEW t \in Threads, Throws(t)
      PROVE  Mail!MailNext
  <2>1. PICK o \in Objects : o = threadObj[t]
    BY <1>4 DEF Throws, TypeOK
  <2>2. /\ batch[t] # << >> /\ Taken(o) = batch[t] /\ Taken(o)' = << >>
        /\ \A p \in Objects : p # o => Taken(p)' = Taken(p)
    BY <1>4, <2>1, TakenThrows
  <2>3. /\ UNCHANGED <<serializer, executed>>
        /\ failed' = failed \cup {o}
    BY <1>4, <2>1 DEF Throws
  <2>4. /\ Len(batch[t]) \in 1 .. Len(Pending(o))
        /\ Pending(o)' = SubSeq(Pending(o), Len(batch[t]) + 1, Len(Pending(o)))
    BY <2>2, <2>3, ListTypes, TwoDrop DEF Pending
  <2>5. o \notin failed
    BY <2>1 DEF OnePlace, InRotation, NotBoth, Held
  <2>6. \A p \in Objects : p # o => Pending(p)' = Pending(p)
    BY <2>2, <2>3 DEF Pending
  <2>7. Mail!Fail(o)
    BY <2>3, <2>4, <2>5, <2>6, OneMailbox DEF Mail!Fail
  <2> QED
    BY <2>7 DEF Mail!MailNext
<1>5. CASE /\ \A t \in Threads : ~(Splice(t) \/ Executed(t) \/ Throws(t))
           /\ UNCHANGED <<executed, serializer, failed>>
  BY <1>5, TakenSame, MailStutter DEF Pending
<1>6. CASE \/ \E o \in Objects : PushNew(o)
           \/ \E t \in Threads : \/ Pop(t) \/ Execute(t) \/ PushBack(t)
                                 \/ Exit(t) \/ Stop(t)
           \/ UNCHANGED frameVars
  <2>1. UNCHANGED <<executed, serializer, failed>>
    BY <1>6 DEF PushNew, Pop, Execute, PushBack, Exit, Stop, work, frameVars
  <2> QED
    BY <2>1, <1>2, <1>3, <1>4, <1>5
<1> QED
  BY <1>1, <1>2, <1>3, <1>4, <1>6 DEF Next, TaskThread, Turn

\* The frame implements the mailboxes: whatever number of threads take turns,
\* an object handles one task at a time, in the order its workers added them,
\* and none after one of them has thrown.
THEOREM ImplementsMailboxesCorrect == Spec => ImplementsMailboxes
<1>1. Init => Mail!MailInit
  BY DEF Init, Mail!MailInit, Pending, Taken
<1>2. Init => TypeOK /\ OnePlace
  BY InitType, InitOnePlace
<1>3. TypeOK /\ OnePlace /\ [Next]_frameVars => TypeOK' /\ OnePlace'
  BY TypeStep, OnePlaceStep
<1> QED
  BY <1>1, <1>2, <1>3, MailStep, PTL DEF Spec, ImplementsMailboxes, Mail!MailSpec

=============================================================================
