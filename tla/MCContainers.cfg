\* The list: two producers with two pushes each; four addresses, so that a
\* freed node is given out again while the other producer still remembers it.
\* The ring: two items at a time, five in all, so that the indices wrap.
\* The pool: two blocks of two cells.  The scheduler: three jobs on a short clock.
SPECIFICATION ContainerSpec
CONSTANTS
    Producers = {p1, p2}
    Nodes = {n1, n2, n3, n4}
    MaxPushes = 2
    Null = Null
    QueueSize = 2
    MaxRingPushes = 5
    PoolSize = 2
    MaxAllocs = 2
    Delays = {0, 1, 2}
    MaxTime = 3
    MaxJobs = 3
INVARIANTS
    TypeOK
    NoUseAfterFree
    PoolExclusive
PROPERTIES
    ImplementsList
    AllPopped
    RingIsList
    JobsDue
