\* Two objects with up to three tasks each and two task threads.
SPECIFICATION FairSpec
CONSTANTS
    Objects = {o1, o2}
    Threads = {t1, t2}
    MaxTasks = 3
    NoObject = NoObject
INVARIANTS
    TypeOK
    OnePlace
    NoTaskLost
PROPERTIES
    ImplementsMailboxes
    TasksExecuted
    ReleaseJoins
