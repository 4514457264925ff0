\* One connection, one worker.
SPECIFICATION ServerSpec
CONSTANTS
    Objects = {1}
    Threads = {t1}
    Workers = {w1}
    MaxTasks = 1
    NoObject = 0
    SendBuffer = 1
INVARIANT
    SessionHasObject
