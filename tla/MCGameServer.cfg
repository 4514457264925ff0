\* Two connections with a message each, two task threads and a worker; or a
\* client with one worker that sends three requests.
SPECIFICATION ProgramSpec
CONSTANTS
    Objects = {1, 2}
    Threads = {t1, t2}
    Workers = {w1}
    MaxTasks = 1
    NoObject = 0
    SendBuffer = 1
    ClientWorkers = {c1}
    MaxSends = 3
    MaxReplies = 3
    ServerBuffer = 1
INVARIANTS
    ServerTypeOK
    RawPointersAlive
    RunsInitialised
    ClientDispatch
PROPERTIES
    MessagesHandled
    LoopEnds
