\* One listener with two slots, two workers, no outgoing connections.
SPECIFICATION Spec
CONSTANTS
    Sockets = {s1, s2, s3}
    Listeners = {l1}
    Workers = {w1, w2}
    MaxClient <- MCMaxClient
    MaxSlots = 2
    MaxConnects = 0
    ConnectKey = ConnectKey
    None = None
SYMMETRY Symmetry
INVARIANTS
    TypeOK
    SlotLedger
    NoSlotForgotten
    ClosedIffDelayed
    RecvBufExclusive
    AnnouncedOpen
    OperationsTracked
PROPERTY
    ImplementsSlots
