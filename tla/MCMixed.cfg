\* One listener with one slot, two workers, two outgoing connections.
SPECIFICATION Spec
CONSTANTS
    Sockets = {s1, s2}
    Listeners = {l1}
    Workers = {w1, w2}
    MaxClient <- MCMaxClient
    MaxSlots = 1
    MaxConnects = 2
    ConnectKey = ConnectKey
    None = None
SYMMETRY Symmetry
INVARIANTS
    NoSlotForgotten
    ClosedIffDelayed
    RecvBufExclusive
PROPERTY
    ImplementsSlots
