SPECIFICATION ReleaseSpec
CONSTANTS
    Sockets = {s1, s2}
    Listeners = {l1}
    Workers = {w1}
    MaxClient <- MCMaxClient
    MaxSlots = 1
    MaxConnects = 0
    ConnectKey = ConnectKey
    None = None
PROPERTY
    ListenRepeated
