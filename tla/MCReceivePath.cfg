\* Units of four bytes, two of them posted; messages of two, three and six
\* bytes, so that one can end with a unit or extend over three.
SPECIFICATION FairSpec
CONSTANTS
    Capacity = 4
    BufCount = 2
    HeaderSize = 2
    Sizes = {2, 3, 6}
    AddressSize = 3
    MaxMessages = 3
    None = None
INVARIANTS
    TypeOK
    NeverComeIn
    SizeMatchesChain
    NothingLeftUnread
    ChainBounded
PROPERTIES
    ImplementsStream
    MessagesDelivered
