SPECIFICATION Spec
CONSTANTS
    Ids = {1, 2, 3}
    Levels = {1, 2, 3}
    Quantities = {0, 1, 2}
    h1 = h1
    h2 = h2
    n1 = n1
    n2 = n2
    o1 = o1
    o2 = o2
    Handles <- MCHandles
    Objects <- MCObjects
    MemberOf <- MCMemberOf
    Deleters = {Default, d}
    Default = Default
    MovedFrom = MovedFrom
    Null = Null
    Absent = Absent
    SizeLimit = 16
    Buffers <- MCBuffers
    Types <- MCTypes
    Requests = {0, 1, 2, 8, 9}
    Files <- MCFiles
    Number <- MCNumber
    Prefix <- MCPrefix
    Nothing = Nothing
    MaxLines = 5
    MaxLoads = 2
    Addresses = 7
    Unroll = 2
INVARIANTS
    BookInOrder
    OneOwner
    OwnDeleter
    BlocksSound
    ServedExactly
    ServedAsWritten
    CopiesExact
PROPERTIES
    MatchesReference
    TimePriority
CHECK_DEADLOCK FALSE
