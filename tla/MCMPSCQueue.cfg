SPECIFICATION FairSpec
CONSTANTS
    Producers = {p1, p2, p3}
    PerProducer = 2
    SIZE = 2
    Word = 32
    Raw = Raw
    MovedFrom = MovedFrom
    None = None
INVARIANTS
    SlotsExclusive
    OrderKept
PROPERTIES
    RefusalExcused
    AllReceived
CHECK_DEADLOCK FALSE
