SPECIFICATION FairSpec
CONSTANTS
    Capacity = 2
    Word = 4
    Values = {a}
    Raw = Raw
    MovedFrom = MovedFrom
    None = None
PROPERTIES
    ConsumerProgress
    ProducerProgress
CHECK_DEADLOCK FALSE
