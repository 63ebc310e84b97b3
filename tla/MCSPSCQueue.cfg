SPECIFICATION Spec
CONSTANTS
    Capacity = 2
    Word = 4
    Values = {a, b}
    Raw = Raw
    MovedFrom = MovedFrom
    None = None
INVARIANTS
    IndInv
    RaceFree
    ElementLifetimes
PROPERTIES
    ObserversKeptWord
    ImplementsFIFO
CHECK_DEADLOCK FALSE
