SPECIFICATION Spec
CONSTANTS
    Vectors = {v, w}
    Values = {a}
    Default = Default
    Raw = Raw
    Absent = Absent
    MaxCapacity = 4
INVARIANT BlocksOwned
PROPERTIES ImplementsSequence
CHECK_DEADLOCK FALSE
