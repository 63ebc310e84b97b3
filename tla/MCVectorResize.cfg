SPECIFICATION Spec
CONSTANTS
    Vectors = {v, w}
    Values = {a}
    Default = Default
    Raw = Raw
    Absent = Absent
    MaxCapacity = 4
INVARIANT ResizeInBlock
CHECK_DEADLOCK FALSE
