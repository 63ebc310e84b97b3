SPECIFICATION Spec
CONSTANTS
    Producers = {p1, p2}
    Consumers = {c1, c2}
    Lockers = {c1, c2}
    Users = {p1, p2, c1, c2}
    Callers = {c1, c2, main}
    Starter = main
    Messages = {x, y}
    Elements = {x, y}
    Name = name
    Generic = GenericLogger
    None = None
    Nobody = Nobody
INVARIANTS MutualExclusion TakenInOrder OneName PollDoesNotBlock
PROPERTIES AllPrinted
