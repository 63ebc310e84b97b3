SPECIFICATION FairSpec
CONSTANTS
    NumThreads = 2
    Clients = {c1, c2}
    t1 = t1
    t2 = t2
    t3 = t3
    t4 = t4
    Tasks <- MCTasks
    Child <- MCChild
    None = None
INVARIANTS
    PermitPerTask
    RunOnce
    PromptStop
PROPERTIES
    DestructorReturns
    FuturesResolved
CHECK_DEADLOCK FALSE
