SPECIFICATION FairSpec
CONSTANTS
    Threads = {t1, t2}
    MaxCalls = 3
    QUEUE_SIZE = 2
    OUT_LIST_SIZE = 2
INVARIANTS RecordsConserved SnapshotFlushed
PROPERTIES EventuallyWritten DestructorReturns
CHECK_DEADLOCK FALSE
