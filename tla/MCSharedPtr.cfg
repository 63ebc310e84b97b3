SPECIFICATION Spec
CONSTANTS
    Threads = {t1, t2}
    Handles = {h1, h2, h3}
    Blocks = {b1, b2}
    Objects = {o1, o2}
    Null = Null
    Absent = Absent
INVARIANTS CountExact NothingFreed
