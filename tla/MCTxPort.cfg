CONSTANTS
    f1 = f1
    f2 = f2
    Filp = {f1, f2}
    t1 = t1
    Task = {t1}
    NoTask = NoTask
    o1 = o1
    o2 = o2
    Olap = {o1, o2}
    NoOlap = NoOlap
    NoFilp = NoFilp
    AcceptFails = TRUE
SPECIFICATION FairSpec
INVARIANTS OverlappedAccounted NoLostWakeup AcceptOnce
PROPERTIES OverlappedFreed
