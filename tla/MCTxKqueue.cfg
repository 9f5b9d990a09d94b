CONSTANTS
    f1 = f1
    f2 = f2
    Filp = {f1, f2}
    t1 = t1
    Task = {t1}
    NoTask = NoTask
    MAX_EVENTS = 3
    AddFails = TRUE
    MaxLeak = 1
SPECIFICATION Spec
INVARIANTS NoLostWakeup FlagsMatchKernel NoKnoteAfterFini RefcntLeaks
SYMMETRY Symmetry
