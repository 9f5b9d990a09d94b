CONSTANTS
    f1 = f1
    f2 = f2
    f3 = f3
    Filp = {f1, f2, f3}
    Pollable = {f1, f2}
    t1 = t1
    Task = {t1}
    NoTask = NoTask
    MAX_EVENTS = 2
    AddFails = FALSE
    ModFails = FALSE
    EarlyHup = FALSE
    MaxUnder = 0
SPECIFICATION Spec
INVARIANTS NoLostWakeup FlagsMatchKernel ReadyHasNoWaiter NoEventAfterFini RefcntExact
SYMMETRY Symmetry
