CONSTANTS
    f1 = f1
    Filp = {f1}
    Pollable = {f1}
    t1 = t1
    t2 = t2
    Task = {t1, t2}
    NoTask = NoTask
    MAX_EVENTS = 1
    AddFails = TRUE
    ModFails = TRUE
    EarlyHup = TRUE
    MaxUnder = 2
SPECIFICATION FairSpec
INVARIANTS RefcntNeverAbove
PROPERTIES WaiterWoken
CHECK_DEADLOCK FALSE
