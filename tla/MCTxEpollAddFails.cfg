CONSTANTS
    f1 = f1
    Filp = {f1}
    Pollable = {f1}
    t1 = t1
    Task = {t1}
    NoTask = NoTask
    MAX_EVENTS = 1
    AddFails = TRUE
    ModFails = FALSE
    EarlyHup = FALSE
    MaxUnder = 0
SPECIFICATION Spec
INVARIANTS NoAssertFails
CHECK_DEADLOCK FALSE
