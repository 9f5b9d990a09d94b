CONSTANTS
    f1 = f1
    Filp = {f1}
    t1 = t1
    t2 = t2
    Task = {t1, t2}
    NoTask = NoTask
    MAX_EVENTS = 1
    AddFails = TRUE
    MaxLeak = 2
SPECIFICATION FairSpec
PROPERTIES WaiterWoken
