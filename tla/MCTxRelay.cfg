CONSTANTS
    file = file
    file2 = file2
    Filp = {file, file2}
    task = task
    Task = {task}
    NoTask = NoTask
    o1 = o1
    o2 = o2
    Olap = {o1, o2}
    NoOlap = NoOlap
    NoFilp = NoFilp
    AcceptFails = FALSE
    Shut = {file2}
    BufSize = 2
    MaxIn = 2
SPECIFICATION RelayFairSpec
INVARIANTS RelayExact EofDelivered
PROPERTIES Relayed
CHECK_DEADLOCK FALSE
