CONSTANTS
    t1 = t1
    t2 = t2
    t3 = t3
    Task = {t1, t2, t3}
    w1 = w1
    WaitQ = {w1}
    taskq = taskq
    tx_tailer = tx_tailer
    phony = phony
    NULL = NULL
SPECIFICATION Spec
INVARIANTS ListsSound
PROPERTIES SequencesRefined
SYMMETRY Symmetry
