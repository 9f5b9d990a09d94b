CONSTANTS
    t1 = t1
    t2 = t2
    Thread = {t1, t2}
    MaxIn = 2
    PostFails = TRUE
SPECIFICATION Spec
INVARIANTS CopiedInOrder
PROPERTIES PeerEndExits
CHECK_DEADLOCK FALSE
