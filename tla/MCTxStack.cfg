CONSTANTS
    c1 = c1
    c2 = c2
    Call = {c1, c2}
    NoCall = NoCall
    Uflag = {0, 1, 2}
    Code = {"code"}
    MAX_STACK_DEPTH = 4
SPECIFICATION Spec
INVARIANTS StackTypeOK FrameToCall
PROPERTIES StackRefined
