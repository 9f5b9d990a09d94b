CONSTANTS
    a = a
    Timer = {a}
    MIN_TIME_OUT = 2
    MAX_MI_WHEEL = 3
    MAX_MA_WHEEL = 2
    TickMod = 72
    SizeMods = {72, 288}
    Start = {30}
    Delay = {0, 1, 5, 6, 11, 13}
    Step = {1, 5}
    MaxStall = 7
    Horizon = 150
SPECIFICATION FairSpec
INVARIANTS NeverLate NothingBehindTheWheel
PROPERTIES FiringWindow PollTerminates
