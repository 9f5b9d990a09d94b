CONSTANTS
    t1 = t1
    t2 = t2
    Task = {t1, t2}
    ring = ring
    Poll = {ring}
    Ring = ring
    w1 = w1
    WaitQ = {w1}
    Phony = Phony
    NoTask = NoTask
    MaxActives = 3
SPECIFICATION RingFairSpec
INVARIANTS TypeOK FlagsMatchLists NoSleepWithWork IdleLoopSleeps OncePerPass RingKept
PROPERTIES OrderKept ActiveTaskServed PollerServed QuitLeavesLoop
