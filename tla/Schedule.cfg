SPECIFICATION Spec
CONSTANTS
    N = 4
    Voices = 2
    ZeroLagLinks <- FewLinks
    Groups <- TwoGroups
    Executable <- Classes
    NotThreadSafe = {"1258"}
    MaxThreadCounts = {0, 2}
INVARIANTS ServableUnlessLoop NotConcurrent Balanced
CHECK_DEADLOCK FALSE
