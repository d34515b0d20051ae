SPECIFICATION FairSpec
CONSTANTS
    a = a
    b = b
    c = c
    Thread = {a, b, c}
    None = None
    Rounds = 2
    Setups <- Groups
INVARIANTS MutualExclusion SleepersAreQueued
PROPERTY Terminates
CHECK_DEADLOCK FALSE
