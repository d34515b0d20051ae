CONSTANTS
    MAX_ORDER = 2
    PAGE_SIZE = 2
    Base = 8
    RamEnds = {18}
    Reports <- TreeInside
    MAX_RESERVED = 3
    WORD = 64
SPECIFICATION Spec
INVARIANT ReservedIsKept
