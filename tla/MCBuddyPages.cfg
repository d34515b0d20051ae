CONSTANTS
    MAX_ORDER = 2
    PAGE_SIZE = 2
    Base = 8
    RamEnds = {17, 24}
    Reports <- SomeReports
    MAX_RESERVED = 3
    WORD = 64
SPECIFICATION Spec
INVARIANTS BlocksPartition MetaAgrees RegionsCovered NoSpuriousFailure
PROPERTY ImplementsBlocks
