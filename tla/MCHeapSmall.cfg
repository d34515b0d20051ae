CONSTANTS
    PAGE_SIZE = 64
    SLAB_SIZES <- TwoClasses
    MAX_ORDER = 2
    Base = 64
    Count = 4
    Layouts <- Shapes
    MaxLive = 5
SPECIFICATION Spec
INVARIANTS ObjectsApart FreesAccepted NothingLost
PROPERTY SweptAtGrow
