CONSTANTS
    Hart = {1, 2}  Setups <- SomeSetups
    MAX_PROCESSES = 2  MAX_CAPS = 2
    MAX_SHMS = 2  MAX_PAGES = 2
    Frame = {1, 2}
    Service = {1}
    VA = {1, 2}  SHM_VA = 1
    Boot <- Peers
    Overwrites = FALSE
SPECIFICATION Spec
INVARIANTS FramesConserved MappingsAgree SlotsAgree PoolsExact NamesAlive
PROPERTY ImplementsOwnership
CHECK_DEADLOCK FALSE
