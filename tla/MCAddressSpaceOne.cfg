CONSTANTS
    FANOUT = 4
    Proc = {p1, p2}
    Firmware <- FirmwareAt
    Image <- ImageAt
    Guards <- GuardsAt
    Ram <- RamAt
    Uart = 0
    Pages = {38, 39, 40, 41, 42, 43, 44, 45, 46, 47, 48, 49, 50, 51, 52, 53, 54, 55, 56, 57, 58, 59}
    Files <- SomeFiles
    PAGE_SIZE = 32
    MAX_ARGS = 2
    USER_VA_LIMIT = 60
    Stack <- StackAt
    UserPages = {2, 40, 61}
    StackBases = {58, 59}
    MaxCreates = 2
SYMMETRY ProcPerms
SPECIFICATION Spec
INVARIANTS PagesPartitioned KernelRegionIntact PanicsOnlyOutOfMemory LoadedAsLinked
CHECK_DEADLOCK FALSE
