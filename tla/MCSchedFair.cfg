CONSTANTS
    Harts = 1  Boot = 0
    MAX_THREADS = 3
    PRIO_LEVELS = 1
    SLICE_TICKS = 2
    Proc = {1}
    Boots <- Uniprocessor
SPECIFICATION Spec
PROPERTIES PreemptableRuns
