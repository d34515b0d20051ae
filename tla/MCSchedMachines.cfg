CONSTANTS
    Harts = 2  Boot = 0
    MAX_THREADS = 5
    PRIO_LEVELS = 2
    SLICE_TICKS = 2
    Proc = {1, 2}
    Boots <- Machines
SPECIFICATION Spec
INVARIANTS QueuesAgree RunsAtHome ResumesFresh NoLostWake FreeSlotsAreFree
    
PROPERTIES MostUrgentFirst
