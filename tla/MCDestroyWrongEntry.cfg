SPECIFICATION Spec
CONSTANTS
    MAX_PROCESSES = 11
    MAX_THREADS = 7
    MAX_THREADS_PER_PROCESS = 2
    MAX_REFERENCES = 8
    MAX_MESSAGES = 2
    MAX_SIGNALS_PENDING = 2
    Page = {}
    Reserved_Pids = 3
    MaxPid = 10
    Signals = {"CONT", "DESTROY"}
    Disciplined = TRUE
    NoSem = NoSem
INVARIANTS
    RunningIsListed
CHECK_DEADLOCK FALSE
