SPECIFICATION Spec
CONSTANTS
    MAX_PROCESSES = 7
    MAX_THREADS = 4
    MAX_THREADS_PER_PROCESS = 3
    MAX_REFERENCES = 5
    MAX_MESSAGES = 3
    MAX_SIGNALS_PENDING = 2
    Page = {a, b}
    Reserved_Pids = 3
    MaxPid = 6
    Signals = {"CONT"}
    Disciplined = TRUE
    NoSem = NoSem
INVARIANTS
    OnePageOneOwner
    MessagesCounted
    NoSleepOnMail
SYMMETRY PageSymmetry
CHECK_DEADLOCK FALSE
