SPECIFICATION Spec
CONSTANTS
    MAX_PROCESSES = 7
    MAX_THREADS = 4
    MAX_THREADS_PER_PROCESS = 3
    MAX_REFERENCES = 5
    MAX_MESSAGES = 2
    MAX_SIGNALS_PENDING = 2
    Page = {a}
    Reserved_Pids = 3
    MaxPid = 6
    Signals = {"CONT"}
    Disciplined = FALSE
    NoSem = NoSem
INVARIANTS
    RecvFindsMessage
CHECK_DEADLOCK FALSE
