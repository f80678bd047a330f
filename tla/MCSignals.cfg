SPECIFICATION Spec
CONSTANTS
    MAX_PROCESSES = 8
    MAX_THREADS = 3
    MAX_THREADS_PER_PROCESS = 2
    MAX_REFERENCES = 5
    MAX_MESSAGES = 2
    MAX_SIGNALS_PENDING = 2
    Page = {a}
    Reserved_Pids = 3
    MaxPid = 7
    Signals = {"CONT", "STOP", "DESTROY", "TERM"}
    Disciplined = TRUE
    NoSem = NoSem
INVARIANTS
    ProcTypeOK
    NoMailForTheDead
    TablesAgree
    QueuesSound
PROPERTIES
    WokenReceives
CHECK_DEADLOCK FALSE
