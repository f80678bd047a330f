SPECIFICATION Spec
CONSTANTS
    kernel_thread = k
    init_thread = t1
    k = k
    t1 = t1
    t2 = t2
    t3 = t3
    Thread = {k, t1, t2, t3}
    THREAD_INVALID = INVALID
    Semaphore = {irq}
    Bool_Semaphore = {mutex}
    IRQ_Semaphore = {irq}
    NoSem = NoSem
    InitStatus <- MCInitStatus
    MAX_REFERENCES = 4
    MaxStatus = 2
INVARIANTS
    TypeOK
    NoThreadLost
    CreditConserved
PROPERTIES
    FIFOWakeup
    ReadyRuns
