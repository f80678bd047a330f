SPECIFICATION Spec
CONSTANTS
    MAX_REFERENCES = 4
    MAX_THREADS = 4
    Semaphore = {irq}
    Bool_Semaphore = {mutex}
    IRQ_Semaphore = {irq}
    NoSem = NoSem
    InitStatus <- MCInitStatus
    MaxStatus = 1
INVARIANTS
    ListsWellFormed
    StatusFollowsQueue
    RemovalKeepsOrder
PROPERTIES
    ImplementsThreadSched
