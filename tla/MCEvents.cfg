SPECIFICATION Spec
CONSTANTS
    proc1 = proc1
    proc2 = proc2
    t1 = t1
    t2 = t2
    t3 = t3
    irq = irq
    a = a
    b = b
    Thread = {t1, t2, t3}
    Process = {proc1, proc2}
    task <- MCtask
    Public = {irq}
    Private = {a, b}
    MAX_EVENT_NUMBER = 2
    MaxStatus = 1
    Clients <- MCClients
    Events_Sem = Events_Sem
    None = None
INVARIANTS
    EventsTypeOK
    CellsAccounted
    MutexesFree
    WaitersReachable
CHECK_DEADLOCK FALSE
PROPERTIES
    CallsReturn
