SPECIFICATION Spec
CONSTANTS
    Proc = {p, q, r}
    Channels = {2, 4}
    Blocks = 2
    MAXCHARDEVS = 1
    CHARBUFMAXSIZE = 4
    Sizes = {2, 4, 5}
    Byte = {x, y}
    Junk = Junk
    Count = {1, 3}
    Entries = 2
    Garbage = {0}
    NoPid = NoPid
    Services = {{"chardevs"}, {"dma"}}
SYMMETRY Symmetric
INVARIANTS
    DevTypeOK
    OpenIsUsable
PROPERTIES
    LeftoversInert
    ImplementsCharQueues
CHECK_DEADLOCK FALSE
