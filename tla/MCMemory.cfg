SPECIFICATION Spec
CONSTANTS
    mem_pages = 16
    BASE_FRAMES = 2
    PTES = 8
    KDIR = 4
    DIM_PAGE = 16
    STACKS_SIZE = 12
    IMAGE_PAGES = 1
    Slot = {0, 1}
    Thread = {0, 1, 2}
    Sizes = {5, 17}
    MAX_MESSAGES = 1
    MaxVPage = 42
    MAX_THREADS_PER_PROCESS = 2
    Careless = {}
INVARIANTS
    PagesAccounted
    FreePagesCounted
    HeldIsMapped
    FreesItsOwn
CHECK_DEADLOCK FALSE
