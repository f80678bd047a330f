SPECIFICATION Spec
CONSTANTS
    vfs = vfs
    fat = fat
    v = v
    y = y
    x = x
    f = f
    g = g
    p = p
    q = q
    r = r
    Module = {v, y, x, f, g, p, q, r}
    Driver = {v, y, x, f, g}
    Name = {vfs, fat}
    NameOf <- MCNameOf
    Multi = {x, f, g}
    Asks <- MCAsks
    NoName = NoName
    NoPid = NoPid
    Waits = {f, p, q, r}
    Images <- MCImages
    BootDrivers = {v, f, g}
    Failing = {g}
    Notifying = {y, f, g}
    Areas = {TRUE, FALSE}
    MAX_BOOT_DRIVER_NUM = 3
    MAX_BOOT_WAIT_QUEUE = 2
    MAX_WAITQUEUE = 2
INVARIANTS
    NoClientLost
    NotFoundIsTrue
    OneClientPerInstance
    AnswerComesFirst
PROPERTY
    ClientsAnswered
CHECK_DEADLOCK FALSE
