SPECIFICATION Spec
CONSTANTS
    Task = {idle, kpagd, sh, ch, th}
    Idle = idle
    Kpagd = kpagd
    Shells = {sh}
    NoTask = NoTask
    Levels = 1
    Program <- MCProgram
    sh = sh
    ch = ch
    th = th
    Allocates = {TRUE}
    KillWaiters = FALSE
INVARIANTS
    NoLostWakeup
CHECK_DEADLOCK FALSE
