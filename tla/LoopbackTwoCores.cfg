SPECIFICATION Spec
CONSTANTS
    NULL = NULL
    fs1 = fs1
    fs2 = fs2
    fs3 = fs3
    c0 = c0
    c1 = c1
    Cores = {c0, c1}
    FileSystems = {fs1, fs2}
    Below <- MCBelowTwo
    Uses <- MCUsesBoth
    LockedFns = {"open", "lseek"}
    MaxAccess = 1
INVARIANTS NoDeadlock
