SPECIFICATION FairSpec
CONSTANTS
    NULL = NULL
    fs1 = fs1
    fs2 = fs2
    fs3 = fs3
    c0 = c0
    c1 = c1
    Cores = {c0, c1}
    FileSystems = {fs1, fs2, fs3}
    Below <- MCBelowThree
    Uses <- MCUsesApart
    LockedFns = {"open", "close", "lseek"}
    MaxAccess = 2
INVARIANTS NoDeadlock LocksAccounted
PROPERTIES CallsReturn
