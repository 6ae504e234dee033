SPECIFICATION Spec
CONSTANTS
    NULL = NULL
    fat = fat
    lfs = lfs
    onFat = onFat
    onLfs = onLfs
    nowhere = nowhere
    Cores = {c0, c1}
    FileSystems = {fat}
    FatFileSystems = {fat}
    Paths = {onFat}
    Mounted <- MCMountedFat
    Files = {f1, f2, f3}
    FileOps = {"write"}
    TableCap = 4
    Strangers = FALSE
    TableAllocMayFail = FALSE
SYMMETRY FileSymmetry
INVARIANTS CallsReachOpenFiles
