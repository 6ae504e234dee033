SPECIFICATION FairSpec
CONSTANTS
    NULL = NULL
    fat = fat
    lfs = lfs
    onFat = onFat
    onLfs = onLfs
    nowhere = nowhere
    Cores = {c0}
    FileSystems = {fat, lfs}
    FatFileSystems = {fat}
    Paths = {onFat, onLfs, nowhere}
    Mounted <- MCMounted
    Files = {f1, f2, f3}
    FileOps = {"read", "write", "lseek", "ftello", "ftruncate", "fstat"}
    TableCap = 4
    Strangers = TRUE
    TableAllocMayFail = TRUE
INVARIANTS TypeOK HeldIntact NothingLeaks
PROPERTIES LowestFree CallsReturn
