SPECIFICATION Spec
CONSTANTS
    NULL = NULL
    fat = fat
    onFat = onFat
    nowhere = nowhere
    Cores = {c0, c1}
    FileSystems = {fat}
    Paths = {onFat, nowhere}
    Mounted <- MCMounted
    Dirs = {d1, d2, d3}
    TableCap = 4
SYMMETRY DirSymmetry
INVARIANTS DirectoriesInv HarmNeedsOvertaking HeldIntact NothingLeaks
PROPERTIES PromiseKept
