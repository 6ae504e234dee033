SPECIFICATION Spec
CONSTANTS
    NULL = NULL
    Absent = Absent
    Torn = Torn
    Values = {x, y}
    MaxSize = 2
    HeapCap = 2
SYMMETRY ValueSymmetry
INVARIANTS FilesInv FatWriteStays ContextsAccounted
PROPERTIES PromiseKept
