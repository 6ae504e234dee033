SPECIFICATION Spec
CONSTANTS
    NULL = NULL
    Cores = {core0, core1}
    part1 = part1
    part2 = part2
    Partitions = {part1, part2}
    PartStart <- MCPartStart
    PartLength <- MCPartLength
    FlashSize = 6
    Heap = heap
    Loop = loop
    BlockCells <- MCBlockCells
    MinSector = 2
    Capacity = 5
    HostRoom = 3
    OnLittlefs = {part2}
VIEW Stores
INVARIANTS DisksInv
PROPERTIES StoreKept
