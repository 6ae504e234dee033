SPECIFICATION StartSpec
CONSTANTS
    NULL = NULL
    ELSEWHERE = ELSEWHERE
    root = root
    flash = flash
    lfs = lfs
    Root = root
    Sub = flash
    Lfs = lfs
    StartUps <- FsInits
    Paths = {root, flash}
    Dirs = {root, flash}
    Prefixes <- MCPrefixes
    Length <- MCLength
    FileSystems = {fat1, fat2, lfs}
    FatFileSystems = {fat1, fat2}
    Devices = {dev1, dev2}
    MaxMountpoint = 3
    MaxVolume = 2
    Careful = TRUE
VIEW Tables
SYMMETRY DeviceSymmetry
INVARIANTS StartTypeOK RegistryConsistent MountedInPlace MountedDirResolves StartedInPlace
PROPERTIES StartHasRoom NamespaceKept KeptUnlessUnread
