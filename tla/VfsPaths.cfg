SPECIFICATION Spec
CONSTANTS
    Names = {"x", "y", "sd", "sdx"}
    MountName = "sd"
    Joined <- MCJoined
    Paths <- MCPaths
    MaxDepth = 2
    MaxObjects = 2
INVARIANTS TypeOK
PROPERTIES NamesKept
VIEW Files
