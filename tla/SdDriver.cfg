SPECIFICATION FairSpec
CONSTANTS
    Sectors = 2
    BlockSize = 2
    EraseGroup = 2
    MaxBlocks = 2
    MaxNoise = 1
    MaxTurns = 1
    Boards <- MCBoards
INVARIANTS DriverInv ReleasedAtRest
PROPERTIES InitMeansReady SingleReadExact TransferClosed NoStrayWrites CallsReturn
