SPECIFICATION ProgressSpec
CONSTANTS
    Parts = {"queue", "engine", "env", "nodes", "relay", "life"}
    Master = Master
    NoThread = NoThread
    Workers = {w1, w2}
    Checks = {g1, g2, b1}
    BadChecks = {b1}
    nBatchSize = 2
    MaxSpurious = 1
    Keys = {1, 2}
    Writers = {x1, x2}
    SyncWriters = {x1}
    Readers = {}
    Batches <- MCBatches
    MaxWrites = 3
    MaxFaults = 1
    BufferSize = 0
    GroupLimit = 2
    NumLevels = 3
    MaxMemLevel = 1
    L0Trigger = 2
    L0Stop = 2
    LevelSize = 2
    GrandLimit = 1
    ExpandLimit = 9
    Lockers = {"p1", "p2"}
    ProcessOf <- MCProcess
    MmapLimit = 1
    Mappers = {o1}
    MaxItems = 2
    Openers = {opencon}
    Addresses = {a1}
    MaxOutbound = 1
    MaxInbound = 1
    MaxNode = 2
    None = None
    RelayNodes = {1, 2}
    Parent <- MCParent
    BatchLimit = 1
    MaxDrop = 1
    PerFile = 2
    MaxBlocks = 3
    MaxStarts = 2
    MaxDamage = 1
  
PROPERTIES ImplementsVerdict WaitsEnd BackgroundRuns SyncResumes BlocksSpread ShutdownEnds
CHECK_DEADLOCK FALSE
