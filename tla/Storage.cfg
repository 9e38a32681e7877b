SPECIFICATION StorageSpec
CONSTANTS
    Parts = {"coins", "engine", "memtable", "cache", "iterator", "file", "env", "repair", "blocks"}
    g = g a1 = a1 a2 = a2 a3 = a3 b2 = b2 r2 = r2 r3 = r3
    im = im hi = hi sc = sc mi = mi
    Null = Null
    Genesis = g
    Blocks = {g, a1, a2, a3, b2, r2, r3, im, hi, sc, mi}
    Parent <- MCParent
    Anc <- MCAnc
    Height <- MCHeight
    Vtx <- MCVtx
    Tx <- MCTx
    BadScript = {"tsc"}
    nScriptCheckThreads = 1
    COINBASE_MATURITY = 1
    MinFee <- MCMinFee
    MIN_TX_FEE = 1
    Subsidy = 4
    Keys = {1, 2}
    Writers = {w1, w2}
    SyncWriters = {w1}
    Readers = {r1}
    Batches <- MCBatches
    MaxWrites = 3
    MaxFaults = 1
    BufferSize = 0
    GroupLimit = 2
    NumLevels = 3
    MaxMemLevel = 1
    L0Trigger = 2
    L0Stop = 2
    LevelSize = 2
    GrandLimit = 1
    ExpandLimit = 9
    SKeys = {1, 2, 3}
    Iterators = {i1}
    kMaxHeight = 3
    MaxSeeks = 2
    CKeys = {1, 3, 5}
    Threads = {t1, t2}
    capacity_ = 2
    MinLength = 2
    MaxHandles = 4
    IKeys = {1, 2}
    Children = 2
    MaxEntries = 4
    TurnForward = FALSE
    PageSize = 2
    FirstMap = 4
    LargestMap = 8
    MaxBytes = 14
    MaxCallFaults = 2
    Lockers = {"p1", "p2"}
    ProcessOf <- MCProcess
    MmapLimit = 1
    Mappers = {o1, o2}
    MaxItems = 3
    Logs0 <- MCLogs
    Tables0 <- MCTables
    MaxRuns = 2
    MaxErrors = 1
    BlockBytes <- MCBytes
    Predecessor <- MCPredecessor
    UndoBytes = 1
    MaxFileSize = 3
    MaxFileFaults = 1
INVARIANTS DatabaseSound DataSurvives   
PROPERTIES CoinsExact MemTableSound
CHECK_DEADLOCK FALSE
