SPECIFICATION RulesSpec
CONSTANTS
    Parts = {"target", "sign", "combine", "script", "tree", "sum", "newer", "height", "super", "root", "locator", "coins", "undo", "number", "log", "varint", "batch", "edit", "table", "address", "time", "words", "integer"}
    FractionalOne = 16
    nFractionalDifficultyMin = 32
    nFractionalDifficultyThreshold = 128
    nTargetMinLength = 2
    nTargetInitialLength = 3
    nTargetMaxLength = 5
    nTargetSpacing = 2
    nTargetTimespan = 8
    nWorkTransitionRatio = 4
    nMintLimit = 9990
    CENT = 10
    nEstimateInterval = 5
    hashBlockHeaderLimit = 5
    bnPrimeMin = 10
    bnPrimeMax = 400
    MaxChain = 6
    Hashes = {3, 5, 15}
    Multipliers = {1, 2, 3, 4, 6, 12, 16, 18, 24, 30, 36, 56}
    nGenesisLength = 2
    nMedianTimeSpan = 3
    nMaxDrift = 2
    MaxHeight = 5
    MaxTime = 4
    MaxNum = 3
    MaxElement = 520
    MaxScript = 10000
    MaxOps = 4
    MaxStack = 8
    MaxKeys = 3
    MaxTransactions = 16
    WordRange = 1048576
    MaxMoney = 200000
    MinTxOut = 1
    MinRelayTxFee = 30
    MaxBlockSize = 8
    MaxStandardTxSize = 8
    MaxBlockSigOps = 2
    LockTimeThreshold = 10
    MaxSeqNo = 3
    SuperRequired = 2
    SuperWindow = 3
    LocksFrom = 3
    LocksUntil = 5
    MaxTxids = 5
    MaxDrift = 2
    DenseSteps = 3
    HeadersLimit = 4
    HashLen = 2
    KeyLen = 3
    kBlockSize = 7
    kHeaderSize = 3
    B = 8
    VBits = 3
    VWidth = 8
    EditLevels = 3
    MaxByte = 3
    MaxSequence = 9
    RestartInterval = 2
    BlockSize = 5
    FilterBase = 4
    BitsPerKey = 3
    HashWidth = 6
    MinBits = 8
    WindowSize = 6
    Trusted = 5
    Close = 2
    ByteBits = 2
    WordBytes = 2
    WIDTH = 2
INVARIANTS TargetsSound ScriptsSound RulesExact  PeersWeighed
PROPERTIES ProofsGenuine
CHECK_DEADLOCK FALSE
