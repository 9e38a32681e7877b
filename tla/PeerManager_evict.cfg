SPECIFICATION NetworkSpec
CONSTANTS
    Parts = {"peers"}
    Address <- MCAddress
    Source = {"s", "t"}
    GetTriedBucket <- MCGetTriedBucket
    GetNewBucket <- MCGetNewBucket
    NEW_BUCKET_COUNT = 2
    NEW_BUCKET_SIZE = 2
    NEW_BUCKETS_PER_ADDRESS = 2
    TRIED_BUCKET_COUNT = 1
    TRIED_BUCKET_SIZE = 2
    TRIED_ENTRIES_INSPECT_ON_EVICT = 2
    GETADDR_MAX_PCT = 34
    MaxId = 4
    MaxTime = 2
    g = g a1 = a1 a2 = a2 a3 = a3 b2 = b2 b3 = b3 b4 = b4 e2 = e2 e3 = e3 f3 = f3
    Null = Null
    Genesis = g
    Blocks = {g, a1, a2, a3, b2, b3, b4, e2, e3, f3}
    Parent <- MCParent
    Anc <- MCAnc
    Height <- MCHeight
    Vtx <- MCVtx
    Tx <- MCTx
    BadScript = {}
    COINBASE_MATURITY = 1
    MinFee <- MCMinFee
    MIN_TX_FEE = 1
    Subsidy = 8
    Refused = {}
    NonStandardInputs = {}
    RelayFee <- MCRelayFee
    LargeTx = {}
    VtxPrev <- MCVtxPrev
    MAX_ORPHAN_TRANSACTIONS = 2
    Openers = {opencon, addednode}
    Addresses = {addr}
    MaxOutbound = 1
    MaxInbound = 1
    MaxNode = 2
    None = None
    Unsolicited <- MCUnsolicited
    Header = 2
    BlockSize = 2
    SendBufferSize = 4
    ReceiveFloodSize = 4
    ReadSize = 3
    MaxSize = 2
    TcpBuffer = 3
    MaxPush = 2
    Links = {1, 2, 3}
    From <- MCFrom
    To <- MCTo
    Version <- MCVersion
    OneShot = {2}
    MinProto = 2
    AddrTime = 3
    MaxEvents = 2
    Peers = {1, 2}
    PeerAddr <- MCPeerAddr
    Candidates <- MCCandidates
    Inbound = {1}
    Limited = {}
    fDiscover = TRUE
    MaxScore = 6
    Body <- MCBody
    Mine = {1}
    FilterBytes = 4
    FilterHashes = 2
    UpdateFlag = "p2pubkey"
    MaxConnected = 2
    MaxAsks = 2
    MaxTransactions = 16
    MaxFilterSize = 8
    MaxHashFuncs = 5
INVARIANT EvictsOldest
CHECK_DEADLOCK FALSE
