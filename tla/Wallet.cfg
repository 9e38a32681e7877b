SPECIFICATION WSpec
CONSTANTS
    Parts = {"keys", "txs", "file", "table", "select"}
    Passphrases = {1, 2}
    PoolTarget = 1
    MaxKey = 6
    MaxMasterKeys = 2
    MaxWriteFaults = 1
    MaxCrashes = 1
    MaxTx = 4
    Foreign <- MCForeign
    MaxBlock = 3
    CoinbaseMaturity = 1
    WalletMaturity = 2
    CopyDepth = 2
    LocatorPeriod = 2
    MaxCrash = 1
    Threads = {t1, t2}
    MaxRecord = 2
    MaxFaults = 1
    Tx <- MCTx
    Parent <- MCParent
    Maturity = 2
    MaxQueue = 2
    CENT = 2
    TransactionFee = 0
    InSize = 3
    OutSize = 1
    KB = 8
    MaxStandardSize = 100
INVARIANTS  WalletTrue FileSound TableFollowsWallet PaymentsBalance
CHECK_DEADLOCK FALSE
