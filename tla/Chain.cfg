CONSTANTS
    g = g a1 = a1 a2 = a2 a3 = a3 b1 = b1 b2 = b2 b3 = b3 u1 = u1
    Null = Null
    Genesis = g
    Parent <- MCParent
    Anc <- MCAnc
    Height <- MCHeight
    ChainWork <- MCWork
    HashRank <- MCRank
    Blocks = {g, a1, a2, a3, b1, b2, b3, u1}
    Unacceptable = {u1}
    Bad = {b2}
    DiskMayFill = FALSE
    LossWhenOff = FALSE
    MaxLosses = 1
SPECIFICATION FairSpec
INVARIANTS BestIsHeaviestValid NextPointersExact CoinsFollowBest CrashRecoverable ChainInv
PROPERTY ProcessingEnds
