------------------------------- MODULE Chain -------------------------------
(***************************************************************************)
(* The block index and the choice of the best chain: ProcessBlock,         *)
(* AcceptBlock, AddToBlockIndex, ConnectBestBlock, SetBestChain,           *)
(* InvalidBlockFound and LoadBlockIndexDB of src/src/main.cpp, with the    *)
(* two databases they write (block tree and coins) and power loss.         *)
(*                                                                         *)
(* A block is a member of Blocks; what the node computes from its contents *)
(* is given by constants: its parent, its chain work, the rank of its hash *)
(* and whether each group of checks accepts it.  All of this code runs     *)
(* under cs_main; it is cut into several steps so that the power can fail  *)
(* between them.                                                           *)
(***************************************************************************)
EXTENDS Integers, Sequences, FiniteSets

CONSTANTS
    Blocks,         \* every block anybody may send
    Genesis,        \* hashGenesisBlock
    Null,           \* the NULL CBlockIndex*
    Parent,         \* hashPrevBlock; Null for Genesis
    Anc,            \* the blocks on the path from a block down to Genesis
    Height,         \* nHeight
    ChainWork,      \* nChainWork
    HashRank,       \* the order of the block hashes
    Unacceptable,   \* AcceptBlock's contextual checks reject these
    Bad,            \* ConnectBlock rejects these, after their ancestors
    DiskMayFill,    \* whether CheckDiskSpace may fail in SetBestChain
    LossWhenOff,    \* whether the power may fail after a clean shutdown
    MaxLosses       \* bound: power failures

ASSUME TreeAssumption ==
    /\ Genesis \in Blocks /\ Null \notin Blocks
    /\ Parent \in [Blocks -> Blocks \cup {Null}]
    /\ \A b \in Blocks : Parent[b] = Null <=> b = Genesis
    /\ Anc \in [Blocks -> SUBSET Blocks]
    /\ Anc[Genesis] = {Genesis}
    /\ \A b \in Blocks \ {Genesis} : Anc[b] = Anc[Parent[b]] \cup {b}
    /\ Height \in [Blocks -> Nat]
    /\ \A b \in Blocks \ {Genesis} : Height[b] = Height[Parent[b]] + 1
    /\ \A b \in Blocks : \A a \in Anc[b] :
          /\ Anc[a] \subseteq Anc[b]
          /\ Height[a] <= Height[b]
          /\ \A c \in Anc[b] : Height[a] = Height[c] => a = c
          /\ \A c \in Anc[b] : Height[a] <= Height[c] => a \in Anc[c]

ASSUME WorkAssumption ==
    /\ ChainWork \in [Blocks -> Nat]
    /\ \A b \in Blocks \ {Genesis} : ChainWork[b] > ChainWork[Parent[b]]
    /\ \A b \in Blocks : \A a \in Anc[b] : a # b => ChainWork[a] < ChainWork[b]
    /\ HashRank \in [Blocks -> Nat]
    /\ \A a, b \in Blocks : HashRank[a] = HashRank[b] => a = b

ASSUME ValidityAssumption ==
    /\ Unacceptable \subseteq Blocks \ {Genesis}
    /\ Bad \subseteq Blocks \ {Genesis}
    /\ DiskMayFill \in BOOLEAN /\ LossWhenOff \in BOOLEAN
    /\ MaxLosses \in Nat

VARIABLES
    nStatus,            \* nStatus of each block; {} outside mapBlockIndex
    setBlockIndexValid, \* candidates for the tip of the best chain
    pindexBest,         \* tip of the best chain, or Null
    pnext,              \* the successor of each block in the best chain
    coinsTip,           \* pcoinsTip->GetBestBlock()
    orphans,            \* mapOrphanBlocks (and ByPrev, keyed by Parent)
    diskStatus,         \* block tree databases that a power loss may leave
    diskCoins,          \* tips of the coin databases that it may leave
    pc,                 \* what the thread holding cs_main is doing
    cur,                \* the block in AcceptBlock; Null during startup
    vWorkQueue,         \* ProcessBlock's queue of blocks to look for orphans of
    vAttach,            \* the blocks ConnectBestBlock still has to attach
    coinsOld,           \* the view's best block when SetBestChain was called
    nLosses             \* power failures so far

treeVars == <<nStatus, setBlockIndexValid>>
bestVars == <<pindexBest, pnext>>
diskVars == <<diskStatus, diskCoins>>
procVars == <<pc, cur, vWorkQueue, vAttach, coinsOld>>
vars == <<treeVars, bestVars, coinsTip, orphans, diskVars, procVars, nLosses>>

(* "data"   BLOCK_VALID_TRANSACTIONS and BLOCK_HAVE_DATA                   *)
(* "undo"   BLOCK_VALID_SCRIPTS and BLOCK_HAVE_UNDO, always set together   *)
(* "failed" BLOCK_FAILED_VALID      "child" BLOCK_FAILED_CHILD             *)
Flags == {"data", "undo", "failed", "child"}

(* Where the code is: at rest; in ConnectBestBlock's loop; about to call   *)
(* SetBestChain for the next block of vAttach; in SetBestChain after       *)
(* view.Flush(); ConnectBestBlock returned true or false; in ProcessBlock's*)
(* orphan loop; not running.                                               *)
Points == {"idle", "best", "set", "flush", "true", "false", "orphans", "off"}

NoNext == [b \in Blocks |-> Null]
Index == {b \in Blocks : nStatus[b] # {}}       \* mapBlockIndex
FailedIn(s, b) == s[b] \cap {"failed", "child"} # {}
Failed(b) == FailedIn(nStatus, b)               \* nStatus & BLOCK_FAILED_MASK

Chain(tip) == IF tip = Null THEN {} ELSE Anc[tip]

(* The node just after InitBlockIndex has added the genesis block: the     *)
(* coins are not flushed in the initial download.                          *)
Init ==
    /\ nStatus = [b \in Blocks |-> IF b = Genesis THEN {"data"} ELSE {}]
    /\ setBlockIndexValid = {Genesis}
    /\ pindexBest = Genesis /\ pnext = NoNext /\ coinsTip = Genesis
    /\ orphans = {}
    /\ diskStatus = {[b \in Blocks |-> {}], nStatus} /\ diskCoins = {Null}
    /\ pc = "idle" /\ cur = Null /\ vWorkQueue = <<>> /\ vAttach = {}
    /\ coinsOld = Null /\ nLosses = 0

-----------------------------------------------------------------------------
(* AddToBlockIndex(b) up to its call of ConnectBestBlock. *)
AddToBlockIndex(b) ==
    /\ nStatus' = [nStatus EXCEPT ![b] = {"data"}]
    /\ setBlockIndexValid' = setBlockIndexValid \cup {b}
    /\ diskStatus' = diskStatus \cup {nStatus'}
    /\ cur' = b /\ pc' = "best"
    /\ UNCHANGED <<bestVars, coinsTip, diskCoins, vAttach, coinsOld, nLosses>>

(* ProcessBlock(b) until it is refused, held as an orphan or handed to     *)
(* AddToBlockIndex.  fPeer: the block came from a peer, not from a file.   *)
ProcessBlock(b, fPeer) ==
    /\ pc = "idle"
    /\ b \notin Index /\ b \notin orphans
    /\ IF Parent[b] \notin Index
       THEN /\ fPeer
            /\ orphans' = orphans \cup {b}
            /\ UNCHANGED <<treeVars, bestVars, coinsTip, diskVars, procVars, nLosses>>
       ELSE /\ b \notin Unacceptable
            /\ AddToBlockIndex(b)
            /\ UNCHANGED <<orphans, vWorkQueue>>

(* One turn of the loop over the orphans of the head of vWorkQueue. *)
ProcessOrphan(o) ==
    /\ pc = "orphans"
    /\ o \in orphans /\ Parent[o] = Head(vWorkQueue)
    /\ IF o \in Unacceptable \/ o \in Index
       THEN /\ orphans' = orphans \ {o}
            /\ UNCHANGED <<treeVars, bestVars, coinsTip, diskVars, procVars, nLosses>>
       ELSE /\ AddToBlockIndex(o)
            /\ UNCHANGED <<orphans, vWorkQueue>>

(* No orphan of the head is left. *)
NextInWorkQueue ==
    /\ pc = "orphans"
    /\ \A o \in orphans : Parent[o] # Head(vWorkQueue)
    /\ vWorkQueue' = Tail(vWorkQueue)
    /\ pc' = IF vWorkQueue' = <<>> THEN "idle" ELSE "orphans"
    /\ cur' = IF vWorkQueue' = <<>> THEN Null ELSE cur
    /\ UNCHANGED <<treeVars, bestVars, coinsTip, orphans, diskVars, vAttach, coinsOld, nLosses>>

(* vWorkQueue.push_back for a block that was accepted; the variant does    *)
(* not look for orphans of orphans.                                        *)
QueueOnce == IF vWorkQueue = <<>> THEN <<cur>> ELSE vWorkQueue
QueueCur == Append(vWorkQueue, cur)

(* ConnectBestBlock has returned true to AddToBlockIndex, or to AppInit2.  *)
(* AddToBlockIndex's pblocktree->Flush() does nothing in CLevelDB.         *)
Accepted ==
    /\ pc = "true"
    /\ pc' = IF cur = Null THEN "idle" ELSE "orphans"
    /\ vWorkQueue' = IF cur = Null THEN <<>> ELSE QueueCur
    /\ orphans' = orphans \ {cur}
    /\ UNCHANGED <<treeVars, bestVars, coinsTip, diskVars, cur, vAttach, coinsOld, nLosses>>

(* It has returned false: ProcessBlock returns if the block is the one it  *)
(* was called for, and drops the block if it was an orphan.                *)
NotAccepted ==
    /\ pc = "false" /\ cur # Null
    /\ pc' = IF vWorkQueue = <<>> THEN "idle" ELSE "orphans"
    /\ cur' = IF vWorkQueue = <<>> THEN Null ELSE cur
    /\ orphans' = orphans \ {cur}
    /\ UNCHANGED <<treeVars, bestVars, coinsTip, diskVars, vWorkQueue, vAttach, coinsOld, nLosses>>

-----------------------------------------------------------------------------
(* CBlockIndexWorkComparator: is x the last element of setBlockIndexValid? *)
Top(x) ==
    \A y \in setBlockIndexValid \ {x} :
        \/ ChainWork[y] < ChainWork[x]
        \/ ChainWork[y] = ChainWork[x] /\ HashRank[x] < HashRank[y]

(* Is b worth attaching?  The variant attaches the whole walk. *)
AnyBlock(b) == TRUE
MoreWorkThanBest(b) == pindexBest = Null \/ ChainWork[b] > ChainWork[pindexBest]

NothingToDo(x) ==
    pindexBest # Null /\ (x = pindexBest \/ ChainWork[x] = ChainWork[pindexBest])

(* The walk from x towards the genesis block ends at the first block that  *)
(* has failed, has no predecessor or is in the best chain.                 *)
WalkEnds(a) == Failed(a) \/ Parent[a] = Null \/ pnext[a] # Null
WalkEnd(x, a) ==
    /\ a \in Anc[x] /\ WalkEnds(a)
    /\ \A c \in Anc[x] : WalkEnds(c) => Height[c] <= Height[a]

(* ConnectBestBlock: nothing better than the current best. *)
StayWithBest ==
    /\ pc = "best"
    /\ setBlockIndexValid # {} => \E x \in setBlockIndexValid : Top(x) /\ NothingToDo(x)
    /\ pc' = "true"
    /\ UNCHANGED <<treeVars, bestVars, coinsTip, orphans, diskVars, cur, vWorkQueue,
                   vAttach, coinsOld, nLosses>>

(* nStatus with the flag f added to the blocks of S. *)
Marked(st, S, f) == [b \in Blocks |-> IF b \in S THEN st[b] \cup {f} ELSE st[b]]

(* The blocks from x down to the failed block a, without a; the variant    *)
(* goes on to the genesis block.                                           *)
PathToGenesis(x, a) == Anc[x]
FailedPath(x, a) == Anc[x] \ Anc[a]

(* "do ... while(true)": the next candidate is tried; the variant gives up. *)
GiveUp == "true"
TryNext == "best"

(* ConnectBestBlock: the candidate descends from a failed block; mark the  *)
(* path (written one by one, from the candidate down) and try again.       *)
MarkFailedPath ==
    /\ pc = "best"
    /\ \E x \in setBlockIndexValid : \E a \in Anc[x] :
          /\ Top(x) /\ ~NothingToDo(x)
          /\ WalkEnd(x, a) /\ Failed(a)
          /\ LET path == FailedPath(x, a)
             IN  /\ nStatus' = Marked(nStatus, path, "child")
                 /\ setBlockIndexValid' = setBlockIndexValid \ path
                 /\ diskStatus' = diskStatus \cup
                       {Marked(nStatus, path \ Anc[c], "child") : c \in path}
                       \cup {nStatus'}
    /\ pc' = TryNext
    /\ UNCHANGED <<bestVars, coinsTip, orphans, diskCoins, cur, vWorkQueue, vAttach,
                   coinsOld, nLosses>>

(* ConnectBestBlock: attach, one by one, the blocks of the walk that have  *)
(* more work than the current best.                                        *)
AttachPath ==
    /\ pc = "best"
    /\ \E x \in setBlockIndexValid : \E a \in Anc[x] :
          /\ Top(x) /\ ~NothingToDo(x)
          /\ WalkEnd(x, a) /\ ~Failed(a)
          /\ vAttach' = {b \in Anc[x] : Height[b] >= Height[a] /\ MoreWorkThanBest(b)}
    /\ pc' = "set"
    /\ UNCHANGED <<treeVars, bestVars, coinsTip, orphans, diskVars, cur, vWorkQueue, coinsOld, nLosses>>

(* All of vAttach is attached. *)
AttachDone ==
    /\ pc = "set" /\ vAttach = {}
    /\ pc' = "true"
    /\ UNCHANGED <<treeVars, bestVars, coinsTip, orphans, diskVars, cur, vWorkQueue,
                   vAttach, coinsOld, nLosses>>

-----------------------------------------------------------------------------
(* SetBestChain(t), where t is the lowest block of vAttach. *)
Lowest(t, S) == t \in S /\ \A b \in S : Height[t] <= Height[b]

vDisconnect(t) == Chain(coinsTip) \ Chain(t)
vConnect(t) == Chain(t) \ Chain(coinsTip)

(* What ConnectBlock rejects of the branch; the variant looks at its tip   *)
(* only.                                                                   *)
RejectedTip(t) == {t} \cap Bad
Rejected(t) == vConnect(t) \cap Bad

(* DisconnectBlock needs undo data; it is never missing (UndoAvailable).   *)
(* ConnectBlock writes undo data and status of every block it accepts, one *)
(* by one, whether or not a later block of the branch is accepted; the     *)
(* genesis block returns before that.  The variant writes the undo data of *)
(* the last block only.                                                    *)
ConnectedLast(ok) == {b \in ok \ {Genesis} : \A c \in ok : Height[c] <= Height[b]}
Connected(ok) == ok \ {Genesis}
ConnectWrites(ok) ==
    /\ nStatus' = Marked(nStatus, Connected(ok), "undo")
    /\ diskStatus' = diskStatus \cup {nStatus'} \cup
          {Marked(nStatus, Connected(ok) \cap Anc[c], "undo") : c \in ok}

(* Every block of the branch connects: view.Flush() into pcoinsTip. *)
ConnectBranch(t) ==
    /\ pc = "set" /\ Lowest(t, vAttach)
    /\ \A d \in vDisconnect(t) : "undo" \in nStatus[d]
    /\ Rejected(t) = {}
    /\ ConnectWrites(vConnect(t))
    /\ coinsTip' = t /\ coinsOld' = coinsTip
    /\ pc' = "flush"
    /\ UNCHANGED <<setBlockIndexValid, bestVars, orphans, diskCoins, cur, vWorkQueue,
                   vAttach, nLosses>>

(* setBlockIndexValid.erase(pindex) of InvalidBlockFound; the variant      *)
(* forgets it.                                                             *)
KeepCandidate(b) == setBlockIndexValid
EraseCandidate(b) == setBlockIndexValid \ {b}

(* SetBestChain works on a view of its own, so a rejected branch leaves    *)
(* pcoinsTip alone; the variant works on pcoinsTip.                        *)
CoinsBefore(b) == Parent[b]
CoinsUntouched(b) == coinsTip

(* b is the first block of the branch that ConnectBlock rejects:           *)
(* InvalidBlockFound(b).  b is not in the best chain (FailedNotInBest), so *)
(* InvalidBlockFound does not call ConnectBestBlock.                       *)
RejectBranch(t, b) ==
    /\ pc = "set" /\ Lowest(t, vAttach)
    /\ \A d \in vDisconnect(t) : "undo" \in nStatus[d]
    /\ Lowest(b, Rejected(t))
    /\ LET good == Connected(vConnect(t) \cap (Anc[b] \ {b}))
       IN  /\ nStatus' = Marked(Marked(nStatus, good, "undo"), {b}, "failed")
           /\ diskStatus' = diskStatus \cup {nStatus', Marked(nStatus, good, "undo")} \cup
                 {Marked(nStatus, good \cap Anc[c], "undo") : c \in good}
    /\ setBlockIndexValid' = EraseCandidate(b)
    /\ coinsTip' = CoinsUntouched(b)
    /\ vAttach' = {}
    /\ pc' = "false"
    /\ UNCHANGED <<bestVars, orphans, diskCoins, cur, vWorkQueue, coinsOld, nLosses>>

(* The successor of a among the blocks of C, a part of one chain. *)
NextIn(C, a) == IF \E b \in C : Parent[b] = a THEN CHOOSE b \in C : Parent[b] = a ELSE Null

(* pnext without "pindex->pprev->pnext = NULL". *)
LinkedOnly(cold, cnew) ==
    [a \in Blocks |-> IF \E b \in cnew \ cold : Parent[b] = a
                      THEN NextIn(cnew \ cold, a) ELSE pnext[a]]

(* pnext after the branch of cold below the fork is disconnected and that  *)
(* of cnew connected.                                                      *)
Relinked(cold, cnew) ==
    [a \in Blocks |->
        IF \E b \in cnew \ cold : Parent[b] = a THEN NextIn(cnew \ cold, a)
        ELSE IF \E b \in cold \ cnew : Parent[b] = a THEN Null ELSE pnext[a]]

(* The block tree database after pblocktree->Sync(); the variant forgets   *)
(* the call.                                                               *)
Unsynced == diskStatus
Synced == {nStatus}

(* The rest of SetBestChain: the coins are written or, in the initial      *)
(* download, kept in memory; then the memory structures are updated.       *)
(* Before the coins are written the block tree is synced.                  *)
SwitchBest(fFlush) ==
    /\ pc = "flush"
    /\ diskStatus' = IF fFlush THEN Synced ELSE diskStatus
    /\ diskCoins' = IF fFlush THEN diskCoins \cup {coinsTip} ELSE diskCoins
    /\ pnext' = Relinked(Chain(coinsOld), Chain(coinsTip))
    /\ pindexBest' = coinsTip
    /\ vAttach' = vAttach \ {coinsTip}
    /\ pc' = "set"
    /\ UNCHANGED <<treeVars, coinsTip, orphans, cur, vWorkQueue, coinsOld, nLosses>>

(* CheckDiskSpace fails: state.Error(), after view.Flush(). *)
DiskFull ==
    /\ pc = "flush" /\ DiskMayFill
    /\ vAttach' = {}
    /\ pc' = "false"
    /\ UNCHANGED <<treeVars, bestVars, coinsTip, orphans, diskVars, cur, vWorkQueue,
                   coinsOld, nLosses>>

-----------------------------------------------------------------------------
Forget ==
    /\ setBlockIndexValid' = {} /\ pindexBest' = Null /\ pnext' = NoNext /\ orphans' = {}
    /\ pc' = "off" /\ cur' = Null /\ vWorkQueue' = <<>> /\ vAttach' = {} /\ coinsOld' = Null

(* Shutdown(), also after InitError; SetBestChain is interrupted between   *)
(* two blocks.  pblocktree->Flush() does nothing, pcoinsTip->Flush()       *)
(* writes.  While the node is off, nStatus and coinsTip are what the       *)
(* operating system holds of the databases.                                *)
Shutdown ==
    /\ pc = "idle" \/ (pc = "set" /\ cur # Null) \/ (pc = "false" /\ cur = Null)
    /\ Forget
    /\ diskCoins' = diskCoins \cup {coinsTip}
    /\ UNCHANGED <<nStatus, coinsTip, diskStatus, nLosses>>

(* The power fails: of the writes since the last sync of each database a   *)
(* prefix survives.  A killed process loses no write, the special case of  *)
(* the whole prefix.                                                       *)
PowerLoss ==
    /\ nLosses < MaxLosses /\ nLosses' = nLosses + 1
    /\ pc = "off" => LossWhenOff
    /\ Forget
    /\ nStatus' \in diskStatus /\ diskStatus' = {nStatus'}
    /\ coinsTip' \in diskCoins /\ diskCoins' = {coinsTip'}

(* CCoinsViewDB::GetBestBlock *)
LoadedTip == IF coinsTip # Null /\ nStatus[coinsTip] # {} THEN coinsTip ELSE Null

(* LoadBlockIndexDB, and InitBlockIndex if the block tree is empty.        *)
(* Opening a leveldb database syncs what its log contains.                 *)
Start ==
    /\ pc = "off"
    /\ nStatus' = [nStatus EXCEPT ![Genesis] = @ \cup {"data"}]
    /\ setBlockIndexValid' = {b \in Blocks : nStatus'[b] # {} /\ ~FailedIn(nStatus', b)}
    /\ pindexBest' = LoadedTip /\ coinsTip' = LoadedTip
    /\ pnext' = [a \in Blocks |-> NextIn(Chain(LoadedTip), a)]
    /\ diskStatus' = {nStatus, nStatus'} /\ diskCoins' = {coinsTip}
    /\ pc' = "best"
    /\ UNCHANGED <<orphans, cur, vWorkQueue, vAttach, coinsOld, nLosses>>

-----------------------------------------------------------------------------
(* The steps of the thread inside ProcessBlock or AppInit2. *)
Work ==
    \/ \E o \in Blocks : ProcessOrphan(o)
    \/ NextInWorkQueue
    \/ Accepted
    \/ NotAccepted
    \/ StayWithBest
    \/ MarkFailedPath
    \/ AttachPath
    \/ AttachDone
    \/ \E t \in Blocks : ConnectBranch(t)
    \/ \E t, b \in Blocks : RejectBranch(t, b)
    \/ \E fFlush \in BOOLEAN : SwitchBest(fFlush)

Next ==
    \/ \E b \in Blocks, fPeer \in BOOLEAN : ProcessBlock(b, fPeer)
    \/ Work
    \/ DiskFull
    \/ Shutdown
    \/ PowerLoss
    \/ Start

Spec == Init /\ [][Next]_vars

(* The thread inside ProcessBlock goes on; the user starts the node again, *)
(* and a node whose start failed ends.                                     *)
Fairness == WF_vars(Work) /\ WF_vars(Start) /\ WF_vars(pc = "false" /\ Shutdown)
FairSpec == Spec /\ Fairness

-----------------------------------------------------------------------------
(* The type invariant. *)
TypeOK ==
    /\ nStatus \in [Blocks -> SUBSET Flags]
    /\ setBlockIndexValid \subseteq Blocks
    /\ pindexBest \in Blocks \cup {Null}
    /\ pnext \in [Blocks -> Blocks \cup {Null}]
    /\ coinsTip \in Blocks \cup {Null} /\ coinsOld \in Blocks \cup {Null}
    /\ orphans \subseteq Blocks
    /\ diskStatus \subseteq [Blocks -> SUBSET Flags]
    /\ diskCoins \subseteq Blocks \cup {Null}
    /\ pc \in Points
    /\ cur \in Blocks \cup {Null}
    /\ vWorkQueue \in Seq(Blocks)
    /\ vAttach \subseteq Blocks
    /\ nLosses \in 0..MaxLosses

(* ConnectBlock accepts the block and all its ancestors. *)
ValidChain(b) == Anc[b] \cap Bad = {}

(* Consensus: whenever ProcessBlock is not running, no block of the index  *)
(* whose chain ConnectBlock accepts has more work than the best block,     *)
(* whatever order blocks and orphans came in and whatever a power failure  *)
(* made the node forget (ConnectBestBlock tries one candidate and gives up *)
(* when it fails).                                                         *)
BestIsHeaviestValid ==
    pc = "idle" =>
        /\ pindexBest # Null /\ ValidChain(pindexBest)
        /\ \A b \in Index : ValidChain(b) => ChainWork[b] <= ChainWork[pindexBest]

(* A block is marked failed only if it or an ancestor is rejected by       *)
(* ConnectBlock: the marks are never removed, so a wrong one would exclude *)
(* the block for ever.                                                     *)
FailedMarksSound == \A b \in Index : Failed(b) => ~ValidChain(b)

(* pnext links exactly the chain of pindexBest ("pnext will only point     *)
(* forward to the longest branch, or will be null if the block is not part *)
(* of the longest chain").                                                 *)
NextPointersExact ==
    \A a, b \in Blocks : pnext[a] = b <=> b \in Chain(pindexBest) /\ Parent[b] = a

(* The coins that transactions are checked against are those of the best   *)
(* chain whenever cs_main is free.                                         *)
CoinsFollowBest == pc = "idle" => coinsTip = pindexBest

(* Whatever a power failure leaves of the two databases while the node is  *)
(* running, the coins' best block is in the block tree, with the undo data *)
(* needed to leave its chain, and it is not marked failed: SetBestChain    *)
(* syncs the block tree before it writes the coins.                        *)
Recoverable(st, tip) ==
    \A b \in Chain(tip) : st[b] # {} /\ ~FailedIn(st, b) /\ (b # Genesis => "undo" \in st[b])
CrashRecoverable ==
    pc # "off" => \A st \in diskStatus, tip \in diskCoins : Recoverable(st, tip)

(* The orphans that could be connected: ProcessBlock's work queue forgets  *)
(* none, so that an orphan block whose parent is in the index is left in   *)
(* mapOrphanBlocks only if it descends from a failed block.                *)
StrandedOrphans == {o \in orphans : Parent[o] \in Index /\ ValidChain(Parent[o])}

(* The undo data DisconnectBlock needs is there, and the block that        *)
(* ConnectBlock rejects is not linked into the best chain.                 *)
UndoAvailable == \A b \in Chain(coinsTip) \ {Genesis} : pc # "off" => "undo" \in nStatus[b]
FailedNotInBest == \A b \in Bad : Parent[b] # Null => pnext[Parent[b]] # b /\ pnext[b] = Null

(* SetBestChain never comes to a dead end, also after a full disk: neither *)
(* "no undo data available" of DisconnectBlock nor the nested              *)
(* ConnectBestBlock of InvalidBlockFound can happen.                       *)
NoDeadEnd == UndoAvailable /\ FailedNotInBest

(* While the node runs, the best chain is only ever replaced by one with   *)
(* more work.                                                              *)
BestWorkGrows ==
    [][pindexBest' # pindexBest /\ pindexBest # Null /\ pindexBest' # Null
       => ChainWork[pindexBest'] > ChainWork[pindexBest]]_vars

(* ProcessBlock and the start of the node end: ConnectBestBlock's loop     *)
(* does not run for ever, and a start that fails because a candidate is    *)
(* rejected makes progress for the next one.                               *)
NodeComesToRest == []<>(pc = "idle")

-----------------------------------------------------------------------------
(* The parts of the inductive invariant.                                   *)
StatusSound(st) == \A b \in Blocks : FailedIn(st, b) => ~ValidChain(b)

(* Failure marks are sound in memory and in whatever is on disk. *)
MarksInv ==
    /\ StatusSound(nStatus)
    /\ \A st \in diskStatus : StatusSound(st)

(* The index is closed under ancestors, in memory and on disk. *)
StatusClosed(st) == \A b \in Blocks : st[b] # {} => \A a \in Anc[b] : st[a] # {}
IndexInv ==
    /\ StatusClosed(nStatus)
    /\ \A st \in diskStatus : StatusClosed(st)
    /\ cur # Null => cur \in Index
    /\ \A i \in DOMAIN vWorkQueue : vWorkQueue[i] \in Index
    /\ pc = "off" => cur = Null /\ pindexBest = Null

(* The chain of tip is valid, and st has its undo data. *)
Held(st, tip) ==
    \A b \in Chain(tip) :
        b \notin Bad /\ st[Genesis] # {} /\ (b # Genesis => "undo" \in st[b])

(* The coins lead, by at most one call of SetBestChain. *)
CoinsInv ==
    /\ Held(nStatus, coinsTip) /\ Held(nStatus, pindexBest)
    /\ pc # "off" => pindexBest = IF pc = "flush" THEN coinsOld ELSE coinsTip

DiskInv ==
    pc # "off" =>
        /\ nStatus \in diskStatus
        /\ \A st \in diskStatus, tip \in diskCoins : Held(st, tip)

CandidatesInv ==
    pc # "off" =>
        /\ Genesis \in Index
        /\ setBlockIndexValid = {b \in Index : ~Failed(b)}

AttachInv ==
    pc \in {"set", "flush"} =>
        /\ \A b \in vAttach : b \in Index /\ MoreWorkThanBest(b)
        /\ \A a, b \in vAttach : a \in Anc[b] \/ b \in Anc[a]
        /\ cur # Null => vAttach \subseteq Anc[cur]
        /\ pc = "flush" => Lowest(coinsTip, vAttach)

(* A block with more work than the best one descends from a failed block,  *)
(* except for the block just added and, during startup, the blocks not     *)
(* lighter than the ones being attached.                                   *)
HasFailed(b) == \E a \in Anc[b] : Failed(a)
HeavierFailed(S) == \A b \in S : MoreWorkThanBest(b) => HasFailed(b)
HeaviestInv ==
    /\ pc \in {"idle", "true", "orphans"} \/ (pc = "false" /\ cur # Null) => HeavierFailed(Index)
    /\ pc \in {"best", "set", "flush"} /\ cur # Null => HeavierFailed(Index \ {cur})
    /\ pc \in {"set", "flush"} =>
          HeavierFailed({b \in Index : \A t \in vAttach : ChainWork[b] > ChainWork[t]})

QueueNotEmpty == pc = "orphans" => vWorkQueue # <<>>

(* Inductive whatever the disk does. *)
BaseInv == TypeOK /\ QueueNotEmpty /\ MarksInv

(* The inductive invariant, for a disk that does not fill up. *)
ChainInv ==
    /\ BaseInv /\ IndexInv /\ CoinsInv /\ DiskInv /\ CandidatesInv
    /\ AttachInv /\ HeaviestInv /\ NextPointersExact
=============================================================================
