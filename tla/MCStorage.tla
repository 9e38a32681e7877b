----------------------------- MODULE MCStorage -----------------------------
(***************************************************************************)
(* Small instances of the parts that keep the node's data on disk, checked   *)
(* side by side: a behaviour runs one part, the others rest in their initial *)
(* states.                                                                  *)
(*   coins      the coin views over the coin database (Coins)               *)
(*   engine     the leveldb database (LevelDB)                              *)
(*   memtable   its skip list under one writer and lock-free readers        *)
(*   cache      its cache of open tables                                    *)
(*   iterator   its iterators over memtables and tables                     *)
(*   file, env  its file and thread layer on POSIX                          *)
(*   repair     the repair of a database without descriptor                 *)
(*   blocks     the node's own blk and rev files (BlockFiles)               *)
(***************************************************************************)
EXTENDS Coins, LevelDB, SkipList, LRUCache, LdbIter, PosixFile, PosixEnv, LdbRepair,
        BlockFiles

CONSTANT Parts
VARIABLE part

storagevars == <<part, vars, ldbvars, svars, cvars, ivars, pfvars, evars, pvars, bvars>>

\* A block tree for the coins: a chain a1..a3 with a transaction whose outputs
\* are spent at once or one by one and within one block, a branch that includes
\* the same transaction, a coinbase that repeats an old one, and blocks that each
\* break one rule.
CONSTANTS g, a1, a2, a3, b2, r2, r3, im, hi, sc, mi

ParentTable == g :> Null @@ a1 :> g @@ a2 :> a1 @@ a3 :> a2 @@ b2 :> a1
            @@ r2 :> a1 @@ r3 :> a2 @@ im :> g @@ hi :> g @@ sc :> a1 @@ mi :> a2
RECURSIVE PathOf(_)
PathOf(b) == IF ParentTable[b] = Null THEN {b} ELSE {b} \cup PathOf(ParentTable[b])
AncTable == [b \in DOMAIN ParentTable |-> PathOf(b)]
HeightTable == [b \in DOMAIN ParentTable |-> Cardinality(AncTable[b]) - 1]

Coinbase(v) == [fCoinBase |-> TRUE, vin |-> <<>>, vout |-> v]
Spend(i, v) == [fCoinBase |-> FALSE, vin |-> i, vout |-> v]

TxTable ==
    [c1 |-> Coinbase(<<4>>), c2 |-> Coinbase(<<4, 1>>), c3 |-> Coinbase(<<3>>),
     d2 |-> Coinbase(<<5>>), e2 |-> Coinbase(<<1>>),
     chi |-> Coinbase(<<6>>), cim |-> Coinbase(<<4>>),
     t1 |-> Spend(<< <<"c1", 1>> >>, <<2, 1>>),
     t2 |-> Spend(<< <<"t1", 2>>, <<"t1", 1>> >>, <<1, 1>>),
     t3 |-> Spend(<< <<"t2", 1>>, <<"c2", 2>> >>, <<1>>),
     t4 |-> Spend(<< <<"t1", 1>> >>, <<1>>),
     tim |-> Spend(<< <<"cim", 1>> >>, <<2>>),
     tsc |-> Spend(<< <<"c1", 1>> >>, <<3>>),
     tmi |-> Spend(<< <<"c1", 1>> >>, <<2>>)]
VtxTable ==
    g :> <<>> @@ a1 :> <<"c1">> @@ a2 :> <<"c2", "t1">> @@ a3 :> <<"c3", "t2", "t3">>
    @@ b2 :> <<"d2", "t1", "t4">>
    @@ r2 :> <<"c1">> @@ r3 :> <<"c1", "t2">>
    @@ im :> <<"cim", "tim">> @@ hi :> <<"chi">> @@ sc :> <<"e2", "tsc">> @@ mi :> <<"e2", "tmi">>
MinFeeTable == [t \in DOMAIN TxTable |-> 1]

Op(k, d) == [key |-> k, del |-> d]
BatchesTable == {<<>>, <<Op(1, FALSE)>>, <<Op(1, TRUE), Op(2, FALSE)>>}
ProcessTable == [t \in Lockers |-> t]
MCFile(e, o) == [entries |-> e, ok |-> o]
LogsTable == (4 :> MCFile({5}, TRUE)) @@ (6 :> MCFile({6}, TRUE))
TablesTable == (3 :> MCFile({1, 2}, TRUE)) @@ (7 :> MCFile({3}, FALSE))
BytesTable == <<1, 2>>
PredecessorTable == <<0, 0>>

\* The tables, by names of their own, so that TLC evaluates each only once.
MCParent == ParentTable
MCAnc == AncTable
MCHeight == HeightTable
MCVtx == VtxTable
MCTx == TxTable
MCMinFee == MinFeeTable
MCBatches == BatchesTable
MCProcess == ProcessTable
MCLogs == LogsTable
MCTables == TablesTable
MCBytes == BytesTable
MCPredecessor == PredecessorTable

StorageInit ==
    /\ part \in Parts
    /\ Init /\ LdbInit /\ SkipInit /\ CacheInit /\ IterInit
    /\ FileInit /\ EnvInit /\ RepairInit /\ FilesInit

CoinViews == /\ part = "coins" /\ Next
             /\ UNCHANGED <<part, ldbvars, svars, cvars, ivars, pfvars, evars, pvars, bvars>>
Engine == /\ part = "engine" /\ LdbNext
          /\ UNCHANGED <<part, vars, svars, cvars, ivars, pfvars, evars, pvars, bvars>>
MemTable == /\ part = "memtable" /\ SkipNext
            /\ UNCHANGED <<part, vars, ldbvars, cvars, ivars, pfvars, evars, pvars, bvars>>
TableCache == /\ part = "cache" /\ CacheNext
              /\ UNCHANGED <<part, vars, ldbvars, svars, ivars, pfvars, evars, pvars, bvars>>
Iterate == /\ part = "iterator" /\ IterNext
           /\ UNCHANGED <<part, vars, ldbvars, svars, cvars, pfvars, evars, pvars, bvars>>
WriteFile == /\ part = "file" /\ FileNext
             /\ UNCHANGED <<part, vars, ldbvars, svars, cvars, ivars, evars, pvars, bvars>>
Environment == /\ part = "env" /\ EnvNext
               /\ UNCHANGED <<part, vars, ldbvars, svars, cvars, ivars, pfvars, pvars, bvars>>
Repair == /\ part = "repair" /\ RepairNext
          /\ UNCHANGED <<part, vars, ldbvars, svars, cvars, ivars, pfvars, evars, bvars>>
BlockStore == /\ part = "blocks" /\ FilesNext
              /\ UNCHANGED <<part, vars, ldbvars, svars, cvars, ivars, pfvars, evars, pvars>>

StorageNext == \/ CoinViews \/ Engine \/ MemTable \/ TableCache \/ Iterate
               \/ WriteFile \/ Environment \/ Repair \/ BlockStore

StorageSpec == StorageInit /\ [][StorageNext]_storagevars

-----------------------------------------------------------------------------
(* Properties that join what the parts promise                             *)

\* The coins a block is checked against are exactly the unspent outputs of its
\* chain, in the views, in the cache and in the database a crash leaves, and the
\* money supply of the index counts them; DisconnectBlock never finds them
\* different from what ConnectBlock left (CCoinsViewCache, SetBestChain), and
\* ConnectBlock connects exactly the blocks that spend what exists, is mature
\* and suffices (ConnectFollowsRules).
CoinsExact ==
    /\ [](CoinsAreUnspent /\ DatabaseIsLedger /\ SupplyIsUnspent /\ DisconnectIsClean)
    /\ ConnectFollowsRules

\* The database answers with the newest write of each key, whatever is being
\* flushed or compacted: the levels are ordered as Version::Get assumes, and a
\* recovery finds every table its descriptor names.
DatabaseSound == LevelsOrdered /\ GetIsNewest /\ NothingMissing

\* A read sees one state of the database: a Get or iterator keeps the files and
\* memtables it began with (ReadersUndisturbed), and DBIter stands at the
\* visible entry wherever it is moved (IteratorIsExact).
ReadsExact == ReadersUndisturbed /\ IteratorIsExact

\* What was promised to be on the disk is there: a synchronous write survives
\* every crash (SyncedNeverLost), the bytes of a file that was synced can be read
\* back in their order (PosixMmapFile), and a repair that fails or is stopped
\* destroys no entry that could be read before it (RepairKeepsEntries).
DataSurvives ==
    SyncedNeverLost /\ SyncedBytesDurable /\ FileHoldsAppended /\ RepairKeepsEntries

\* Nothing is used after its release or released twice: the tables in LRUCache,
\* the database's lock file and the slots for mapped files (PosixEnv).
HandlesAccounted == CacheAccounts /\ LockExclusive
=============================================================================
