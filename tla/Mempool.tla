------------------------------ MODULE Mempool ------------------------------
(***************************************************************************)
(* The memory pool and the orphan transactions, with the reorganisations   *)
(* of the chain under them.  Every handler runs under cs_main, so each is  *)
(* one step.  pcoinsTip is the ledger of the best block (module Coins)     *)
(* plus the fully spent entries its cache still holds.                     *)
(***************************************************************************)
EXTENDS Ledger

CONSTANTS
    Refused,            \* fail CheckTransaction, IsStandard or the nLockTime test
    NonStandardInputs,  \* fail AreInputsStandard
    RelayFee,           \* GetMinFee(1000, false, GMF_RELAY)
    LargeTx,            \* larger than 5000 bytes
    VtxPrev,            \* the supporting transactions of a wallet transaction
    MAX_ORPHAN_TRANSACTIONS

VARIABLES
    pindexBest,
    pruned,                         \* fully spent entries in pcoinsTip's cache
    mapTx,                          \* the ids in the pool
    mapNextTx,                      \* output -> the id that spends it
    mapOrphanTransactions,          \* the orphans' ids
    mapOrphanTransactionsByPrev     \* id -> the orphans that spend it

poolvars == <<pindexBest, pruned, mapTx, mapNextTx,
          mapOrphanTransactions, mapOrphanTransactionsByPrev>>
orphanVars == <<mapOrphanTransactions, mapOrphanTransactionsByPrev>>

Inputs(t) == Range(Tx[t].vin)
PrevTxs(t) == {out[1] : out \in Inputs(t)}

-----------------------------------------------------------------------------
(* A pool s = [best, pruned, mapTx, mapNextTx] and CCoinsViewMemPool on    *)
(* top of pcoinsTip.                                                       *)
Pool == [best |-> pindexBest, pruned |-> pruned, mapTx |-> mapTx, mapNextTx |-> mapNextTx]

HaveTipCoins(s, t) == t \in DOMAIN Ledger[s.best] \cup s.pruned
HaveCoins(s, t) == HaveTipCoins(s, t) \/ t \in s.mapTx
GetCoins(s, t) ==
    IF t \in DOMAIN Ledger[s.best] THEN Ledger[s.best][t]
    ELSE IF t \in s.pruned \/ t \notin s.mapTx THEN EmptyCoins
    ELSE CoinsOf(t, 0)

(* CTxMemPool::accept: what makes it look at the inputs at all, *)
Fresh(s, t) ==
    /\ t \notin Refused /\ ~Tx[t].fCoinBase
    /\ t \notin s.mapTx
    /\ Inputs(t) \cap DOMAIN s.mapNextTx = {}
    /\ ~HaveCoins(s, t)
(* what sets fMissingInputs, *)
MissingInputs(s, t) == Fresh(s, t) /\ \E p \in PrevTxs(t) : ~HaveCoins(s, p)
(* and what it accepts. *)
Accepts(s, t, fLimitFree) ==
    LET fee == MapThenSumSet(LAMBDA out : GetCoins(s, out[1]).vout[out[2]], Inputs(t))
               - ValueOut(t)
    IN  /\ Fresh(s, t)
        /\ \A out \in Inputs(t) : IsAvailable(GetCoins(s, out[1]), out[2])
        /\ t \notin NonStandardInputs
        /\ fLimitFree => fee >= RelayFee[t]
        /\ \A p \in PrevTxs(t) :
              GetCoins(s, p).fCoinBase =>
                  Height[s.best] + 1 - GetCoins(s, p).nHeight >= COINBASE_MATURITY
        /\ fee >= Max({0, MinFee[t]})
        /\ t \notin BadScript

AddUnchecked(s, t) ==
    [s EXCEPT !.mapTx = @ \cup {t}, !.mapNextTx = [out \in Inputs(t) |-> t] @@ @]

Accept(s, t, fLimitFree) == IF Accepts(s, t, fLimitFree) THEN AddUnchecked(s, t) ELSE s

(* remove(tx, fRecursive): with the pool transactions that spend it, and   *)
(* theirs.  The variant forgets the outputs they spend.                    *)
Spenders(s, S) == {s.mapNextTx[out] : out \in {o \in DOMAIN s.mapNextTx : o[1] \in S}}
Descendants(s, t) ==
    LET D[n \in 0..Cardinality(s.mapTx)] ==
            IF n = 0 THEN {t} ELSE D[n - 1] \cup Spenders(s, D[n - 1])
    IN  D[Cardinality(s.mapTx)]
RemoveTxOnly(s, S) == [s EXCEPT !.mapTx = @ \ S]
RemoveSet(s, S) ==
    [s EXCEPT !.mapTx = @ \ S,
              !.mapNextTx = Restrict(@, DOMAIN @ \ UNION {Inputs(t) : t \in S \cap s.mapTx})]
RemoveOne(s, t) == RemoveSet(s, {t})
RemoveRecursive(s, t) == RemoveSet(s, Descendants(s, t))

RemoveConflicts(s, t) ==
    FoldLeft(LAMBDA acc, out :
                IF out \in DOMAIN acc.mapNextTx /\ acc.mapNextTx[out] # t
                THEN RemoveRecursive(acc, acc.mapNextTx[out]) ELSE acc,
             s, Tx[t].vin)

-----------------------------------------------------------------------------
(* The end of SetBestChain.  The transactions of the disconnected branch   *)
(* are tried in the order of the chain; the variant tries the last block   *)
(* first.                                                                  *)
ByHeight(S) == SetToSortSeq(S, LAMBDA a, b : Height[a] < Height[b])
TxsOf(seq, fCoinBase) ==
    FlattenSeq([i \in DOMAIN seq |-> IF fCoinBase THEN Vtx[seq[i]] ELSE Tail(Vtx[seq[i]])])
vDisconnect(b) == ByHeight(Chain(pindexBest) \ Anc[b])
vConnect(b) == ByHeight(Chain(b) \ Anc[pindexBest])
vResurrectLast(b) == TxsOf(Reverse(vDisconnect(b)), FALSE)
vResurrect(b) == TxsOf(vDisconnect(b), FALSE)
vDelete(b) == TxsOf(vConnect(b), TRUE)

(* What is fully spent in pcoinsTip's cache afterwards: a flush to disk    *)
(* drops everything, otherwise what was touched stays.                     *)
Touched(b) ==
    UNION {{t} \cup PrevTxs(t) : t \in Range(TxsOf(vDisconnect(b) \o vConnect(b), TRUE))}
PrunedAfter(b, fFlush) == IF fFlush THEN {} ELSE (pruned \cup Touched(b)) \ DOMAIN Ledger[b]

Resurrect(s, t) == IF Accepts(s, t, FALSE) THEN AddUnchecked(s, t) ELSE RemoveRecursive(s, t)
(* A connected transaction leaves the pool, with what conflicts with it;   *)
(* the variant leaves the conflicts.                                       *)
DeleteOnly(s, t) == RemoveOne(s, t)
DeleteIncluded(s, t) == RemoveConflicts(RemoveOne(s, t), t)

SetBestChain(b, fFlush) ==
    /\ Height[b] > Height[pindexBest]
    /\ Chain(b) \subseteq ValidBlocks
    /\ LET s0 == [Pool EXCEPT !.best = b, !.pruned = PrunedAfter(b, fFlush)]
           s == FoldLeft(DeleteIncluded, FoldLeft(Resurrect, s0, vResurrect(b)), vDelete(b))
       IN  mapTx' = s.mapTx /\ mapNextTx' = s.mapNextTx
    /\ pindexBest' = b /\ pruned' = PrunedAfter(b, fFlush)
    /\ UNCHANGED orphanVars

-----------------------------------------------------------------------------
(* Orphan transactions o = [txs, byPrev]. *)
Orphans == [txs |-> mapOrphanTransactions, byPrev |-> mapOrphanTransactionsByPrev]
EntryOf(o, p) == IF p \in DOMAIN o.byPrev THEN o.byPrev[p] ELSE {}

(* The variant lists an orphan under its first input only. *)
AddOrphanFirst(o, t) ==
    IF t \in o.txs \/ t \in LargeTx THEN o
    ELSE LET p == Tx[t].vin[1][1]
         IN  [txs |-> o.txs \cup {t}, byPrev |-> (p :> (EntryOf(o, p) \cup {t})) @@ o.byPrev]
AddOrphanTx(o, t) ==
    IF t \in o.txs \/ t \in LargeTx THEN o
    ELSE [txs |-> o.txs \cup {t},
          byPrev |-> [p \in PrevTxs(t) |-> EntryOf(o, p) \cup {t}] @@ o.byPrev]

EraseOrphanTx(o, t) ==
    IF t \notin o.txs THEN o
    ELSE [txs |-> o.txs \ {t},
          byPrev |-> [p \in {p \in DOMAIN o.byPrev : p \in PrevTxs(t) => o.byPrev[p] # {t}} |->
                         o.byPrev[p] \ {t}]]
EraseOrphans(o, S) == FoldSet(LAMBDA t, acc : EraseOrphanTx(acc, t), o, S)

SetOrphans(o) ==
    mapOrphanTransactions' = o.txs /\ mapOrphanTransactionsByPrev' = o.byPrev

(* The "tx" message.  An accepted transaction makes the node look at the   *)
(* orphans that spend it (and makes an entry in the index if there is      *)
(* none); but it is the accepted transaction that the code tries again, it *)
(* is refused as already known, and the orphans are erased.                *)
RetriedOrphan(t, orphan) == t
TxAccepted(t) ==
    /\ Accepts(Pool, t, TRUE)
    /\ LET s == AddUnchecked(Pool, t)
           known == EntryOf(Orphans, t)
           o == [Orphans EXCEPT !.byPrev = (t :> known) @@ @]
           refused == {x \in known : /\ ~Accepts(s, RetriedOrphan(t, x), TRUE)
                                     /\ ~MissingInputs(s, RetriedOrphan(t, x))}
       IN  /\ mapTx' = s.mapTx /\ mapNextTx' = s.mapNextTx
           /\ SetOrphans(EraseOrphans(o, refused \cup {t}))
    /\ UNCHANGED <<pindexBest, pruned>>

(* LimitOrphanTxSize evicts an orphan at random.                           *)
OverLimit(o) == Cardinality(o.txs) > MAX_ORPHAN_TRANSACTIONS
TxOrphaned(t) ==
    /\ MissingInputs(Pool, t)
    /\ LET o == AddOrphanTx(Orphans, t)
       IN  IF OverLimit(o) THEN \E x \in o.txs : SetOrphans(EraseOrphanTx(o, x))
           ELSE SetOrphans(o)
    /\ UNCHANGED <<pindexBest, pruned, mapTx, mapNextTx>>

(* CWalletTx::AcceptWalletTransaction: the supporting transactions first,  *)
(* if pcoinsTip has them.                                                  *)
AcceptPrev(s, p) ==
    IF ~Tx[p].fCoinBase /\ p \notin s.mapTx /\ HaveTipCoins(s, p)
    THEN Accept(s, p, FALSE) ELSE s
WithWalletTx(t) == Accept(FoldLeft(AcceptPrev, Pool, VtxPrev[t]), t, FALSE)
AcceptWalletTransaction(t) ==
    /\ mapTx' = WithWalletTx(t).mapTx /\ mapNextTx' = WithWalletTx(t).mapNextTx
    /\ UNCHANGED <<pindexBest, pruned, orphanVars>>

PoolInit ==
    /\ pindexBest = Genesis /\ pruned = {}
    /\ mapTx = {} /\ mapNextTx = Nothing
    /\ mapOrphanTransactions = {} /\ mapOrphanTransactionsByPrev = Nothing

PoolNext ==
    \/ \E b \in Blocks, fFlush \in BOOLEAN : SetBestChain(b, fFlush)
    \/ \E t \in TxIds : TxAccepted(t) \/ TxOrphaned(t) \/ AcceptWalletTransaction(t)

PoolSpec == PoolInit /\ [][PoolNext]_poolvars

-----------------------------------------------------------------------------
(* Maps and sets of transactions; no coinbase is in the pool. *)
PoolTypeOK ==
    /\ pindexBest \in Blocks /\ pruned \subseteq TxIds
    /\ mapTx \subseteq {t \in TxIds : ~Tx[t].fCoinBase}
    /\ Range(mapNextTx) \subseteq mapTx
    /\ mapOrphanTransactions \subseteq TxIds
    /\ \A p \in DOMAIN mapOrphanTransactionsByPrev :
          mapOrphanTransactionsByPrev[p] \subseteq mapOrphanTransactions

(* mapNextTx has exactly the inputs of the transactions in the pool, after *)
(* any removals, so no two of them spend the same output.                  *)
PoolIndexExact ==
    /\ PoolTypeOK
    /\ \A t \in mapTx : \A out \in Inputs(t) : out \in DOMAIN mapNextTx /\ mapNextTx[out] = t
    /\ \A out \in DOMAIN mapNextTx : mapNextTx[out] \in mapTx /\ out \in Inputs(mapNextTx[out])

(* After any reorganisation no transaction of the pool is in the chain,    *)
(* and each spends outputs of the pool or unspent outputs of the chain; or *)
(* a coinbase that was disconnected, which SetBestChain leaves.            *)
PoolSpendable ==
    \A t \in mapTx :
        /\ \A c \in Chain(pindexBest) : ~Includes(c, t)
        /\ \A out \in Inputs(t) :
              \/ out[1] \in mapTx
              \/ /\ out[1] \in DOMAIN Ledger[pindexBest]
                 /\ IsAvailable(Ledger[pindexBest][out[1]], out[2])
              \/ /\ Tx[out[1]].fCoinBase
                 /\ \A c \in Chain(pindexBest) : ~Includes(c, out[1])

(* A reorganisation that flushes pcoinsTip returns to the pool every       *)
(* transaction of the disconnected branch that can still be accepted.      *)
NothingLost ==
    [][pruned' = {} =>
          \A c \in Chain(pindexBest) \ Chain(pindexBest') : \A t \in Range(Vtx[c]) :
              t \in mapTx' \/ ~Accepts(Pool', t, FALSE)]_poolvars

(* The orphans stay within their bound, and the index by previous          *)
(* transaction lists exactly them.                                         *)
OrphansIndexed ==
    /\ Cardinality(mapOrphanTransactions) <= MAX_ORPHAN_TRANSACTIONS
    /\ \A p \in TxIds : EntryOf(Orphans, p) = {t \in mapOrphanTransactions : p \in PrevTxs(t)}

(* "Recursively process any orphan transactions that depended on this      *)
(* one": when a transaction is accepted, an orphan that spends it and is   *)
(* acceptable now is accepted, too.                                        *)
OrphansAccepted ==
    [][\A t \in TxIds : TxAccepted(t) =>
          \A x \in EntryOf(Orphans, t) : x \in mapTx' \/ ~Accepts(Pool', x, TRUE)]_poolvars
=============================================================================
