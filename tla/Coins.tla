------------------------------- MODULE Coins -------------------------------
(***************************************************************************)
(* The unspent transaction outputs: CCoins, the stack of coin views (the   *)
(* view of SetBestChain, pcoinsTip, the coin database), ConnectBlock,      *)
(* DisconnectBlock and the undo data that connects them.                   *)
(***************************************************************************)
EXTENDS Ledger

CONSTANT nScriptCheckThreads    \* 0: scripts are checked in CheckInputs

VARIABLES
    view,           \* cacheCoins of SetBestChain's view
    viewBest,       \* its best block
    tip,            \* cacheCoins of pcoinsTip
    tipBest,        \* pcoinsTip->GetBestBlock()
    db,             \* the coin database
    dbBest,         \* its best block, or Null
    undo,           \* the undo data of each block on disk, or NoUndo
    nMoneySupply,   \* of each block index entry
    target,         \* pindexNew of SetBestChain
    pc              \* where the thread holding cs_main is

vars == <<view, viewBest, tip, tipBest, db, dbBest, undo, nMoneySupply, target, pc>>

NoUndo == "no undo data"

-----------------------------------------------------------------------------
(* CTxInUndo of spending output n of c: the height is kept for the last    *)
(* unspent output only.                                                    *)
IsLastUnspent(c, n) == SpendOut(c, n).vout = <<>>
UndoOf(c, n) ==
    [txout |-> c.vout[n],
     nHeight |-> IF IsLastUnspent(c, n) THEN c.nHeight ELSE 0,
     fCoinBase |-> IsLastUnspent(c, n) /\ c.fCoinBase]

(* What DisconnectBlock puts back in place of c. *)
RestoreBase(c, u) ==
    IF u.nHeight = 0 THEN c
    ELSE [fCoinBase |-> u.fCoinBase, vout |-> <<>>, nHeight |-> u.nHeight]
Restored(c, n, u) ==
    LET base == RestoreBase(c, u)
        size == Max({n, Len(base.vout)})
    IN  [base EXCEPT !.vout =
            [i \in 1..size |-> IF i = n THEN u.txout
                               ELSE IF i <= Len(base.vout) THEN base.vout[i] ELSE Spent]]

-----------------------------------------------------------------------------
(* The stack of views s = [view, tip]: CCoinsViewCache::FetchCoins looks   *)
(* into its map and then into its base, and keeps a copy of what it finds. *)
Have(s, t) == t \in DOMAIN s.view \/ t \in DOMAIN s.tip \/ t \in DOMAIN db
Get(s, t) ==
    IF t \in DOMAIN s.view THEN s.view[t]
    ELSE IF t \in DOMAIN s.tip THEN s.tip[t]
    ELSE IF t \in DOMAIN db THEN db[t] ELSE EmptyCoins
Fetch(s, t) ==
    IF t \in DOMAIN s.view \/ ~Have(s, t) THEN s
    ELSE [s EXCEPT !.view = (t :> Get(s, t)) @@ @, !.tip = (t :> Get(s, t)) @@ @]
SetCoins(s, t, c) == [s EXCEPT !.view = (t :> c) @@ @]

(* A map written over another one.  The database keeps no pruned entry.    *)
(* The variants drop them on the way to pcoinsTip, too, and leave what was *)
(* stored of a pruned entry in the database.                               *)
BatchWriteUnpruned(m, base) == Unpruned(m) @@ base
BatchWrite(m, base) == m @@ base
BatchWriteDBLate(m) == Unpruned(m) @@ db
BatchWriteDB(m) == Unpruned(m @@ db)

-----------------------------------------------------------------------------
(* ConnectBlock(b): a fold over the transactions of                        *)
(* [view, tip, ok, undo, fees, nValueIn, nValueOut].                       *)
FetchAll(s, t) == FoldLeft(LAMBDA acc, out : Fetch(acc, out[1]), s, Tx[t].vin)

HaveInputs(s, t) ==
    \A i \in DOMAIN Tx[t].vin :
        /\ Have(s, Tx[t].vin[i][1])
        /\ IsAvailable(Get(s, Tx[t].vin[i][1]), Tx[t].vin[i][2])
ValueIn(s, t) ==
    SumFunction([i \in DOMAIN Tx[t].vin |-> Get(s, Tx[t].vin[i][1]).vout[Tx[t].vin[i][2]]])
MatureEarly(s, t, nSpendHeight) ==
    \A i \in DOMAIN Tx[t].vin :
        LET c == Get(s, Tx[t].vin[i][1])
        IN  c.fCoinBase => nSpendHeight + 1 - c.nHeight >= COINBASE_MATURITY
Mature(s, t, nSpendHeight) ==
    \A i \in DOMAIN Tx[t].vin :
        LET c == Get(s, Tx[t].vin[i][1])
        IN  c.fCoinBase => nSpendHeight - c.nHeight >= COINBASE_MATURITY

(* CheckInputs; the script checks are those of module CheckQueue. *)
CheckInputs(s, t, h) ==
    /\ HaveInputs(s, t)
    /\ Mature(s, t, h)
    /\ ValueIn(s, t) >= ValueOut(t)
    /\ ValueIn(s, t) - ValueOut(t) >= MinFee[t]
    /\ nScriptCheckThreads = 0 => t \notin BadScript

(* UpdateCoins: spend the inputs, then add the outputs. *)
SpendInput(s, out) ==
    LET c == Get(s, out[1])
    IN  [SetCoins(s, out[1], SpendOut(c, out[2])) EXCEPT
            !.undo = Append(SubSeq(@, 1, Len(@) - 1),
                            Append(Last(@), UndoOf(c, out[2])))]
UpdateCoins(s, t, h) ==
    LET s1 == IF Tx[t].fCoinBase THEN s ELSE [s EXCEPT !.undo = Append(@, <<>>)]
        s2 == FoldLeft(SpendInput, s1, Tx[t].vin)
    IN  SetCoins(s2, t, CoinsOf(t, h))

ConnectTx(s0, t, h) ==
    LET s == FetchAll(s0, t)
        vin == IF Tx[t].fCoinBase THEN 0 ELSE ValueIn(s, t)
    IN  IF ~s.ok THEN s
        ELSE IF ~Tx[t].fCoinBase /\ ~CheckInputs(s, t, h) THEN [s EXCEPT !.ok = FALSE]
        ELSE [UpdateCoins(s, t, h) EXCEPT
                 !.fees = IF Tx[t].fCoinBase THEN @ ELSE @ + vin - ValueOut(t),
                 !.nValueIn = @ + vin, !.nValueOut = @ + ValueOut(t)]

(* BIP30: no transaction of the block overwrites one that is not fully     *)
(* spent.  The variant does not look.                                      *)
AnyOverwrite(s, b) == TRUE
NoOverwrite(s, b) == \A i \in DOMAIN Vtx[b] : IsPruned(Get(s, Vtx[b][i]))

ConnectBlock(b) ==
    LET s == [view |-> view, tip |-> tip, ok |-> TRUE, undo |-> <<>>, fees |-> 0,
              nValueIn |-> 0, nValueOut |-> 0]
        s1 == FoldLeft(Fetch, s, Vtx[b])
    IN  IF ~NoOverwrite(s1, b) THEN [s1 EXCEPT !.ok = FALSE]
        ELSE FoldLeft(LAMBDA acc, t : ConnectTx(acc, t, Height[b]), s1, Vtx[b])

-----------------------------------------------------------------------------
(* DisconnectBlock(b): a fold over the positions of the transactions, from *)
(* the last to the first, of [view, tip, fClean].                          *)
RestoreInput(s0, out, u) ==
    LET s == Fetch(s0, out[1])
        c == Get(s, out[1])
    IN  [SetCoins(s, out[1], Restored(c, out[2], u)) EXCEPT
            !.fClean = /\ @
                       /\ IF u.nHeight # 0 THEN IsPruned(c) ELSE ~IsPruned(c)
                       /\ ~IsAvailable(RestoreBase(c, u), out[2])]

DisconnectTx(s0, b, i) ==
    LET t == Vtx[b][i]
        s == Fetch(s0, t)
        s1 == [SetCoins(s, t, EmptyCoins) EXCEPT
                  !.fClean = @ /\ Have(s, t) /\ Get(s, t) = CoinsOf(t, Height[b])]
        vin == Tx[t].vin
    IN  IF i = 1 THEN s1
        ELSE FoldLeft(LAMBDA acc, j : RestoreInput(acc, vin[j], undo[b][i - 1][j]),
                      s1, Reverse([j \in DOMAIN vin |-> j]))

(* "undo transactions in reverse order"; the variant undoes them in order. *)
InOrder(b) == [i \in DOMAIN Vtx[b] |-> i]
UndoOrder(b) == Reverse([i \in DOMAIN Vtx[b] |-> i])

DisconnectBlock(b) ==
    FoldLeft(LAMBDA acc, i : DisconnectTx(acc, b, i),
             [view |-> view, tip |-> tip, fClean |-> TRUE], UndoOrder(b))

-----------------------------------------------------------------------------
Init ==
    /\ view = Nothing /\ viewBest = Null
    /\ tip = Nothing /\ tipBest = Genesis
    /\ db = Nothing /\ dbBest = Null
    /\ undo = [b \in Blocks |-> NoUndo]
    /\ nMoneySupply = [b \in Blocks |-> 0]
    /\ target = Null /\ pc = "rest"

(* SetBestChain(t) makes a view on pcoinsTip. *)
SetBestChain(t) ==
    /\ pc = "rest" /\ t # tipBest
    /\ view' = Nothing /\ viewBest' = tipBest
    /\ target' = t /\ pc' = "work"
    /\ UNCHANGED <<tip, tipBest, db, dbBest, undo, nMoneySupply>>

(* Disconnect the blocks down to the fork. *)
Disconnect ==
    /\ pc = "work" /\ viewBest \notin Anc[target]
    /\ \E s \in {DisconnectBlock(viewBest)} :
           /\ tip' = s.tip
           /\ view' = s.view /\ viewBest' = Parent[viewBest]
           /\ pc' = IF s.fClean THEN "work" ELSE "corrupt"
    /\ UNCHANGED <<tipBest, db, dbBest, undo, nMoneySupply, target>>

(* Connect the next block of the branch; a rejected block discards the     *)
(* view.  The undo data is written once, when the block is first           *)
(* connected.                                                              *)
NextBlock(b) == b \in Anc[target] /\ Parent[b] = viewBest
fValid(b, s) ==
    /\ s.ok
    /\ ValueOut(Vtx[b][1]) <= CoinbaseLimit(b, s.fees)
    /\ \A i \in DOMAIN Vtx[b] : Vtx[b][i] \notin BadScript
Connect(b) ==
    /\ pc = "work" /\ viewBest \in Anc[target] /\ NextBlock(b)
    /\ \E s \in {ConnectBlock(b)} :
           /\ tip' = s.tip
           /\ nMoneySupply' = IF s.ok THEN [nMoneySupply EXCEPT ![b] =
                                 nMoneySupply[Parent[b]] + s.nValueOut - s.nValueIn]
                              ELSE nMoneySupply
           /\ IF fValid(b, s)
              THEN /\ view' = s.view /\ viewBest' = b
                   /\ undo' = IF undo[b] = NoUndo THEN [undo EXCEPT ![b] = s.undo] ELSE undo
                   /\ UNCHANGED <<target, pc>>
              ELSE /\ view' = Nothing /\ viewBest' = Null /\ target' = Null /\ pc' = "rest"
                   /\ UNCHANGED undo
    /\ UNCHANGED <<tipBest, db, dbBest>>

(* view.Flush() into pcoinsTip. *)
FlushView ==
    /\ pc = "work" /\ viewBest = target
    /\ tip' = BatchWrite(view, tip) /\ tipBest' = viewBest
    /\ view' = Nothing /\ viewBest' = Null
    /\ target' = Null /\ pc' = "flush"
    /\ UNCHANGED <<db, dbBest, undo, nMoneySupply>>

(* pcoinsTip->Flush(), when the cache is large or the node is up to date.  *)
FlushTip(fWrite) ==
    /\ pc = "flush"
    /\ IF fWrite
       THEN db' = BatchWriteDB(tip) /\ dbBest' = tipBest /\ tip' = Nothing
       ELSE UNCHANGED <<db, dbBest, tip>>
    /\ pc' = "rest"
    /\ UNCHANGED <<view, viewBest, tipBest, undo, nMoneySupply, target>>

(* The process ends and starts again: what is not in the database is lost. *)
(* An empty database is one whose best block is the genesis block, which   *)
(* ConnectBestBlock connects.                                              *)
Restart ==
    /\ pc \in {"rest", "work", "flush"}
    /\ view' = Nothing /\ viewBest' = Null /\ target' = Null /\ pc' = "rest"
    /\ tip' = Nothing /\ tipBest' = IF dbBest = Null THEN Genesis ELSE dbBest
    /\ UNCHANGED <<db, dbBest, undo, nMoneySupply>>

Next ==
    \/ \E t \in Blocks : SetBestChain(t)
    \/ Disconnect
    \/ \E b \in Blocks : Connect(b)
    \/ FlushView
    \/ \E fWrite \in BOOLEAN : FlushTip(fWrite)
    \/ Restart

Spec == Init /\ [][Next]_vars

-----------------------------------------------------------------------------
(* What a stack of views shows. *)
Shown(s) == Unpruned([t \in {t \in TxIds : Have(s, t)} |-> Get(s, t)])

(* Maps to canonical CCoins, which end in an unspent output and, in the    *)
(* database, have one; best blocks.                                        *)
Canonical(m) ==
    /\ DOMAIN m \subseteq TxIds
    /\ \A t \in DOMAIN m : m[t].vout # <<>> => Last(m[t].vout) # Spent
TypeOK ==
    /\ Canonical(view) /\ Canonical(tip) /\ Canonical(db)
    /\ \A t \in DOMAIN db : db[t].vout # <<>>
    /\ viewBest \in Blocks \cup {Null} /\ tipBest \in Blocks /\ dbBest \in Blocks \cup {Null}
    /\ target \in Blocks \cup {Null}
    /\ pc \in {"rest", "work", "flush", "corrupt"}

(* After any connections, reorganisations, rejected blocks, flushes and    *)
(* restarts, pcoinsTip shows exactly the unspent outputs of the chain of   *)
(* its best block; so does the view SetBestChain works on (undo data and   *)
(* the layering of ConnectBlock and DisconnectBlock are exact).            *)
CoinsAreUnspent ==
    /\ TypeOK
    /\ pc # "corrupt" =>
          /\ Shown([view |-> Nothing, tip |-> tip]) = Ledger[tipBest]
          /\ pc = "work" => Shown([view |-> view, tip |-> tip]) = Ledger[viewBest]

(* ConnectBlock, working transaction by transaction on the layered views,  *)
(* accepts exactly the blocks that are valid on their parent's chain.      *)
ConnectFollowsRules ==
    [][\A b \in Blocks : Connect(b) => (viewBest' = b <=> b \in ValidBlocks)]_vars

(* The coin database alone, which is what a crash leaves, is the ledger of *)
(* its best block (CCoinsViewDB::BatchWrite writes coins and best block in *)
(* one batch).                                                             *)
DatabaseIsLedger == db = IF dbBest = Null THEN Nothing ELSE Ledger[dbBest]

(* DisconnectBlock never finds the coins different from what ConnectBlock  *)
(* left ("database corrupted"), although the undo data may stem from an    *)
(* earlier connection of the block.                                        *)
DisconnectIsClean == pc # "corrupt"

(* nMoneySupply of the best block is the total of the unspent outputs, and *)
(* no more than the subsidy of each block, plus what the rule for the      *)
(* coinbase of a block (its own fee less MIN_TX_FEE) allows.               *)
Total(m) ==
    MapThenSumSet(LAMBDA t : SumFunction([n \in DOMAIN m[t].vout |-> Max({0, m[t].vout[n]})]),
                  DOMAIN m)
LedgerTotal == [b \in Blocks |-> Total(Ledger[b])]
Issued ==
    [b \in Blocks |->
        MapThenSumSet(LAMBDA c : Subsidy + MIN_TX_FEE - MinFee[Vtx[c][1]], Chain(b))]
SupplyIsUnspent ==
    pc = "rest" => /\ nMoneySupply[tipBest] = LedgerTotal[tipBest]
                   /\ nMoneySupply[tipBest] <= Issued[tipBest]
=============================================================================
