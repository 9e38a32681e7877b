------------------------------ MODULE TxTable ------------------------------
(***************************************************************************)
(* The list of transactions the graphical wallet shows (qt/                  *)
(* transactiontablemodel.cpp, transactionrecord.cpp, walletmodel.cpp).  The  *)
(* core changes the wallet and the chain on its own threads and queues a     *)
(* notification for each change; the GUI thread takes them one by one, and   *)
(* what it finds in the wallet then may be newer than what was notified.     *)
(*                                                                         *)
(* Transactions are their hashes, numbers; Tx[h] is the transaction.        *)
(***************************************************************************)
EXTENDS Integers, Sequences, SequencesExt, FiniteSets

CONSTANTS
    Tx,           \* hash -> [coinbase, vin, vout, block]: see Decompose
    Parent,       \* block -> its parent, 0 the genesis block
    Maturity,     \* COINBASE_MATURITY + 20
    MaxQueue      \* bound: notifications that wait at once

VARIABLES
    held,         \* mapWallet: the hashes in it
    best,         \* pindexBest
    connecting,   \* the blocks SetBestChain has synchronised with the wallet and not yet made best
    coinbaseOf,   \* hashPrevBestCoinBase, 0 for none
    gui,          \* "none", "refreshed" (the table is filled), "subscribed"
    queue,        \* queued calls of updateTransaction: <<hash, status>>
    rows,         \* cachedWallet: [hash, idx, depth, cur]
    tally,        \* cachedNumTransactions
    missed        \* changes no notification told of, and notifications that came too early

tvars == <<held, best, connecting, coinbaseOf, gui, queue, rows, tally, missed>>

Blocks == DOMAIN Parent
Txs == DOMAIN Tx

Ancestry[b \in Blocks \cup {0}] == IF b = 0 THEN {0} ELSE {b} \cup Ancestry[Parent[b]]
Height(b) == Cardinality(Ancestry[b]) - 1

SumValues(s, Value(_)) == FoldLeft(LAMBDA n, x : n + Value(x), 0, s)
Mine(s) == SelectSeq(s, LAMBDA x : x.mine)

-----------------------------------------------------------------------------
(* TransactionRecord: a transaction as the rows that are shown of it.       *)

GetDebit(tx) == SumValues(Mine(tx.vin), LAMBDA i : i.value)
GetCredit(tx) == SumValues(Mine(tx.vout), LAMBDA o : o.value)
GetValueOut(tx) == SumValues(tx.vout, LAMBDA o : o.value)
GetChange(tx) == SumValues(SelectSeq(tx.vout, LAMBDA o : o.change), LAMBDA o : o.value)
AllMine(s) == \A i \in DOMAIN s : s[i].mine

Row(type, idx, debit, credit) == [type |-> type, idx |-> idx, debit |-> debit, credit |-> credit]

\* Our outputs, one row each.
CreditRows(tx) ==
    LET outs == Mine(tx.vout)
    IN  [i \in DOMAIN outs |->
            Row(IF tx.coinbase THEN "Generated"
                ELSE IF outs[i].simple THEN "RecvWithAddress" ELSE "RecvFromOther",
                i - 1, 0, outs[i].value)]

\* The others' outputs, one row each, the fee in the first.
DebitRows(tx) ==
    LET outs == SelectSeq(tx.vout, LAMBDA o : ~o.mine)
        nTxFee == GetDebit(tx) - GetValueOut(tx)
    IN  [i \in DOMAIN outs |->
            Row(IF outs[i].simple THEN "SendToAddress" ELSE "SendToOther", i - 1,
                -(outs[i].value + (IF i = 1 /\ nTxFee > 0 THEN nTxFee ELSE 0)), 0)]

\* decomposeTransaction; an immature coinbase counts for nothing.
Decompose(tx, immature) ==
    LET nCredit == IF tx.coinbase /\ immature THEN 0 ELSE GetCredit(tx)
        nDebit == GetDebit(tx)
        nNet == nCredit - nDebit
    IN  IF nNet > 0 \/ tx.coinbase THEN CreditRows(tx)
        ELSE IF AllMine(tx.vin) /\ AllMine(tx.vout)
        THEN <<Row("SendToSelf", 0, -(nDebit - GetChange(tx)), nCredit - GetChange(tx))>>
        ELSE IF AllMine(tx.vin) THEN DebitRows(tx)
        ELSE <<Row("Other", 0, nNet, 0)>>

(* A transaction of the wallet is shown in at least one row, its rows are
   numbered apart (getTxID names them), and their amounts add up to what the
   transaction changed: to the net amount, or, where a transaction that others
   paid into leaves us with more, to what we received. *)
RowsAddUp(tx) ==
    LET parts == Decompose(tx, FALSE)
        nNet == GetCredit(tx) - GetDebit(tx)
        total == SumValues(parts, LAMBDA r : r.debit + r.credit)
        involved == tx.coinbase \/ Mine(tx.vin) # <<>> \/ Mine(tx.vout) # <<>>
        valid == AllMine(tx.vin) => GetDebit(tx) >= GetValueOut(tx)
    IN  involved /\ (valid \/ tx.coinbase) =>
            /\ Len(parts) >= 1 /\ \A i \in DOMAIN parts : parts[i].idx = i - 1
            /\ total = IF nNet > 0 THEN GetCredit(tx) ELSE nNet

-----------------------------------------------------------------------------
(* The chain and the wallet, as the rows see them.                         *)

InMain(b) == b \in Ancestry[best]
Depth(h) == IF Tx[h].block # 0 /\ InMain(Tx[h].block)
            THEN Height(best) - Height(Tx[h].block) + 1 ELSE 0

\* showTransaction, and updateStatus as far as the depth decides it.
ShowTransaction(h) == Tx[h].coinbase => Depth(h) > 0
Immature(h) == Tx[h].coinbase /\ Depth(h) > 0 /\ Depth(h) < Maturity
FreshRow(h, idx) == [hash |-> h, idx |-> idx, depth |-> 0, cur |-> 0]
RowsOf(h) == [i \in DOMAIN Decompose(Tx[h], Immature(h)) |-> FreshRow(h, i - 1)]

TableInit ==
    /\ held = {} /\ best = 0 /\ connecting = {} /\ coinbaseOf = 0
    /\ gui = "none" /\ queue = <<>> /\ rows = <<>> /\ tally = 0 /\ missed = {}

\* NotifyTransactionChanged: queued once the GUI has subscribed.
Notify(events) ==
    /\ queue' = IF gui = "subscribed" THEN queue \o events ELSE queue
    /\ Len(queue') <= MaxQueue
    /\ missed' = IF gui = "refreshed" THEN missed \cup {events[i][1] : i \in DOMAIN events}
                 ELSE missed

Change(h) == <<h, IF h \in held THEN "updated" ELSE "new">>

\* AddToWallet, of a transaction that is not yet in a block.
WalletAdds(h) ==
    /\ ~Tx[h].coinbase
    /\ held' = held \cup {h}
    /\ Notify(<<Change(h)>>)
    /\ UNCHANGED <<best, connecting, coinbaseOf, gui, rows, tally>>

\* ConnectBlock of the branch that ends in b: SyncWithWallets adds what is in it.
ConnectBlocks(b) ==
    LET branch == Ancestry[b] \ Ancestry[best]
        found == SetToSortSeq({h \in Txs : Tx[h].block \in branch}, <)
    IN  /\ connecting = {} /\ Height(b) >= Height(best) /\ branch # {}
        /\ connecting' = branch
        /\ held' = held \cup ToSet(found)
        /\ Notify([i \in DOMAIN found |-> Change(found[i])])
        /\ UNCHANGED <<best, coinbaseOf, gui, rows, tally>>

\* The rest of SetBestChain and of AddToBlockIndex: the block is the best, and
\* the coinbase of the one before is looked at again.
NewTip ==
    /\ connecting # {}
    /\ \E b \in connecting :
          /\ connecting \subseteq Ancestry[b]
          /\ best' = b
          /\ coinbaseOf' = IF \E h \in Txs : Tx[h].coinbase /\ Tx[h].block = b
                           THEN CHOOSE h \in Txs : Tx[h].coinbase /\ Tx[h].block = b ELSE 0
          /\ connecting' = {}
          /\ IF coinbaseOf \in held THEN Notify(<<<<coinbaseOf, "updated">>>>)
             ELSE UNCHANGED <<queue, missed>>
    /\ UNCHANGED <<held, gui, rows, tally>>

-----------------------------------------------------------------------------
(* The GUI thread.                                                         *)

\* refreshWallet, from the constructor of the table.
RefreshWallet ==
    /\ gui = "none" /\ gui' = "refreshed"
    /\ rows' = FlattenSeq([i \in 1..Cardinality({h \in held : ShowTransaction(h)}) |->
                  RowsOf(SetToSortSeq({h \in held : ShowTransaction(h)}, <)[i])])
    /\ missed' = missed \cup {h \in held : ~ShowTransaction(h)}
    /\ UNCHANGED <<held, best, connecting, coinbaseOf, queue, tally>>

\* subscribeToCoreSignals.
Subscribe ==
    /\ gui = "refreshed" /\ gui' = "subscribed"
    /\ UNCHANGED <<held, best, connecting, coinbaseOf, queue, rows, tally, missed>>

(* The variant takes the status it was told. *)
UpdateAsTold(h, told) ==
    LET lower == Cardinality({i \in DOMAIN rows : rows[i].hash < h})
    IN  CASE told = "new" /\ h \in held /\ ShowTransaction(h) ->
                SubSeq(rows, 1, lower) \o RowsOf(h) \o SubSeq(rows, lower + 1, Len(rows))
          [] OTHER -> rows

\* updateWallet: the table after a notification.
UpdateWallet(h, told) ==
    LET inModel == \E i \in DOMAIN rows : rows[i].hash = h
        show == h \in held /\ ShowTransaction(h)
        status == IF told = "updated" /\ show /\ ~inModel THEN "new"
                  ELSE IF told = "updated" /\ ~show /\ inModel THEN "deleted" ELSE told
        lower == Cardinality({i \in DOMAIN rows : rows[i].hash < h})
    IN  CASE status = "new" /\ ~inModel /\ show ->
                SubSeq(rows, 1, lower) \o RowsOf(h) \o SubSeq(rows, lower + 1, Len(rows))
          [] status = "deleted" /\ inModel -> SelectSeq(rows, LAMBDA r : r.hash # h)
          [] OTHER -> rows

\* WalletModel::updateTransaction.
UpdateTransaction ==
    /\ gui = "subscribed" /\ queue # <<>>
    /\ queue' = Tail(queue)
    /\ rows' = UpdateWallet(Head(queue)[1], Head(queue)[2])
    /\ tally' = Cardinality(held)
    /\ missed' = IF ShowTransaction(Head(queue)[1]) THEN missed \ {Head(queue)[1]}
                 ELSE missed \cup {Head(queue)[1]}
    /\ UNCHANGED <<held, best, connecting, coinbaseOf, gui>>

\* index: a row is looked at, with its status renewed when blocks have come.
Index(i) ==
    /\ rows[i].cur # Height(best)
    /\ rows' = [rows EXCEPT ![i].cur = Height(best), ![i].depth = Depth(rows[i].hash)]
    /\ UNCHANGED <<held, best, connecting, coinbaseOf, gui, queue, tally, missed>>

TableNext ==
    \/ \E h \in Txs : WalletAdds(h)
    \/ \E b \in Blocks : ConnectBlocks(b)
    \/ NewTip
    \/ RefreshWallet \/ Subscribe \/ UpdateTransaction
    \/ \E i \in DOMAIN rows : Index(i)

TableSpec == TableInit /\ [][TableNext]_tvars

-----------------------------------------------------------------------------

(* "Update our model of the wallet incrementally, to synchronize our model of
   the wallet with that of the core": when no notification waits, every
   transaction that should be shown is shown, in all its rows and once, and
   what is shown is in the wallet; the rows are in the order of the hashes the
   search relies on.  Two kinds of transactions are excepted: one that
   changed after the table was filled and before it subscribed, and generated
   coins whose last notification was handled before their block was the best. *)
TableFollowsWallet ==
    /\ \A i, j \in DOMAIN rows :
           i < j => \/ rows[i].hash < rows[j].hash
                    \/ rows[i].hash = rows[j].hash /\ rows[i].idx < rows[j].idx
    /\ \A i \in DOMAIN rows : rows[i].hash \in held
    /\ gui = "subscribed" /\ queue = <<>> =>
           \A h \in held \ missed : ShowTransaction(h) =>
               \A n \in DOMAIN RowsOf(h) : \E i \in DOMAIN rows :
                   rows[i].hash = h /\ rows[i].idx = n - 1
=============================================================================
