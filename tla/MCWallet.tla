------------------------------ MODULE MCWallet ------------------------------
(***************************************************************************)
(* The wallet for TLC: its keys and their encryption, its transactions,    *)
(* its Berkeley DB file, the table the GUI shows of it, and the coins it   *)
(* selects.  Each behaviour is one of the part that "part" names; the      *)
(* others keep their first state.                                          *)
(***************************************************************************)
EXTENDS WalletKeys, Wallet, WalletDb, TxTable

CONSTANT Parts
VARIABLES part, coins, pay, bits

selvars == <<coins, pay, bits>>
allvars == <<part, kvars, wvars, dvars, tvars, selvars>>

\* A payment to us, the same coins paid elsewhere, and a coinbase of ours.
ForeignTable ==
    <<[ins |-> {<<0, 1>>}, outs |-> <<TRUE>>, coinbase |-> FALSE],
      [ins |-> {<<0, 1>>}, outs |-> <<FALSE>>, coinbase |-> FALSE],
      [ins |-> {}, outs |-> <<TRUE>>, coinbase |-> TRUE]>>

\* A payment to us, and a transaction that a copy of the wallet made of it.
CopiesTable ==
    <<[ins |-> {<<0, 1>>}, outs |-> <<TRUE>>, coinbase |-> FALSE],
      [ins |-> {<<1, 1>>}, outs |-> <<FALSE>>, coinbase |-> FALSE]>>

\* A coinbase of ours in block 2 and a payment to two others in its child.
TxOut(mine, value, simple) ==
    [mine |-> mine, value |-> value, change |-> FALSE, simple |-> simple]
ShownTable ==
    <<[coinbase |-> TRUE, vin |-> <<>>, vout |-> <<TxOut(TRUE, 5, TRUE)>>, block |-> 2],
      [coinbase |-> FALSE, vin |-> <<[mine |-> TRUE, value |-> 4]>>,
       vout |-> <<TxOut(FALSE, 2, TRUE), TxOut(FALSE, 1, FALSE)>>, block |-> 3]>>
ParentTable == <<0, 0, 2>>

MCForeign == ForeignTable
MCCopies == CopiesTable
MCTx == ShownTable
MCParent == ParentTable

\* Up to three coins, not confirmed but our own, fresh or deep; then a payment
\* and the bits the subset search draws.
Coin == [v : {1, 3, 5}, depth : {0}, mine : {TRUE}] \cup [v : {1, 2, 5}, depth : {1, 6}, mine : {FALSE}]
SelInit == coins = <<>> /\ pay = <<>> /\ bits = <<>>
SelNext ==
    /\ pay = <<>>
    /\ \/ /\ Len(coins) < 3
          /\ \E c \in Coin : coins' = Append(coins, c)
          /\ UNCHANGED <<pay, bits>>
       \/ /\ coins # <<>>
          /\ pay' \in {<<1>>, <<2>>, <<3>>, <<2, 3>>, <<5>>}
          /\ \E b \in [DOMAIN coins -> BOOLEAN] : bits' = <<b>>
          /\ UNCHANGED coins

WInit == part \in Parts /\ WalletInit /\ TxInit /\ DbInit /\ TableInit /\ SelInit

Keys_ == part = "keys" /\ WalletNext /\ UNCHANGED <<part, wvars, dvars, tvars, selvars>>
Txs_ == part = "txs" /\ TxNext /\ UNCHANGED <<part, kvars, dvars, tvars, selvars>>
File_ == part = "file" /\ DbNext /\ UNCHANGED <<part, kvars, wvars, tvars, selvars>>
Table_ == part = "table" /\ TableNext /\ UNCHANGED <<part, kvars, wvars, dvars, selvars>>
Select_ == part = "select" /\ SelNext /\ UNCHANGED <<part, kvars, wvars, dvars, tvars>>

WNext == Keys_ \/ Txs_ \/ File_ \/ Table_ \/ Select_

WSpec == WInit /\ [][WNext]_allvars

-----------------------------------------------------------------------------
(* Properties that join what the parts promise                             *)

\* What the wallet thinks it owns is what the chain says: every transaction of
\* ours in the best chain is in mapWallet, and no coin it offers to spend is
\* spent by the chain or the pool (SyncWithWallets, AvailableCoins, the rescan).
WalletTrue == part = "txs" => OffersUnspent /\ WalletFollowsChain

\* A payment is made right whatever the shuffle and the random bits: the coins
\* selected are deep enough and reach the target if any do, the transaction
\* balances and pays the fee of its size, and the rows the GUI would show of it
\* add up to what it changed (SelectCoins, CreateTransaction,
\* TransactionRecord::decomposeTransaction).
Shown(ins, change, theirs) ==
    [coinbase |-> FALSE,
     vin |-> [i \in DOMAIN SetToSeq(ins) |-> [mine |-> TRUE, value |-> coins[SetToSeq(ins)[i]].v]] \o theirs,
     vout |-> [i \in DOMAIN pay |-> TxOut(FALSE, pay[i], TRUE)] \o
              (IF change > 0 THEN <<[TxOut(TRUE, change, TRUE) EXCEPT !.change = TRUE]>> ELSE <<>>)]
PaymentsBalance ==
    pay # <<>> =>
        /\ \A t \in 1..7 : SelectionExact(coins, t, bits)
        /\ CreatedBalances(coins, pay, bits)
        /\ \E r \in {CreateTransaction(coins, pay, bits)} :
              r.ok => \A theirs \in {<<>>, <<[mine |-> FALSE, value |-> 0]>>} :
                          RowsAddUp(Shown(r.ins, r.change, theirs))
=============================================================================
