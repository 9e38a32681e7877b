------------------------------ MODULE Ledger ------------------------------
(***************************************************************************)
(* Blocks and transactions, CCoins, and what the unspent outputs of a      *)
(* chain and a valid block are, defined from the chain alone.  Module      *)
(* Coins shows that the node computes the same.                            *)
(*                                                                         *)
(* A block is a sequence of transaction ids; a transaction has inputs      *)
(* <<txid, n>> and output values, n counted from 1.  What CheckBlock and   *)
(* CheckTransaction guarantee is assumed: one coinbase, at the front, no   *)
(* transaction twice in a block, no input twice in a transaction.          *)
(***************************************************************************)
EXTENDS Integers, Sequences, FiniteSets, SequencesExt, FiniteSetsExt, TLC

CONSTANTS
    Blocks, Genesis, Null,
    Parent, Anc, Height,    \* the block tree, as in module Chain
    Vtx,                    \* the transaction ids of each block; <<>> for Genesis
    Tx,                     \* txid -> [fCoinBase, vin, vout]
    BadScript,              \* transactions with an input that does not verify
    COINBASE_MATURITY,
    MinFee,                 \* GetMinFee of each transaction
    MIN_TX_FEE,
    Subsidy                 \* TargetGetMint of every block

TxIds == DOMAIN Tx

ASSUME BlocksAssumption ==
    /\ Genesis \in Blocks /\ Vtx[Genesis] = <<>>
    /\ \A b \in Blocks \ {Genesis} :
          /\ Vtx[b] # <<>> /\ IsInjective(Vtx[b])
          /\ \A i \in 1..Len(Vtx[b]) : Tx[Vtx[b][i]].fCoinBase <=> i = 1
    /\ \A t \in TxIds : IsInjective(Tx[t].vin) /\ Tx[t].vout # <<>>

Nothing == [t \in {} |-> 0]     \* an empty map
Spent == -1                     \* CTxOut::IsNull

-----------------------------------------------------------------------------
(* CCoins.  Cleanup drops the spent outputs at the end.                     *)
EmptyCoins == [fCoinBase |-> FALSE, vout |-> <<>>, nHeight |-> 0]
CoinsOf(t, h) == [fCoinBase |-> Tx[t].fCoinBase, vout |-> Tx[t].vout, nHeight |-> h]

IsAvailable(c, n) == n \in DOMAIN c.vout /\ c.vout[n] # Spent
IsPruned(c) == \A n \in DOMAIN c.vout : c.vout[n] = Spent

Cleanup(vout) == SubSeq(vout, 1, Max({0} \cup {n \in DOMAIN vout : vout[n] # Spent}))
SpendOut(c, n) == [c EXCEPT !.vout = Cleanup([c.vout EXCEPT ![n] = Spent])]

Unpruned(m) == [t \in {x \in DOMAIN m : ~IsPruned(m[x])} |-> m[t]]
ValueOut(t) == SumFunction(Tx[t].vout)

CoinbaseLimit(b, fees) == Subsidy + fees - MinFee[Vtx[b][1]] + MIN_TX_FEE

-----------------------------------------------------------------------------
(* The ledger, defined from the chain alone: transaction t, last included  *)
(* at height h, has the outputs that nothing in the chain spends from that *)
(* block on.                                                               *)
Chain(b) == Anc[b] \ {Genesis}
Includes(b, t) == \E i \in DOMAIN Vtx[b] : Vtx[b][i] = t
SpentFrom(b, t, n, h) ==
    \E c \in Chain(b) : /\ Height[c] >= h
                        /\ \E i \in DOMAIN Vtx[c] : \E j \in DOMAIN Tx[Vtx[c][i]].vin :
                              Tx[Vtx[c][i]].vin[j] = <<t, n>>
LastHeight(b, t) == Max({Height[c] : c \in {c \in Chain(b) : Includes(c, t)}})
LedgerCoins(b, t) ==
    [fCoinBase |-> Tx[t].fCoinBase, nHeight |-> LastHeight(b, t),
     vout |-> Cleanup([n \in DOMAIN Tx[t].vout |->
                          IF SpentFrom(b, t, n, LastHeight(b, t)) THEN Spent ELSE Tx[t].vout[n]])]
Ledger ==
    [b \in Blocks |->
        Unpruned([t \in {t \in TxIds : \E c \in Chain(b) : Includes(c, t)} |-> LedgerCoins(b, t)])]

-----------------------------------------------------------------------------
(* A valid block on its parent's chain, by the rules: no transaction that  *)
(* still has an unspent output is repeated; an input is unspent in the     *)
(* parent's ledger or comes from an earlier transaction of the block, and  *)
(* no earlier transaction of the block spends it; coinbases are mature;    *)
(* fees are paid; the coinbase pays no more than it may.                   *)
InputCoins(b, i, out) ==
    IF \E k \in 1..(i - 1) : Vtx[b][k] = out[1] THEN CoinsOf(out[1], Height[b])
    ELSE IF out[1] \in DOMAIN Ledger[Parent[b]] THEN Ledger[Parent[b]][out[1]] ELSE EmptyCoins
ValidInput(b, i, out) ==
    LET c == InputCoins(b, i, out)
    IN  /\ IsAvailable(c, out[2])
        /\ \A k \in 1..(i - 1) : out \notin Range(Tx[Vtx[b][k]].vin)
        /\ c.fCoinBase => Height[b] - c.nHeight >= COINBASE_MATURITY
FeeOf(b, i) ==
    MapThenSumSet(LAMBDA out : InputCoins(b, i, out).vout[out[2]], Range(Tx[Vtx[b][i]].vin))
    - ValueOut(Vtx[b][i])
ValidBlock(b) ==
    LET loose == 2..Len(Vtx[b])
    IN  /\ Range(Vtx[b]) \cap (DOMAIN Ledger[Parent[b]] \cup BadScript) = {}
        /\ \A i \in loose :
              /\ \A out \in Range(Tx[Vtx[b][i]].vin) : ValidInput(b, i, out)
              /\ FeeOf(b, i) >= Max({0, MinFee[Vtx[b][i]]})
        /\ ValueOut(Vtx[b][1]) <=
              CoinbaseLimit(b, MapThenSumSet(LAMBDA i : FeeOf(b, i), loose))
ValidBlocks == {b \in Blocks \ {Genesis} : ValidBlock(b)}
=============================================================================
