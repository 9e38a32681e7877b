------------------------------- MODULE Wallet -------------------------------
(***************************************************************************)
(* The transactions of the wallet (wallet.cpp, CWalletTx): how mapWallet   *)
(* follows the chain and the memory pool, which coins it offers to spend,  *)
(* what CommitTransaction leaves behind, and what a restart puts right.    *)
(*                                                                         *)
(* The node around the wallet is reduced to what the wallet sees of it:    *)
(* blocks that arrive on any known block, a best chain, a memory pool.  An *)
(* outpoint is a pair <transaction, output>, <0, k> standing for coins of  *)
(* others; an output says only whether it pays the wallet, amounts being   *)
(* the subject of the last part and keys WalletKeys's.  "Foreign" lists    *)
(* transactions others make.  A change of an entry is written at once, so  *)
(* wallet.dat is the entries themselves; "torn" is the file between the    *)
(* writes of the last handler, where a crash may leave it.  Chain state    *)
(* reaches the disk later than wallet.dat: "disk" is the chain there.      *)
(* The memory-only caches of CWalletTx are left out.                       *)
(***************************************************************************)
EXTENDS Integers, Sequences, FiniteSets, SequencesExt

CONSTANTS Foreign,        \* sequence of [ins, outs, coinbase]
          MaxTx, MaxBlock, MaxCrash,
          CoinbaseMaturity, WalletMaturity, CopyDepth, LocatorPeriod

VARIABLES txs, blocks, chain, disk, pool,    \* the node
          wallet, nextOrder,                 \* mapWallet and nOrderPosNext
          torn, locator,                     \* the rest of wallet.dat
          stage, stops, commit              \* commit: what CommitTransaction last returned

wvars == <<txs, blocks, chain, disk, pool, wallet, nextOrder, torn, locator, stage, stops, commit>>

Elements(s) == {s[i] : i \in DOMAIN s}
InChain(ch) == UNION {blocks[b].txs : b \in Elements(ch)}
Outputs(t) == {<<t, i>> : i \in DOMAIN txs[t].outs}
SpentBy(T) == UNION {txs[t].ins : t \in T}
MadeBy(T) == UNION {Outputs(t) : t \in T}
External == {<<0, k>> : k \in 1..Len(Foreign)}

\* The unspent outputs after the blocks of a chain, and whether it has coins of t.
Unspent(ch) == (MadeBy(InChain(ch)) \cup External) \ SpentBy(InChain(ch))
HaveCoins(ch, t) == Outputs(t) \cap Unspent(ch) # {}

IsMine(c) == c[1] # 0 /\ txs[c[1]].outs[c[2]]
PaysMe(t) == \E c \in Outputs(t) : IsMine(c)
IsFromMe(w, t) == \E c \in txs[t].ins : c[1] \in DOMAIN w /\ IsMine(c)

\* CMerkleTx::GetDepthInMainChain, from the block the entry names.
GetDepthInMainChain(ch, b) ==
    IF b \in Elements(ch) THEN Len(ch) + 1 - (CHOOSE i \in DOMAIN ch : ch[i] = b) ELSE 0

-----------------------------------------------------------------------------
(***************************************************************************)
(* WalletUpdateSpent, AddToWallet and AddToWalletIfInvolvingMe on a pair   *)
(* of mapWallet (w) and nOrderPosNext (n).  "half" is wallet.dat after the *)
(* record of the transaction and before the marks on the coins it spends.  *)
(***************************************************************************)
(* The variant marks nothing. *)
WalletUpdateNothing(w, t) == w
WalletUpdateSpent(w, t) ==
    [u \in DOMAIN w |-> [w[u] EXCEPT !.spent =
        @ \cup {c[2] : c \in {d \in txs[t].ins : d[1] = u /\ IsMine(d)}}]]

Entry(block, order, prev) == [block |-> block, spent |-> {}, order |-> order, prev |-> prev]
NoPrev == [u \in {} |-> 0]

AddToWallet(st, t, block) ==
    LET new == t \notin DOMAIN st.w
        recorded == [u \in DOMAIN st.w \cup {t} |->
                       IF u # t THEN st.w[u]
                       ELSE IF new THEN Entry(block, st.n, NoPrev)
                       ELSE [st.w[t] EXCEPT !.block = IF block # 0 THEN block ELSE @]]
    IN  [w |-> WalletUpdateSpent(recorded, t), n |-> IF new THEN st.n + 1 ELSE st.n, half |-> recorded]

AddToWalletIfInvolvingMe(st, t, block, update) ==
    IF t \in DOMAIN st.w /\ ~update THEN st
    ELSE IF t \in DOMAIN st.w \/ PaysMe(t) \/ IsFromMe(st.w, t) THEN AddToWallet(st, t, block)
    ELSE [st EXCEPT !.w = WalletUpdateSpent(@, t)]

\* Parents precede children, in blocks and in the numbering of transactions.
RECURSIVE SyncTxs(_, _, _, _)
SyncTxs(st, T, block, update) ==
    IF T = {} THEN st
    ELSE LET t == CHOOSE u \in T : \A v \in T : u <= v
         IN  SyncTxs(AddToWalletIfInvolvingMe(st, t, block, update), T \ {t}, block, update)

\* ScanForWalletTransactions, and the calls of ConnectBlock for a run of blocks.
RECURSIVE SyncBlocks(_, _, _)
SyncBlocks(st, bs, update) ==
    IF bs = <<>> THEN st
    ELSE SyncBlocks(SyncTxs(st, blocks[Head(bs)].txs, Head(bs), update), Tail(bs), update)

State == [w |-> wallet, n |-> nextOrder, half |-> wallet]
Becomes(st) == wallet' = st.w /\ nextOrder' = st.n /\ torn' = st.half

-----------------------------------------------------------------------------
\* A stored block whose chain is longer than the best is connected at once.
Better == {b \in DOMAIN blocks : blocks[b].tried = FALSE /\ Len(blocks[b].chain) > Len(chain)}
Settled == Better = {}

(***************************************************************************)
(* The node.  CTxMemPool::accept, then SyncWithWallets.                    *)
(***************************************************************************)
Acceptable(ch, P, t) ==
    /\ t \notin P /\ ~txs[t].coinbase
    /\ txs[t].ins \cap SpentBy(P) = {}
    /\ ~HaveCoins(ch, t)
    /\ txs[t].ins \subseteq Unspent(ch) \cup MadeBy(P)
    /\ \A c \in txs[t].ins : \A i \in DOMAIN ch :
         c[1] \in blocks[ch[i]].txs /\ txs[c[1]].coinbase => Len(ch) + 1 - i >= CoinbaseMaturity

Receive(t) ==
    /\ stage # "down" /\ Settled /\ t <= Len(Foreign)
    /\ Acceptable(chain, pool, t)
    /\ pool' = pool \cup {t}
    /\ Becomes(AddToWalletIfInvolvingMe(State, t, 0, TRUE))
    /\ UNCHANGED <<txs, blocks, chain, disk, locator, stage, stops, commit>>

\* CTxMemPool::remove with its dependants, and removeConflicts.
RECURSIVE Dependants(_, _)
Dependants(P, T) ==
    LET D == T \cup {t \in P : \E c \in txs[t].ins : c[1] \in T}
    IN  IF D = T THEN T ELSE Dependants(P, D)

RECURSIVE Resurrect(_, _, _, _)
Resurrect(ch, P, st, T) ==
    IF T = {} THEN [p |-> P, st |-> st]
    ELSE LET t == CHOOSE u \in T : \A v \in T : u <= v
         IN  IF Acceptable(ch, P, t)
             THEN Resurrect(ch, P \cup {t}, AddToWalletIfInvolvingMe(st, t, 0, TRUE), T \ {t})
             ELSE Resurrect(ch, P \ Dependants(P, {t}), st, T \ {t})

Delete(P, T) == P \ (T \cup Dependants(P \ T, {t \in P \ T : txs[t].ins \cap SpentBy(T) # {}}))

Fork(ch1, ch2) == Cardinality({i \in DOMAIN ch1 \cap DOMAIN ch2 : ch1[i] = ch2[i]})

(***************************************************************************)
(* AcceptBlock: a block is stored on any known block.  Its transactions    *)
(* are ones that can follow; a block that is not good fails in             *)
(* ConnectBlock.                                                           *)
(***************************************************************************)
Fits(ch, T) ==
    /\ T \cap InChain(ch) = {}
    /\ SpentBy(T) \subseteq Unspent(ch) \cup MadeBy(T)
    /\ \A t, u \in T : t # u => txs[t].ins \cap txs[u].ins = {}
    /\ Cardinality({t \in T : txs[t].coinbase}) <= 1
    /\ \A t \in T : \A c \in txs[t].ins :
         c[1] # 0 /\ txs[c[1]].coinbase =>
            \E i \in DOMAIN ch : c[1] \in blocks[ch[i]].txs /\ Len(ch) + 1 - i >= CoinbaseMaturity

AcceptBlock(parent, T, good) ==
    LET b == Cardinality(DOMAIN blocks) + 1
    IN  /\ stage # "down" /\ Settled /\ b <= MaxBlock
        /\ Len(parent) + 1 >= Len(chain)
        /\ good => Fits(parent, T)
        /\ ~good => T = {}
        /\ blocks' = [x \in DOMAIN blocks \cup {b} |->
                        IF x # b THEN blocks[x]
                        ELSE [txs |-> T, chain |-> Append(parent, b), good |-> good, tried |-> FALSE]]
        /\ UNCHANGED <<txs, chain, disk, pool, wallet, nextOrder, torn, locator, stage, stops, commit>>

(***************************************************************************)
(* SetBestChain as the wallet sees it: the blocks of the new branch are    *)
(* connected one by one, each telling the wallet of its transactions, up   *)
(* to the first that fails.  If none does, the disconnected transactions   *)
(* return to the pool where they can and the connected ones leave it.      *)
(***************************************************************************)
SetBestChain(b) ==
    LET new == blocks[b].chain
        fork == Fork(chain, new)
        connect == SubSeq(new, fork + 1, Len(new))
        bad == {i \in DOMAIN connect : ~blocks[connect[i]].good}
        reached == IF bad = {} THEN connect
                   ELSE SubSeq(connect, 1, (CHOOSE i \in bad : \A j \in bad : i <= j) - 1)
        st == SyncBlocks(State, reached, TRUE)
        lost == UNION {blocks[chain[i]].txs : i \in (fork + 1)..Len(chain)}
        r == Resurrect(new, pool, st, {t \in lost : ~txs[t].coinbase})
        gained == UNION {blocks[x].txs : x \in Elements(connect)}
    IN  /\ stage # "down" /\ b \in Better
        /\ \/ /\ bad = {}
              /\ chain' = new
              /\ disk' \in {disk, new}
              /\ pool' = Delete(r.p, gained)
              /\ Becomes(r.st)
              /\ locator' = IF Len(new) % LocatorPeriod = 0 THEN new ELSE locator
              /\ blocks' = blocks
           \/ /\ bad # {}
              /\ Becomes(st)
              /\ blocks' = [blocks EXCEPT ![b].tried = TRUE]
              /\ UNCHANGED <<chain, disk, pool, locator>>
        /\ UNCHANGED <<txs, stage, stops, commit>>

-----------------------------------------------------------------------------
(***************************************************************************)
(* CWalletTx::IsConfirmed: in the chain, or the wallet's own and resting   *)
(* on confirmed transactions, as far as the copies in vtxPrev tell.        *)
(***************************************************************************)
RECURSIVE Rests(_, _, _)
Rests(prev, t, b) ==
    \/ GetDepthInMainChain(chain, b) >= 1
    \/ /\ IsFromMe(wallet, t)
       /\ \A c \in txs[t].ins : c[1] \in DOMAIN prev /\ Rests(prev, c[1], prev[c[1]])

IsConfirmed(t) == Rests(wallet[t].prev, t, wallet[t].block)

(***************************************************************************)
(* AvailableCoins, and of those the ones SelectCoins may take: with a      *)
(* confirmation, or with none if the wallet's own.                         *)
(***************************************************************************)
AvailableCoins ==
    {c \in MadeBy(DOMAIN wallet) :
        /\ IsConfirmed(c[1])
        /\ txs[c[1]].coinbase => GetDepthInMainChain(chain, wallet[c[1]].block) >= WalletMaturity
        /\ c[2] \notin wallet[c[1]].spent
        /\ IsMine(c)}

Selectable ==
    {c \in AvailableCoins : \/ GetDepthInMainChain(chain, wallet[c[1]].block) >= 1
                            \/ IsFromMe(wallet, c[1])}

(***************************************************************************)
(* AddSupportingTransactions: copies of the wallet's transactions the new  *)
(* one rests on, back to those CopyDepth deep, each with the block the     *)
(* chain's coins place it in (SetMerkleBranch), else the one it had.       *)
(***************************************************************************)
SetMerkleBranch(t) ==
    IF HaveCoins(chain, t)
    THEN CHOOSE b \in Elements(chain) : t \in blocks[b].txs
    ELSE wallet[t].block

RECURSIVE AddSupporting(_)
AddSupporting(T) ==
    LET shallow == {u \in T : GetDepthInMainChain(chain, SetMerkleBranch(u)) < CopyDepth}
        more == {c[1] : c \in SpentBy(shallow)} \cap DOMAIN wallet
    IN  IF more \subseteq T THEN T ELSE AddSupporting(T \cup more)

(***************************************************************************)
(* WalletModel::sendCoins: CreateTransaction and CommitTransaction under   *)
(* cs_main and cs_wallet.  The transaction is recorded and its coins are   *)
(* marked before it is offered to the memory pool; a refusal undoes        *)
(* nothing.  The new transaction may have change.                          *)
(***************************************************************************)
CommitTransaction(coins, change) ==
    LET t == Len(txs) + 1
        prev == [u \in AddSupporting({c[1] : c \in coins}) |-> SetMerkleBranch(u)]
        half == [u \in DOMAIN wallet \cup {t} |->
                    IF u = t THEN Entry(0, nextOrder, prev) ELSE wallet[u]]
        marked == [u \in DOMAIN half |->
                    [half[u] EXCEPT !.spent = @ \cup {c[2] : c \in {d \in coins : d[1] = u}}]]
        accepted == /\ coins \subseteq Unspent(chain) \cup MadeBy(pool)
                    /\ coins \cap SpentBy(pool) = {}
    IN  /\ stage = "up" /\ Settled /\ t <= MaxTx
        /\ coins # {}
        /\ txs' = Append(txs, [ins |-> coins, coinbase |-> FALSE,
                               outs |-> IF change THEN <<FALSE, TRUE>> ELSE <<FALSE>>])
        /\ Becomes([w |-> marked, n |-> nextOrder + 1, half |-> half])
        /\ pool' = IF accepted THEN pool \cup {t} ELSE pool
        /\ commit' = accepted
        /\ UNCHANGED <<blocks, chain, disk, locator, stage, stops>>

-----------------------------------------------------------------------------
(***************************************************************************)
(* The process dies: the pool is gone, wallet.dat has the entries or is    *)
(* caught between two writes, the chain is the one on disk.  Or it is shut *)
(* down: everything is flushed and the locator recorded.                   *)
(***************************************************************************)
WalletCrash ==
    /\ stage # "down" /\ stops < MaxCrash
    /\ stops' = stops + 1
    /\ stage' = "down"
    /\ pool' = {}
    /\ chain' = disk
    /\ wallet' \in {wallet, torn}
    /\ torn' = wallet'
    /\ UNCHANGED <<txs, blocks, disk, nextOrder, locator, commit>>

Shutdown ==
    /\ stage = "up" /\ Settled /\ stops < MaxCrash
    /\ stops' = stops + 1
    /\ stage' = "down"
    /\ pool' = {}
    /\ disk' = chain
    /\ locator' = chain
    /\ torn' = wallet
    /\ UNCHANGED <<txs, blocks, chain, wallet, nextOrder, commit>>

\* AppInit2 loads the wallet and rescans from the last recorded block in the chain.
WalletRestart ==
    /\ stage = "down"
    /\ LET fork == Fork(chain, locator)
           start == IF fork = 0 THEN 1 ELSE fork
       IN  IF fork = Len(chain) /\ chain # <<>> THEN Becomes(State) /\ UNCHANGED locator
           ELSE /\ Becomes(SyncBlocks(State, SubSeq(chain, start, Len(chain)), TRUE))
                /\ locator' = chain
    /\ stage' = "loading"
    /\ UNCHANGED <<txs, blocks, chain, disk, pool, stops, commit>>

(***************************************************************************)
(* ReacceptWalletTransactions: coins the chain no longer has are marked    *)
(* spent, and the chain is scanned for what spent them; what is in no      *)
(* block goes back to the pool with its inputs unchecked, after those of   *)
(* its copies that the chain has coins of (AcceptWalletTransaction).       *)
(***************************************************************************)
Insert(st, t) ==
    IF t \in st.p \/ txs[t].ins \cap SpentBy(st.p) # {} THEN st
    ELSE [p |-> st.p \cup {t}, st |-> AddToWalletIfInvolvingMe(st.st, t, 0, TRUE), missing |-> st.missing]

RECURSIVE InsertAll(_, _)
InsertAll(st, T) ==
    IF T = {} THEN st
    ELSE LET t == CHOOSE u \in T : \A v \in T : u <= v IN InsertAll(Insert(st, t), T \ {t})

AcceptWalletTransaction(st, t) ==
    LET known == {u \in DOMAIN st.st.w[t].prev : ~txs[u].coinbase /\ HaveCoins(chain, u)}
    IN  Insert(InsertAll(st, known), t)

ReacceptOne(st, t) ==
    LET e == st.st.w[t]
        missing == {c[2] : c \in {d \in Outputs(t) : IsMine(d) /\ d \notin Unspent(chain)}} \ e.spent
    IN  IF txs[t].coinbase /\ 1 \in e.spent THEN st
        ELSE IF HaveCoins(chain, t) \/ GetDepthInMainChain(chain, e.block) > 0
        THEN [st EXCEPT !.st.w[t].spent = @ \cup missing, !.missing = @ \/ missing # {}]
        ELSE IF txs[t].coinbase THEN st
        ELSE AcceptWalletTransaction(st, t)

RECURSIVE ReacceptAll(_, _)
ReacceptAll(st, T) ==
    IF T = {} THEN st
    ELSE LET t == CHOOSE u \in T : \A v \in T : u <= v
         IN  ReacceptAll(ReacceptOne(st, t), T \ {t})

RECURSIVE Reaccept(_)
Reaccept(st) ==
    LET r == ReacceptAll([st EXCEPT !.missing = FALSE], DOMAIN st.st.w)
        scanned == SyncBlocks(r.st, chain, FALSE)
    IN  IF ~r.missing THEN r
        ELSE IF DOMAIN scanned.w = DOMAIN r.st.w THEN [r EXCEPT !.st = scanned]
        ELSE Reaccept([r EXCEPT !.st = scanned])

ReacceptWalletTransactions ==
    /\ stage = "loading" /\ Settled
    /\ LET r == Reaccept([p |-> pool, st |-> State, missing |-> FALSE])
       IN  Becomes(r.st) /\ pool' = r.p
    /\ stage' = "up"
    /\ UNCHANGED <<txs, blocks, chain, disk, locator, stops, commit>>

TxInit ==
    /\ txs = Foreign /\ blocks = [b \in {} |-> 0]
    /\ chain = <<>> /\ disk = <<>> /\ pool = {}
    /\ wallet = [t \in {} |-> 0] /\ nextOrder = 0
    /\ torn = wallet /\ locator = <<>>
    /\ stage = "up" /\ stops = 0 /\ commit = TRUE

TxNext ==
    \/ \E t \in DOMAIN Foreign : Receive(t)
    \/ \E parent \in {<<>>} \cup {blocks[b].chain : b \in DOMAIN blocks},
          T \in SUBSET DOMAIN txs, good \in BOOLEAN : AcceptBlock(parent, T, good)
    \/ \E b \in DOMAIN blocks : SetBestChain(b)
    \/ \E coins \in SUBSET Selectable, change \in BOOLEAN : CommitTransaction(coins, change)
    \/ WalletCrash \/ Shutdown \/ WalletRestart \/ ReacceptWalletTransactions

TxSpec == TxInit /\ [][TxNext]_wvars

-----------------------------------------------------------------------------
(***************************************************************************)
(* CommitTransaction: "This must not fail. The transaction has already     *)
(* been signed and recorded."                                              *)
(***************************************************************************)
CommitNeverFails == commit

(***************************************************************************)
(* The coins AvailableCoins offers are unspent: no transaction of the      *)
(* chain, the pool or the wallet spends them, and each is in the chain or  *)
(* is change of a payment of the wallet's own; whenever the user can send, *)
(* also after a crash between the record of a transaction and the marks on *)
(* its coins, and after reorganisations.                                   *)
(***************************************************************************)
OffersUnspent ==
    stage = "up" /\ Settled =>
        \A c \in Selectable :
            /\ c \in Unspent(chain) \/ IsFromMe(wallet, c[1])
            /\ c \notin SpentBy(pool \cup DOMAIN wallet \cup InChain(chain))

(***************************************************************************)
(* Every transaction of the chain that pays the wallet or spends its coins *)
(* is in mapWallet under its block (or under one of a branch that failed   *)
(* to connect, of which ConnectBlock had already told the wallet), a coin  *)
(* is marked spent only if the wallet knows what spends it, and no two     *)
(* entries share a position in the list: no payment is missed and no coin  *)
(* is hidden.                                                              *)
(***************************************************************************)
Misled(b) == b # 0 /\ b \notin Elements(chain)
             /\ \E x \in DOMAIN blocks : blocks[x].tried /\ b \in Elements(blocks[x].chain)

WalletFollowsChain ==
    stage = "up" /\ Settled =>
        /\ \A b \in Elements(chain) : \A t \in blocks[b].txs :
             PaysMe(t) \/ IsFromMe(wallet, t) =>
                t \in DOMAIN wallet /\ (wallet[t].block = b \/ Misled(wallet[t].block))
        /\ \A t \in DOMAIN wallet : \A i \in wallet[t].spent :
             <<t, i>> \in SpentBy(DOMAIN wallet)
        /\ \A t, u \in DOMAIN wallet : wallet[t].order = wallet[u].order => t = u

-----------------------------------------------------------------------------
(***************************************************************************)
(* How the wallet chooses coins and prices a transaction (wallet.cpp):     *)
(* SelectCoins and the fee loop of CreateTransaction, with the fee and     *)
(* dust rules of main.cpp it calls.  A coin is a record of its value, its  *)
(* depth in the chain and whether the wallet itself made it; the wallet's  *)
(* coins come as a sequence, in the order the shuffle left them, and the   *)
(* random bits of the subset search are the argument "bits".  Sizes are    *)
(* scaled: a transaction takes InSize per input and OutSize per output,    *)
(* and a fee is due for every started unit of KB.                          *)
(***************************************************************************)
CONSTANTS CENT, TransactionFee, InSize, OutSize, KB, MaxStandardSize

nMinTxFee == CENT
MIN_TXOUT_AMOUNT == CENT

SumOf(values) ==
    LET upto[i \in 0 .. Len(values)] == IF i = 0 THEN 0 ELSE upto[i - 1] + values[i]
    IN  upto[Len(values)]

Total(coins, chosen) ==
    SumOf([i \in 1 .. Len(coins) |-> IF i \in chosen THEN coins[i].v ELSE 0])

Eligible(coins, nConfMine, nConfTheirs) ==
    {i \in DOMAIN coins : coins[i].depth >= IF coins[i].mine THEN nConfMine ELSE nConfTheirs}

(***************************************************************************)
(* ApproximateBestSubset on the chosen coins, largest first: one           *)
(* repetition takes coins by the random bits and, if those did not reach   *)
(* the target, the others too; each time the total reaches the target it   *)
(* is compared with the best and the last coin is taken out again.         *)
(***************************************************************************)
Take(coins, target, st, in) ==
    IF Total(coins, in) < target THEN [st EXCEPT !.in = in]
    ELSE [st EXCEPT !.reached = TRUE,
                    !.best = IF Total(coins, in) < Total(coins, st.best) THEN in ELSE st.best]

\* nPass = 0 and 1 over the coins from the k-th on.
RECURSIVE Pass(_, _, _, _, _, _)
Pass(coins, order, target, k, st, wanted) ==
    IF k > Len(order) THEN st
    ELSE Pass(coins, order, target, k + 1,
              IF order[k] \in wanted THEN Take(coins, target, st, st.in \cup {order[k]}) ELSE st,
              wanted)

Repetition(coins, order, target, best, bits) ==
    LET second(st) == IF st.reached THEN st.best
                      ELSE Pass(coins, order, target, 1, st, ToSet(order) \ st.in).best
    IN  second(Pass(coins, order, target, 1, [in |-> {}, reached |-> FALSE, best |-> best],
                    {i \in ToSet(order) : bits[i]}))

RECURSIVE Repeated(_, _, _, _, _)
Repeated(coins, order, target, best, bits) ==
    IF bits = <<>> \/ Total(coins, best) = target THEN best
    ELSE Repeated(coins, order, target, Repetition(coins, order, target, best, bits[1]), Tail(bits))

BestSubset(coins, lower, target, bits) ==
    Repeated(coins, SetToSortSeq(lower, LAMBDA i, j : \/ coins[i].v > coins[j].v
                                                      \/ coins[i].v = coins[j].v /\ i < j),
             target, lower, bits)

(***************************************************************************)
(* SelectCoinsMinConf: {} when it fails.  A coin of exactly the target     *)
(* ends the scan; the coins below target + CENT make up "lower", the       *)
(* smallest of the others is the one coin that can pay alone.              *)
(***************************************************************************)
SelectCoinsMinConf(coins, target, nConfMine, nConfTheirs, bits) ==
    LET able == Eligible(coins, nConfMine, nConfTheirs)
        exact == {i \in able : coins[i].v = target}
        lower == {i \in able : coins[i].v < target + CENT}
        larger == able \ lower
        lowestLarger == {i \in larger : \A j \in larger : coins[i].v < coins[j].v \/ (coins[i].v = coins[j].v /\ i <= j)}
        again(near) == IF Total(coins, near) # target /\ Total(coins, lower) >= target + CENT
                       THEN BestSubset(coins, lower, target + CENT, bits) ELSE near
        better(best, nBest) ==
            IF larger # {} /\ (\/ nBest # target /\ nBest < target + CENT
                               \/ Total(coins, lowestLarger) <= nBest)
            THEN lowestLarger ELSE best
        judged(best) == better(best, Total(coins, best))
    IN  IF exact # {} THEN {CHOOSE i \in exact : \A j \in exact : i <= j}
        ELSE IF Total(coins, lower) = target THEN lower
        ELSE IF Total(coins, lower) < target THEN lowestLarger
        ELSE judged(again(BestSubset(coins, lower, target, bits)))

SelectCoins(coins, target, bits) ==
    LET first(a, b, c) == IF a # {} THEN a ELSE IF b # {} THEN b ELSE c
    IN  first(SelectCoinsMinConf(coins, target, 1, 6, bits),
              SelectCoinsMinConf(coins, target, 1, 1, bits),
              SelectCoinsMinConf(coins, target, 0, 1, bits))

-----------------------------------------------------------------------------
\* CTxOut::IsDust: spending it would cost a third of it at the relay fee.
IsDust(v) == (v * KB) \div (3 * (InSize + OutSize)) < nMinTxFee

\* CTransaction::GetMinFee(1, false, GMF_SEND): nothing goes free.
GetMinFee(size) == (1 + (size \div KB)) * nMinTxFee

PayFee(size) == TransactionFee * (1 + (size \div KB))

TxSize(ins, vecSend, change) ==
    InSize * Cardinality(ins) + OutSize * (Len(vecSend) + (IF change > 0 THEN 1 ELSE 0))

Required(size) == IF PayFee(size) > GetMinFee(size) THEN PayFee(size) ELSE GetMinFee(size)

Failed(why, fee) == [ok |-> FALSE, why |-> why, ins |-> {}, change |-> 0, fee |-> fee]

(***************************************************************************)
(* One round of CreateTransaction with the fee nFee: what is left over     *)
(* goes to the fee while it is too small for an output, then to a change   *)
(* output; a round whose fee turns out too low is repeated with the fee    *)
(* its size asks for.                                                      *)
(***************************************************************************)
Smaller(a, b) == IF a < b THEN a ELSE b

(* The variant forgets what is left over. *)
NoChange(over, nFee) == [change |-> 0, fee |-> nFee]
ChangeAndFee(over, nFee) ==
    LET move == IF nFee < nMinTxFee /\ over > 0 /\ over < CENT
                THEN Smaller(over, nMinTxFee - nFee) ELSE 0
        rest == over - move
    IN  IF rest < MIN_TXOUT_AMOUNT \/ IsDust(rest) THEN [change |-> 0, fee |-> nFee + move + rest]
        ELSE [change |-> rest, fee |-> nFee + move]

RECURSIVE CreateRound(_, _, _, _)
CreateRound(coins, vecSend, bits, nFee) ==
    LET nValue == SumOf(vecSend)
        priced(ins, cf, size) ==
            IF size >= MaxStandardSize THEN Failed("too large", cf.fee)
            ELSE IF cf.fee < Required(size) THEN CreateRound(coins, vecSend, bits, Required(size))
            ELSE [ok |-> TRUE, why |-> "", ins |-> ins, change |-> cf.change, fee |-> cf.fee]
        filled(ins, cf) == priced(ins, cf, TxSize(ins, vecSend, cf.change))
        paid(ins) == IF ins = {} THEN Failed("insufficient funds", nFee)
                     ELSE filled(ins, ChangeAndFee(Total(coins, ins) - nValue - nFee, nFee))
    IN  IF \E k \in DOMAIN vecSend : IsDust(vecSend[k]) THEN Failed("amount too small", nFee)
        ELSE paid(SelectCoins(coins, nValue + nFee, bits))

CreateTransaction(coins, vecSend, bits) ==
    IF vecSend = <<>> THEN Failed("amounts must be positive", 0)
    ELSE CreateRound(coins, vecSend, bits, TransactionFee)

-----------------------------------------------------------------------------
(***************************************************************************)
(* Whatever the shuffle and the random bits: a selection reaches the       *)
(* target, is made of coins deep enough, and is refused only when all      *)
(* those coins together do not reach it (SelectCoins).                     *)
(***************************************************************************)
SelectionExact(coins, target, bits) ==
    LET able == Eligible(coins, 0, 1)
        exact(got) == /\ got # {} <=> Total(coins, able) >= target
                      /\ got # {} => got \subseteq able /\ Total(coins, got) >= target
    IN  exact(SelectCoins(coins, target, bits))

(***************************************************************************)
(* The transaction CreateTransaction returns balances: inputs are payments *)
(* plus change plus the fee it reports, the fee is what the final size     *)
(* asks for, and the change is an output the network would relay.  It      *)
(* gives up for lack of funds only when the coins do not cover the         *)
(* payments and the fee it reports.                                        *)
(***************************************************************************)
CreatedBalances(coins, vecSend, bits) ==
    LET balances(r) ==
          /\ r.ok => /\ Total(coins, r.ins) = SumOf(vecSend) + r.change + r.fee
                     /\ r.fee >= Required(TxSize(r.ins, vecSend, r.change))
                     /\ r.change = 0 \/ (r.change >= MIN_TXOUT_AMOUNT /\ ~IsDust(r.change))
          /\ r.why = "insufficient funds" =>
               Total(coins, Eligible(coins, 0, 1)) < SumOf(vecSend) + r.fee
    IN  balances(CreateTransaction(coins, vecSend, bits))
=============================================================================
