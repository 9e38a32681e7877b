----------------------------- MODULE BlockRules -----------------------------
(***************************************************************************)
(* The rules a transaction and a block obey by themselves, and those of a  *)
(* block's place in the chain (main.h, main.cpp: CTransaction::IsFinal,    *)
(* IsNewerThan, CheckTransaction, IsStandard;  CBlock::CheckBlock and the   *)
(* first half of AcceptBlock; CBlockIndex::IsSuperMajority), with the      *)
(* script that a coinbase must start with (script.h: push_int64).          *)
(*                                                                         *)
(* A transaction is [id, nVersion, vin, vout, nLockTime, size, sigops], an *)
(* input [prevout, nSequence, scriptSize, pushOnly], an output [nValue,    *)
(* size, standard].  A block is [vtx, size, nTime, nVersion, root,         *)
(* coinbase], coinbase the bytes of the script of its first input.         *)
(* Amounts are words of WordRange values; in the code a word has 64 bits.  *)
(***************************************************************************)
EXTENDS Merkle

CONSTANTS WordRange,          \* 2^64
          MaxMoney, MinTxOut, MinRelayTxFee,
          MaxBlockSize, MaxStandardTxSize, MaxBlockSigOps,
          LockTimeThreshold, MaxSeqNo,
          LocksFrom, LocksUntil, MaxTxids,   \* 21 March to 15 May 2013, 4500
          MaxDrift,                          \* two hours
          SuperRequired, SuperWindow      \* 750 of the last 1000

NullOutpoint == <<0, -1>>

\* What an int64 holds after an operation.
Word(n) == ((n + WordRange \div 2) % WordRange) - WordRange \div 2

MoneyRange(v) == 0 <= v /\ v <= MaxMoney

IsCoinBase(tx) == Len(tx.vin) = 1 /\ tx.vin[1].prevout = NullOutpoint

IsFinal(tx, height, time) ==
    \/ tx.nLockTime = 0
    \/ tx.nLockTime < (IF tx.nLockTime < LockTimeThreshold THEN height ELSE time)
    \/ \A i \in DOMAIN tx.vin : tx.vin[i].nSequence = MaxSeqNo

\* Whether the inputs of tx replace those of old: where the sequence numbers differ,
\* the lowest is one of old's.
IsNewerThan(tx, old) ==
    /\ Len(tx.vin) = Len(old.vin)
    /\ \A i \in DOMAIN tx.vin : tx.vin[i].prevout = old.vin[i].prevout
    /\ FoldLeftDomain(LAMBDA s, i :
           LET new == tx.vin[i].nSequence
               prev == old.vin[i].nSequence
               t == IF new <= s.nLowest THEN [fNewer |-> FALSE, nLowest |-> new] ELSE s
           IN  IF new = prev THEN s
               ELSE IF prev < t.nLowest THEN [fNewer |-> TRUE, nLowest |-> prev] ELSE t,
           [fNewer |-> FALSE, nLowest |-> MaxSeqNo], tx.vin).fNewer

(* The variant looks at the total only. *)
SumTotal(tx) ==
    LET total == FoldLeft(LAMBDA sum, out : Word(sum + out.nValue), 0, tx.vout)
    IN  IF MoneyRange(total) THEN total ELSE -1

\* The sum so far, or -1 once a value or the sum is out of range.
SumOutputs(tx) ==
    FoldLeft(LAMBDA sum, out :
        LET total == Word(sum + out.nValue) IN
        IF \/ sum = -1 \/ out.nValue < MinTxOut \/ out.nValue > MaxMoney
           \/ ~MoneyRange(total) THEN -1 ELSE total,
        0, tx.vout)

CheckTransaction(tx) ==
    /\ tx.vin # <<>> /\ tx.vout # <<>>
    /\ tx.size <= MaxBlockSize
    /\ SumOutputs(tx) # -1
    /\ \A i, j \in DOMAIN tx.vin : i # j => tx.vin[i].prevout # tx.vin[j].prevout
    /\ IF IsCoinBase(tx) THEN tx.vin[1].scriptSize \in 2 .. 100
       ELSE \A i \in DOMAIN tx.vin : tx.vin[i].prevout # NullOutpoint

\* Division rounds toward zero.
Quotient(a, b) == IF a < 0 THEN -((-a) \div b) ELSE a \div b

IsDust(out) == Quotient(Word(out.nValue * 1000), 3 * (out.size + 148)) < MinRelayTxFee

IsStandardTx(tx, height, time) ==
    /\ tx.nVersion = 1
    /\ IsFinal(tx, height, time)
    /\ tx.size < MaxStandardTxSize
    /\ \A i \in DOMAIN tx.vin : tx.vin[i].scriptSize <= 500 /\ tx.vin[i].pushOnly
    /\ \A i \in DOMAIN tx.vout : tx.vout[i].standard /\ ~IsDust(tx.vout[i])

-----------------------------------------------------------------------------
(* Blocks.  The lock limit of 2013 counted the transactions a block named. *)

TxidsNamed(block) ==
    {block.vtx[i].id : i \in DOMAIN block.vtx}
        \cup UNION {{in.prevout[1] : in \in ToSet(block.vtx[i].vin)} : i \in DOMAIN block.vtx \ {1}}

GetLegacySigOpCount(block) == FoldLeft(LAMBDA n, tx : n + tx.sigops, 0, block.vtx)

Txids(block) == [i \in DOMAIN block.vtx |-> TxHash(block.vtx[i].id)]

CheckBlock(block, adjustedTime) ==
    /\ block.vtx # <<>> /\ Len(block.vtx) <= MaxBlockSize /\ block.size <= MaxBlockSize
    /\ block.nTime >= LocksFrom /\ block.nTime < LocksUntil
           => Cardinality(TxidsNamed(block)) <= MaxTxids
    /\ block.nTime <= adjustedTime + MaxDrift
    /\ IsCoinBase(block.vtx[1])
    /\ \A i \in DOMAIN block.vtx \ {1} : ~IsCoinBase(block.vtx[i])
    /\ \A i \in DOMAIN block.vtx : CheckTransaction(block.vtx[i])
    /\ Cardinality(ToSet(Txids(block))) = Len(block.vtx)
    /\ GetLegacySigOpCount(block) <= MaxBlockSigOps
    /\ block.root = MerkleRoot(Txids(block))

\* The versions of the blocks before, newest last.
RECURSIVE CountVersions(_, _, _, _, _)
CountVersions(versions, minVersion, found, checked, at) ==
    IF checked = SuperWindow \/ found = SuperRequired \/ at = 0 THEN found
    ELSE CountVersions(versions, minVersion,
                       IF versions[at] >= minVersion THEN found + 1 ELSE found, checked + 1, at - 1)

IsSuperMajority(minVersion, versions) ==
    CountVersions(versions, minVersion, 0, 0, Len(versions)) >= SuperRequired

\* CBigNum::getvch of a number that is not negative: least byte first, and a zero
\* byte where the highest bit would be read as a sign.
RECURSIVE ScriptNum(_)
ScriptNum(n) == IF n = 0 THEN <<>>
            ELSE IF n < 256 THEN (IF n >= 128 THEN <<n, 0>> ELSE <<n>>)
            ELSE <<n % 256>> \o ScriptNum(n \div 256)

push_int64(n) == IF n \in 1 .. 16 THEN <<80 + n>> ELSE <<Len(ScriptNum(n))>> \o ScriptNum(n)

\* AcceptBlock up to the write of the block, on a chain of these versions.
AcceptRules(block, versions, median) ==
    LET nHeight == Len(versions) IN
    /\ block.nTime > median
    /\ \A i \in DOMAIN block.vtx : IsFinal(block.vtx[i], nHeight, block.nTime)
    /\ block.nVersion >= 2
    /\ IsSuperMajority(2, versions) => IsPrefix(push_int64(nHeight), block.coinbase)

-----------------------------------------------------------------------------

RECURSIVE ExactSum(_)
ExactSum(vout) == IF vout = <<>> THEN 0 ELSE Head(vout).nValue + ExactSum(Tail(vout))

\* The checks on amounts are exact although they are made in words that overflow: a
\* transaction passes exactly if every output is in range and so is their true sum; no
\* output that passes as standard costs more than a third of itself to spend; and of
\* two transactions with the same inputs never does each replace the other.
TransactionRulesExact(tx, other) ==
    /\ SumOutputs(tx) # -1 <=>
           /\ \A i \in DOMAIN tx.vout : tx.vout[i].nValue >= MinTxOut
           /\ ExactSum(tx.vout) <= MaxMoney
    /\ IsStandardTx(tx, 1, 1) =>
           \A i \in DOMAIN tx.vout :
               tx.vout[i].nValue * 1000 >= 3 * (tx.vout[i].size + 148) * MinRelayTxFee
    /\ ~(IsNewerThan(tx, other) /\ IsNewerThan(other, tx))

\* A block is named by its header alone, so the merkle root must decide its
\* transactions: two blocks that CheckBlock passes and that have one root hold the
\* same transactions, though the last node of an odd level is paired with itself.
RootDecides(a, b, now) ==
    CheckBlock(a, now) /\ CheckBlock(b, now) /\ a.root = b.root => Txids(a) = Txids(b)

\* What version-2 blocks are for: once the majority is reached the coinbases of two
\* blocks at different heights differ, so no transaction of a later block has the id
\* of an earlier coinbase, and the majority is counted over exactly the window.
CoinbasesDiffer(a, b, versionsA, versionsB) ==
    /\ \A v \in {versionsA, versionsB} :
           IsSuperMajority(2, v) <=>
               Cardinality({i \in DOMAIN v : i > Len(v) - SuperWindow /\ v[i] >= 2}) >= SuperRequired
    /\ /\ Len(versionsA) # Len(versionsB)
       /\ IsSuperMajority(2, versionsA) /\ IsSuperMajority(2, versionsB)
       /\ AcceptRules(a, versionsA, 0) /\ AcceptRules(b, versionsB, 0)
       => a.coinbase # b.coinbase

-----------------------------------------------------------------------------
(* How a node tells another where its chain is (main.h: CBlockLocator) and *)
(* is answered with headers (main.cpp: getheaders).  A chain is a sequence *)
(* of blocks from the genesis block on; known is the other node's          *)
(* mapBlockIndex and main its main chain.                                  *)

CONSTANTS DenseSteps,         \* 10
          HeadersLimit        \* 2000

\* Set: back from height at, by exponentially larger steps, and the genesis block.
RECURSIVE SetFrom(_, _, _, _)
SetFrom(chain, at, nStep, vHave) ==
    IF at < 1 THEN Append(vHave, chain[1])
    ELSE LET have == Append(vHave, chain[at])
         IN  SetFrom(chain, at - nStep, IF Len(have) > DenseSteps THEN 2 * nStep ELSE nStep, have)

LocatorOf(chain) == SetFrom(chain, Len(chain), 1, <<>>)

InMain(b, known, main) == b \in known /\ b \in ToSet(main)

\* The first block of the locator that is in the main chain, or the genesis block.
GetBlockIndex(vHave, known, main) ==
    LET found == SelectSeq(vHave, LAMBDA b : InMain(b, known, main))
    IN  IF found = <<>> THEN main[1] ELSE Head(found)

RECURSIVE DistanceFrom(_, _, _, _, _)
DistanceFrom(vHave, nDistance, nStep, known, main) ==
    IF vHave = <<>> \/ InMain(Head(vHave), known, main) THEN nDistance
    ELSE DistanceFrom(Tail(vHave), nDistance + nStep,
                      IF nDistance + nStep > DenseSteps THEN 2 * nStep ELSE nStep, known, main)

GetDistanceBack(vHave, known, main) == DistanceFrom(vHave, 0, 1, known, main)

HeightOf(b, main) == CHOOSE i \in DOMAIN main : main[i] = b

\* getheaders: a null locator asks for the one block hashStop, and what follows it if
\* it is in the main chain; pnext is NULL off the main chain.
GetHeaders(vHave, hashStop, known, main) ==
    IF vHave = <<>> /\ hashStop \notin known THEN <<>>
    ELSE LET off == vHave = <<>> /\ hashStop \notin ToSet(main)
             begin == IF vHave = <<>> THEN HeightOf(hashStop, main)
                      ELSE HeightOf(GetBlockIndex(vHave, known, main), main) + 1
             rest == SubSeq(main, begin, Len(main))
             stops == {i \in DOMAIN rest : i = HeadersLimit \/ rest[i] = hashStop}
         IN  IF off THEN <<hashStop>>
             ELSE IF stops = {} THEN rest
             ELSE SubSeq(rest, 1, CHOOSE i \in stops : \A j \in stops : i <= j)

-----------------------------------------------------------------------------

\* A node that knows its own chain only through the other's main chain, of which it
\* shares the first blocks, is understood: the block found is one that both have, at
\* most as far before the fork as the fork is behind the tip ("The further back it is,
\* the further before the fork it may be"), and exactly the fork while that is within
\* DenseSteps; GetDistanceBack is how far behind the tip that block is; and the
\* headers sent continue the common part without a gap.
LocatorFindsFork(mine, known, main, hashStop) ==
    LET vHave == LocatorOf(mine)
        found == GetBlockIndex(vHave, known, main)
        common == CHOOSE n \in 1 .. Len(mine) :
                      /\ n <= Len(main) /\ mine[n] = main[n]
                      /\ n < Len(mine) /\ n < Len(main) => mine[n + 1] # main[n + 1]
        at == HeightOf(found, main)
        behind == Len(mine) - common
        headers == GetHeaders(vHave, hashStop, known, main)
    IN  /\ at <= common /\ mine[at] = found
        /\ at > 1 => common - at <= behind
        /\ behind <= DenseSteps => at = common
        /\ at > 1 => GetDistanceBack(vHave, known, main) = Len(mine) - at
        /\ GetDistanceBack(vHave, known, main) >= Len(mine) - at
        /\ IsPrefix(headers, SubSeq(main, at + 1, Len(main)))
        /\ headers = <<>> => at = Len(main)
=============================================================================
