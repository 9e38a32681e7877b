-------------------------------- MODULE Merkle --------------------------------
(***************************************************************************)
(* The merkle tree of a block, its branches and its partial trees (main.h: *)
(* CBlock::BuildMerkleTree, GetMerkleBranch, CheckMerkleBranch; main.h,    *)
(* main.cpp: CPartialMerkleTree).                                          *)
(*                                                                         *)
(* SHA-256 is taken to be injective: the hash of a pair is the pair.  A    *)
(* transaction's hash is <<"tx", id>>.  Sequences are indexed from 0, as   *)
(* the vectors of the code, by At.                                         *)
(***************************************************************************)
EXTENDS Integers, Sequences, FiniteSets, SequencesExt

CONSTANT MaxTransactions      \* MAX_BLOCK_SIZE / 60

ZeroHash == <<"zero">>

TxHash(id) == <<"tx", id>>

Hash2(left, right) == <<"node", left, right>>

At(seq, i) == seq[i + 1]

Least(a, b) == IF a < b THEN a ELSE b

-----------------------------------------------------------------------------
(* The tree, all of its levels one after another.                          *)

RECURSIVE Levels(_, _, _)
Levels(tree, j, nSize) ==
    IF nSize <= 1 THEN tree
    ELSE LET pairs == [k \in 1 .. (nSize + 1) \div 2 |->
                          LET i == 2 * (k - 1) IN
                          Hash2(At(tree, j + i), At(tree, j + Least(i + 1, nSize - 1)))]
         IN  Levels(tree \o pairs, j + nSize, (nSize + 1) \div 2)

BuildMerkleTree(txids) == Levels(txids, 0, Len(txids))

MerkleRoot(txids) == IF txids = <<>> THEN ZeroHash ELSE Last(BuildMerkleTree(txids))

\* nIndex ^ 1 is the other node of the pair; the last node of an odd level is its own.
RECURSIVE BranchFrom(_, _, _, _)
BranchFrom(tree, j, nSize, nIndex) ==
    IF nSize <= 1 THEN <<>>
    ELSE LET other == IF nIndex % 2 = 0 THEN nIndex + 1 ELSE nIndex - 1
         IN  <<At(tree, j + Least(other, nSize - 1))>>
                 \o BranchFrom(tree, j + nSize, (nSize + 1) \div 2, nIndex \div 2)

GetMerkleBranch(txids, nIndex) == BranchFrom(BuildMerkleTree(txids), 0, Len(txids), nIndex)

RECURSIVE CheckMerkleBranch(_, _, _)
CheckMerkleBranch(hash, branch, nIndex) ==
    IF nIndex = -1 THEN ZeroHash
    ELSE IF branch = <<>> THEN hash
    ELSE CheckMerkleBranch(IF nIndex % 2 = 1 THEN Hash2(Head(branch), hash) ELSE Hash2(hash, Head(branch)),
                           Tail(branch), nIndex \div 2)

-----------------------------------------------------------------------------
(* Partial trees: [n, vBits, vHash].                                       *)

CalcTreeWidth(n, height) == (n + 2 ^ height - 1) \div 2 ^ height

RECURSIVE HeightFrom(_, _)
HeightFrom(n, height) == IF CalcTreeWidth(n, height) > 1 THEN HeightFrom(n, height + 1) ELSE height

TreeHeight(n) == HeightFrom(n, 0)

RECURSIVE CalcHash(_, _, _)
CalcHash(height, pos, vTxid) ==
    IF height = 0 THEN At(vTxid, pos)
    ELSE LET left == CalcHash(height - 1, pos * 2, vTxid)
             right == IF pos * 2 + 1 < CalcTreeWidth(Len(vTxid), height - 1)
                      THEN CalcHash(height - 1, pos * 2 + 1, vTxid) ELSE left
         IN  Hash2(left, right)

\* The bits and the hashes a node contributes, depth first.
RECURSIVE TraverseAndBuild(_, _, _, _)
TraverseAndBuild(height, pos, vTxid, vMatch) ==
    LET n == Len(vTxid)
        below == {p \in 0 .. n - 1 : p >= pos * 2 ^ height /\ p < (pos + 1) * 2 ^ height}
        fParentOfMatch == \E p \in below : At(vMatch, p)
    IN  IF height = 0 \/ ~fParentOfMatch
        THEN [vBits |-> <<fParentOfMatch>>, vHash |-> <<CalcHash(height, pos, vTxid)>>]
        ELSE LET left == TraverseAndBuild(height - 1, pos * 2, vTxid, vMatch)
                 right == IF pos * 2 + 1 < CalcTreeWidth(n, height - 1)
                          THEN TraverseAndBuild(height - 1, pos * 2 + 1, vTxid, vMatch)
                          ELSE [vBits |-> <<>>, vHash |-> <<>>]
             IN  [vBits |-> <<TRUE>> \o left.vBits \o right.vBits, vHash |-> left.vHash \o right.vHash]

PartialMerkleTree(vTxid, vMatch) ==
    LET t == TraverseAndBuild(TreeHeight(Len(vTxid)), 0, vTxid, vMatch)
    IN  [n |-> Len(vTxid), vBits |-> t.vBits, vHash |-> t.vHash]

\* Serialised and read back: the bits are packed into bytes, and padded.
Transmitted(t) ==
    [t EXCEPT !.vBits = [p \in 1 .. 8 * ((Len(t.vBits) + 7) \div 8) |->
                            p <= Len(t.vBits) /\ t.vBits[p]]]

\* The state of a traversal: how much is used, what is matched, and the node's hash.
RECURSIVE TraverseAndExtract(_, _, _, _)
TraverseAndExtract(t, height, pos, s) ==
    IF s.bits >= Len(t.vBits) THEN [s EXCEPT !.fBad = TRUE, !.hash = ZeroHash]
    ELSE
    LET fParentOfMatch == At(t.vBits, s.bits)
        u == [s EXCEPT !.bits = @ + 1]
    IN  IF height = 0 \/ ~fParentOfMatch
        THEN IF u.hashes >= Len(t.vHash) THEN [u EXCEPT !.fBad = TRUE, !.hash = ZeroHash]
             ELSE LET hash == At(t.vHash, u.hashes)
                  IN  [u EXCEPT !.hashes = @ + 1, !.hash = hash,
                                !.match = IF height = 0 /\ fParentOfMatch THEN Append(@, hash) ELSE @]
        ELSE LET left == TraverseAndExtract(t, height - 1, pos * 2, u)
                 right == IF pos * 2 + 1 < CalcTreeWidth(t.n, height - 1)
                          THEN TraverseAndExtract(t, height - 1, pos * 2 + 1, left) ELSE left
             IN  [right EXCEPT !.hash = Hash2(left.hash, right.hash)]

\* The root and the matches, or ZeroHash.
ExtractMatches(t) ==
    LET none == [root |-> ZeroHash, match |-> <<>>] IN
    IF \/ t.n = 0 \/ t.n > MaxTransactions
       \/ Len(t.vHash) > t.n \/ Len(t.vBits) < Len(t.vHash) THEN none
    ELSE LET s == TraverseAndExtract(t, TreeHeight(t.n), 0,
                       [bits |-> 0, hashes |-> 0, match |-> <<>>, hash |-> ZeroHash, fBad |-> FALSE])
         IN  IF \/ s.fBad \/ (s.bits + 7) \div 8 # (Len(t.vBits) + 7) \div 8
                \/ s.hashes # Len(t.vHash) THEN none
             ELSE [root |-> s.hash, match |-> s.match]

-----------------------------------------------------------------------------

\* What the wallet and the filtered peers are given of a block leads back to the
\* block: every merkle branch hashes to the root, a partial tree sent over the wire
\* gives the root and the matched transactions, in order, and is as small as
\* main.h promises ("N <= 1 + matched_transactions*tree_height" hashes, in a
\* "SIZE <= 10 + ceil(32.25*N)").
PartialTreeExact(txids, vMatch) ==
    LET root == MerkleRoot(txids)
        n == Len(txids)
        t == PartialMerkleTree(txids, vMatch)
        picked == {i \in 1 .. n : vMatch[i]}
        x == ExtractMatches(Transmitted(t))
    IN  /\ \A i \in 0 .. n - 1 :
              CheckMerkleBranch(At(txids, i), GetMerkleBranch(txids, i), i) = root
        /\ x.root = root
        /\ x.match = [k \in 1 .. Cardinality(picked) |-> txids[SetToSortSeq(picked, <)[k]]]
        /\ Len(t.vHash) <= n
        /\ Len(t.vHash) <= 1 + Cardinality(picked) * TreeHeight(n)
        /\ 6 + 32 * Len(t.vHash) + (Len(t.vBits) + 7) \div 8 <= 10 + (129 * Len(t.vHash) + 3) \div 4

=============================================================================
