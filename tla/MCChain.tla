------------------------------ MODULE MCChain ------------------------------
(***************************************************************************)
(* Small block trees for TLC.  A tree is given by the parent of each       *)
(* block; path, height and chain work are computed from it.                *)
(***************************************************************************)
EXTENDS Chain, TLC
CONSTANTS g, a1, a2, a3, b1, b2, b3, u1

RECURSIVE PathOf(_, _)
PathOf(par, b) == {b} \cup IF par[b] = Null THEN {} ELSE PathOf(par, par[b])

Links == g :> Null @@ a1 :> g @@ a2 :> a1 @@ a3 :> a2
         @@ b1 :> g @@ b2 :> b1 @@ b3 :> b2 @@ u1 :> a1
Rank == g :> 1 @@ a1 :> 5 @@ a2 :> 2 @@ a3 :> 7 @@ b1 :> 3 @@ b2 :> 8 @@ b3 :> 4 @@ u1 :> 6

ParentTable == [b \in Blocks |-> Links[b]]
AncTable == [b \in Blocks |-> PathOf(Links, b)]
HeightTable == [b \in Blocks |-> Cardinality(PathOf(Links, b)) - 1]
RankTable == [b \in Blocks |-> Rank[b]]

(* b1 is worth three, a3 two and every other block one: the branches       *)
(* overtake each other by one and by several blocks.                       *)
WorkTable == [b \in Blocks |->
                Cardinality(AncTable[b]) + Cardinality(AncTable[b] \cap {a3})
                                         + 2 * Cardinality(AncTable[b] \cap {b1})]

\* The tables, by names of their own, so that TLC evaluates each only once.
MCParent == ParentTable
MCAnc == AncTable
MCHeight == HeightTable
MCRank == RankTable
MCWork == WorkTable

(* A full disk in the middle of SetBestChain, which leaves pcoinsTip ahead *)
(* of pindexBest, does no lasting harm: no valid block is marked failed,   *)
(* the undo data that DisconnectBlock needs is there, and the best work    *)
(* only grows.                                                             *)
DiskFullHarmless == [](FailedMarksSound /\ NoDeadEnd) /\ BestWorkGrows

(* ProcessBlock, ConnectBestBlock and the start of the node come to an end *)
(* (NodeComesToRest), and then no orphan is left that could be connected.  *)
ProcessingEnds == [](pc = "idle" => StrandedOrphans = {}) /\ NodeComesToRest
=============================================================================
