---------------------------- MODULE ChainProofs -----------------------------
(***************************************************************************)
(* Proofs about Chain, for any block tree: for any disk and power failure  *)
(* types, and that a block is marked failed only if its chain is invalid;  *)
(* on a disk that does not fill up, and when the power fails only while    *)
(* the node runs, that the best chain is the heaviest valid one, that      *)
(* pnext and the coins follow it and that it can always be recovered.      *)
(***************************************************************************)
EXTENDS Chain, TLAPS

Statuses == [Blocks -> SUBSET Flags]
Tips == Blocks \cup {Null}

(* Ancestors: a block is its own ancestor, and a child's chain extends its *)
(* parent's.                                                               *)
LEMMA AncSelf ==
    /\ \A b \in Blocks : b \in Anc[b] /\ Anc[b] \subseteq Blocks
    /\ \A b \in Blocks \ {Genesis} :
          Parent[b] \in Blocks /\ Parent[b] \in Anc[b] /\ Anc[b] = Anc[Parent[b]] \cup {b}
<1>1. ASSUME NEW b \in Blocks PROVE b \in Anc[b] /\ Anc[b] \subseteq Blocks
      BY TreeAssumption
<1>2. ASSUME NEW b \in Blocks \ {Genesis}
      PROVE  Parent[b] \in Blocks /\ Parent[b] \in Anc[b] /\ Anc[b] = Anc[Parent[b]] \cup {b}
      <2>1. Parent[b] \in Blocks  BY TreeAssumption
      <2>2. Anc[b] = Anc[Parent[b]] \cup {b}  BY TreeAssumption
      <2>. QED  BY <2>1, <2>2, <1>1
<1>. QED  BY <1>1, <1>2

(* Chain(tip) is a set of blocks closed under ancestors, with at most one  *)
(* block of each height.                                                   *)
LEMMA ChainClosed ==
    ASSUME NEW tip \in Tips
    PROVE  /\ Chain(tip) \subseteq Blocks
           /\ \A b \in Chain(tip) : Anc[b] \subseteq Chain(tip)
           /\ \A a, b \in Chain(tip) : Height[a] = Height[b] => a = b
           /\ \A a, b \in Chain(tip) : Height[a] <= Height[b] => a \in Anc[b]
           /\ \A b \in Chain(tip) : b # Genesis => Parent[b] \in Chain(tip)
<1>1. CASE tip = Null  BY <1>1 DEF Chain
<1>2. CASE tip # Null
      <2>1. tip \in Blocks /\ Chain(tip) = Anc[tip]  BY <1>2 DEF Chain, Tips
      <2>2. Chain(tip) \subseteq Blocks  BY <2>1, AncSelf
      <2>3. \A b \in Chain(tip) : Anc[b] \subseteq Chain(tip)  BY <2>1, TreeAssumption
      <2>4. \A a, b \in Chain(tip) : Height[a] = Height[b] => a = b  BY <2>1, TreeAssumption
      <2>5. \A a, b \in Chain(tip) : Height[a] <= Height[b] => a \in Anc[b]
            BY <2>1, TreeAssumption
      <2>6. \A b \in Chain(tip) : b # Genesis => Parent[b] \in Chain(tip)
            BY <2>2, <2>3, AncSelf
      <2>. QED  BY <2>2, <2>3, <2>4, <2>5, <2>6
<1>. QED  BY <1>1, <1>2

(* A chain through an invalid block is invalid. *)
LEMMA InvalidAbove ==
    ASSUME NEW b \in Blocks, NEW a \in Anc[b], ~ValidChain(a)
    PROVE  ~ValidChain(b)
BY TreeAssumption DEF ValidChain

(* No block is marked failed in the chain of a valid tip. *)
LEMMA NoMarkInChain ==
    ASSUME NEW st, StatusSound(st), NEW tip \in Tips, Chain(tip) \cap Bad = {},
           NEW b \in Chain(tip)
    PROVE  ~FailedIn(st, b)
<1>1. b \in Blocks /\ Anc[b] \subseteq Chain(tip)  BY ChainClosed
<1>. QED  BY <1>1 DEF StatusSound, ValidChain

(* What Marked does to a status and to its failure marks. *)
LEMMA MarkedFacts ==
    ASSUME NEW st \in Statuses, NEW S, NEW f \in Flags
    PROVE  /\ Marked(st, S, f) \in Statuses
           /\ \A b \in Blocks : st[b] \subseteq Marked(st, S, f)[b]
           /\ \A b \in Blocks : b \in S => f \in Marked(st, S, f)[b]
           /\ \A b \in Blocks : b \notin S => Marked(st, S, f)[b] = st[b]
           /\ \A b \in Blocks : b \in S => Marked(st, S, f)[b] = st[b] \cup {f}
BY DEF Marked, Statuses

LEMMA MarkedUndo ==
    ASSUME NEW st \in Statuses, NEW S, NEW b \in Blocks
    PROVE  FailedIn(Marked(st, S, "undo"), b) <=> FailedIn(st, b)
<1>1. "undo" \in Flags  BY DEF Flags
<1>. QED  BY <1>1, MarkedFacts DEF FailedIn

LEMMA MarkedFailed ==
    ASSUME NEW st \in Statuses, NEW S, NEW f \in {"failed", "child"}, NEW b \in Blocks
    PROVE  FailedIn(Marked(st, S, f), b) <=> FailedIn(st, b) \/ b \in S
<1>1. f \in Flags  BY DEF Flags
<1>. QED  BY <1>1, MarkedFacts DEF FailedIn

(* Marking undo data keeps failure marks sound; so does marking blocks     *)
(* whose chain is invalid.                                                 *)
LEMMA SoundUndo ==
    ASSUME NEW st \in Statuses, NEW S, StatusSound(st)
    PROVE  StatusSound(Marked(st, S, "undo"))
BY MarkedUndo DEF StatusSound

LEMMA SoundFailed ==
    ASSUME NEW st \in Statuses, NEW S, NEW f \in {"failed", "child"}, StatusSound(st),
           \A b \in Blocks : b \in S => ~ValidChain(b)
    PROVE  StatusSound(Marked(st, S, f))
BY MarkedFailed DEF StatusSound

(* A status with more flags still holds what is needed of a chain. *)
LEMMA HeldGrows ==
    ASSUME NEW st \in Statuses, NEW st2 \in Statuses, NEW tip \in Tips,
           \A b \in Blocks : st[b] \subseteq st2[b], Held(st, tip)
    PROVE  Held(st2, tip)
<1>1. Chain(tip) \subseteq Blocks  BY ChainClosed
<1>. QED  BY <1>1, TreeAssumption DEF Held

(* The blocks of a path above a failed block have an invalid chain. *)
LEMMA FailedPathInvalid ==
    ASSUME NEW x \in Blocks, NEW a \in Anc[x], ~ValidChain(a), NEW b \in FailedPath(x, a)
    PROVE  b \in Blocks /\ ~ValidChain(b)
<1>1. a \in Blocks /\ b \in Blocks /\ b \in Anc[x] /\ b \notin Anc[a]
      BY AncSelf DEF FailedPath
<1>2. Height[a] \in Nat /\ Height[b] \in Nat  BY <1>1, TreeAssumption
<1>3. ~(Height[b] <= Height[a])  BY <1>1, TreeAssumption
<1>4. Height[a] <= Height[b]  BY <1>2, <1>3
<1>5. a \in Anc[b]  BY <1>1, <1>4, TreeAssumption
<1>. QED  BY <1>1, <1>5, InvalidAbove

(* The statuses that ConnectBlock and InvalidBlockFound write, in memory   *)
(* and on disk.                                                            *)
LEMMA NewStatuses ==
    ASSUME nStatus \in Statuses, StatusSound(nStatus), NEW S
    PROVE  /\ Marked(nStatus, S, "undo") \in Statuses
           /\ StatusSound(Marked(nStatus, S, "undo"))
<1>1. "undo" \in Flags  BY DEF Flags
<1>. QED  BY <1>1, MarkedFacts, SoundUndo

-----------------------------------------------------------------------------
(* BaseInv is inductive. *)
LEMMA InitBase == Init => BaseInv
<1> SUFFICES ASSUME Init PROVE BaseInv  OBVIOUS
<1> USE DEF Init
<1>1. nStatus \in Statuses /\ [b \in Blocks |-> {}] \in Statuses  BY DEF Statuses, Flags
<1>2. TypeOK  BY <1>1, TreeAssumption, ValidityAssumption DEF TypeOK, Statuses, NoNext, Points
<1>3. StatusSound(nStatus) /\ StatusSound([b \in Blocks |-> {}])
      BY DEF StatusSound, FailedIn
<1>4. MarksInv  BY <1>3 DEF MarksInv
<1>. QED  BY <1>2, <1>4 DEF BaseInv, QueueNotEmpty

LEMMA AddToBlockIndexBase ==
    ASSUME BaseInv, NEW b \in Blocks, AddToBlockIndex(b), orphans' \subseteq Blocks,
           vWorkQueue' = vWorkQueue
    PROVE  BaseInv'
<1> USE DEF AddToBlockIndex
<1>1. nStatus' \in Statuses  BY DEF BaseInv, TypeOK, Statuses, Flags
<1>2. TypeOK'
      <2>1. diskStatus' \subseteq Statuses  BY <1>1 DEF BaseInv, TypeOK, Statuses
      <2>. QED  BY <1>1, <2>1, Zenon DEF BaseInv, TypeOK, Statuses, Points, bestVars
<1>3. StatusSound(nStatus')
      BY DEF BaseInv, TypeOK, MarksInv, StatusSound, FailedIn
<1>4. MarksInv'  BY <1>3, Zenon DEF BaseInv, MarksInv
<1>. QED  BY <1>2, <1>4 DEF BaseInv, QueueNotEmpty

LEMMA BaseStep == BaseInv /\ [Next]_vars => BaseInv'
<1> SUFFICES ASSUME BaseInv, [Next]_vars PROVE BaseInv'  OBVIOUS
<1> USE DEF BaseInv, treeVars, bestVars, diskVars, procVars
<1>1. ASSUME NEW b \in Blocks, NEW fPeer \in BOOLEAN, ProcessBlock(b, fPeer) PROVE BaseInv'
      <2>1. CASE Parent[b] \notin Index
            BY <1>1, <2>1 DEF ProcessBlock, TypeOK, MarksInv, QueueNotEmpty
      <2>2. CASE Parent[b] \in Index
            <3>1. AddToBlockIndex(b) /\ UNCHANGED <<orphans, vWorkQueue>>
                  BY <1>1, <2>2 DEF ProcessBlock
            <3>. QED  BY <3>1, AddToBlockIndexBase DEF TypeOK
      <2>. QED  BY <2>1, <2>2
<1>2. ASSUME NEW o \in Blocks, ProcessOrphan(o) PROVE BaseInv'
      <2>1. CASE o \in Unacceptable \/ o \in Index
            BY <1>2, <2>1 DEF ProcessOrphan, TypeOK, MarksInv, QueueNotEmpty
      <2>2. CASE ~(o \in Unacceptable \/ o \in Index)
            <3>1. AddToBlockIndex(o) /\ UNCHANGED <<orphans, vWorkQueue>>
                  BY <1>2, <2>2 DEF ProcessOrphan
            <3>. QED  BY <3>1, AddToBlockIndexBase DEF TypeOK
      <2>. QED  BY <2>1, <2>2
<1>3. CASE NextInWorkQueue
      <2>1. vWorkQueue' \in Seq(Blocks)  BY <1>3 DEF NextInWorkQueue, TypeOK, QueueNotEmpty
      <2>. QED  BY <1>3, <2>1 DEF NextInWorkQueue, TypeOK, QueueNotEmpty, MarksInv, Points
<1>4. CASE Accepted
      <2>1. vWorkQueue' \in Seq(Blocks) /\ (cur # Null => vWorkQueue' # <<>>)
            <3>1. CASE cur = Null  BY <1>4, <3>1 DEF Accepted
            <3>2. CASE cur # Null
                  <4>1. cur \in Blocks /\ vWorkQueue \in Seq(Blocks)  BY <3>2 DEF TypeOK
                  <4>2. vWorkQueue' = Append(vWorkQueue, cur)
                        BY <1>4, <3>2 DEF Accepted, QueueCur
                  <4>. QED  BY <4>1, <4>2
            <3>. QED  BY <3>1, <3>2
      <2>. QED  BY <1>4, <2>1 DEF Accepted, TypeOK, QueueNotEmpty, MarksInv, Points
<1>5. CASE NotAccepted  BY <1>5 DEF NotAccepted, TypeOK, QueueNotEmpty, MarksInv, Points
<1>6. CASE StayWithBest  BY <1>6 DEF StayWithBest, TypeOK, QueueNotEmpty, MarksInv, Points
<1>7. CASE MarkFailedPath
      <2>0. PICK x \in setBlockIndexValid : \E a \in Anc[x] :
              /\ Failed(a)
              /\ nStatus' = Marked(nStatus, FailedPath(x, a), "child")
              /\ setBlockIndexValid' = setBlockIndexValid \ FailedPath(x, a)
              /\ diskStatus' = diskStatus \cup
                    {Marked(nStatus, FailedPath(x, a) \ Anc[c], "child") : c \in FailedPath(x, a)}
                    \cup {nStatus'}
            BY <1>7, Zenon DEF MarkFailedPath
      <2>1. PICK a \in Anc[x] :
              /\ Failed(a)
              /\ nStatus' = Marked(nStatus, FailedPath(x, a), "child")
              /\ setBlockIndexValid' = setBlockIndexValid \ FailedPath(x, a)
              /\ diskStatus' = diskStatus \cup
                    {Marked(nStatus, FailedPath(x, a) \ Anc[c], "child") : c \in FailedPath(x, a)}
                    \cup {nStatus'}
            BY <2>0, Zenon
      <2>2. x \in Blocks /\ a \in Blocks  BY AncSelf DEF TypeOK
      <2>3. ~ValidChain(a)  BY <2>1, <2>2 DEF MarksInv, StatusSound, Failed
      <2>4. \A b \in FailedPath(x, a) : ~ValidChain(b)  BY <2>2, <2>3, FailedPathInvalid
      <2>5. \A S \in SUBSET FailedPath(x, a) :
              Marked(nStatus, S, "child") \in Statuses /\ StatusSound(Marked(nStatus, S, "child"))
            <3>1. nStatus \in Statuses /\ "child" \in Flags  BY DEF TypeOK, Statuses, Flags
            <3>. QED  BY <3>1, <2>4, MarkedFacts, SoundFailed DEF MarksInv
      <2>6. nStatus' \in Statuses /\ StatusSound(nStatus')  BY <2>1, <2>5
      <2>7. diskStatus' \subseteq Statuses /\ \A st \in diskStatus' : StatusSound(st)
            <3>1. ASSUME NEW st \in diskStatus' PROVE st \in Statuses /\ StatusSound(st)
                  <4>1. CASE st \in diskStatus  BY <4>1 DEF TypeOK, MarksInv, Statuses
                  <4>2. CASE st = nStatus'  BY <4>2, <2>6
                  <4>3. ASSUME NEW c \in FailedPath(x, a),
                               st = Marked(nStatus, FailedPath(x, a) \ Anc[c], "child")
                        PROVE  st \in Statuses /\ StatusSound(st)
                        <5>1. FailedPath(x, a) \ Anc[c] \in SUBSET FailedPath(x, a)  OBVIOUS
                        <5>. QED  BY <4>3, <5>1, <2>5
                  <4>. QED  BY <2>1, <4>1, <4>2, <4>3, Zenon
            <3>. QED  BY <3>1
      <2>8. UNCHANGED <<bestVars, coinsTip, orphans, diskCoins, cur, vWorkQueue, vAttach,
                        coinsOld, nLosses>> /\ pc' = "best"
            BY <1>7 DEF MarkFailedPath, TryNext
      <2>9. setBlockIndexValid' \subseteq Blocks  BY <2>1 DEF TypeOK
      <2>10. TypeOK'
             BY <2>6, <2>7, <2>8, <2>9, Zenon DEF TypeOK, Statuses, Points, bestVars
      <2>11. MarksInv' /\ QueueNotEmpty'  BY <2>6, <2>7, <2>8, Zenon DEF MarksInv, QueueNotEmpty
      <2>. QED  BY ONLY <2>10, <2>11
<1>8. CASE AttachPath
      <2>1. vAttach' \subseteq Blocks  BY <1>8, AncSelf DEF AttachPath, TypeOK
      <2>. QED  BY <1>8, <2>1, Zenon DEF AttachPath, TypeOK, QueueNotEmpty, MarksInv, Points
<1>9. CASE AttachDone  BY <1>9 DEF AttachDone, TypeOK, QueueNotEmpty, MarksInv, Points
<1>10. ASSUME NEW t \in Blocks, ConnectBranch(t) PROVE BaseInv'
      <2>1. \A S : Marked(nStatus, S, "undo") \in Statuses /\ StatusSound(Marked(nStatus, S, "undo"))
            BY NewStatuses DEF TypeOK, MarksInv, Statuses
      <2>2. nStatus' \in Statuses /\ StatusSound(nStatus')
            BY <1>10, <2>1 DEF ConnectBranch, ConnectWrites
      <2>3. diskStatus' \subseteq Statuses /\ \A st \in diskStatus' : StatusSound(st)
            BY <1>10, <2>1, <2>2, ZenonT(40) DEF ConnectBranch, ConnectWrites, TypeOK, MarksInv, Statuses
      <2>. QED  BY <1>10, <2>2, <2>3
                DEF ConnectBranch, TypeOK, MarksInv, QueueNotEmpty, Points, Statuses
<1>11. ASSUME NEW t \in Blocks, NEW b \in Blocks, RejectBranch(t, b) PROVE BaseInv'
      <2> DEFINE good == Connected(vConnect(t) \cap (Anc[b] \ {b}))
      <2>1. \A S : Marked(nStatus, S, "undo") \in Statuses /\ StatusSound(Marked(nStatus, S, "undo"))
            BY NewStatuses DEF TypeOK, MarksInv, Statuses
      <2>2. ~ValidChain(b)
            BY <1>11, AncSelf DEF RejectBranch, Lowest, Rejected, ValidChain
      <2>3. nStatus' = Marked(Marked(nStatus, good, "undo"), {b}, "failed")
            BY <1>11 DEF RejectBranch
      <2>4. nStatus' \in Statuses /\ StatusSound(nStatus')
            <3>1. "failed" \in Flags  BY DEF Flags
            <3>. QED  BY <2>1, <2>2, <2>3, <3>1, MarkedFacts, SoundFailed, Zenon
      <2>5. diskStatus' \subseteq Statuses /\ \A st \in diskStatus' : StatusSound(st)
            <3>1. diskStatus' = diskStatus \cup {nStatus', Marked(nStatus, good, "undo")} \cup
                                {Marked(nStatus, good \cap Anc[c], "undo") : c \in good}
                  BY <1>11 DEF RejectBranch
            <3>2. \A st \in diskStatus : st \in Statuses /\ StatusSound(st)
                  BY DEF TypeOK, MarksInv, Statuses
            <3> HIDE DEF good
            <3>. QED  BY <3>1, <3>2, <2>1, <2>4, Zenon
      <2>. QED  BY <1>11, <2>4, <2>5
               , Zenon DEF RejectBranch, EraseCandidate, CoinsUntouched, TypeOK, MarksInv,
                    QueueNotEmpty, Points, Statuses
<1>12. ASSUME NEW fFlush \in BOOLEAN, SwitchBest(fFlush) PROVE BaseInv'
      <2>1. pnext' \in [Blocks -> Blocks \cup {Null}]
            <3>1. \A a \in Blocks, C \in SUBSET Blocks : NextIn(C, a) \in Blocks \cup {Null}
                  BY DEF NextIn
            <3>2. Chain(coinsTip) \ Chain(coinsOld) \in SUBSET Blocks
                  BY ChainClosed DEF TypeOK, Tips
            <3>. QED  BY <1>12, <3>1, <3>2 DEF SwitchBest, Relinked, TypeOK
      <2>2. diskStatus' \subseteq Statuses /\ \A st \in diskStatus' : StatusSound(st)
            BY <1>12 DEF SwitchBest, Synced, TypeOK, MarksInv, Statuses
      <2>. QED  BY <1>12, <2>1, <2>2
                DEF SwitchBest, TypeOK, MarksInv, QueueNotEmpty, Points, Statuses
<1>13. CASE DiskFull  BY <1>13 DEF DiskFull, TypeOK, MarksInv, QueueNotEmpty, Points
<1>14. CASE Shutdown
       BY <1>14 DEF Shutdown, Forget, NoNext, TypeOK, MarksInv, QueueNotEmpty, Points
<1>15. CASE PowerLoss
      <2>0. nLosses \in 0..MaxLosses /\ nLosses < MaxLosses /\ nLosses' = nLosses + 1
            BY <1>15, Zenon DEF PowerLoss, TypeOK
      <2>1. nLosses' \in 0..MaxLosses  BY ONLY <2>0, ValidityAssumption
      <2>. QED  BY <1>15, <2>1 DEF PowerLoss, Forget, NoNext, TypeOK, MarksInv, QueueNotEmpty, Points
<1>16. CASE Start
      <2>1. nStatus' \in Statuses  BY <1>16, Zenon DEF Start, TypeOK, Statuses, Flags
      <2>2. StatusSound(nStatus')
            BY <1>16 DEF Start, TypeOK, MarksInv, StatusSound, FailedIn
      <2>3. pnext' \in [Blocks -> Blocks \cup {Null}] /\ LoadedTip \in Blocks \cup {Null}
            <3>1. LoadedTip \in Tips  BY Zenon DEF LoadedTip, TypeOK, Tips
            <3>2. Chain(LoadedTip) \subseteq Blocks  BY <3>1, ChainClosed, Zenon
            <3>3. \A a \in Blocks : NextIn(Chain(LoadedTip), a) \in Blocks \cup {Null}
                  BY <3>2, Zenon DEF NextIn
            <3>. QED  BY <1>16, <3>1, <3>3 DEF Start, Tips
      <2>4. diskStatus' \subseteq Statuses /\ \A st \in diskStatus' : StatusSound(st)
            BY <1>16, <2>1, <2>2 DEF Start, TypeOK, MarksInv, Statuses
      <2>. QED  BY <1>16, <2>1, <2>2, <2>3, <2>4
                DEF Start, TypeOK, MarksInv, QueueNotEmpty, Points, Statuses
<1>17. CASE UNCHANGED vars
       BY <1>17 DEF vars, TypeOK, MarksInv, QueueNotEmpty, StatusSound
<1>. QED  BY <1>1, <1>2, <1>3, <1>4, <1>5, <1>6, <1>7, <1>8, <1>9, <1>10, <1>11, <1>12, <1>13,
             <1>14, <1>15, <1>16, <1>17 DEF Next, Work

(* A block is marked failed only if ConnectBlock rejects it or one of its  *)
(* ancestors, for every block tree and also when the disk fills up or the  *)
(* power fails (InvalidBlockFound and ConnectBestBlock's marking loop).    *)
THEOREM MarksAlwaysSound == Spec => []FailedMarksSound
<1>1. BaseInv => FailedMarksSound
      BY DEF BaseInv, MarksInv, StatusSound, FailedMarksSound, Failed, Index
<1>. QED  BY <1>1, InitBase, BaseStep, PTL DEF Spec

-----------------------------------------------------------------------------
(* The steps of AddToBlockIndex and ConnectBestBlock preserve ChainInv.    *)

LEMMA GenesisCandidate ==
    ASSUME BaseInv, CandidatesInv, pc # "off"
    PROVE  Genesis \in Blocks /\ ~Failed(Genesis) /\ Genesis \in setBlockIndexValid
<1>1. Genesis \in Blocks /\ ValidChain(Genesis)
      BY TreeAssumption, ValidityAssumption DEF ValidChain
<1>2. ~Failed(Genesis)  BY <1>1 DEF BaseInv, MarksInv, StatusSound, Failed
<1>. QED  BY <1>1, <1>2 DEF CandidatesInv

(* No block of the best chain is marked failed. *)
LEMMA BestNotFailed ==
    ASSUME BaseInv, CoinsInv, NEW b \in Chain(pindexBest)
    PROVE  b \in Blocks /\ ~Failed(b)
<1>1. pindexBest \in Tips  BY Zenon DEF BaseInv, TypeOK, Tips
<1>2. Chain(pindexBest) \cap Bad = {}  BY DEF CoinsInv, Held
<1>3. StatusSound(nStatus)  BY DEF BaseInv, MarksInv
<1>4. b \in Blocks  BY <1>1, ChainClosed
<1>. QED  BY <1>1, <1>2, <1>3, <1>4, NoMarkInChain DEF Failed

LEMMA BestCandidate ==
    ASSUME BaseInv, CoinsInv, CandidatesInv, pc # "off", pindexBest # Null
    PROVE  pindexBest \in setBlockIndexValid
<1>1. pindexBest \in Blocks  BY Zenon DEF BaseInv, TypeOK
<1>2. pindexBest \in Chain(pindexBest)  BY <1>1, AncSelf DEF Chain
<1>3. ~Failed(pindexBest)  BY <1>2, BestNotFailed
<1>4. pindexBest \in Index
      BY <1>1, <1>2 DEF CoinsInv, Held, Index, CandidatesInv
<1>. QED  BY <1>3, <1>4 DEF CandidatesInv

(* A heaviest candidate is not lighter than the best block; blocks heavier *)
(* than it have failed.                                                    *)
LEMMA TopFacts ==
    ASSUME BaseInv, CandidatesInv, pc # "off", NEW x \in setBlockIndexValid, Top(x)
    PROVE  /\ x \in Index /\ x \in Blocks
           /\ \A b \in setBlockIndexValid : ChainWork[b] <= ChainWork[x]
           /\ \A b \in Index : ChainWork[b] > ChainWork[x] => HasFailed(b)
<1>1. setBlockIndexValid \subseteq Blocks /\ ChainWork \in [Blocks -> Nat]
      BY WorkAssumption DEF BaseInv, TypeOK
<1>2. \A b \in setBlockIndexValid : ChainWork[b] <= ChainWork[x]
      BY <1>1 DEF Top
<1>3. ASSUME NEW b \in Index, ChainWork[b] > ChainWork[x] PROVE HasFailed(b)
      <2>1. b \in Blocks  BY DEF Index
      <2>2. b \notin setBlockIndexValid  BY <1>1, <1>2, <1>3, <2>1
      <2>3. Failed(b)  BY <2>2 DEF CandidatesInv
      <2>. QED  BY <2>1, <2>3, AncSelf DEF HasFailed
<1>. QED  BY <1>1, <1>2, <1>3, Zenon DEF CandidatesInv

(* The claims of HeaviestInv depend on the statuses and on the best block. *)
LEMMA HeavierGrows ==
    ASSUME nStatus \in Statuses, nStatus' \in Statuses,
           \A b \in Blocks : nStatus[b] \subseteq nStatus'[b],
           NEW b \in Blocks
    PROVE  (Failed(b) => Failed(b)') /\ (HasFailed(b) => HasFailed(b)')
<1>1. \A c \in Blocks : Failed(c) => Failed(c)'  BY DEF Failed, FailedIn, Statuses
<1>2. Anc[b] \subseteq Blocks  BY AncSelf
<1>. QED  BY <1>1, <1>2 DEF HasFailed

(* A step that adds flags, and writes only statuses with more flags, keeps *)
(* what is held of the coins' and the best chain.                          *)
LEMMA StatusStep ==
    ASSUME BaseInv, BaseInv', CoinsInv, DiskInv, pc # "off",
           \A b \in Blocks : nStatus[b] \subseteq nStatus'[b],
           \A st \in diskStatus' :
              st \in diskStatus \/ \A b \in Blocks : nStatus[b] \subseteq st[b],
           nStatus' \in diskStatus', diskCoins' = diskCoins
    PROVE  /\ Held(nStatus', coinsTip) /\ Held(nStatus', pindexBest)
           /\ DiskInv'
<1>1. /\ nStatus \in Statuses /\ nStatus' \in Statuses /\ diskStatus' \subseteq Statuses
      /\ coinsTip \in Tips /\ pindexBest \in Tips /\ diskCoins \subseteq Tips
      BY Zenon DEF BaseInv, TypeOK, Statuses, Tips
<1>2. Held(nStatus', coinsTip) /\ Held(nStatus', pindexBest)
      BY <1>1, HeldGrows DEF CoinsInv
<1>3. ASSUME NEW st \in diskStatus', NEW tip \in diskCoins' PROVE Held(st, tip)
      <2>1. CASE st \in diskStatus  BY <2>1 DEF DiskInv
      <2>2. CASE \A b \in Blocks : nStatus[b] \subseteq st[b]
            <3>1. Held(nStatus, tip)  BY DEF DiskInv
            <3>. QED  BY <3>1, <2>2, <1>1, HeldGrows
      <2>. QED  BY <2>1, <2>2
<1>. QED  BY <1>2, <1>3, Zenon DEF DiskInv

(* The rest of the invariant. *)
RestInv ==
    IndexInv /\ CoinsInv /\ DiskInv /\ CandidatesInv /\ AttachInv /\ HeaviestInv /\ NextPointersExact

(* A step of ProcessBlock that leaves the index, the best chain, the coins *)
(* and the databases alone.                                                *)
LEMMA FrameStep ==
    ASSUME RestInv, UNCHANGED <<treeVars, bestVars, coinsTip, diskVars>>,
           pc \notin {"off", "flush"}, pc' \notin {"off", "flush"},
           cur' \in {cur, Null}, \A i \in DOMAIN vWorkQueue' : vWorkQueue'[i] \in Index,
           AttachInv', HeaviestInv'
    PROVE  RestInv'
<1> USE DEF RestInv, treeVars, bestVars, diskVars
<1>1. IndexInv'  BY Zenon DEF IndexInv, StatusClosed, Index
<1>2. CoinsInv'  BY Zenon DEF CoinsInv, Held
<1>3. DiskInv'  BY DEF DiskInv, Held
<1>4. CandidatesInv'  BY DEF CandidatesInv, Index, Failed
<1>5. NextPointersExact'  BY DEF NextPointersExact
<1>. QED  BY <1>1, <1>2, <1>3, <1>4, <1>5

(* The claims of HeaviestInv depend on the statuses and on the best block. *)
LEMMA HeavierSame ==
    ASSUME UNCHANGED <<nStatus, pindexBest>>
    PROVE  /\ Index' = Index
           /\ \A b \in Blocks : MoreWorkThanBest(b)' <=> MoreWorkThanBest(b)
           /\ \A b \in Blocks : HasFailed(b)' <=> HasFailed(b)
BY Zenon DEF Index, MoreWorkThanBest, HasFailed, Failed

-----------------------------------------------------------------------------
(* The actions that leave index, best chain, coins and databases alone. *)
LEMMA StayWithBestStep == ASSUME ChainInv, StayWithBest PROVE RestInv'
<1> USE DEF ChainInv
<1>1. pc = "best" /\ pc' = "true" /\ UNCHANGED <<treeVars, bestVars, coinsTip, diskVars, cur, vWorkQueue>>
      BY DEF StayWithBest
<1>2. PICK x \in setBlockIndexValid : Top(x) /\ NothingToDo(x)
      BY <1>1, GenesisCandidate DEF StayWithBest
<1>3. HeavierFailed(Index)
      <2> SUFFICES ASSUME NEW b \in Index, MoreWorkThanBest(b) PROVE HasFailed(b)
          BY DEF HeavierFailed
      <2>1. ChainWork[b] > ChainWork[x]
            BY <1>2, Zenon DEF NothingToDo, MoreWorkThanBest
      <2>. QED  BY <1>1, <1>2, <2>1, TopFacts
<1>4. HeaviestInv'
      BY <1>1, <1>3, HeavierSame, Zenon DEF HeaviestInv, HeavierFailed, Index, treeVars, bestVars
<1>5. AttachInv'  BY <1>1, Zenon DEF AttachInv
<1>. QED  BY <1>1, <1>4, <1>5, FrameStep DEF RestInv, IndexInv

LEMMA AttachPathStep == ASSUME ChainInv, AttachPath PROVE RestInv'
<1> USE DEF ChainInv
<1>1. /\ pc = "best" /\ pc' = "set"
      /\ UNCHANGED <<treeVars, bestVars, coinsTip, diskVars, cur, vWorkQueue>>
      BY Zenon DEF AttachPath
<1>2. PICK x \in setBlockIndexValid : \E a \in Anc[x] :
          /\ Top(x) /\ ~NothingToDo(x) /\ WalkEnd(x, a) /\ ~Failed(a)
          /\ vAttach' = {b \in Anc[x] : Height[b] >= Height[a] /\ MoreWorkThanBest(b)}
      BY Zenon DEF AttachPath
<1>3. PICK a \in Anc[x] :
          /\ Top(x) /\ ~NothingToDo(x) /\ WalkEnd(x, a) /\ ~Failed(a)
          /\ vAttach' = {b \in Anc[x] : Height[b] >= Height[a] /\ MoreWorkThanBest(b)}
      BY <1>2, Zenon
<1>4. /\ x \in Index /\ x \in Blocks /\ a \in Blocks
      /\ \A b \in setBlockIndexValid : ChainWork[b] <= ChainWork[x]
      /\ \A b \in Index : ChainWork[b] > ChainWork[x] => HasFailed(b)
      BY <1>1, <1>3, TopFacts, AncSelf, Zenon
<1>5. x \in vAttach'
      <2>1. MoreWorkThanBest(x)
            <3>1. CASE pindexBest = Null  BY <3>1, Zenon DEF MoreWorkThanBest
            <3>2. CASE pindexBest # Null
                  <4>1. pindexBest \in Blocks /\ ChainWork[pindexBest] <= ChainWork[x]
                        BY <1>1, <1>4, <3>2, BestCandidate, Zenon DEF BaseInv, TypeOK
                  <4>2. ChainWork[pindexBest] # ChainWork[x]  BY <1>3, <3>2, Zenon DEF NothingToDo
                  <4>3. ChainWork[pindexBest] \in Nat /\ ChainWork[x] \in Nat  BY <1>4, <4>1, WorkAssumption, Zenon
                  <4>4. ChainWork[x] > ChainWork[pindexBest]  BY ONLY <4>1, <4>2, <4>3
                  <4>. QED  BY <4>4, Zenon DEF MoreWorkThanBest
            <3>. QED  BY <3>1, <3>2
      <2>2. x \in Anc[x] /\ Height[a] <= Height[x]  BY <1>3, <1>4, AncSelf, TreeAssumption
      <2>. QED  BY <1>3, <1>4, <2>1, <2>2, TreeAssumption
<1>6. ~HasFailed(x)
      <2> SUFFICES ASSUME NEW f \in Anc[x], Failed(f) PROVE FALSE  BY Zenon DEF HasFailed
      <2>1. f \in Blocks /\ Height[f] <= Height[a]
            BY <1>3, <1>4, AncSelf, Zenon DEF WalkEnd, WalkEnds
      <2>2. f \in Anc[a]  BY <1>3, <1>4, <2>1, TreeAssumption, Zenon
      <2>3. CASE Parent[a] = Null
            <3>0. a \in Blocks  BY <1>4, Zenon
            <3>1. a = Genesis /\ f = Genesis  BY ONLY <3>0, <2>2, <2>3, TreeAssumption
            <3>. QED  BY <1>1, <3>1, GenesisCandidate, Zenon
      <2>4. CASE pnext[a] # Null
            <3>1. pnext[a] \in Blocks  BY <1>4, <2>4 DEF BaseInv, TypeOK
            <3>2. pnext[a] \in Chain(pindexBest) /\ Parent[pnext[a]] = a
                  BY <1>4, <3>1, Zenon DEF NextPointersExact
            <3>6. a \in Blocks  BY <1>4, Zenon
            <3>3. pnext[a] # Genesis  BY ONLY <3>2, <3>6, TreeAssumption
            <3>7. pindexBest \in Tips  BY Zenon DEF BaseInv, TypeOK, Tips
            <3>4. a \in Chain(pindexBest)
                  BY ONLY <3>2, <3>3, <3>7, ChainClosed
            <3>5. f \in Chain(pindexBest)
                  BY <2>2, <3>4, ChainClosed, Zenon DEF BaseInv, TypeOK, Tips
            <3>. QED  BY <3>5, BestNotFailed, Zenon
      <2>. QED  BY <1>3, <2>3, <2>4, Zenon DEF WalkEnd, WalkEnds
<1>7. cur # Null => x = cur
      <2>1. MoreWorkThanBest(x)  BY <1>3, <1>5, Zenon
      <2>. QED  BY <1>1, <1>4, <1>6, <2>1, Zenon DEF HeaviestInv, HeavierFailed
<1>8. AttachInv'
      <2>1. \A b \in vAttach' : b \in Index' /\ MoreWorkThanBest(b)'
            <3>1. \A b \in vAttach' : b \in Blocks /\ b \in Index /\ MoreWorkThanBest(b)
                  BY <1>3, <1>4, AncSelf, Zenon DEF IndexInv, StatusClosed, Index
            <3>. QED  BY <1>1, <3>1, HeavierSame, Zenon DEF treeVars, bestVars
      <2>2. \A c, b \in vAttach' : c \in Anc[b] \/ b \in Anc[c]
            <3> SUFFICES ASSUME NEW c \in Anc[x], NEW b \in Anc[x] PROVE c \in Anc[b] \/ b \in Anc[c]
                BY <1>3, Zenon
            <3>1. Height[c] \in Nat /\ Height[b] \in Nat  BY <1>4, AncSelf, TreeAssumption, Zenon
            <3>2. Height[c] <= Height[b] \/ Height[b] <= Height[c]  BY <3>1
            <3>. QED  BY <1>4, <3>2, TreeAssumption, Zenon
      <2>3. cur' # Null => vAttach' \subseteq Anc[cur']  BY <1>1, <1>3, <1>7, Zenon
      <2>. QED  BY <1>1, <2>1, <2>2, <2>3, Zenon DEF AttachInv
<1>9. HeaviestInv'
      <2>1. cur' # Null => HeavierFailed(Index \ {cur})'
            BY <1>1, HeavierSame, Zenon DEF HeaviestInv, HeavierFailed, Index, treeVars, bestVars
      <2>2. HeavierFailed({b \in Index : \A t \in vAttach : ChainWork[b] > ChainWork[t]})'
            <3> SUFFICES ASSUME NEW b \in Blocks, b \in Index',
                                \A t \in vAttach' : ChainWork[b] > ChainWork[t]
                         PROVE  HasFailed(b)'
                BY Zenon DEF HeavierFailed, Index
            <3>1. b \in Index  BY <1>1, HeavierSame, Zenon DEF treeVars, bestVars
            <3>2. HasFailed(b)  BY <1>4, <1>5, <3>1, Zenon
            <3>. QED  BY <1>1, <3>2, HeavierSame DEF treeVars, bestVars
      <2>. QED  BY <1>1, <2>1, <2>2, Zenon DEF HeaviestInv
<1>. QED  BY <1>1, <1>8, <1>9, FrameStep, Zenon DEF RestInv, IndexInv

LEMMA AttachDoneStep == ASSUME ChainInv, AttachDone PROVE RestInv'
<1> USE DEF ChainInv
<1>1. /\ pc = "set" /\ pc' = "true" /\ vAttach = {}
      /\ UNCHANGED <<treeVars, bestVars, coinsTip, diskVars, cur, vWorkQueue>>
      BY DEF AttachDone
<1>2. HeavierFailed(Index)  BY <1>1 DEF HeaviestInv, HeavierFailed
<1>3. HeaviestInv'
      BY <1>1, <1>2, HeavierSame, Zenon DEF HeaviestInv, HeavierFailed, Index, treeVars, bestVars
<1>4. AttachInv'  BY <1>1, Zenon DEF AttachInv
<1>. QED  BY <1>1, <1>3, <1>4, FrameStep DEF RestInv, IndexInv

(* The end of AddToBlockIndex and the turns of ProcessBlock's orphan loop. *)
LEMMA RestStep ==
    ASSUME ChainInv, UNCHANGED <<treeVars, bestVars, coinsTip, diskVars>>,
           pc \in {"idle", "true", "orphans"} \/ (pc = "false" /\ cur # Null),
           pc' \in {"idle", "orphans"}, cur' \in {cur, Null},
           \A i \in DOMAIN vWorkQueue' : vWorkQueue'[i] \in Index
    PROVE  RestInv'
<1> USE DEF ChainInv
<1>1. HeaviestInv'
      BY HeavierSame, Zenon DEF HeaviestInv, HeavierFailed, Index, treeVars, bestVars
<1>2. AttachInv'  BY Zenon DEF AttachInv
<1>. QED  BY <1>1, <1>2, FrameStep DEF RestInv
-----------------------------------------------------------------------------
(* The actions that change the index. *)
LEMMA AddToBlockIndexStep ==
    ASSUME ChainInv, BaseInv', pc \in {"idle", "orphans"}, NEW b \in Blocks, b \notin Index,
           b # Genesis, Parent[b] \in Index, AddToBlockIndex(b), vWorkQueue' = vWorkQueue
    PROVE  RestInv'
<1> USE DEF ChainInv
<1>1. /\ nStatus \in Statuses /\ nStatus' \in Statuses /\ nStatus[b] = {} /\ nStatus'[b] = {"data"}
      /\ \A c \in Blocks : c # b => nStatus'[c] = nStatus[c]
      <2>1. nStatus \in Statuses /\ nStatus' \in Statuses  BY Zenon DEF BaseInv, TypeOK, Statuses
      <2>2. nStatus' = [nStatus EXCEPT ![b] = {"data"}]  BY Zenon DEF AddToBlockIndex
      <2>3. nStatus[b] = {}  BY Zenon DEF Index
      <2>. QED  BY ONLY <2>1, <2>2, <2>3, b \in Blocks DEF Statuses
<1>2. \A c \in Blocks : nStatus[c] \subseteq nStatus'[c]  BY <1>1
<1>3. pc' = "best" /\ cur' = b /\ Index' = Index \cup {b}
      BY <1>1, Zenon DEF AddToBlockIndex, Index
<1>4. IndexInv'
      <2>1. StatusClosed(nStatus')
            <3>1. Anc[b] = Anc[Parent[b]] \cup {b} /\ Parent[b] \in Blocks  BY AncSelf, Zenon
            <3>2. \A a \in Anc[Parent[b]] : nStatus[a] # {}
                  BY <3>1, Zenon DEF IndexInv, StatusClosed, Index
            <3>3. \A a \in Anc[b] : nStatus'[a] # {}  BY <1>1, <3>1, <3>2, AncSelf
            <3>. QED  BY <1>1, <3>3, AncSelf, Zenon DEF IndexInv, StatusClosed
      <2>2. \A st \in diskStatus' : StatusClosed(st)
            BY <2>1, Zenon DEF AddToBlockIndex, IndexInv
      <2>. QED  BY <1>3, <2>1, <2>2, Zenon DEF IndexInv, AddToBlockIndex
<1>5. Held(nStatus', coinsTip) /\ Held(nStatus', pindexBest) /\ DiskInv'
      BY <1>2, StatusStep, Zenon DEF AddToBlockIndex
<1>6. CoinsInv'  BY <1>5, Zenon DEF CoinsInv, Held, AddToBlockIndex, bestVars
<1>7. CandidatesInv'
      <2>1. \A c \in Blocks : c # b => (Failed(c)' <=> Failed(c))  BY <1>1, Zenon DEF Failed, FailedIn
      <2>2. ~Failed(b)'  BY <1>1, Zenon DEF Failed, FailedIn
      <2>3. setBlockIndexValid = {c \in Index : ~Failed(c)} /\ Genesis \in Index
            BY Zenon DEF CandidatesInv
      <2>4. Index \subseteq Blocks  BY Zenon DEF Index
      <2>5. setBlockIndexValid' = {c \in Index' : ~Failed(c)'}
            BY <1>3, <2>1, <2>2, <2>3, <2>4, Zenon DEF AddToBlockIndex
      <2>. QED  BY <1>3, <2>3, <2>5, Zenon DEF CandidatesInv
<1>8. AttachInv'  BY <1>3 DEF AttachInv
<1>9. HeaviestInv'
      <2>1. HeavierFailed(Index)  BY DEF HeaviestInv
      <2> SUFFICES ASSUME NEW c \in Index, MoreWorkThanBest(c)' PROVE HasFailed(c)'
          BY <1>3, Zenon DEF HeaviestInv, HeavierFailed
      <2>2. c \in Blocks /\ MoreWorkThanBest(c)
            BY Zenon DEF Index, MoreWorkThanBest, AddToBlockIndex, bestVars
      <2>. QED  BY <1>1, <1>2, <2>1, <2>2, HeavierGrows, Zenon DEF HeavierFailed
<1>10. NextPointersExact'  BY Zenon DEF NextPointersExact, AddToBlockIndex, bestVars
<1>. QED  BY <1>4, <1>5, <1>6, <1>7, <1>8, <1>9, <1>10, Zenon DEF RestInv

LEMMA MarkFailedPathStep == ASSUME ChainInv, BaseInv', MarkFailedPath PROVE RestInv'
<1> USE DEF ChainInv
<1>1. PICK x \in setBlockIndexValid : \E a \in Anc[x] :
          /\ nStatus' = Marked(nStatus, FailedPath(x, a), "child")
          /\ setBlockIndexValid' = setBlockIndexValid \ FailedPath(x, a)
          /\ diskStatus' = diskStatus \cup
                {Marked(nStatus, FailedPath(x, a) \ Anc[c], "child") : c \in FailedPath(x, a)}
                \cup {nStatus'}
      BY DEF MarkFailedPath
<1>2. PICK a \in Anc[x] :
          /\ nStatus' = Marked(nStatus, FailedPath(x, a), "child")
          /\ setBlockIndexValid' = setBlockIndexValid \ FailedPath(x, a)
          /\ diskStatus' = diskStatus \cup
                {Marked(nStatus, FailedPath(x, a) \ Anc[c], "child") : c \in FailedPath(x, a)}
                \cup {nStatus'}
      BY <1>1, Zenon
<1> DEFINE path == FailedPath(x, a)
<1>3. /\ pc = "best" /\ pc' = "best"
      /\ UNCHANGED <<bestVars, coinsTip, diskCoins, cur, vWorkQueue>>
      BY Zenon DEF MarkFailedPath, TryNext
<1>4. nStatus \in Statuses /\ "child" \in Flags /\ x \in Blocks /\ x \in Index
      BY <1>3, Zenon DEF BaseInv, TypeOK, Statuses, Flags, CandidatesInv
<1>5. path \subseteq Index
      BY <1>4, AncSelf, Zenon DEF FailedPath, IndexInv, StatusClosed, Index
<1>6. ASSUME NEW S \in SUBSET Index
      PROVE  /\ \A b \in Blocks : nStatus[b] \subseteq Marked(nStatus, S, "child")[b]
             /\ \A b \in Blocks : Marked(nStatus, S, "child")[b] # {} <=> nStatus[b] # {}
             /\ StatusClosed(Marked(nStatus, S, "child"))
      <2>1. \A b \in Blocks : nStatus[b] \subseteq Marked(nStatus, S, "child")[b]
            BY <1>4, MarkedFacts, Zenon
      <2>2. \A b \in Blocks : Marked(nStatus, S, "child")[b] # {} <=> nStatus[b] # {}
            BY <1>4, MarkedFacts DEF Index
      <2>. QED  BY <2>1, <2>2, AncSelf, Zenon DEF IndexInv, StatusClosed
<1>7. ASSUME NEW st \in diskStatus'
      PROVE  StatusClosed(st) /\ (st \in diskStatus \/ \A b \in Blocks : nStatus[b] \subseteq st[b])
      <2>1. CASE st \in diskStatus  BY <2>1, Zenon DEF IndexInv
      <2>2. CASE st = nStatus'  BY <1>2, <1>5, <1>6, <2>2, Zenon
      <2>3. ASSUME NEW c \in path, st = Marked(nStatus, path \ Anc[c], "child")
            PROVE  StatusClosed(st) /\ \A b \in Blocks : nStatus[b] \subseteq st[b]
            <3>1. path \ Anc[c] \in SUBSET Index  BY <1>5, Zenon
            <3>. QED  BY <1>6, <2>3, <3>1, Zenon
      <2>. QED  BY <1>2, <2>1, <2>2, <2>3, Zenon
<1>8. /\ \A b \in Blocks : nStatus[b] \subseteq nStatus'[b]
      /\ Index' = Index /\ StatusClosed(nStatus')
      BY <1>2, <1>5, <1>6, Zenon DEF Index
<1>9. IndexInv'  BY <1>3, <1>7, <1>8, Zenon DEF IndexInv
<1>10. Held(nStatus', coinsTip) /\ Held(nStatus', pindexBest) /\ DiskInv'
       <2>1. nStatus' \in diskStatus'  BY <1>2, Zenon
       <2>. QED  BY <1>3, <1>7, <1>8, <2>1, StatusStep, Zenon
<1>11. CoinsInv'  BY <1>3, <1>10, Zenon DEF CoinsInv, Held, bestVars
<1>12. CandidatesInv'
       <2>1. \A b \in Blocks : Failed(b)' <=> Failed(b) \/ b \in path
             BY <1>2, <1>4, MarkedFailed, Zenon DEF Failed
       <2>2. setBlockIndexValid = {b \in Index : ~Failed(b)} /\ Genesis \in Index
             BY <1>3, Zenon DEF CandidatesInv
       <2>3. setBlockIndexValid' = {b \in Index : ~Failed(b)'}
             BY <1>2, <2>1, <2>2, Zenon DEF Index
       <2>. QED  BY <1>8, <2>2, <2>3, Zenon DEF CandidatesInv
<1>13. AttachInv'  BY <1>3, Zenon DEF AttachInv
<1>14. HeaviestInv'
       <2> SUFFICES ASSUME cur # Null, NEW c \in Index \ {cur}, MoreWorkThanBest(c)'
                    PROVE  HasFailed(c)'
           BY <1>3, <1>8, Zenon DEF HeaviestInv, HeavierFailed
       <2>1. c \in Blocks /\ MoreWorkThanBest(c)
             BY <1>3, Zenon DEF Index, MoreWorkThanBest, bestVars
       <2>2. HasFailed(c)  BY <1>3, <2>1, Zenon DEF HeaviestInv, HeavierFailed
       <2>3. nStatus' \in Statuses  BY Zenon DEF BaseInv, TypeOK, Statuses
       <2>. QED  BY <1>4, <1>8, <2>1, <2>2, <2>3, HeavierGrows, Zenon
<1>15. NextPointersExact'  BY <1>3, Zenon DEF NextPointersExact, bestVars
<1>. QED  BY <1>9, <1>10, <1>11, <1>12, <1>13, <1>14, <1>15, Zenon DEF RestInv

-----------------------------------------------------------------------------
(* SetBestChain. *)

(* The branch to connect is in the index, and so is what is marked of it. *)
LEMMA BranchInIndex ==
    ASSUME ChainInv, pc = "set", NEW t \in Blocks, Lowest(t, vAttach)
    PROVE  t \in Index /\ Anc[t] \subseteq Index /\ vConnect(t) \subseteq Index
<1>1. t \in Index  BY DEF ChainInv, AttachInv, Lowest
<1>2. Anc[t] \subseteq Index  BY <1>1, AncSelf, Zenon DEF ChainInv, IndexInv, StatusClosed, Index
<1>3. Chain(t) = Anc[t]  BY TreeAssumption DEF Chain
<1>. QED  BY <1>1, <1>2, <1>3, Zenon DEF vConnect

(* Marking undo data of blocks of the index. *)
LEMMA UndoMarks ==
    ASSUME ChainInv, NEW S, S \subseteq Index
    PROVE  /\ \A b \in Blocks : nStatus[b] \subseteq Marked(nStatus, S, "undo")[b]
           /\ \A b \in Blocks : Marked(nStatus, S, "undo")[b] # {} <=> nStatus[b] # {}
           /\ StatusClosed(Marked(nStatus, S, "undo"))
<1>1. nStatus \in Statuses /\ "undo" \in Flags
      BY Zenon DEF ChainInv, BaseInv, TypeOK, Statuses, Flags
<1>2. \A b \in Blocks : nStatus[b] \subseteq Marked(nStatus, S, "undo")[b]
      BY <1>1, MarkedFacts, Zenon
<1>3. \A b \in Blocks : Marked(nStatus, S, "undo")[b] # {} <=> nStatus[b] # {}
      BY <1>1, MarkedFacts DEF Index
<1>. QED  BY <1>2, <1>3, AncSelf, Zenon DEF ChainInv, IndexInv, StatusClosed

LEMMA ConnectBranchStep ==
    ASSUME ChainInv, BaseInv', NEW t \in Blocks, ConnectBranch(t)
    PROVE  RestInv'
<1> USE DEF ChainInv
<1>1. /\ pc = "set" /\ pc' = "flush" /\ Lowest(t, vAttach) /\ Rejected(t) = {}
      /\ coinsTip' = t /\ coinsOld' = coinsTip
      /\ UNCHANGED <<setBlockIndexValid, bestVars, diskCoins, cur, vWorkQueue, vAttach>>
      BY Zenon DEF ConnectBranch
<1>2. vConnect(t) \subseteq Index  BY <1>1, BranchInIndex, Zenon
<1> DEFINE C == Connected(vConnect(t))
<1>3. /\ nStatus' = Marked(nStatus, C, "undo")
      /\ diskStatus' = diskStatus \cup {nStatus'} \cup
            {Marked(nStatus, C \cap Anc[c], "undo") : c \in vConnect(t)}
      BY DEF ConnectBranch, ConnectWrites
<1>4. C \subseteq Index  BY <1>2, Zenon DEF Connected
<1>5. nStatus \in Statuses /\ nStatus' \in Statuses /\ "undo" \in Flags
      BY DEF BaseInv, TypeOK, Statuses, Flags
<1>6. ASSUME NEW st \in diskStatus'
      PROVE  StatusClosed(st) /\ (st \in diskStatus \/ \A b \in Blocks : nStatus[b] \subseteq st[b])
      <2>1. CASE st \in diskStatus  BY <2>1, Zenon DEF IndexInv
      <2>2. CASE st = nStatus'  BY <1>3, <1>4, <2>2, UndoMarks
      <2>3. ASSUME NEW c \in vConnect(t), st = Marked(nStatus, C \cap Anc[c], "undo")
            PROVE  StatusClosed(st) /\ \A b \in Blocks : nStatus[b] \subseteq st[b]
            <3>1. C \cap Anc[c] \subseteq Index  BY <1>4, Zenon
            <3>. QED  BY <2>3, <3>1, UndoMarks, Zenon
      <2>. QED  BY <1>3, <2>1, <2>2, <2>3, Zenon
<1>7. /\ \A b \in Blocks : nStatus[b] \subseteq nStatus'[b]
      /\ Index' = Index /\ StatusClosed(nStatus')
      BY <1>3, <1>4, UndoMarks, Zenon DEF Index
<1>8. \A b \in Blocks : Failed(b)' <=> Failed(b)
      BY <1>3, <1>5, MarkedUndo DEF Failed
<1>9. IndexInv'  BY <1>1, <1>6, <1>7, Zenon DEF IndexInv
<1>10. Held(nStatus', coinsTip) /\ Held(nStatus', pindexBest) /\ DiskInv'
       <2>1. nStatus' \in diskStatus'  BY <1>3, Zenon
       <2>. QED  BY <1>1, <1>6, <1>7, <2>1, StatusStep, Zenon
<1>11. Held(nStatus', t)
       <2> SUFFICES ASSUME NEW b \in Chain(t)
                    PROVE  b \notin Bad /\ nStatus'[Genesis] # {} /\ (b # Genesis => "undo" \in nStatus'[b])
           BY Zenon DEF Held
       <2>1. nStatus'[Genesis] # {}  BY <1>1, <1>7, Zenon DEF CandidatesInv, Index
       <2>2. CASE b \in Chain(coinsTip)  BY <1>10, <2>1, <2>2, Zenon DEF Held
       <2>3. CASE b \notin Chain(coinsTip)
             <3>1. b \in vConnect(t)  BY <2>3 DEF vConnect
             <3>2. b \notin Bad  BY <1>1, <3>1, Zenon DEF Rejected
             <3>3. b \in Blocks  BY <1>2, <3>1, Zenon DEF Index
             <3>4. b # Genesis => "undo" \in nStatus'[b]
                   BY <1>3, <1>5, <3>1, <3>3, MarkedFacts DEF Connected
             <3>. QED  BY <2>1, <3>2, <3>4
       <2>. QED  BY <2>2, <2>3, Zenon
<1>12. CoinsInv'  BY <1>1, <1>10, <1>11, Zenon DEF CoinsInv, Held, bestVars
<1>13. CandidatesInv'  BY <1>1, <1>7, <1>8, Zenon DEF CandidatesInv, Index
<1> HIDE DEF C
<1>14. ASSUME NEW b \in Blocks
       PROVE  (MoreWorkThanBest(b)' <=> MoreWorkThanBest(b)) /\ (HasFailed(b)' <=> HasFailed(b))
       <2>1. MoreWorkThanBest(b)' <=> MoreWorkThanBest(b)
             BY <1>1, Zenon DEF MoreWorkThanBest, bestVars
       <2>2. HasFailed(b)' <=> HasFailed(b)
             <3>1. Anc[b] \subseteq Blocks  BY AncSelf, Zenon
             <3>. QED  BY <1>8, <3>1, Zenon DEF HasFailed
       <2>. QED  BY <2>1, <2>2
<1>15. AttachInv'
       <2>1. vAttach \subseteq Blocks  BY DEF BaseInv, TypeOK
       <2>2. \A b \in vAttach : b \in Index' /\ MoreWorkThanBest(b)'
             BY <1>1, <1>7, <1>14, <2>1, Zenon DEF AttachInv
       <2>. QED  BY <1>1, <2>2, Zenon DEF AttachInv, Lowest
<1>16. HeaviestInv'
       <2>1. Index \subseteq Blocks  BY DEF Index
       <2>2. cur' # Null => HeavierFailed(Index \ {cur})'
             BY <1>1, <1>7, <1>14, <2>1, Zenon DEF HeaviestInv, HeavierFailed
       <2>3. HeavierFailed({b \in Index : \A v \in vAttach : ChainWork[b] > ChainWork[v]})'
             BY <1>1, <1>7, <1>14, <2>1, Zenon DEF HeaviestInv, HeavierFailed
       <2>. QED  BY <1>1, <2>2, <2>3 DEF HeaviestInv
<1>17. NextPointersExact'  BY <1>1, Zenon DEF NextPointersExact, bestVars
<1>. QED  BY <1>9, <1>10, <1>12, <1>13, <1>15, <1>16, <1>17 DEF RestInv

LEMMA RejectBranchStep ==
    ASSUME ChainInv, BaseInv', NEW t \in Blocks, NEW b \in Blocks, RejectBranch(t, b)
    PROVE  RestInv'
<1> USE DEF ChainInv
<1> DEFINE good == Connected(vConnect(t) \cap (Anc[b] \ {b}))
           undone == Marked(nStatus, good, "undo")
<1>1. /\ pc = "set" /\ pc' = "false" /\ Lowest(t, vAttach) /\ Lowest(b, Rejected(t))
      /\ setBlockIndexValid' = setBlockIndexValid \ {b}
      /\ UNCHANGED <<coinsTip, bestVars, diskCoins, cur, vWorkQueue>>
      BY Zenon DEF RejectBranch, EraseCandidate, CoinsUntouched
<1>2. /\ nStatus' = Marked(undone, {b}, "failed")
      /\ diskStatus' = diskStatus \cup {nStatus', undone} \cup
            {Marked(nStatus, good \cap Anc[c], "undo") : c \in good}
      BY Zenon DEF RejectBranch
<1>3. vConnect(t) \subseteq Index /\ b \in Index /\ b \in Anc[t]
      <2>1. vConnect(t) \subseteq Index  BY <1>1, BranchInIndex, Zenon
      <2>2. b \in vConnect(t)  BY <1>1, Zenon DEF Lowest, Rejected
      <2>3. b \in Anc[t]  BY <2>2, TreeAssumption, Zenon DEF vConnect, Chain
      <2>. QED  BY <2>1, <2>2, <2>3
<1>4. good \subseteq Index  BY <1>3, Zenon DEF Connected
<1>5. /\ nStatus \in Statuses /\ undone \in Statuses /\ nStatus' \in Statuses
      /\ "undo" \in Flags /\ "failed" \in Flags
      <2>1. nStatus \in Statuses /\ "undo" \in Flags /\ "failed" \in Flags /\ nStatus' \in Statuses
            BY DEF BaseInv, TypeOK, Statuses, Flags
      <2>. QED  BY <2>1, MarkedFacts, Zenon
<1>6. /\ \A c \in Blocks : nStatus[c] \subseteq undone[c]
      /\ \A c \in Blocks : undone[c] # {} <=> nStatus[c] # {}
      /\ StatusClosed(undone)
      BY <1>4, UndoMarks, Zenon
<1>7. \A c \in Blocks : undone[c] \subseteq nStatus'[c] /\ (c # b => nStatus'[c] = undone[c])
      BY <1>2, <1>5, MarkedFacts
<1>8. /\ \A c \in Blocks : nStatus[c] \subseteq nStatus'[c]
      /\ \A c \in Blocks : nStatus'[c] # {} <=> nStatus[c] # {}
      BY <1>3, <1>6, <1>7, Zenon DEF Index
<1>9. Index' = Index /\ StatusClosed(nStatus')
      BY <1>8, AncSelf, Zenon DEF Index, IndexInv, StatusClosed
<1>10. ASSUME NEW st \in diskStatus'
      PROVE  StatusClosed(st) /\ (st \in diskStatus \/ \A c \in Blocks : nStatus[c] \subseteq st[c])
      <2>1. CASE st \in diskStatus  BY <2>1, Zenon DEF IndexInv
      <2>2. CASE st = nStatus'  BY <1>8, <1>9, <2>2
      <2>3. CASE st = undone  BY <1>6, <2>3, Zenon
      <2>4. ASSUME NEW c \in good, st = Marked(nStatus, good \cap Anc[c], "undo")
            PROVE  StatusClosed(st) /\ \A d \in Blocks : nStatus[d] \subseteq st[d]
            <3>1. good \cap Anc[c] \subseteq Index  BY <1>4
            <3>. QED  BY <2>4, <3>1, UndoMarks, ZenonT(40)
      <2> HIDE DEF good, undone
      <2>. QED  BY <1>2, <2>1, <2>2, <2>3, <2>4, Zenon
<1>11. \A c \in Blocks : Failed(c)' <=> Failed(c) \/ c = b
       <2>1. \A c \in Blocks : FailedIn(undone, c) <=> Failed(c)  BY <1>5, MarkedUndo, Zenon DEF Failed
       <2>2. \A c \in Blocks : Failed(c)' <=> FailedIn(undone, c) \/ c \in {b}
             BY <1>2, <1>5, MarkedFailed DEF Failed
       <2>. QED  BY <2>1, <2>2, Zenon
<1> HIDE DEF good, undone
<1>12. IndexInv'  BY <1>1, <1>9, <1>10, Zenon DEF IndexInv
<1>13. Held(nStatus', coinsTip) /\ Held(nStatus', pindexBest) /\ DiskInv'
       <2>1. nStatus' \in diskStatus'  BY <1>2
       <2>. QED  BY <1>1, <1>8, <1>10, <2>1, StatusStep, Zenon
<1>14. CoinsInv'  BY <1>1, <1>13, Zenon DEF CoinsInv, Held, bestVars
<1>15. CandidatesInv'
       <2>1. setBlockIndexValid = {c \in Index : ~Failed(c)} /\ Genesis \in Index
             BY <1>1 DEF CandidatesInv
       <2>2. setBlockIndexValid' = {c \in Index : ~Failed(c)'}
             BY <1>1, <1>11, <2>1, Zenon DEF Index
       <2>. QED  BY <1>9, <2>1, <2>2, Zenon DEF CandidatesInv
<1>16. AttachInv'  BY <1>1, Zenon DEF AttachInv
<1>17. HeaviestInv'
       <2> SUFFICES ASSUME cur # Null, NEW c \in Index, MoreWorkThanBest(c)' PROVE HasFailed(c)'
           BY <1>1, <1>9, Zenon DEF HeaviestInv, HeavierFailed
       <2>1. c \in Blocks /\ MoreWorkThanBest(c)
             BY <1>1 DEF Index, MoreWorkThanBest, bestVars
       <2>2. CASE c # cur
             <3>1. HasFailed(c)  BY <1>1, <2>1, <2>2 DEF HeaviestInv, HeavierFailed
             <3>. QED  BY <1>5, <1>8, <2>1, <3>1, HeavierGrows, Zenon
       <2>3. CASE c = cur
             <3>1. t \in Anc[c]  BY <1>1, <2>3, Zenon DEF AttachInv, Lowest
             <3>2. b \in Anc[c]  BY <1>3, <2>1, <3>1, TreeAssumption
             <3>. QED  BY <1>11, <3>2, Zenon DEF HasFailed
       <2>. QED  BY <2>2, <2>3, Zenon
<1>18. NextPointersExact'  BY <1>1, Zenon DEF NextPointersExact, bestVars
<1>. QED  BY <1>12, <1>13, <1>14, <1>15, <1>16, <1>17, <1>18, Zenon DEF RestInv
(* The successor of a block within a chain is unique. *)
LEMMA NextUnique ==
    ASSUME NEW tip \in Tips, NEW a \in Blocks, NEW b \in Chain(tip), NEW c \in Chain(tip),
           Parent[b] = a, Parent[c] = a
    PROVE  b = c
<1>1. b \in Blocks /\ c \in Blocks  BY ChainClosed, Zenon
<1>2. b # Genesis /\ c # Genesis
      BY ONLY <1>1, a \in Blocks, Parent[b] = a, Parent[c] = a, TreeAssumption
<1>3. Height[b] = Height[a] + 1 /\ Height[c] = Height[a] + 1  BY <1>1, <1>2, TreeAssumption
<1>. QED  BY <1>3, ChainClosed, Zenon

(* Relinked turns the next pointers of one chain into those of another. *)
LEMMA RelinkedExact ==
    ASSUME NEW old \in Tips, NEW new \in Tips, pnext \in [Blocks -> Tips],
           \A a, b \in Blocks : pnext[a] = b <=> b \in Chain(old) /\ Parent[b] = a,
           NEW a \in Blocks, NEW b \in Blocks
    PROVE  Relinked(Chain(old), Chain(new))[a] = b <=> b \in Chain(new) /\ Parent[b] = a
<1> DEFINE plus == Chain(new) \ Chain(old)
           minus == Chain(old) \ Chain(new)
           r == Relinked(Chain(old), Chain(new))[a]
<1>0. Chain(old) \subseteq Blocks /\ Chain(new) \subseteq Blocks /\ Null \notin Blocks
      BY ChainClosed, TreeAssumption
<1>1. CASE \E c \in plus : Parent[c] = a
      <2>1. r = CHOOSE c \in plus : Parent[c] = a  BY <1>1, Zenon DEF Relinked, NextIn
      <2>2. r \in plus /\ Parent[r] = a  BY <1>1, <2>1, Zenon
      <2>. HIDE DEF r
      <2>3. ASSUME b \in Chain(new), Parent[b] = a PROVE r = b
            <3>1. r \in Chain(new)  BY <2>2, Zenon
            <3>. QED  BY <2>2, <2>3, <3>1, NextUnique, Zenon
      <2>4. r = b => b \in Chain(new) /\ Parent[b] = a  BY <2>2, Zenon
      <2>. QED  BY <2>3, <2>4, Zenon DEF r
<1>2. CASE ~(\E c \in plus : Parent[c] = a) /\ \E c \in minus : Parent[c] = a
      <2>1. r = Null  BY <1>2, Zenon DEF Relinked
      <2>2. ~(b \in Chain(new) /\ Parent[b] = a)
            <3> SUFFICES ASSUME b \in Chain(new), Parent[b] = a PROVE FALSE  BY Zenon
            <3>1. PICK c \in minus : Parent[c] = a  BY <1>2, Zenon
            <3>2. b \in Chain(old)  BY <1>2, Zenon
            <3>3. c \in Chain(old) /\ c \notin Chain(new)  BY <3>1, Zenon
            <3>4. b = c  BY <3>1, <3>2, <3>3, NextUnique, Zenon
            <3>. QED  BY <3>3, <3>4, Zenon
      <2>. QED  BY <1>0, <2>1, <2>2, Zenon
<1>3. CASE ~(\E c \in plus : Parent[c] = a) /\ ~(\E c \in minus : Parent[c] = a)
      <2>1. r = pnext[a]  BY <1>3, Zenon DEF Relinked
      <2>2. b \in Chain(new) /\ Parent[b] = a <=> b \in Chain(old) /\ Parent[b] = a  BY <1>3
      <2>. QED  BY <2>1, <2>2, Zenon
<1>. QED  BY <1>1, <1>2, <1>3, Zenon

LEMMA SwitchBestStep ==
    ASSUME ChainInv, BaseInv', NEW fFlush \in BOOLEAN, SwitchBest(fFlush)
    PROVE  RestInv'
<1> USE DEF ChainInv
<1>1. /\ pc = "flush" /\ pc' = "set" /\ pindexBest' = coinsTip
      /\ pnext' = Relinked(Chain(coinsOld), Chain(coinsTip)) /\ vAttach' = vAttach \ {coinsTip}
      /\ UNCHANGED <<treeVars, coinsTip, cur, vWorkQueue>>
      BY DEF SwitchBest
<1>2. /\ coinsTip \in vAttach /\ coinsTip \in Blocks /\ coinsTip # Null
      /\ MoreWorkThanBest(coinsTip) /\ \A b \in vAttach : Height[coinsTip] <= Height[b]
      /\ vAttach \subseteq Blocks
      <2>1. Lowest(coinsTip, vAttach)  BY <1>1, Zenon DEF AttachInv
      <2>2. vAttach \subseteq Blocks  BY Zenon DEF BaseInv, TypeOK
      <2>3. coinsTip \in vAttach /\ \A b \in vAttach : Height[coinsTip] <= Height[b]
            BY <2>1, Zenon DEF Lowest
      <2>4. MoreWorkThanBest(coinsTip)
            <3>1. \A b \in vAttach : b \in Index /\ MoreWorkThanBest(b)  BY <1>1, Zenon DEF AttachInv
            <3>. QED  BY ONLY <2>3, <3>1, Zenon
      <2>5. coinsTip \in Blocks  BY ONLY <2>2, <2>3, Zenon
      <2>6. coinsTip # Null  BY ONLY <2>5, TreeAssumption, Zenon
      <2>. QED  BY ONLY <2>2, <2>3, <2>4, <2>5, <2>6
<1>3. IndexInv'
      <2>1. \A st \in diskStatus' : StatusClosed(st)
            <3>1. CASE fFlush  BY <3>1, Zenon DEF SwitchBest, Synced, IndexInv
            <3>2. CASE ~fFlush  BY <3>2, Zenon DEF SwitchBest, IndexInv
            <3>. QED  BY <3>1, <3>2, Zenon
      <2>2. nStatus' = nStatus /\ Index' = Index  BY <1>1 DEF treeVars, Index
      <2>3. StatusClosed(nStatus')  BY <2>2 DEF IndexInv
      <2>. QED  BY <1>1, <2>1, <2>2, <2>3 DEF IndexInv
<1>4. CoinsInv'  BY <1>1, Zenon DEF CoinsInv, Held, treeVars
<1>5. DiskInv'
      <2>1. nStatus' \in diskStatus'  BY <1>1 DEF SwitchBest, Synced, treeVars, DiskInv
      <2>2. ASSUME NEW st \in diskStatus', NEW tip \in diskCoins' PROVE Held(st, tip)
            <3>1. CASE fFlush
                  <4>1. st = nStatus /\ tip \in diskCoins \cup {coinsTip}
                        BY <2>2, <3>1, Zenon DEF SwitchBest, Synced
                  <4>. QED  BY <1>1, <4>1, Zenon DEF DiskInv, CoinsInv
            <3>2. CASE ~fFlush
                  <4>1. st \in diskStatus /\ tip \in diskCoins  BY <2>2, <3>2 DEF SwitchBest
                  <4>. QED  BY <1>1, <4>1, Zenon DEF DiskInv
            <3>. QED  BY <3>1, <3>2, Zenon
      <2>. QED  BY <2>1, <2>2, Zenon DEF DiskInv
<1>6. CandidatesInv'  BY <1>1, Zenon DEF CandidatesInv, Index, Failed, treeVars
<1>7. \A b \in vAttach : b # coinsTip => ChainWork[b] > ChainWork[coinsTip]
      <2> SUFFICES ASSUME NEW b \in vAttach, b # coinsTip PROVE ChainWork[b] > ChainWork[coinsTip]
          OBVIOUS
      <2>1. b \in Blocks /\ (coinsTip \in Anc[b] \/ b \in Anc[coinsTip])
            BY <1>1, <1>2, Zenon DEF AttachInv
      <2>2. coinsTip \in Anc[b]
            <3>1. CASE b \in Anc[coinsTip]
                  <4>1. coinsTip \in Anc[coinsTip]  BY <1>2, AncSelf, Zenon
                  <4>. QED  BY <1>2, <3>1, <4>1, TreeAssumption
            <3>. QED  BY <2>1, <3>1, Zenon
      <2>3. ChainWork[coinsTip] < ChainWork[b]  BY <2>1, <2>2, WorkAssumption, Zenon
      <2>4. ChainWork[coinsTip] \in Nat /\ ChainWork[b] \in Nat  BY <1>2, <2>1, WorkAssumption, Zenon
      <2>. QED  BY <2>3, <2>4
<1>8. \A b \in Blocks : MoreWorkThanBest(b)' <=> ChainWork[b] > ChainWork[coinsTip]
      BY <1>1, <1>2 DEF MoreWorkThanBest
<1>9. \A b \in Blocks : MoreWorkThanBest(b)' => MoreWorkThanBest(b)
      <2> SUFFICES ASSUME NEW b \in Blocks, MoreWorkThanBest(b)' PROVE MoreWorkThanBest(b)
          OBVIOUS
      <2>1. ChainWork[b] > ChainWork[coinsTip]  BY <1>8
      <2>2. CASE pindexBest = Null  BY <2>2, Zenon DEF MoreWorkThanBest
      <2>3. CASE pindexBest # Null
            <3>1. pindexBest \in Blocks /\ ChainWork[coinsTip] > ChainWork[pindexBest]
                  <4>1. pindexBest \in Blocks \cup {Null}  BY Zenon DEF BaseInv, TypeOK, Tips
                  <4>2. MoreWorkThanBest(coinsTip)  BY <1>2, Zenon
                  <4>. QED  BY ONLY <2>3, <4>1, <4>2 DEF MoreWorkThanBest
            <3>. QED  BY <1>2, <2>1, <3>1, WorkAssumption DEF MoreWorkThanBest
      <2>. QED  BY <2>2, <2>3
<1>10. Index' = Index /\ Index \subseteq Blocks /\ \A b \in Blocks : HasFailed(b)' <=> HasFailed(b)
       BY <1>1, Zenon DEF Index, HasFailed, Failed, treeVars
<1>11. AttachInv'
       <2>1. \A b \in vAttach' : b \in Index' /\ MoreWorkThanBest(b)'
             BY <1>1, <1>2, <1>7, <1>8, <1>10, Zenon DEF AttachInv
       <2>2. \A a, b \in vAttach' : a \in Anc[b] \/ b \in Anc[a]  BY <1>1, Zenon DEF AttachInv
       <2>3. cur' # Null => vAttach' \subseteq Anc[cur']  BY <1>1, Zenon DEF AttachInv
       <2>. QED  BY <1>1, <2>1, <2>2, <2>3, Zenon DEF AttachInv
<1>12. HeaviestInv'
       <2>1. cur' # Null => HeavierFailed(Index \ {cur})'
             BY <1>1, <1>9, <1>10, Zenon DEF HeaviestInv, HeavierFailed
       <2>2. HeavierFailed({b \in Index : \A t \in vAttach : ChainWork[b] > ChainWork[t]})'
             <3> SUFFICES ASSUME NEW b \in Index, MoreWorkThanBest(b)',
                                 \A t \in vAttach' : ChainWork[b] > ChainWork[t]
                          PROVE  HasFailed(b)'
                 BY <1>10, Zenon DEF HeavierFailed
             <3>1. \A t \in vAttach : ChainWork[b] > ChainWork[t]
                   BY <1>1, <1>8, <1>10
             <3>2. MoreWorkThanBest(b) /\ b \in Blocks  BY <1>9, <1>10, Zenon
             <3>3. HasFailed(b)  BY <1>1, <3>1, <3>2, SMTT(30) DEF HeaviestInv, HeavierFailed
             <3>. QED  BY <1>10, <3>2, <3>3, Zenon
       <2>. QED  BY <1>1, <2>1, <2>2, Zenon DEF HeaviestInv
<1>13. NextPointersExact'
       <2>1. /\ coinsOld \in Tips /\ coinsTip \in Tips /\ pnext \in [Blocks -> Tips]
             /\ coinsOld = pindexBest
             BY <1>1, Zenon DEF BaseInv, TypeOK, Tips, CoinsInv
       <2>2. \A a, b \in Blocks : pnext[a] = b <=> b \in Chain(coinsOld) /\ Parent[b] = a
             BY <2>1, Zenon DEF NextPointersExact
       <2>3. \A a, b \in Blocks : pnext'[a] = b <=> b \in Chain(coinsTip) /\ Parent[b] = a
             <3>1. \A a, b \in Blocks : Relinked(Chain(coinsOld), Chain(coinsTip))[a] = b
                                       <=> b \in Chain(coinsTip) /\ Parent[b] = a
                   BY ONLY <2>1, <2>2, RelinkedExact
             <3>2. pnext' = Relinked(Chain(coinsOld), Chain(coinsTip))  BY ONLY <1>1, Zenon
             <3>. QED  BY ONLY <3>1, <3>2, Zenon
       <2>. QED  BY <1>1, <2>3, Zenon DEF NextPointersExact
<1>. QED  BY <1>3, <1>4, <1>5, <1>6, <1>11, <1>12, <1>13, Zenon DEF RestInv

-----------------------------------------------------------------------------
(* Stopping, losing power and starting. *)
LEMMA OffStep ==
    ASSUME ChainInv, BaseInv', Forget, StatusClosed(nStatus'),
           \A st \in diskStatus' : StatusClosed(st), Held(nStatus', coinsTip')
    PROVE  RestInv'
<1>1. pc' = "off" /\ pindexBest' = Null /\ pnext' = NoNext /\ cur' = Null /\ vWorkQueue' = <<>>
      BY ONLY Forget DEF Forget
<1>2. IndexInv'  BY <1>1 DEF IndexInv
<1>3. CoinsInv'  BY <1>1, Zenon DEF CoinsInv, Held, Chain
<1>4. DiskInv' /\ CandidatesInv'  BY <1>1 DEF DiskInv, CandidatesInv
<1>5. AttachInv' /\ HeaviestInv'  BY <1>1, Zenon DEF AttachInv, HeaviestInv
<1>6. NextPointersExact'  BY <1>1, TreeAssumption, Zenon DEF NextPointersExact, NoNext, Chain
<1>. QED  BY <1>2, <1>3, <1>4, <1>5, <1>6, Zenon DEF RestInv

LEMMA StartStep == ASSUME ChainInv, BaseInv', Start PROVE RestInv'
<1> USE DEF ChainInv
<1>1. /\ pc = "off" /\ pc' = "best" /\ cur = Null /\ cur' = Null /\ vWorkQueue' = vWorkQueue
      /\ pindexBest' = LoadedTip /\ coinsTip' = LoadedTip
      /\ diskStatus' = {nStatus, nStatus'} /\ diskCoins' = {coinsTip}
      BY Zenon DEF Start, IndexInv
<1>2. /\ nStatus \in Statuses /\ nStatus' \in Statuses /\ coinsTip \in Tips /\ Genesis \in Blocks
      /\ LoadedTip \in {coinsTip, Null} /\ LoadedTip \in Tips
      <2>1. nStatus \in Statuses /\ coinsTip \in Tips  BY Zenon DEF BaseInv, TypeOK, Statuses, Tips
      <2>2. nStatus' \in Statuses  BY Zenon DEF BaseInv, TypeOK, Statuses
      <2>3. LoadedTip \in {coinsTip, Null}  BY ONLY DEF LoadedTip
      <2>4. LoadedTip \in Tips  BY ONLY <2>1, <2>3 DEF Tips
      <2>. QED  BY ONLY <2>1, <2>2, <2>3, <2>4, TreeAssumption
<1>3. /\ nStatus'[Genesis] = nStatus[Genesis] \cup {"data"}
      /\ \A b \in Blocks : b # Genesis => nStatus'[b] = nStatus[b]
      BY <1>2, Zenon DEF Start, Statuses
<1>4. \A b \in Blocks : nStatus[b] \subseteq nStatus'[b]  BY <1>3, SMTT(30)
<1>5. StatusClosed(nStatus')
      <2> SUFFICES ASSUME NEW b \in Blocks, nStatus'[b] # {}, NEW a \in Anc[b]
                   PROVE  nStatus'[a] # {}
          BY Zenon DEF StatusClosed
      <2>1. a \in Blocks  BY AncSelf, Zenon
      <2>2. CASE b = Genesis
            <3>1. a = Genesis  BY <2>2, TreeAssumption, SMTT(30)
            <3>. QED  BY ONLY <1>3, <3>1, Zenon
      <2>3. CASE b # Genesis
            <3>1. nStatus[b] # {}  BY ONLY <1>3, <2>3, nStatus'[b] # {}, b \in Blocks
            <3>2. nStatus[a] # {}  BY <3>1, Zenon DEF IndexInv, StatusClosed
            <3>. QED  BY ONLY <1>4, <2>1, <3>2, Zenon
      <2>. QED  BY <2>2, <2>3, Zenon
<1>6. IndexInv'
      <2>1. Index \subseteq Index'  BY <1>4, Zenon DEF Index
      <2>2. \A st \in diskStatus' : StatusClosed(st)  BY <1>1, <1>5, Zenon DEF IndexInv
      <2>3. \A i \in DOMAIN vWorkQueue' : vWorkQueue'[i] \in Index'
            BY <1>1, <2>1, Zenon DEF IndexInv
      <2>. QED  BY <1>1, <1>5, <2>2, <2>3, Zenon DEF IndexInv
<1>7. Held(nStatus, coinsTip) /\ Held(nStatus', coinsTip)
      BY <1>2, <1>4, HeldGrows, Zenon DEF CoinsInv
<1>8. Held(nStatus', LoadedTip)  BY <1>2, <1>7, Zenon DEF Held, Chain
<1>9. CoinsInv'  BY <1>1, <1>8 DEF CoinsInv, Held
<1>10. DiskInv'  BY <1>1, <1>7, Zenon DEF DiskInv
<1>11. CandidatesInv'
       BY <1>2, <1>3, SMTT(30) DEF Start, CandidatesInv, Index, Failed
<1>12. AttachInv' /\ HeaviestInv'  BY <1>1, Zenon DEF AttachInv, HeaviestInv
<1>13. NextPointersExact'
       <2> SUFFICES ASSUME NEW a \in Blocks, NEW b \in Blocks
                    PROVE  pnext'[a] = b <=> b \in Chain(LoadedTip) /\ Parent[b] = a
           BY <1>1, Zenon DEF NextPointersExact
       <2>1. pnext'[a] = NextIn(Chain(LoadedTip), a)  BY Zenon DEF Start
       <2>2. CASE \E c \in Chain(LoadedTip) : Parent[c] = a
             <3>1. pnext'[a] = CHOOSE c \in Chain(LoadedTip) : Parent[c] = a
                   BY <2>1, <2>2, Zenon DEF NextIn
             <3>2. pnext'[a] \in Chain(LoadedTip) /\ Parent[pnext'[a]] = a  BY <2>2, <3>1, SMTT(30)
             <3>. QED  BY <1>2, <3>2, NextUnique, Zenon
       <2>3. CASE ~\E c \in Chain(LoadedTip) : Parent[c] = a
             <3>1. pnext'[a] = Null  BY ONLY <2>1, <2>3, Zenon DEF NextIn
             <3>2. pnext'[a] # b  BY ONLY <3>1, b \in Blocks, TreeAssumption
             <3>. QED  BY ONLY <2>3, <3>2, Zenon
       <2>. QED  BY <2>2, <2>3, Zenon
<1>. QED  BY <1>6, <1>9, <1>10, <1>11, <1>12, <1>13, Zenon DEF RestInv
-----------------------------------------------------------------------------
LEMMA InitChain == Init => ChainInv
<1> SUFFICES ASSUME Init PROVE ChainInv  OBVIOUS
<1>1. BaseInv  BY InitBase
<1> USE DEF Init
<1>2. Index = {Genesis} /\ Anc[Genesis] = {Genesis} /\ Genesis \in Blocks /\ Genesis # Null
      BY TreeAssumption, Zenon DEF Index
<1>3. IndexInv
      <2>1. StatusClosed(nStatus) /\ StatusClosed([b \in Blocks |-> {}])
            BY <1>2, Zenon DEF StatusClosed
      <2>2. /\ diskStatus = {[b \in Blocks |-> {}], nStatus} /\ vWorkQueue = <<>> /\ cur = Null
               /\ pc = "idle"
            BY Zenon
      <2>. QED  BY ONLY <2>1, <2>2 DEF IndexInv
<1>4. CoinsInv  BY <1>2, ValidityAssumption, Zenon DEF CoinsInv, Held, Chain
<1>5. DiskInv  BY Zenon DEF DiskInv, Held, Chain
<1>6. CandidatesInv  BY <1>2, Zenon DEF CandidatesInv, Failed, FailedIn
<1>7. AttachInv  BY DEF AttachInv
<1>8. HeaviestInv
      <2>0. pindexBest = Genesis /\ ChainWork[Genesis] \in Nat  BY <1>2, WorkAssumption, Zenon
      <2>1. ~MoreWorkThanBest(Genesis)  BY ONLY <1>2, <2>0 DEF MoreWorkThanBest
      <2>. QED  BY <1>2, <2>1, Zenon DEF HeaviestInv, HeavierFailed
<1>9. NextPointersExact  BY <1>2, TreeAssumption, Zenon DEF NextPointersExact, NoNext, Chain
<1>. QED  BY <1>1, <1>3, <1>4, <1>5, <1>6, <1>7, <1>8, <1>9 DEF ChainInv

LEMMA ChainStep ==
    ASSUME ~DiskMayFill, ~LossWhenOff, ChainInv, [Next]_vars
    PROVE  ChainInv'
<1>0. BaseInv'  BY BaseStep, Zenon DEF ChainInv
<1> SUFFICES RestInv'  BY <1>0 DEF ChainInv, RestInv
<1>1. ASSUME NEW b \in Blocks, NEW fPeer \in BOOLEAN, ProcessBlock(b, fPeer) PROVE RestInv'
      <2>1. pc = "idle" /\ b \notin Index  BY <1>1, Zenon DEF ProcessBlock
      <2>2. CASE Parent[b] \notin Index
            BY <1>1, <2>1, <2>2, RestStep, Zenon
            DEF ProcessBlock, procVars, ChainInv, IndexInv
      <2>3. CASE Parent[b] \in Index
            <3>1. AddToBlockIndex(b) /\ vWorkQueue' = vWorkQueue
                  BY <1>1, <2>3, Zenon DEF ProcessBlock
            <3>2. b # Genesis  BY <2>3, TreeAssumption DEF Index
            <3>. QED  BY <1>0, <2>1, <2>3, <3>1, <3>2, AddToBlockIndexStep, Zenon
      <2>. QED  BY <2>2, <2>3, SMTT(30)
<1>2. ASSUME NEW o \in Blocks, ProcessOrphan(o) PROVE RestInv'
      <2>1. pc = "orphans" /\ Parent[o] = Head(vWorkQueue)  BY <1>2, SMTT(30) DEF ProcessOrphan
      <2>2. CASE o \in Unacceptable \/ o \in Index
            BY <1>2, <2>1, <2>2, RestStep, Zenon DEF ProcessOrphan, procVars, ChainInv, IndexInv
      <2>3. CASE ~(o \in Unacceptable \/ o \in Index)
            <3>1. AddToBlockIndex(o) /\ vWorkQueue' = vWorkQueue
                  BY <1>2, <2>3, Zenon DEF ProcessOrphan
            <3>2. Parent[o] \in Index
                  <4>1. vWorkQueue \in Seq(Blocks) /\ vWorkQueue # <<>>
                        BY <2>1 DEF ChainInv, BaseInv, TypeOK, QueueNotEmpty
                  <4>2. Head(vWorkQueue) = vWorkQueue[1] /\ 1 \in DOMAIN vWorkQueue  BY <4>1, SMTT(30)
                  <4>. QED  BY <2>1, <4>2, Zenon DEF ChainInv, IndexInv
            <3>3. o # Genesis  BY <3>2, TreeAssumption, Zenon DEF Index
            <3>. QED  BY <1>0, <2>1, <2>3, <3>1, <3>2, <3>3, AddToBlockIndexStep
      <2>. QED  BY <2>2, <2>3, Zenon
<1>3. CASE NextInWorkQueue
      <2>1. vWorkQueue \in Seq(Blocks) /\ vWorkQueue # <<>>
            BY <1>3, Zenon DEF NextInWorkQueue, ChainInv, BaseInv, TypeOK, QueueNotEmpty
      <2>2. \A i \in DOMAIN vWorkQueue' : vWorkQueue'[i] \in Index
            <3>1. vWorkQueue' = Tail(vWorkQueue)  BY <1>3 DEF NextInWorkQueue
            <3>2. \A i \in DOMAIN vWorkQueue' :
                     i + 1 \in DOMAIN vWorkQueue /\ vWorkQueue'[i] = vWorkQueue[i + 1]
                  BY <2>1, <3>1
            <3>. QED  BY <3>2, Zenon DEF ChainInv, IndexInv
      <2>. QED  BY <1>3, <2>2, RestStep, Zenon DEF NextInWorkQueue
<1>4. CASE Accepted
      <2>1. CASE cur = Null
            <3>1. vWorkQueue' = <<>>  BY <1>4, <2>1, Zenon DEF Accepted
            <3>2. \A i \in DOMAIN vWorkQueue' : vWorkQueue'[i] \in Index  BY ONLY <3>1
            <3>3. pc = "true" /\ pc' = "idle" /\ cur' = cur
                  /\ UNCHANGED <<treeVars, bestVars, coinsTip, diskVars>>
                  BY <1>4, <2>1, Zenon DEF Accepted
            <3>. QED  BY <3>2, <3>3, RestStep, Zenon
      <2>2. CASE cur # Null
            <3>1. vWorkQueue \in Seq(Blocks) /\ vWorkQueue' = Append(vWorkQueue, cur)
                  BY <1>4, <2>2 DEF Accepted, QueueCur, ChainInv, BaseInv, TypeOK
            <3>2. \A i \in DOMAIN vWorkQueue' :
                     vWorkQueue'[i] = cur \/ (i \in DOMAIN vWorkQueue /\ vWorkQueue'[i] = vWorkQueue[i])
                  BY ONLY <3>1
            <3>3. \A i \in DOMAIN vWorkQueue' : vWorkQueue'[i] \in Index
                  BY <2>2, <3>2, Zenon DEF ChainInv, IndexInv
            <3>. QED  BY <1>4, <2>2, <3>3, RestStep, Zenon DEF Accepted
      <2>. QED  BY <2>1, <2>2, Zenon
<1>5. CASE NotAccepted  BY <1>5, RestStep DEF NotAccepted, ChainInv, IndexInv
<1>6. ASSUME NEW t \in Blocks, ConnectBranch(t) PROVE RestInv'
      BY <1>0, <1>6, ConnectBranchStep
<1>7. ASSUME NEW t \in Blocks, NEW b \in Blocks, RejectBranch(t, b) PROVE RestInv'
      BY <1>0, <1>7, RejectBranchStep
<1>8. ASSUME NEW fFlush \in BOOLEAN, SwitchBest(fFlush) PROVE RestInv'
      BY <1>0, <1>8, SwitchBestStep
<1>9. CASE StayWithBest \/ MarkFailedPath \/ AttachPath \/ AttachDone
      BY <1>0, <1>9, StayWithBestStep, MarkFailedPathStep, AttachPathStep, AttachDoneStep, Zenon
<1>10. CASE Shutdown
       <2>1. Forget /\ UNCHANGED <<nStatus, coinsTip, diskStatus>>  BY <1>10, Zenon DEF Shutdown
       <2>. QED  BY <1>0, <2>1, OffStep DEF ChainInv, IndexInv, CoinsInv
<1>11. CASE PowerLoss
       <2>1. pc # "off"  BY <1>11 DEF PowerLoss
       <2>2. nStatus' \in diskStatus /\ diskStatus' = {nStatus'} /\ coinsTip' \in diskCoins /\ Forget
             BY <1>11 DEF PowerLoss
       <2>3. Held(nStatus', coinsTip')  BY <2>1, <2>2 DEF ChainInv, DiskInv
       <2>. QED  BY <1>0, <2>2, <2>3, OffStep DEF ChainInv, IndexInv
<1>12. CASE Start  BY <1>0, <1>12, StartStep
<1>13. CASE UNCHANGED vars
       <2> USE <1>13 DEF vars, treeVars, bestVars, diskVars, procVars, ChainInv
       <2>1. IndexInv'  BY Zenon DEF IndexInv, StatusClosed, Index
       <2>6. CoinsInv'  BY Zenon DEF CoinsInv, Held
       <2>7. DiskInv'  BY Zenon DEF DiskInv, Held
       <2>2. CandidatesInv'  BY ZenonT(40) DEF CandidatesInv, Index, Failed
       <2>3. AttachInv'  BY ZenonT(40) DEF AttachInv, MoreWorkThanBest, Lowest, Index
       <2>4. HeaviestInv'
             BY HeavierSame, ZenonT(40) DEF HeaviestInv, HeavierFailed, Index
       <2>5. NextPointersExact'  BY Zenon DEF NextPointersExact
       <2>. QED  BY ONLY <2>1, <2>2, <2>3, <2>4, <2>5, <2>6, <2>7 DEF RestInv
<1>. QED  BY <1>1, <1>2, <1>3, <1>4, <1>5, <1>6, <1>7, <1>8, <1>9, <1>10, <1>11, <1>12, <1>13
          DEF Next, Work, DiskFull

(* ChainInv always holds when the disk does not fill up (CheckDiskSpace)   *)
(* and the power fails only while the node runs.                           *)
THEOREM ChainInvAlways ==
    ASSUME ~DiskMayFill, ~LossWhenOff PROVE Spec => []ChainInv
<1>1. ChainInv /\ [Next]_vars => ChainInv'  BY ChainStep
<1>. QED  BY <1>1, InitChain, PTL DEF Spec

(* pnext links exactly the chain of pindexBest. *)
THEOREM NextPointersAlwaysExact ==
    ASSUME ~DiskMayFill, ~LossWhenOff PROVE Spec => []NextPointersExact
<1>1. ChainInv => NextPointersExact  BY DEF ChainInv
<1>. QED  BY <1>1, ChainInvAlways, PTL

(* The coins belong to the best block whenever cs_main is free. *)
THEOREM CoinsAlwaysFollowBest ==
    ASSUME ~DiskMayFill, ~LossWhenOff PROVE Spec => []CoinsFollowBest
<1>1. ChainInv => CoinsFollowBest  BY DEF ChainInv, CoinsInv, CoinsFollowBest
<1>. QED  BY <1>1, ChainInvAlways, PTL

(* A power failure at any point leaves databases the node can start from.  *)
THEOREM AlwaysCrashRecoverable ==
    ASSUME ~DiskMayFill, ~LossWhenOff PROVE Spec => []CrashRecoverable
<1>1. ChainInv => CrashRecoverable
      <2> SUFFICES ASSUME ChainInv, pc # "off", NEW st \in diskStatus, NEW tip \in diskCoins,
                          NEW b \in Chain(tip)
                   PROVE  st[b] # {} /\ ~FailedIn(st, b) /\ (b # Genesis => "undo" \in st[b])
          BY DEF CrashRecoverable, Recoverable
      <2>1. Held(st, tip)  BY Zenon DEF ChainInv, DiskInv
      <2>2. StatusSound(st) /\ tip \in Tips  BY Zenon DEF ChainInv, BaseInv, MarksInv, TypeOK, Tips
      <2>3. Chain(tip) \cap Bad = {}  BY <2>1, Zenon DEF Held
      <2>4. ~FailedIn(st, b)  BY <2>2, <2>3, NoMarkInChain
      <2>. QED  BY <2>1, <2>4, Zenon DEF Held
<1>. QED  BY <1>1, ChainInvAlways, PTL

(* Whenever ProcessBlock is not running, the best block is the heaviest    *)
(* one of the index with a valid chain.                                    *)
THEOREM BestAlwaysHeaviestValid ==
    ASSUME ~DiskMayFill, ~LossWhenOff PROVE Spec => []BestIsHeaviestValid
<1>1. ChainInv => BestIsHeaviestValid
      <2> SUFFICES ASSUME ChainInv, pc = "idle"
                   PROVE  /\ pindexBest # Null /\ ValidChain(pindexBest)
                          /\ \A b \in Index : ValidChain(b) => ChainWork[b] <= ChainWork[pindexBest]
          BY Zenon DEF BestIsHeaviestValid
      <2>1. \A b \in Index : HasFailed(b) => b \in Blocks /\ ~ValidChain(b)
            <3> SUFFICES ASSUME NEW b \in Index, NEW a \in Anc[b], Failed(a)
                         PROVE  b \in Blocks /\ ~ValidChain(b)
                BY Zenon DEF HasFailed, Index
            <3>1. b \in Blocks /\ a \in Blocks  BY AncSelf, Zenon DEF Index
            <3>2. ~ValidChain(a)
                  BY <3>1, Zenon DEF ChainInv, BaseInv, MarksInv, StatusSound, Failed
            <3>. QED  BY <3>1, <3>2, InvalidAbove, Zenon
      <2>2. \A b \in Index : ValidChain(b) => ~MoreWorkThanBest(b)
            BY <2>1, Zenon DEF ChainInv, HeaviestInv, HeavierFailed
      <2>3. Genesis \in Index /\ ValidChain(Genesis)
            BY TreeAssumption, ValidityAssumption DEF ChainInv, CandidatesInv, ValidChain
      <2>4. pindexBest # Null  BY <2>2, <2>3, Zenon DEF MoreWorkThanBest
      <2>5. pindexBest \in Blocks  BY <2>4, Zenon DEF ChainInv, BaseInv, TypeOK
      <2>6. ValidChain(pindexBest)  BY <2>4, Zenon DEF ChainInv, CoinsInv, Held, Chain, ValidChain
      <2>7. \A b \in Index : ValidChain(b) => ChainWork[b] <= ChainWork[pindexBest]
            <3> SUFFICES ASSUME NEW b \in Index, ValidChain(b) PROVE ChainWork[b] <= ChainWork[pindexBest]
                BY Zenon
            <3>1. b \in Blocks /\ ~MoreWorkThanBest(b)  BY <2>2, Zenon DEF Index
            <3>2. ChainWork[b] \in Nat /\ ChainWork[pindexBest] \in Nat
                  BY <2>5, <3>1, WorkAssumption, Zenon
            <3>. QED  BY ONLY <2>4, <3>1, <3>2 DEF MoreWorkThanBest
      <2>. QED  BY <2>4, <2>6, <2>7
<1>. QED  BY <1>1, ChainInvAlways, PTL

(* While the node runs, SetBestChain only ever moves to more work. *)
THEOREM BestWorkAlwaysGrows ==
    ASSUME ~DiskMayFill, ~LossWhenOff PROVE Spec => BestWorkGrows
<1>1. ChainInv /\ [Next]_vars =>
          [pindexBest' # pindexBest /\ pindexBest # Null /\ pindexBest' # Null
           => ChainWork[pindexBest'] > ChainWork[pindexBest]]_vars
      <2> SUFFICES ASSUME ChainInv, [Next]_vars, pindexBest' # pindexBest, pindexBest # Null,
                          pindexBest' # Null
                   PROVE  ChainWork[pindexBest'] > ChainWork[pindexBest]
          OBVIOUS
      <2>1. ASSUME NEW fFlush \in BOOLEAN, SwitchBest(fFlush)
            PROVE  ChainWork[pindexBest'] > ChainWork[pindexBest]
            BY <2>1, Zenon DEF SwitchBest, ChainInv, AttachInv, Lowest, MoreWorkThanBest
      <2>2. CASE Start  BY <2>2, Zenon DEF Start, ChainInv, IndexInv
      <2>3. CASE Shutdown \/ PowerLoss  BY <2>3, Zenon DEF Shutdown, PowerLoss, Forget
      <2>4. ASSUME NEW b \in Blocks, NEW f \in BOOLEAN, ProcessBlock(b, f) PROVE pindexBest' = pindexBest
            BY <2>4, Zenon DEF ProcessBlock, AddToBlockIndex, bestVars
      <2>5. ASSUME NEW o \in Blocks, ProcessOrphan(o) PROVE pindexBest' = pindexBest
            BY <2>5 DEF ProcessOrphan, AddToBlockIndex, bestVars
      <2>6. CASE NextInWorkQueue \/ Accepted \/ NotAccepted
            BY <2>6, Zenon DEF NextInWorkQueue, Accepted, NotAccepted, bestVars
      <2>7. CASE StayWithBest \/ MarkFailedPath \/ AttachPath \/ AttachDone \/ DiskFull
            BY <2>7, Zenon DEF StayWithBest, MarkFailedPath, AttachPath, AttachDone, DiskFull, bestVars
      <2>8. ASSUME NEW t \in Blocks, ConnectBranch(t) PROVE pindexBest' = pindexBest
            BY <2>8, Zenon DEF ConnectBranch, bestVars
      <2>9. ASSUME NEW t \in Blocks, NEW b \in Blocks, RejectBranch(t, b) PROVE pindexBest' = pindexBest
            BY <2>9, Zenon DEF RejectBranch, bestVars
      <2>10. CASE UNCHANGED vars  BY <2>10 DEF vars, bestVars
      <2>. QED  BY <2>1, <2>2, <2>3, <2>4, <2>5, <2>6, <2>7, <2>8, <2>9, <2>10, Zenon DEF Next, Work
<1>. QED  BY <1>1, ChainInvAlways, PTL DEF Spec, BestWorkGrows
=============================================================================
