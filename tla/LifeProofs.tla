----------------------------- MODULE LifeProofs -----------------------------
(***************************************************************************)
(* Proofs about the start and the end of a node (Lifecycle), for any       *)
(* number of blocks in a file, of starts and of kills.                     *)
(***************************************************************************)
EXTENDS Lifecycle, TLAPS

(* The steps of AppInit2 and of the end, in their order. *)
Unopened == {"wallet", "load"}
Opened == {"flag", "index", "genesis", "verify", "loaderror", "loaded", "loadwallet"}
Served == {"import", "peers", "final", "running"}
Ending == {"failed", "joining", "shutdown"}
Everything == {"tree", "coins", "wallet"}

DiskRecord ==
    [total : Nat, index : Nat, flag : BOOLEAN, txindex : BOOLEAN, bad : SUBSET {"index", "coins"}]
ProcRecord ==
    [pc : {"down", "cleaned"} \cup Unopened \cup Opened \cup Served \cup Ending,
     qt : BOOLEAN, requested : BOOLEAN, fReindex : BOOLEAN, fReset : BOOLEAN, arg : BOOLEAN,
     genesis : BOOLEAN, fTxIndex : BOOLEAN, errors : BOOLEAN, up : SUBSET Everything]
ImportRecord == [file : Nat, at : 0 .. PerFile, step : {"none", "reindex", "files"}]

LifeType ==
    /\ disk \in DiskRecord /\ proc \in ProcRecord /\ import \in ImportRecord
    /\ threads \in SUBSET Group /\ torn \in BOOLEAN /\ gaveUp \in BOOLEAN

(* Which threads run and what exists, step by step of the start and of the end. *)
ThreadsPhased ==
    /\ proc.pc = "down" => threads = {}
    /\ proc.pc \in Unopened \cup Opened \cup {"import"} => threads \subseteq {"script"}
    /\ proc.pc \in Opened => {"tree", "coins"} \subseteq proc.up
    /\ proc.pc \in Served => proc.up = Everything
    /\ proc.pc \in Ending => threads \subseteq {"script"} \/ proc.up = Everything
    /\ proc.pc \in {"shutdown", "cleaned"} /\ proc.qt => threads = {}

(* The thread that rebuilds the index has not passed a block the index lacks. *)
RebuildBehind ==
    "import" \in threads /\ import.step = "reindex" /\ ~gaveUp =>
        NextBlock <= disk.index + 1

LifeInv == LifeType /\ ThreadsPhased /\ RebuildBehind /\ ReindexNotLost

(* Block f * PerFile + a + 1 is in file f exactly if a < PerFile. *)
LEMMA InFileIs ==
    ASSUME NEW f \in Nat, NEW a \in 0 .. PerFile
    PROVE  InFile(f * PerFile + a + 1) = f <=> a < PerFile
<1>1. PICK m \in Nat : m = f * PerFile
  BY LifeAssumption
<1>2. CASE a < PerFile
  <2>1. (m + a) \div PerFile = f
    BY <1>1, <1>2, LifeAssumption
  <2> QED BY <1>1, <1>2, <2>1 DEF InFile
<1>3. CASE a = PerFile
  <2>1. (m + PerFile) = (f + 1) * PerFile
    BY <1>1, LifeAssumption
  <2>2. ((f + 1) * PerFile) \div PerFile = f + 1
    BY LifeAssumption
  <2> QED BY <1>1, <1>3, <2>1, <2>2, LifeAssumption DEF InFile
<1> QED BY <1>2, <1>3, LifeAssumption

LEMMA NextBlockType == LifeType => NextBlock \in Nat
<1> SUFFICES ASSUME LifeType PROVE NextBlock \in Nat
  OBVIOUS
<1>1. import.file * PerFile \in Nat
  BY LifeAssumption DEF LifeType, ImportRecord
<1> QED BY <1>1, LifeAssumption DEF LifeType, ImportRecord, NextBlock

(* A step that leaves the import alone and takes no block from the index. *)
LEMMA BehindKept ==
    ASSUME LifeInv, import' = import, threads' \subseteq threads, gaveUp => gaveUp',
           disk'.index \in Nat, disk'.index >= disk.index
    PROVE  RebuildBehind'
<1>1. NextBlock' = NextBlock
  BY DEF NextBlock
<1> QED BY <1>1, NextBlockType DEF LifeInv, LifeType, DiskRecord, RebuildBehind

(* Before any step of the start the process has nothing and runs nothing. *)
LEMMA DownFacts ==
    /\ Down \in ProcRecord /\ NoImport \in ImportRecord
    /\ Down.pc = "down" /\ NoImport.step = "none"
  BY LifeAssumption DEF Down, NoImport, ProcRecord, ImportRecord, Unopened, Opened, Served, Ending,
     Everything

LEMMA LongerFacts ==
    ASSUME NEW d \in DiskRecord
    PROVE  /\ Longer(d) \in DiskRecord /\ Longer(d).flag = d.flag
           /\ Longer(d).total = d.total + 1 /\ Longer(d).index = d.index + 1
<1>1. PICK t \in Nat, i \in Nat : t = d.total + 1 /\ i = d.index + 1
  BY DEF DiskRecord
<1>2. Longer(d) = [d EXCEPT !.total = t, !.index = i]
  BY <1>1 DEF Longer, DiskRecord
<1> QED BY <1>1, <1>2, Zenon DEF DiskRecord

LEMMA LifeInvInit == LifeInit => LifeInv
<1> SUFFICES ASSUME LifeInit PROVE LifeInv
  OBVIOUS
<1>1. LifeType
  BY DownFacts, Zenon DEF LifeInit, LifeType, DiskRecord
<1>2. ThreadsPhased /\ RebuildBehind /\ ReindexNotLost
  BY DownFacts DEF LifeInit, ThreadsPhased, RebuildBehind, ReindexNotLost, Unopened, Opened,
     Served, Ending
<1> QED BY <1>1, <1>2 DEF LifeInv

LEMMA LifeInvStep == LifeInv /\ [LifeNext]_lvars => LifeInv'
<1> SUFFICES ASSUME LifeInv, [LifeNext]_lvars PROVE LifeInv'
  OBVIOUS
<1> USE LifeAssumption DEF LifeInv, LifeType, Unopened, Opened, Served, Ending, Everything, Group,
        Goto
<1>1. ASSUME NEW qt \in BOOLEAN, NEW reindex \in BOOLEAN, NEW arg \in BOOLEAN,
             Start(qt, reindex, arg)
      PROVE  LifeInv'
  <2> USE <1>1 DEF Start
  <2>1. proc' \in ProcRecord /\ proc'.pc = "wallet"
    <3>1. proc' = [Down EXCEPT !.pc = "wallet", !.qt = qt, !.fReindex = reindex, !.arg = arg]
      OBVIOUS
    <3> QED BY <3>1, DownFacts, Zenon DEF ProcRecord
  <2>2. LifeType' /\ ThreadsPhased'
    BY <2>1, DownFacts DEF ThreadsPhased
  <2>3. RebuildBehind'
    BY DEF RebuildBehind
  <2>4. ReindexNotLost'
    BY DEF ReindexNotLost, ProcRecord
  <2> QED BY <2>2, <2>3, <2>4
<1>2. ASSUME NEW t \in Group, ThreadEnds(t) PROVE LifeInv'
  <2> USE <1>2 DEF ThreadEnds
  <2>1. LifeType' /\ ThreadsPhased'
    BY DEF ThreadsPhased
  <2>2. RebuildBehind'
    BY BehindKept DEF DiskRecord
  <2>3. ReindexNotLost'
    BY DEF ReindexNotLost
  <2> QED BY <2>1, <2>2, <2>3
<1>3. CASE VerifyAndBind
  <2> USE <1>3 DEF VerifyAndBind
  <2>1. disk' \in DiskRecord /\ import' \in ImportRecord
    BY DownFacts DEF DiskRecord, ImportRecord, ProcRecord
  <2>2. proc' \in ProcRecord
    BY DownFacts DEF ProcRecord, DiskRecord
  <2>3. ThreadsPhased'
    BY DownFacts DEF ThreadsPhased, ProcRecord
  <2>4. RebuildBehind'
    BY BehindKept DEF DiskRecord
  <2>5. ReindexNotLost'
    BY DownFacts DEF ReindexNotLost, DiskRecord, ProcRecord
  <2> QED BY <2>1, <2>2, <2>3, <2>4, <2>5
<1>4. CASE OpenDatabases
  <2> USE <1>4 DEF OpenDatabases
  <2>1. disk' \in DiskRecord /\ import' \in ImportRecord
    BY DownFacts, Zenon DEF DiskRecord, ImportRecord, ProcRecord
  <2>2. proc' \in ProcRecord
    BY DownFacts, Zenon DEF ProcRecord, DiskRecord
  <2>3. ThreadsPhased'
    BY DownFacts DEF ThreadsPhased, ProcRecord
  <2>4. RebuildBehind'
    BY DEF RebuildBehind, ThreadsPhased
  <2>5. ReindexNotLost'
    BY DownFacts DEF ReindexNotLost, DiskRecord, ProcRecord
  <2> QED BY <2>1, <2>2, <2>3, <2>4, <2>5
<1>5. CASE WriteReindexing
  <2> USE <1>5 DEF WriteReindexing
  <2>1. disk' \in DiskRecord /\ import' \in ImportRecord
    BY DownFacts DEF DiskRecord, ImportRecord, ProcRecord
  <2>2. proc' \in ProcRecord
    BY DownFacts DEF ProcRecord, DiskRecord
  <2>3. ThreadsPhased'
    BY DownFacts DEF ThreadsPhased, ProcRecord
  <2>4. RebuildBehind'
    BY BehindKept DEF DiskRecord
  <2>5. ReindexNotLost'
    BY DownFacts DEF ReindexNotLost, DiskRecord, ProcRecord
  <2> QED BY <2>1, <2>2, <2>3, <2>4, <2>5
<1>6. CASE LoadBlockIndex
  <2> USE <1>6 DEF LoadBlockIndex
  <2>1. /\ proc' \in ProcRecord /\ proc'.pc \in {"genesis", "loaderror"}
        /\ proc'.up = proc.up /\ proc'.qt = proc.qt
    <3>1. CASE proc.fReindex \/ "index" \in disk.bad
      BY <3>1 DEF ProcRecord
    <3>2. CASE ~(proc.fReindex \/ "index" \in disk.bad)
      <4>1. disk.flag \in BOOLEAN /\ disk.txindex \in BOOLEAN /\ (disk.index > 0) \in BOOLEAN
        BY DEF DiskRecord
      <4> QED BY <3>2, <4>1, Zenon DEF ProcRecord
    <3> QED BY <3>1, <3>2
  <2>2. ThreadsPhased'
    BY <2>1 DEF ThreadsPhased
  <2>3. RebuildBehind'
    BY BehindKept DEF DiskRecord
  <2>4. ReindexNotLost'
    BY DEF ReindexNotLost
  <2> QED BY <2>1, <2>2, <2>3, <2>4
<1>7. CASE InitBlockIndex
  <2> USE <1>7 DEF InitBlockIndex
  <2>1. disk' \in DiskRecord /\ (disk'.index < disk'.total => disk.index < disk.total)
                             /\ disk'.flag = disk.flag
    <3>1. CASE disk' = disk
      BY <3>1
    <3>2. CASE disk' = WithGenesis(disk, proc)
      <4>1. CASE proc.genesis
        BY <3>2, <4>1 DEF WithGenesis
      <4>2. CASE ~proc.genesis /\ proc.fReindex
        <5>1. disk' = [disk EXCEPT !.txindex = proc.arg]
          BY <3>2, <4>2 DEF WithGenesis
        <5> QED BY <5>1 DEF DiskRecord, ProcRecord
      <4>3. CASE ~proc.genesis /\ ~proc.fReindex
        <5>1. disk' = [disk EXCEPT !.txindex = proc.arg, !.index = 1, !.total = 1]
          BY <3>2, <4>3 DEF WithGenesis
        <5>2. disk' \in DiskRecord
          BY <5>1, Zenon DEF DiskRecord, ProcRecord
        <5>3. disk'.index = 1 /\ disk'.total = 1 /\ disk'.flag = disk.flag
          BY <5>1 DEF DiskRecord
        <5> QED BY <5>2, <5>3
      <4> QED BY <4>1, <4>2, <4>3
    <3> QED BY <3>1, <3>2
  <2>2. /\ proc' \in ProcRecord /\ proc'.pc \in {"verify", "loaderror"}
        /\ proc'.up = proc.up /\ proc'.qt = proc.qt
    <3>1. CASE proc' = [proc EXCEPT !.pc = "loaderror"]
      BY <3>1 DEF ProcRecord
    <3>2. CASE proc' = [proc EXCEPT !.pc = "verify", !.genesis = @ \/ ~proc.fReindex,
                                    !.fTxIndex = IF proc.genesis THEN @ ELSE proc.arg]
      <4>1. PICK g \in BOOLEAN, x \in BOOLEAN :
                 proc' = [proc EXCEPT !.pc = "verify", !.genesis = g, !.fTxIndex = x]
        BY <3>2, Zenon DEF ProcRecord
      <4> QED BY <4>1, Zenon DEF ProcRecord
    <3> QED BY <3>1, <3>2
  <2>3. ThreadsPhased'
    BY <2>2 DEF ThreadsPhased
  <2>4. RebuildBehind'
    BY DEF RebuildBehind, ThreadsPhased
  <2>5. ReindexNotLost'
    BY <2>1 DEF ReindexNotLost
  <2> QED BY <2>1, <2>2, <2>3, <2>4, <2>5
<1>8. CASE VerifyDB
  <2> USE <1>8 DEF VerifyDB
  <2>1. disk' \in DiskRecord /\ import' \in ImportRecord
    BY DownFacts DEF DiskRecord, ImportRecord, ProcRecord
  <2>2. proc' \in ProcRecord
    BY DownFacts DEF ProcRecord, DiskRecord
  <2>3. ThreadsPhased'
    BY DownFacts DEF ThreadsPhased, ProcRecord
  <2>4. RebuildBehind'
    BY BehindKept DEF DiskRecord
  <2>5. ReindexNotLost'
    BY DownFacts DEF ReindexNotLost, DiskRecord, ProcRecord
  <2> QED BY <2>1, <2>2, <2>3, <2>4, <2>5
<1>9. CASE LoadError
  <2> USE <1>9 DEF LoadError
  <2>1. /\ proc' \in ProcRecord /\ proc'.pc \in {"load", "failed"}
        /\ proc'.up = proc.up /\ proc'.qt = proc.qt
    <3>1. CASE proc' = [proc EXCEPT !.pc = "failed"]
      BY <3>1 DEF ProcRecord
    <3>2. CASE proc' = [proc EXCEPT !.pc = "load", !.fReindex = TRUE, !.requested = FALSE]
      BY <3>2, Zenon DEF ProcRecord
    <3> QED BY <3>1, <3>2
  <2>2. ThreadsPhased'
    BY <2>1 DEF ThreadsPhased
  <2>3. RebuildBehind'
    BY BehindKept DEF DiskRecord
  <2>4. ReindexNotLost'
    BY DEF ReindexNotLost
  <2> QED BY <2>1, <2>2, <2>3, <2>4
<1>10. CASE Loaded
  <2> USE <1>10 DEF Loaded
  <2>1. disk' \in DiskRecord /\ import' \in ImportRecord
    BY DownFacts DEF DiskRecord, ImportRecord, ProcRecord
  <2>2. proc' \in ProcRecord
    BY DownFacts DEF ProcRecord, DiskRecord
  <2>3. ThreadsPhased'
    BY DownFacts DEF ThreadsPhased, ProcRecord
  <2>4. RebuildBehind'
    BY BehindKept DEF DiskRecord
  <2>5. ReindexNotLost'
    BY DownFacts DEF ReindexNotLost, DiskRecord, ProcRecord
  <2> QED BY <2>1, <2>2, <2>3, <2>4, <2>5
<1>11. CASE LoadWallet
  <2> USE <1>11 DEF LoadWallet
  <2>1. /\ proc' \in ProcRecord /\ proc'.pc \in {"import", "failed"}
        /\ proc'.up = proc.up \cup {"wallet"} /\ proc'.qt = proc.qt
    <3>1. CASE proc' = [proc EXCEPT !.pc = "import", !.up = @ \cup {"wallet"}]
      BY <3>1, Zenon DEF ProcRecord
    <3>2. CASE proc' = [proc EXCEPT !.pc = "import", !.up = @ \cup {"wallet"}, !.errors = TRUE]
      BY <3>2, Zenon DEF ProcRecord
    <3>3. CASE proc' = [proc EXCEPT !.pc = "failed", !.up = @ \cup {"wallet"}]
      BY <3>3, Zenon DEF ProcRecord
    <3> QED BY <3>1, <3>2, <3>3
  <2>2. ThreadsPhased'
    BY <2>1 DEF ThreadsPhased, ProcRecord
  <2>3. RebuildBehind'
    BY BehindKept DEF DiskRecord
  <2>4. ReindexNotLost'
    BY DEF ReindexNotLost
  <2> QED BY <2>1, <2>2, <2>3, <2>4
<1>12. CASE StartImport
  <2> USE <1>12 DEF StartImport
  <2>1. proc' \in ProcRecord /\ proc'.pc = "peers" /\ proc'.up = proc.up /\ proc'.qt = proc.qt
    <3>1. CASE proc' = [proc EXCEPT !.pc = "peers"]
      BY <3>1 DEF ProcRecord
    <3>2. CASE proc' = [proc EXCEPT !.pc = "peers", !.errors = TRUE]
      BY <3>2, Zenon DEF ProcRecord
    <3> QED BY <3>1, <3>2
  <2>2. import' \in ImportRecord /\ NextBlock' = 1
    <3>1. import'.file = 0 /\ import'.at = 0 /\ import' \in ImportRecord
      BY DEF ImportRecord
    <3> QED BY <3>1 DEF NextBlock
  <2>3. ThreadsPhased'
    BY <2>1 DEF ThreadsPhased
  <2>4. RebuildBehind'
    BY <2>2 DEF RebuildBehind, DiskRecord
  <2>5. ReindexNotLost'
    BY DEF ReindexNotLost
  <2> QED BY <2>1, <2>2, <2>3, <2>4, <2>5
<1>13. CASE StartNode
  <2> USE <1>13 DEF StartNode
  <2>1. disk' \in DiskRecord /\ import' \in ImportRecord
    BY DownFacts DEF DiskRecord, ImportRecord, ProcRecord
  <2>2. proc' \in ProcRecord
    BY DownFacts DEF ProcRecord, DiskRecord
  <2>3. ThreadsPhased'
    BY DownFacts DEF ThreadsPhased, ProcRecord
  <2>4. RebuildBehind'
    BY NextBlockType DEF RebuildBehind, NextBlock, ThreadsPhased
  <2>5. ReindexNotLost'
    BY DownFacts DEF ReindexNotLost, DiskRecord, ProcRecord
  <2> QED BY <2>1, <2>2, <2>3, <2>4, <2>5
<1>14. CASE Finish
  <2> USE <1>14 DEF Finish
  <2>1. disk' \in DiskRecord /\ import' \in ImportRecord
    BY DownFacts DEF DiskRecord, ImportRecord, ProcRecord
  <2>2. proc' \in ProcRecord
    BY DownFacts DEF ProcRecord, DiskRecord
  <2>3. ThreadsPhased'
    BY DownFacts DEF ThreadsPhased, ProcRecord
  <2>4. RebuildBehind'
    BY NextBlockType DEF RebuildBehind, NextBlock, ThreadsPhased
  <2>5. ReindexNotLost'
    BY DownFacts DEF ReindexNotLost, DiskRecord, ProcRecord
  <2> QED BY <2>1, <2>2, <2>3, <2>4, <2>5
<1>15. CASE InterruptAll
  <2> USE <1>15 DEF InterruptAll
  <2>1. disk' \in DiskRecord /\ import' \in ImportRecord
    BY DownFacts DEF DiskRecord, ImportRecord, ProcRecord
  <2>2. proc' \in ProcRecord
    BY DownFacts DEF ProcRecord, DiskRecord
  <2>3. ThreadsPhased'
    BY DownFacts DEF ThreadsPhased, ProcRecord
  <2>4. RebuildBehind'
    BY BehindKept DEF DiskRecord
  <2>5. ReindexNotLost'
    BY DownFacts DEF ReindexNotLost, DiskRecord, ProcRecord
  <2> QED BY <2>1, <2>2, <2>3, <2>4, <2>5
<1>16. CASE JoinAll
  <2> USE <1>16 DEF JoinAll
  <2>1. disk' \in DiskRecord /\ import' \in ImportRecord
    BY DownFacts DEF DiskRecord, ImportRecord, ProcRecord
  <2>2. proc' \in ProcRecord
    BY DownFacts DEF ProcRecord, DiskRecord
  <2>3. ThreadsPhased'
    BY DownFacts DEF ThreadsPhased, ProcRecord
  <2>4. RebuildBehind'
    BY BehindKept DEF DiskRecord
  <2>5. ReindexNotLost'
    BY DownFacts DEF ReindexNotLost, DiskRecord, ProcRecord
  <2> QED BY <2>1, <2>2, <2>3, <2>4, <2>5
<1>17. CASE Shutdown
  <2>1. CASE proc' = Down /\ threads' = {} /\ import' = NoImport /\ UNCHANGED <<disk, torn, gaveUp>>
             /\ proc.pc = "cleaned"
    <3>1. LifeType' /\ ThreadsPhased'
      BY <2>1, DownFacts DEF ThreadsPhased
    <3>2. RebuildBehind'
      BY <2>1 DEF RebuildBehind
    <3>3. ReindexNotLost'
      BY <2>1 DEF ReindexNotLost
    <3> QED BY <3>1, <3>2, <3>3
  <2>2. CASE /\ proc.pc = "shutdown"
             /\ proc' = [proc EXCEPT !.pc = "cleaned", !.up = @ \ {"tree", "coins"}]
             /\ UNCHANGED <<disk, import, threads, torn, gaveUp>>
    <3>1. proc' \in ProcRecord /\ proc'.pc = "cleaned" /\ proc'.qt = proc.qt
      BY <2>2, Zenon DEF ProcRecord
    <3>2. LifeType' /\ ThreadsPhased'
      BY <2>2, <3>1 DEF ThreadsPhased
    <3>3. RebuildBehind'
      BY <2>2, BehindKept DEF DiskRecord
    <3>4. ReindexNotLost'
      BY <2>2 DEF ReindexNotLost
    <3> QED BY <3>2, <3>3, <3>4
  <2> QED BY <1>17, <2>1, <2>2 DEF Shutdown
<1>18. CASE RequestShutdown
  <2> USE <1>18 DEF RequestShutdown
  <2>1. disk' \in DiskRecord /\ import' \in ImportRecord
    BY DownFacts DEF DiskRecord, ImportRecord, ProcRecord
  <2>2. proc' \in ProcRecord
    BY DownFacts, Zenon DEF ProcRecord, DiskRecord
  <2>3. ThreadsPhased'
    BY DownFacts DEF ThreadsPhased, ProcRecord
  <2>4. RebuildBehind'
    BY BehindKept DEF DiskRecord
  <2>5. ReindexNotLost'
    BY DownFacts DEF ReindexNotLost, DiskRecord, ProcRecord
  <2> QED BY <2>1, <2>2, <2>3, <2>4, <2>5
<1>19. CASE Crash
  <2> USE <1>19 DEF Crash, Fault
  <2>1. disk' \in DiskRecord /\ import' \in ImportRecord
    BY DownFacts DEF DiskRecord, ImportRecord, ProcRecord
  <2>2. proc' \in ProcRecord
    BY DownFacts DEF ProcRecord, DiskRecord
  <2>3. ThreadsPhased'
    BY DownFacts DEF ThreadsPhased, ProcRecord
  <2>4. RebuildBehind'
    BY DEF RebuildBehind
  <2>5. ReindexNotLost'
    BY DownFacts DEF ReindexNotLost, DiskRecord, ProcRecord
  <2> QED BY <2>1, <2>2, <2>3, <2>4, <2>5
<1>20. CASE ImportBlock
  <2> USE <1>20 DEF ImportBlock
  <2>1. /\ import.file \in Nat /\ import.at \in 0 .. PerFile /\ NextBlock \in Nat
        /\ import.at < PerFile /\ disk.index \in Nat /\ disk.total \in Nat
    BY InFileIs, NextBlockType DEF NextBlock, ImportRecord, DiskRecord
  <2>2. CASE /\ disk' = [disk EXCEPT !.index = IF @ = NextBlock - 1 THEN NextBlock ELSE @]
             /\ import' = [import EXCEPT !.at = @ + 1]
             /\ proc' = [proc EXCEPT !.genesis = TRUE]
             /\ UNCHANGED gaveUp
    <3>1. proc' \in ProcRecord /\ proc'.pc = proc.pc /\ proc'.up = proc.up /\ proc'.qt = proc.qt
                               /\ proc'.fReindex = proc.fReindex
      BY <2>2, Zenon DEF ProcRecord
    <3>2. import' \in ImportRecord /\ import'.file = import.file /\ import'.at = import.at + 1
      BY <2>1, <2>2 DEF ImportRecord
    <3>3. NextBlock' = NextBlock + 1
      <4>1. import.file * PerFile \in Nat
        BY <2>1
      <4> QED BY <2>1, <3>2, <4>1 DEF NextBlock
    <3>4. PICK i \in Nat : i = (IF disk.index = NextBlock - 1 THEN NextBlock ELSE disk.index)
      BY <2>1
    <3>5. disk' = [disk EXCEPT !.index = i]
      BY <2>2, <3>4
    <3>6. disk' \in DiskRecord /\ disk'.index = i /\ disk'.flag = disk.flag /\ disk'.total = disk.total
      BY <3>5 DEF DiskRecord
    <3>7. ThreadsPhased'
      BY <3>1 DEF ThreadsPhased
    <3>8. RebuildBehind'
      BY <2>1, <2>2, <3>3, <3>4, <3>6 DEF RebuildBehind
    <3>9. ReindexNotLost'
      BY <2>1, <2>2, <3>1, <3>4, <3>6 DEF ReindexNotLost
    <3> QED BY <2>2, <3>1, <3>2, <3>6, <3>7, <3>8, <3>9
  <2>3. CASE /\ gaveUp' = TRUE /\ UNCHANGED disk
             /\ proc' = [proc EXCEPT !.requested = TRUE]
             /\ import' = [import EXCEPT !.file = @ + 1, !.at = 0]
    <3>1. proc' \in ProcRecord /\ proc'.pc = proc.pc /\ proc'.up = proc.up /\ proc'.qt = proc.qt
      BY <2>3, Zenon DEF ProcRecord
    <3>2. import' \in ImportRecord
      <4>1. PICK f \in Nat, z \in 0 .. PerFile : f = import.file + 1 /\ z = 0
        BY <2>1, LifeAssumption
      <4>2. import' = [import EXCEPT !.file = f, !.at = z]
        BY <2>3, <4>1
      <4> QED BY <4>2, Zenon DEF ImportRecord
    <3>3. ThreadsPhased'
      BY <3>1 DEF ThreadsPhased
    <3> QED BY <2>3, <3>1, <3>2, <3>3 DEF RebuildBehind, ReindexNotLost
  <2> QED BY <2>2, <2>3, Zenon
<1>21. CASE NextFile
  <2> USE <1>21 DEF NextFile
  <2>1. import.file \in Nat /\ import.at \in 0 .. PerFile /\ import.at = PerFile
    BY InFileIs DEF NextBlock, ImportRecord
  <2>2. import' \in ImportRecord /\ import'.file = import.file + 1 /\ import'.at = 0
                                 /\ import'.step = import.step
    <3>1. PICK f \in Nat, z \in 0 .. PerFile : f = import.file + 1 /\ z = 0
      BY <2>1, LifeAssumption
    <3>2. import' = [import EXCEPT !.file = f, !.at = z]
      BY <3>1
    <3>3. import' \in ImportRecord /\ import'.file = f /\ import'.at = z /\ import'.step = import.step
      BY <3>2, Zenon DEF ImportRecord
    <3> QED BY <3>1, <3>3
  <2>3. NextBlock' = NextBlock
    <3>1. (import.file + 1) * PerFile = import.file * PerFile + PerFile /\ import.file * PerFile \in Nat
      BY <2>1
    <3> QED BY <2>1, <2>2, <3>1 DEF NextBlock
  <2>4. ThreadsPhased'
    BY DEF ThreadsPhased
  <2>5. RebuildBehind' /\ ReindexNotLost'
    BY <2>2, <2>3 DEF RebuildBehind, ReindexNotLost
  <2> QED BY <2>2, <2>4, <2>5
<1>22. CASE ReindexDone
  <2> USE <1>22 DEF ReindexDone, WithGenesis
  <2>1. disk' \in DiskRecord /\ import' \in ImportRecord
    BY DownFacts, Zenon DEF DiskRecord, ImportRecord, ProcRecord
  <2>2. proc' \in ProcRecord
    BY DownFacts, Zenon DEF ProcRecord, DiskRecord
  <2>3. ThreadsPhased'
    BY DownFacts DEF ThreadsPhased, ProcRecord
  <2>4. RebuildBehind'
    BY NextBlockType DEF RebuildBehind, NextBlock, ThreadsPhased
  <2>5. ReindexNotLost'
    BY NextBlockType DEF ReindexNotLost, DiskRecord, ProcRecord, RebuildBehind
  <2> QED BY <2>1, <2>2, <2>3, <2>4, <2>5
<1>23. CASE ImportFiles
  <2> USE <1>23 DEF ImportFiles
  <2>1. disk' \in DiskRecord /\ disk'.index >= disk.index /\ disk'.flag = disk.flag
                             /\ (disk'.index < disk'.total => disk.index < disk.total)
    BY LongerFacts DEF DiskRecord
  <2>2. threads' \subseteq threads
    OBVIOUS
  <2>3. ThreadsPhased'
    BY <2>2 DEF ThreadsPhased
  <2>4. RebuildBehind'
    BY <2>1, <2>2, BehindKept DEF DiskRecord
  <2>5. ReindexNotLost'
    BY <2>1 DEF ReindexNotLost
  <2> QED BY <2>1, <2>2, <2>3, <2>4, <2>5
<1>24. CASE ReceiveBlock
  <2> USE <1>24 DEF ReceiveBlock
  <2>1. disk' \in DiskRecord /\ disk'.index >= disk.index /\ disk'.flag = disk.flag
                             /\ (disk'.index < disk'.total => disk.index < disk.total)
    BY LongerFacts DEF DiskRecord
  <2>2. ThreadsPhased'
    BY DEF ThreadsPhased
  <2>3. RebuildBehind'
    BY <2>1, BehindKept DEF DiskRecord
  <2>4. ReindexNotLost'
    BY <2>1 DEF ReindexNotLost
  <2> QED BY <2>1, <2>2, <2>3, <2>4
<1>25. CASE UNCHANGED lvars
  BY <1>25 DEF lvars, ThreadsPhased, RebuildBehind, ReindexNotLost, NextBlock
<1> QED
  BY <1>1, <1>2, <1>3, <1>4, <1>5, <1>6, <1>7, <1>8, <1>9, <1>10, <1>11, <1>12, <1>13, <1>14, <1>15, <1>16, <1>17, <1>18, <1>19, <1>20, <1>21, <1>22, <1>23, <1>24, <1>25 DEF LifeNext, MainStep

(* What the phases say of the objects a thread uses. *)
LEMMA PhasesKeepLive == LifeInv => ThreadsUseLive
<1> SUFFICES ASSUME LifeInv, NEW t \in threads
             PROVE  Uses[t] \subseteq proc.up \/ (~proc.qt /\ proc.pc = "cleaned")
  BY DEF ThreadsUseLive
<1> USE DEF LifeInv, LifeType, Unopened, Opened, Served, Ending, Everything
<1>1. t \in Group /\ Uses[t] \subseteq Everything /\ (t = "script" => Uses[t] = {})
  BY DEF Group, Uses
<1>2. CASE t = "script"
  BY <1>1, <1>2
<1>3. CASE proc.up = Everything
  BY <1>1, <1>3
<1>4. CASE t # "script" /\ proc.up # Everything
  <2>1. ~(threads \subseteq {"script"})
    BY <1>4
  <2>2. proc.pc = "cleaned" /\ ~proc.qt
    BY <1>4, <2>1 DEF ThreadsPhased, ProcRecord
  <2> QED BY <2>2
<1> QED BY <1>2, <1>3, <1>4

(* For any number of blocks in a file, of starts and of crashes: the threads of the
   group only run while what they work with exists (AppInit2, Shutdown), and a rebuild of
   the block index that was cut short stays on record (LoadBlockIndex, ThreadImport). *)
THEOREM LifecycleAlwaysSafe == LifeSpec => []LifecycleSafe
<1>1. LifeInit => LifeInv
  BY LifeInvInit
<1>2. LifeInv /\ [LifeNext]_lvars => LifeInv'
  BY LifeInvStep
<1>3. LifeInv => LifecycleSafe
  BY PhasesKeepLive DEF LifeInv, LifecycleSafe
<1> QED BY <1>1, <1>2, <1>3, PTL DEF LifeSpec
=============================================================================
