------------------------------ MODULE Lifecycle ------------------------------
(***************************************************************************)
(* A node from its start to its end (init.cpp: AppInit, AppInit2,          *)
(* ThreadImport, Shutdown; qt/primecoin.cpp: main; main.cpp:               *)
(* LoadBlockIndex, InitBlockIndex, VerifyDB; net.cpp: StartNode), over     *)
(* several runs of the program on one data directory.                      *)
(*                                                                         *)
(* disk.total blocks are in the block files, PerFile to a file; the first  *)
(* disk.index of them are in the block database, flag is its "reindexing"  *)
(* record and txindex its record of -txindex.  bad holds what is damaged.  *)
(* proc.up is what the process has allocated.  threads are the members of  *)
(* the thread group that run, and interrupted those asked to end.  torn    *)
(* and gaveUp record two events that properties speak of.                  *)
(***************************************************************************)
EXTENDS Integers, FiniteSets

CONSTANTS PerFile, MaxBlocks,
          MaxStarts, MaxDamage         \* bounds on the starts and on what goes wrong

ASSUME LifeAssumption == PerFile \in Nat \ {0}

VARIABLES disk, proc, import, threads, interrupted, torn, gaveUp, starts, damage

lvars == <<disk, proc, import, threads, interrupted, torn, gaveUp, starts, damage>>

Group == {"script", "import", "net", "flush"}

\* The objects a thread works with.
Uses == [t \in Group |-> CASE t = "script" -> {} [] t = "flush" -> {"wallet"}
                           [] OTHER -> {"tree", "coins", "wallet"}]

Down == [pc |-> "down", qt |-> FALSE, requested |-> FALSE, fReindex |-> FALSE, fReset |-> FALSE,
         arg |-> FALSE, genesis |-> FALSE, fTxIndex |-> FALSE, errors |-> FALSE, up |-> {}]

NoImport == [file |-> 0, at |-> 0, step |-> "none"]

LifeInit ==
    /\ disk = [total |-> 0, index |-> 0, flag |-> FALSE, txindex |-> FALSE, bad |-> {}]
    /\ proc = Down /\ import = NoImport
    /\ threads = {} /\ interrupted = {}
    /\ torn = FALSE /\ gaveUp = FALSE
    /\ starts = 0 /\ damage = 0

Fault == damage < MaxDamage /\ damage' = damage + 1

Goto(pc) == proc' = [proc EXCEPT !.pc = pc]

-----------------------------------------------------------------------------
(* AppInit2, one action per step; a step may fail.                         *)

\* Steps 1 to 4: parameters, the lock of the data directory, the script threads.
Start(qt, reindex, arg) ==
    /\ proc.pc = "down" /\ starts < MaxStarts
    /\ starts' = starts + 1
    /\ proc' = [Down EXCEPT !.pc = "wallet", !.qt = qt, !.fReindex = reindex, !.arg = arg]
    /\ threads' = {"script"}
    /\ interrupted' = {} /\ import' = NoImport
    /\ UNCHANGED <<disk, torn, gaveUp, damage>>

\* Steps 5 and 6: the wallet's environment is verified, the ports are bound.
VerifyAndBind ==
    /\ proc.pc = "wallet"
    /\ \/ Goto("load") /\ UNCHANGED damage
       \/ Fault /\ Goto("failed")
    /\ UNCHANGED <<disk, import, threads, interrupted, torn, gaveUp, starts>>

\* Step 7: the databases are opened, and emptied to be built again.
OpenDatabases ==
    /\ proc.pc = "load"
    /\ proc' = [proc EXCEPT !.pc = "flag", !.fReset = proc.fReindex, !.genesis = FALSE,
                            !.up = {"tree", "coins"}]
    /\ disk' = IF proc.fReindex THEN [disk EXCEPT !.index = 0, !.flag = FALSE, !.txindex = FALSE, !.bad = {}]
               ELSE disk
    /\ gaveUp' = (gaveUp /\ ~proc.fReindex)
    /\ UNCHANGED <<import, threads, interrupted, torn, starts, damage>>

(* The variant does not record the rebuild. *)
SkipReindexing ==
    /\ proc.pc = "flag"
    /\ torn' = (torn /\ ~proc.fReindex)
    /\ Goto("index")
    /\ UNCHANGED <<disk, import, threads, interrupted, gaveUp, starts, damage>>

WriteReindexing ==
    /\ proc.pc = "flag"
    /\ disk' = [disk EXCEPT !.flag = @ \/ proc.fReindex]
    /\ torn' = (torn /\ ~proc.fReindex)
    /\ Goto("index")
    /\ UNCHANGED <<import, threads, interrupted, gaveUp, starts, damage>>

\* LoadBlockIndex: nothing is read while reindexing.
LoadBlockIndex ==
    /\ proc.pc = "index"
    /\ proc' = IF proc.fReindex THEN [proc EXCEPT !.pc = "genesis"]
               ELSE IF "index" \in disk.bad THEN [proc EXCEPT !.pc = "loaderror"]
               ELSE [proc EXCEPT !.pc = "genesis", !.fReindex = disk.flag,
                                 !.fTxIndex = disk.txindex, !.genesis = disk.index > 0]
    /\ UNCHANGED <<disk, import, threads, interrupted, torn, gaveUp, starts, damage>>

\* InitBlockIndex on d: the genesis block begins the first block file.
WithGenesis(d, p) ==
    IF p.genesis THEN d
    ELSE IF p.fReindex THEN [d EXCEPT !.txindex = p.arg]
    ELSE [d EXCEPT !.txindex = p.arg, !.index = 1, !.total = 1]

InitBlockIndex ==
    /\ proc.pc = "genesis"
    /\ \/ /\ disk' = WithGenesis(disk, proc)
          /\ proc' = [proc EXCEPT !.pc = "verify", !.genesis = @ \/ ~proc.fReindex,
                                  !.fTxIndex = IF proc.genesis THEN @ ELSE proc.arg]
          /\ UNCHANGED damage
       \/ ~proc.genesis /\ ~proc.fReindex /\ Fault /\ Goto("loaderror") /\ UNCHANGED disk
    /\ UNCHANGED <<import, threads, interrupted, torn, gaveUp, starts>>

\* VerifyDB: the last blocks are read, checked and disconnected in memory.
VerifyDB ==
    /\ proc.pc = "verify"
    /\ Goto(IF disk.index > 1 /\ "coins" \in disk.bad THEN "loaderror" ELSE "loaded")
    /\ UNCHANGED <<disk, import, threads, interrupted, torn, gaveUp, starts, damage>>

\* The user is asked, unless the databases were just emptied; yes forgets a request to
\* shut down.
LoadError ==
    /\ proc.pc = "loaderror"
    /\ \/ ~proc.fReset /\ proc' = [proc EXCEPT !.pc = "load", !.fReindex = TRUE, !.requested = FALSE]
       \/ Goto("failed")
    /\ UNCHANGED <<disk, import, threads, interrupted, torn, gaveUp, starts, damage>>

Loaded ==
    /\ proc.pc = "loaded"
    /\ Goto(IF (proc.arg /\ ~proc.fTxIndex) \/ proc.requested THEN "failed" ELSE "loadwallet")
    /\ UNCHANGED <<disk, import, threads, interrupted, torn, gaveUp, starts, damage>>

\* Step 8: the wallet is loaded, registered and rescanned; one that was rewritten has
\* to be loaded again by the next start.
LoadWallet ==
    /\ proc.pc = "loadwallet"
    /\ \/ proc' = [proc EXCEPT !.pc = "import", !.up = @ \cup {"wallet"}] /\ UNCHANGED damage
       \/ Fault /\ proc' = [proc EXCEPT !.pc = "import", !.up = @ \cup {"wallet"}, !.errors = TRUE]
       \/ Fault /\ proc' = [proc EXCEPT !.pc = "failed", !.up = @ \cup {"wallet"}]
    /\ UNCHANGED <<disk, import, threads, interrupted, torn, gaveUp, starts>>

\* Step 9: ConnectBestBlock, and the thread that imports.
StartImport ==
    /\ proc.pc = "import"
    /\ threads' = threads \cup {"import"}
    /\ import' = [file |-> 0, at |-> 0, step |-> IF proc.fReindex THEN "reindex" ELSE "files"]
    /\ \/ Goto("peers") /\ UNCHANGED damage
       \/ Fault /\ proc' = [proc EXCEPT !.pc = "peers", !.errors = TRUE]
    /\ UNCHANGED <<disk, interrupted, torn, gaveUp, starts>>

\* Steps 10 and 11: CheckDiskSpace, the errors so far, StartNode.
StartNode ==
    /\ proc.pc = "peers"
    /\ \/ ~proc.errors /\ Goto("final") /\ threads' = threads \cup {"net"} /\ UNCHANGED damage
       \/ proc.errors /\ Goto("failed") /\ UNCHANGED <<threads, damage>>
       \/ Fault /\ Goto("failed") /\ UNCHANGED threads
    /\ UNCHANGED <<disk, import, interrupted, torn, gaveUp, starts>>

\* Step 12.
Finish ==
    /\ proc.pc = "final"
    /\ threads' = threads \cup {"flush"}
    /\ Goto(IF proc.requested THEN "failed" ELSE "running")
    /\ UNCHANGED <<disk, import, interrupted, torn, gaveUp, starts, damage>>

-----------------------------------------------------------------------------
(* The end.  The window joins the thread group; AppInit joins only the     *)
(* thread that waits for the request.                                      *)

\* SIGTERM, StartShutdown.
RequestShutdown ==
    /\ proc.pc # "down" /\ ~proc.requested
    /\ proc' = [proc EXCEPT !.requested = TRUE]
    /\ UNCHANGED <<disk, import, threads, interrupted, torn, gaveUp, starts, damage>>

(* The variant does not interrupt the network's threads. *)
InterruptOthers ==
    /\ proc.pc = "failed" \/ (proc.pc = "running" /\ proc.requested)
    /\ interrupted' = threads \ {"net"}
    /\ Goto("joining")
    /\ UNCHANGED <<disk, import, threads, torn, gaveUp, starts, damage>>

\* DetectShutdownThread, or the window's timer: interrupt_all; also after a failure.
InterruptAll ==
    /\ proc.pc = "failed" \/ (proc.pc = "running" /\ proc.requested)
    /\ interrupted' = threads
    /\ Goto("joining")
    /\ UNCHANGED <<disk, import, threads, torn, gaveUp, starts, damage>>

JoinAll ==
    /\ proc.pc = "joining"
    /\ proc.qt => threads = {}
    /\ Goto("shutdown")
    /\ UNCHANGED <<disk, import, threads, interrupted, torn, gaveUp, starts, damage>>

\* Shutdown: flushed and deleted under cs_main, then the wallet.
Shutdown ==
    \/ /\ proc.pc = "shutdown"
       /\ proc' = [proc EXCEPT !.pc = "cleaned", !.up = @ \ {"tree", "coins"}]
       /\ UNCHANGED <<disk, import, threads, interrupted, torn, gaveUp, starts, damage>>
    \/ /\ proc.pc = "cleaned"
       /\ proc' = Down /\ threads' = {} /\ interrupted' = {} /\ import' = NoImport
       /\ UNCHANGED <<disk, torn, gaveUp, starts, damage>>

ThreadEnds(t) ==
    /\ t \in threads \cap interrupted
    /\ threads' = threads \ {t} /\ interrupted' = interrupted \ {t}
    /\ UNCHANGED <<disk, proc, import, torn, gaveUp, starts, damage>>

\* The process dies, and damage may be left behind.
Crash ==
    /\ proc.pc # "down" /\ Fault
    /\ torn' = (torn \/ (proc.pc = "flag" /\ proc.fReindex))
    /\ proc' = Down /\ threads' = {} /\ interrupted' = {} /\ import' = NoImport
    /\ \E b \in SUBSET {"index", "coins"} :
          disk' = [disk EXCEPT !.bad = IF disk.index > 1 THEN @ \cup b ELSE @]
    /\ UNCHANGED <<gaveUp, starts>>

-----------------------------------------------------------------------------
(* ThreadImport and the network.  A block whose parent is not indexed is   *)
(* an orphan.                                                              *)

InFile(b) == (b - 1) \div PerFile

\* The block that the import reads next.
NextBlock == import.file * PerFile + import.at + 1

\* A new block at the end of the last file.
Longer(d) == [d EXCEPT !.total = @ + 1, !.index = @ + 1]

\* The next block of the file is read; an error of the system requests the shutdown and
\* ends the file.
ImportBlock ==
    /\ "import" \in threads /\ import.step = "reindex"
    /\ NextBlock <= disk.total /\ InFile(NextBlock) = import.file
    /\ \/ /\ disk' = [disk EXCEPT !.index = IF @ = NextBlock - 1 THEN NextBlock ELSE @]
          /\ import' = [import EXCEPT !.at = @ + 1]
          /\ proc' = [proc EXCEPT !.genesis = TRUE]
          /\ UNCHANGED <<gaveUp, damage>>
       \/ /\ Fault /\ gaveUp' = TRUE
          /\ proc' = [proc EXCEPT !.requested = TRUE]
          /\ import' = [import EXCEPT !.file = @ + 1, !.at = 0]
          /\ UNCHANGED disk
    /\ UNCHANGED <<threads, interrupted, torn, starts>>

NextFile ==
    /\ "import" \in threads /\ import.step = "reindex"
    /\ InFile(NextBlock) # import.file
    /\ import' = [import EXCEPT !.file = @ + 1, !.at = 0]
    /\ UNCHANGED <<disk, proc, threads, interrupted, torn, gaveUp, starts, damage>>

\* No more files: the record is cleared, and a genesis block made if there is none.
ReindexDone ==
    /\ "import" \in threads /\ import.step = "reindex"
    /\ NextBlock > disk.total
    /\ LET p == [proc EXCEPT !.fReindex = FALSE] IN
       /\ disk' = WithGenesis([disk EXCEPT !.flag = FALSE], p)
       /\ proc' = [p EXCEPT !.genesis = TRUE]
    /\ import' = [import EXCEPT !.step = "files"]
    /\ UNCHANGED <<threads, interrupted, torn, gaveUp, starts, damage>>

\* bootstrap.dat and -loadblock: blocks that are new; then the thread is done.
ImportFiles ==
    /\ "import" \in threads /\ import.step = "files"
    /\ \/ /\ disk.total < MaxBlocks /\ disk.index = disk.total
          /\ disk' = Longer(disk)
          /\ UNCHANGED <<threads, interrupted>>
       \/ threads' = threads \ {"import"} /\ interrupted' = interrupted \ {"import"} /\ UNCHANGED disk
    /\ UNCHANGED <<proc, import, torn, gaveUp, starts, damage>>

\* The message handler accepts a block; not while a reindex is going on.
ReceiveBlock ==
    /\ "net" \in threads /\ ~proc.fReindex
    /\ disk.total < MaxBlocks /\ disk.index = disk.total
    /\ disk' = Longer(disk)
    /\ UNCHANGED <<proc, import, threads, interrupted, torn, gaveUp, starts, damage>>

MainStep ==
    \/ VerifyAndBind \/ OpenDatabases \/ WriteReindexing \/ LoadBlockIndex \/ InitBlockIndex
    \/ VerifyDB \/ LoadError \/ Loaded \/ LoadWallet \/ StartImport \/ StartNode \/ Finish
    \/ InterruptAll \/ JoinAll \/ Shutdown

LifeNext ==
    \/ \E qt, reindex, arg \in BOOLEAN : Start(qt, reindex, arg)
    \/ MainStep
    \/ RequestShutdown
    \/ \E t \in Group : ThreadEnds(t)
    \/ Crash
    \/ ImportBlock \/ NextFile \/ ReindexDone \/ ImportFiles
    \/ ReceiveBlock

LifeSpec ==
    /\ LifeInit /\ [][LifeNext]_lvars
    /\ WF_lvars(MainStep)
    /\ \A t \in Group : WF_lvars(ThreadEnds(t))

-----------------------------------------------------------------------------

\* No thread of the group runs without the objects it works with: they exist before it
\* is created, through a second attempt to load the databases, and until it has ended.
\* The window joins the group before Shutdown; the daemon does not, and there the
\* property says only that they exist until Shutdown begins.
ThreadsUseLive ==
    \A t \in threads : Uses[t] \subseteq proc.up \/ (~proc.qt /\ proc.pc = "cleaned")

\* A rebuild of the block database that was interrupted is continued ("Check whether we
\* need to continue reindexing"): whenever blocks of the block files are missing from
\* the database its record of the rebuild is set, through any number of crashes and
\* starts.  Two events are excepted: a crash between the emptying of the databases and
\* the record, and an error of the system during the rebuild, after which ThreadImport
\* goes on to clear the record.
ReindexNotLost ==
    disk.index < disk.total =>
        disk.flag \/ (proc.pc = "flag" /\ proc.fReindex) \/ torn \/ gaveUp

\* Starting, importing, reindexing and stopping in any order, killed at any moment:
\* no thread uses what has been taken down, and an index that has to be rebuilt is
\* not taken for complete (AppInit2, ThreadImport, Shutdown).
LifecycleSafe == ThreadsUseLive /\ ReindexNotLost

\* A request to shut down is answered, in whatever step of the start it comes: the
\* process ends, or the user has chosen to rebuild the databases instead.
ShutdownCompletes == proc.requested ~> (~proc.requested \/ proc.pc = "down")

=============================================================================
