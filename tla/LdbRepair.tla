----------------------------- MODULE LdbRepair -----------------------------
(***************************************************************************)
(* leveldb's repair of a database whose descriptor is lost (db/repair.cc):   *)
(* logs become tables, every table is scanned, and a new descriptor lists   *)
(* them all at level 0.  What cannot be used is moved to the directory lost/. *)
(* The repair itself may fail or crash, and is then run again.              *)
(*                                                                         *)
(* An entry is its sequence number; a file is the set of its entries, and    *)
(* whether it can be read.                                                  *)
(***************************************************************************)
EXTENDS Integers, Sequences, FiniteSets, SequencesExt, FiniteSetsExt

CONSTANTS Logs0, Tables0,   \* number -> [entries, ok]: the files that are left
          MaxRuns,          \* bound: how often the repair is started
          MaxErrors         \* bound: calls of the environment that fail

VARIABLES
    oldLogs, oldTables,   \* number -> [entries, ok]
    lost,           \* the files in lost/: [type, number, entries]
    descriptor,     \* MANIFEST-000001: [files, lastSequence, nextFile]
    tmp,            \* the descriptor in the temporary file
    current,        \* whether CURRENT names the new descriptor
    run,            \* the repair: [pc, logs, numbers, next, kept, finished]
    runs, errors

pvars == <<oldLogs, oldTables, lost, descriptor, tmp, current, run, runs, errors>>

NotRunning == [pc |-> "idle", logs |-> <<>>, numbers |-> <<>>, next |-> 1, kept |-> {},
         finished |-> FALSE]

\* No descriptor, or one that cannot be used.
NoDescriptor == [files |-> {}, lastSequence |-> 0, nextFile |-> 0]

RepairInit ==
    /\ oldLogs = Logs0 /\ oldTables = Tables0 /\ lost = {} /\ descriptor = NoDescriptor /\ tmp = NoDescriptor
    /\ current = FALSE /\ run = NotRunning /\ runs = 0 /\ errors = 0

Without(f, n) == [k \in DOMAIN f \ {n} |-> f[k]]
Put(f, n, v) == [k \in DOMAIN f \cup {n} |-> IF k = n THEN v ELSE f[k]]
Fails == errors < MaxErrors /\ errors' = errors + 1
Works == UNCHANGED errors

\* ArchiveFile: a rename, over a file of the same name there may be.
Archive(type, n, file) ==
    {f \in lost : f.type # type \/ f.number # n}
        \cup {[type |-> type, number |-> n, entries |-> file.entries]}

\* FindFiles, which lists the directory in any order.
FindFiles ==
    /\ run.pc = "idle" /\ runs < MaxRuns /\ runs' = runs + 1
    /\ DOMAIN oldLogs \cup DOMAIN oldTables # {}
    /\ \E l \in SetToSeqs(DOMAIN oldLogs), t \in SetToSeqs(DOMAIN oldTables) :
          run' = [NotRunning EXCEPT !.pc = "logs", !.logs = l, !.numbers = t,
                     !.next = Max(DOMAIN oldLogs \cup DOMAIN oldTables) + 1]
    /\ UNCHANGED <<oldLogs, oldTables, lost, descriptor, tmp, current, errors>>

\* ConvertLogToTable: the records that can be read, as one table; a failure
\* to open the log or to build the table is ignored.
ConvertLogToTable ==
    /\ run.pc = "logs" /\ run.logs # <<>>
    /\ \E n \in {Head(run.logs)} :
          \/ /\ Works
             /\ IF oldLogs[n].entries = {} THEN oldTables' = oldTables
                ELSE oldTables' = Put(oldTables, run.next, [entries |-> oldLogs[n].entries, ok |-> TRUE])
             /\ run' = [run EXCEPT !.pc = "archive", !.next = @ + 1,
                           !.numbers = IF oldLogs[n].entries = {} THEN @ ELSE Append(@, run.next)]
          \/ /\ Fails
             /\ \E opened \in BOOLEAN :
                   run' = [run EXCEPT !.pc = "archive", !.next = IF opened THEN @ + 1 ELSE @]
             /\ UNCHANGED oldTables
    /\ UNCHANGED <<oldLogs, lost, descriptor, tmp, current, runs>>

\* ConvertLogFilesToTables: the log is archived either way.
ArchiveLog ==
    /\ run.pc = "archive"
    /\ \/ /\ Works
          /\ lost' = Archive("log", Head(run.logs), oldLogs[Head(run.logs)])
          /\ oldLogs' = Without(oldLogs, Head(run.logs))
       \/ Fails /\ UNCHANGED <<lost, oldLogs>>
    /\ run' = [run EXCEPT !.pc = "logs", !.logs = Tail(@)]
    /\ UNCHANGED <<oldTables, descriptor, tmp, current, runs>>

\* ExtractMetaData and ScanTable: a table that cannot be read is archived.
ScanTable ==
    /\ run.pc = "logs" /\ run.logs = <<>> /\ run.numbers # <<>>
    /\ \E n \in {Head(run.numbers)} :
          \/ /\ oldTables[n].ok /\ Works
             /\ run' = [run EXCEPT !.numbers = Tail(@), !.kept = @ \cup {n}]
             /\ UNCHANGED <<lost, oldTables>>
          \/ /\ IF oldTables[n].ok THEN Fails ELSE Works
             /\ lost' = Archive("table", n, oldTables[n])
             /\ oldTables' = Without(oldTables, n)
             /\ run' = [run EXCEPT !.numbers = Tail(@)]
    /\ UNCHANGED <<oldLogs, descriptor, tmp, current, runs>>

\* WriteDescriptor: the new descriptor in a temporary file.
NewDescriptor ==
    [files |-> run.kept,
     lastSequence |-> Max({0} \cup UNION {oldTables[n].entries : n \in run.kept}),
     nextFile |-> run.next]
WriteDescriptor ==
    /\ run.pc = "logs" /\ run.logs = <<>> /\ run.numbers = <<>>
    /\ \/ Works /\ tmp' = NewDescriptor /\ run' = [run EXCEPT !.pc = "manifests"]
       \/ Fails /\ tmp' = NoDescriptor /\ run' = NotRunning
    /\ UNCHANGED <<oldLogs, oldTables, lost, descriptor, current, runs>>

\* The older descriptors are archived, then the new one takes the name.
DiscardManifests ==
    /\ run.pc = "manifests" /\ run' = [run EXCEPT !.pc = "rename"]
    /\ descriptor' = NoDescriptor
    /\ UNCHANGED <<oldLogs, oldTables, lost, tmp, current, runs, errors>>
InstallManifest ==
    /\ run.pc = "rename"
    /\ \/ Works /\ descriptor' = tmp /\ run' = [run EXCEPT !.pc = "current"]
       \/ Fails /\ run' = NotRunning /\ UNCHANGED descriptor
    /\ tmp' = NoDescriptor
    /\ UNCHANGED <<oldLogs, oldTables, lost, current, runs>>
SetCurrentFile ==
    /\ run.pc = "current"
    /\ \/ Works /\ current' = TRUE /\ run' = [NotRunning EXCEPT !.finished = TRUE]
       \/ Fails /\ run' = NotRunning /\ UNCHANGED current
    /\ UNCHANGED <<oldLogs, oldTables, lost, descriptor, tmp, runs>>

\* The program that repairs is stopped.
Crash ==
    /\ run.pc # "idle" /\ run' = NotRunning
    /\ UNCHANGED <<oldLogs, oldTables, lost, descriptor, tmp, current, runs, errors>>

RepairNext ==
    \/ FindFiles \/ ConvertLogToTable \/ ArchiveLog \/ ScanTable
    \/ WriteDescriptor \/ DiscardManifests \/ InstallManifest \/ SetCurrentFile \/ Crash

RepairSpec == RepairInit /\ [][RepairNext]_pvars

-----------------------------------------------------------------------------

EntriesIn(f) == UNION {f[n].entries : n \in {k \in DOMAIN f : f[k].ok}}
Held == EntriesIn(Logs0) \cup EntriesIn(Tables0)

(* "Some data may have been lost": whatever fails and wherever the repair is
   stopped and run again, no entry that could be read at first is destroyed:
   it is in a table, in a log or in lost/.  The descriptor of a repair that was
   finished lists tables that are there, gives out no sequence number and no
   file number again, and, when nothing failed in the runs so far, holds every
   such entry. *)
RepairKeepsEntries ==
    /\ Held \subseteq EntriesIn(oldTables) \cup EntriesIn(oldLogs) \cup UNION {f.entries : f \in lost}
    /\ run.finished /\ current =>
           /\ descriptor.files \subseteq DOMAIN oldTables
           /\ \A n \in DOMAIN oldTables : n < descriptor.nextFile
           /\ \A n \in descriptor.files : \A e \in oldTables[n].entries :
                  e <= descriptor.lastSequence
           /\ errors = 0 => Held \subseteq UNION {oldTables[n].entries : n \in descriptor.files}
=============================================================================
