------------------------------ MODULE WalletDb ------------------------------
(***************************************************************************)
(* The Berkeley DB environment under wallet.dat (db.cpp, db.h) and the     *)
(* procedures around it in walletdb.cpp: handles of several threads, the   *)
(* use count that keeps the file open under them, the flushing thread,     *)
(* backups, shutdown, and the recovery of a damaged file.                  *)
(*                                                                         *)
(* Threads create a CDB on their stack, write with or without a            *)
(* transaction, and destroy it.  A record is a number.  "committed" are    *)
(* the records of finished writes, "dat" those a checkpoint has moved to   *)
(* wallet.dat, "alone" those that would survive without the log files,     *)
(* because lsn_reset cut the file loose after they were in it.  A section  *)
(* under cs_db is one step.  Berkeley DB is taken at its word: what is     *)
(* committed survives the process, DB_RECOVER replays the logs.            *)
(***************************************************************************)
EXTENDS Integers, FiniteSets

CONSTANTS Threads, MaxRecord, MaxFaults

ASSUME ThreadsAssumption == IsFiniteSet(Threads)

VARIABLES count,       \* mapFileUseCount["wallet.dat"]; -1: no entry
          open,        \* mapDb["wallet.dat"] is a handle
          handle,      \* thread -> "none", "read", "write" or "closing"
          txn,         \* thread -> the records of its open transaction, or NoTxn
          committed, dat, alone, logs,
          quiet,       \* records whose writes did not touch nWalletDBUpdated
          updated, lastFlushed,           \* nWalletDBUpdated, nLastFlushed
          backup,      \* what the last copy holds and what had been committed then
          bak,         \* wallet.<time>.bak
          faults,      \* crashes and damaged files so far
          early,       \* a start failed before the wallet was loaded
          phase        \* "starting", "running", "stopping", "down", "renamed"

dvars == <<count, open, handle, txn, committed, dat, alone, logs, quiet, updated,
           lastFlushed, backup, bak, faults, early, phase>>

NoTxn == {-1}
Records == 1..MaxRecord
Used == committed \cup bak \cup UNION {txn[t] : t \in Threads}
FreshEnv == {r \in Records : \A s \in Used : s < r}

DbInit ==
    /\ count = 0 /\ open = TRUE /\ early = FALSE
    /\ handle = [t \in Threads |-> "none"] /\ txn = [t \in Threads |-> NoTxn]
    /\ committed = {} /\ dat = {} /\ alone = {} /\ logs = TRUE /\ quiet = {}
    /\ updated = 0 /\ lastFlushed = 0
    /\ backup = [has |-> {}, of |-> {}] /\ bak = {} /\ faults = 0
    /\ phase = "running"

-----------------------------------------------------------------------------
(***************************************************************************)
(* CDB::CDB, the writes of CWalletDB, transactions, and ~CDB: the handle   *)
(* is given up and the log checkpointed before the use count drops.        *)
(***************************************************************************)
CDBOpen(t, mode) ==
    /\ phase \in {"running", "stopping"} /\ handle[t] = "none"
    /\ handle' = [handle EXCEPT ![t] = mode]
    /\ count' = IF count = -1 THEN 1 ELSE count + 1
    /\ open' = TRUE
    /\ UNCHANGED <<txn, committed, dat, alone, logs, quiet, updated, lastFlushed, backup, bak, faults, early, phase>>

TxnBegin(t) ==
    /\ handle[t] = "write" /\ txn[t] = NoTxn
    /\ txn' = [txn EXCEPT ![t] = {}]
    /\ UNCHANGED <<count, open, handle, committed, dat, alone, logs, quiet, updated, lastFlushed, backup, bak, faults, early, phase>>

\* "counted": WriteMinVersion and WriteAccount leave nWalletDBUpdated alone.
Write(t, r, counted) ==
    /\ handle[t] = "write" /\ r \in FreshEnv
    /\ \A s \in FreshEnv : r <= s
    /\ updated < MaxRecord
    /\ updated' = IF counted THEN updated + 1 ELSE updated
    /\ quiet' = IF counted THEN quiet ELSE quiet \cup {r}
    /\ IF txn[t] = NoTxn
       THEN committed' = committed \cup {r} /\ UNCHANGED txn
       ELSE txn' = [txn EXCEPT ![t] = @ \cup {r}] /\ UNCHANGED committed
    /\ UNCHANGED <<count, open, handle, dat, alone, logs, lastFlushed, backup, bak, faults, early, phase>>

TxnCommit(t) ==
    /\ txn[t] # NoTxn
    /\ committed' = committed \cup txn[t]
    /\ txn' = [txn EXCEPT ![t] = NoTxn]
    /\ UNCHANGED <<count, open, handle, dat, alone, logs, quiet, updated, lastFlushed, backup, bak, faults, early, phase>>

\* An open transaction is aborted; a read-only handle leaves the checkpoint to others.
CDBClose(t) ==
    /\ handle[t] \in {"read", "write"}
    /\ txn' = [txn EXCEPT ![t] = NoTxn]
    /\ dat' \in (IF handle[t] = "write" THEN {committed} ELSE {dat, committed})
    /\ handle' = [handle EXCEPT ![t] = "closing"]
    /\ UNCHANGED <<count, open, committed, alone, logs, quiet, updated, lastFlushed, backup, bak, faults, early, phase>>

CDBRelease(t) ==
    /\ handle[t] = "closing"
    /\ handle' = [handle EXCEPT ![t] = "none"]
    /\ count' = count - 1
    /\ UNCHANGED <<open, txn, committed, dat, alone, logs, quiet, updated, lastFlushed, backup, bak, faults, early, phase>>

(***************************************************************************)
(* CloseDb and CheckpointLSN: the file is closed, holds everything         *)
(* committed, and needs the logs no more.                                  *)
(***************************************************************************)
Detach == open' = FALSE /\ dat' = committed /\ alone' = committed /\ count' = -1

(* The variant does not look at the use count. *)
ThreadFlushInUse ==
    /\ phase = "running"
    /\ lastFlushed # updated
    /\ Detach
    /\ lastFlushed' = updated
    /\ UNCHANGED <<handle, txn, committed, logs, quiet, updated, backup, bak, faults, phase, early>>

\* One round of ThreadFlushWalletDB after two quiet seconds.
ThreadFlushWalletDB ==
    /\ phase = "running"
    /\ lastFlushed # updated
    /\ count = 0
    /\ Detach
    /\ lastFlushed' = updated
    /\ UNCHANGED <<handle, txn, committed, logs, quiet, updated, backup, bak, faults, phase, early>>

\* BackupWallet, once its wait is over.
BackupWallet ==
    /\ phase = "running"
    /\ count \in {-1, 0}
    /\ Detach
    /\ backup' = [has |-> alone', of |-> committed]
    /\ UNCHANGED <<handle, txn, committed, logs, quiet, updated, lastFlushed, bak, faults, phase, early>>

(***************************************************************************)
(* Shutdown: Flush(false), the last writes of the wallet (SetBestChain),   *)
(* then Flush(true), which removes the logs if no use count is left above  *)
(* zero.  A start that fails goes the same way, without the wallet.        *)
(***************************************************************************)
FlushUnused == IF count = 0 THEN Detach ELSE UNCHANGED <<open, dat, alone, count>>

FlushFalse ==
    /\ phase = "running"
    /\ FlushUnused
    /\ phase' = "stopping"
    /\ UNCHANGED <<handle, txn, committed, logs, quiet, updated, lastFlushed, backup, bak, faults, early>>

Exited ==
    /\ phase' = "down"
    /\ handle' = [t \in Threads |-> "none"] /\ txn' = [t \in Threads |-> NoTxn]
    /\ count' = -1 /\ open' = FALSE

FlushTrue ==
    /\ phase \in {"starting", "stopping"}
    /\ logs' = (count > 0)
    /\ IF count = 0 THEN dat' = committed /\ alone' = committed ELSE UNCHANGED <<dat, alone>>
    /\ early' = (early \/ phase = "starting")
    /\ Exited
    /\ UNCHANGED <<committed, quiet, updated, lastFlushed, backup, bak, faults>>

\* The process dies; transactions under way are lost.
DbCrash ==
    /\ phase # "down" /\ faults < MaxFaults
    /\ faults' = faults + 1
    /\ Exited
    /\ UNCHANGED <<committed, dat, alone, logs, quiet, updated, lastFlushed, backup, bak, early>>

-----------------------------------------------------------------------------
(***************************************************************************)
(* Startup.  The environment replays the logs, if they are there; Verify   *)
(* accepts the file, or finds only "readable" of its records intact and    *)
(* calls Recover: the file is renamed, then what Salvage reads is put in a *)
(* new one in a single transaction.  With -salvagewallet the same is done  *)
(* to any file.                                                            *)
(***************************************************************************)
Recovered == IF logs \/ early THEN committed ELSE alone

Start ==
    /\ phase = "down"
    /\ phase' = "starting"
    /\ logs' = TRUE
    /\ dat' = Recovered /\ committed' = Recovered
    /\ UNCHANGED <<count, open, handle, txn, alone, quiet, updated, lastFlushed, backup, bak, faults, early>>

\* LoadWallet opens the file; the flushing thread counts from here.
Load ==
    /\ phase = "starting"
    /\ phase' = "running"
    /\ count' = 0 /\ open' = TRUE
    /\ lastFlushed' = updated
    /\ quiet' = quiet \cup committed
    /\ UNCHANGED <<handle, txn, committed, dat, alone, logs, updated, backup, bak, faults, early>>

RecoverRename ==
    /\ phase = "down" /\ faults < MaxFaults /\ Recovered # {}
    /\ \E readable \in SUBSET Recovered : bak' = readable
    /\ faults' = faults + 1
    /\ phase' = "renamed"
    /\ logs' = TRUE
    /\ committed' = {} /\ dat' = {} /\ alone' = {}
    /\ count' = -1 /\ open' = FALSE
    /\ UNCHANGED <<handle, txn, quiet, updated, lastFlushed, backup, early>>

\* The line after the last pair of the dump, which Salvage takes for one more.
Trailer == 0

\* Every salvaged pair is put in the new file, the trailer with them; of a file
\* with nothing readable only the trailer is left.
RecoverCommit ==
    /\ phase = "renamed"
    /\ committed' = bak \cup {Trailer} /\ dat' = bak \cup {Trailer}
    /\ phase' = "down"
    /\ UNCHANGED <<count, open, handle, txn, alone, logs, quiet, updated, lastFlushed, backup, bak, faults, early>>

DbNext ==
    \/ \E t \in Threads : \/ \E mode \in {"read", "write"} : CDBOpen(t, mode)
                          \/ TxnBegin(t) \/ TxnCommit(t) \/ CDBClose(t) \/ CDBRelease(t)
                          \/ \E r \in Records, counted \in BOOLEAN : Write(t, r, counted)
    \/ ThreadFlushWalletDB \/ BackupWallet \/ FlushFalse \/ FlushTrue
    \/ DbCrash \/ Start \/ Load \/ RecoverRename \/ RecoverCommit

DbSpec == DbInit /\ [][DbNext]_dvars

-----------------------------------------------------------------------------
(***************************************************************************)
(* The use count protects the handle: while a thread has one, the file is  *)
(* open and the count is the number of those threads, so that no flush,    *)
(* backup or rewrite closes the Db under a write.                          *)
(***************************************************************************)
HandlesLive ==
    LET holders == {t \in Threads : handle[t] # "none"}
    IN  /\ holders # {} => open /\ count = Cardinality(holders)
        /\ \A t \in Threads : txn[t] # NoTxn => handle[t] = "write"

(***************************************************************************)
(* No finished write is lost to the housekeeping: a backup holds all that  *)
(* was committed when it was made; when the flushing thread believes it is *)
(* up to date, every write it counts is in wallet.dat and independent of   *)
(* the logs; the logs are gone only when nothing needs them (unless a      *)
(* start failed before the wallet was opened); and after a recovery that   *)
(* no crash interrupted, what was readable of the damaged file is loaded.  *)
(***************************************************************************)
FileComplete ==
    /\ backup.has = backup.of
    /\ phase = "running" /\ lastFlushed = updated => committed \ quiet \subseteq alone
    /\ ~logs => committed \subseteq alone \/ early
    /\ alone \subseteq dat /\ dat \subseteq committed
    /\ phase = "running" /\ faults <= 1 => bak \subseteq committed

(***************************************************************************)
(* wallet.dat alone, without the database environment's logs, has every    *)
(* record when a flush, a backup or a shutdown says so, and no thread uses *)
(* a handle that another has closed (CDB, CDBEnv::Flush,                   *)
(* ThreadFlushWalletDB, BackupWallet).                                     *)
(***************************************************************************)
FileSound == HandlesLive /\ FileComplete
=============================================================================
