---------------------------- MODULE WalletProofs ----------------------------
(***************************************************************************)
(* wallet.dat and its use count, for any number of threads, records and    *)
(* faults: the invariant of db.cpp and walletdb.cpp and its proof.         *)
(***************************************************************************)
EXTENDS WalletDb, FiniteSetTheorems, TLAPS

Holders == {t \in Threads : handle[t] # "none"}

DbType ==
    /\ count \in Int /\ updated \in Nat /\ lastFlushed \in Nat /\ faults \in Nat
    /\ handle \in [Threads -> {"none", "read", "write", "closing"}]
    /\ txn = [t \in Threads |-> txn[t]]
    /\ logs \in BOOLEAN /\ early \in BOOLEAN
    /\ phase \in {"starting", "running", "stopping", "down", "renamed"}

(* The use count is the number of handles, and has no entry without one. *)
CountInv ==
    /\ count # -1 => open /\ count = Cardinality(Holders)
    /\ count = -1 => Holders = {}
    /\ phase \notin {"running", "stopping"} => count = -1
    /\ \A t \in Threads : txn[t] # NoTxn => handle[t] = "write"

(* Between two flushes: what is not in wallet.dat for good was counted, or is
   quiet, and a file without a use count has been cut loose with everything. *)
FlushInv ==
    /\ lastFlushed <= updated
    /\ phase = "running" /\ lastFlushed = updated =>
          /\ committed \ quiet \subseteq alone
          /\ \A t \in Threads : txn[t] # NoTxn => txn[t] \subseteq quiet
    /\ phase \in {"running", "stopping"} /\ count = -1 => committed \subseteq alone

(* The logs are removed only at the end, when nothing needs them. *)
LogInv ==
    /\ phase # "down" => logs
    /\ ~logs => committed \subseteq alone \/ early
    /\ alone \subseteq dat /\ dat \subseteq committed

(* One damaged file, and no crash while it was recovered. *)
RecoverInv ==
    /\ phase = "renamed" => alone = {} /\ faults >= 1
    /\ faults <= 1 /\ phase # "renamed" => bak \subseteq committed
    /\ backup.has = backup.of

DbInv == DbType /\ CountInv /\ FlushInv /\ LogInv /\ RecoverInv

(* The threads that hold a handle are finitely many. *)
LEMMA HoldersFinite ==
    /\ IsFiniteSet(Holders) /\ Cardinality(Holders) \in Nat
    /\ Cardinality(Holders) = 0 <=> Holders = {}
<1>1. Holders \in SUBSET Threads
  BY DEF Holders
<1>2. IsFiniteSet(Holders)
  BY <1>1, ThreadsAssumption, FS_Subset
<1> QED BY <1>2, FS_CardinalityType, FS_EmptySet

(* What the invariant says of the threads when no use count is above zero. *)
LEMMA NobodyHolds ==
    ASSUME DbInv, count \in {-1, 0}
    PROVE  \A t \in Threads : handle[t] = "none" /\ txn[t] = NoTxn
<1>1. Holders = {}
  BY HoldersFinite DEF DbInv, CountInv
<1> QED BY <1>1 DEF DbInv, CountInv, Holders

(* DbInit establishes the invariant. *)
LEMMA DbInvInit == DbInit => DbInv
<1> SUFFICES ASSUME DbInit PROVE DbInv
  OBVIOUS
<1>1. DbType
  <2>1. txn = [t \in Threads |-> txn[t]]
    BY Zenon DEF DbInit
  <2>2. handle \in [Threads -> {"none", "read", "write", "closing"}]
    BY Zenon DEF DbInit
  <2>3. /\ count = 0 /\ updated = 0 /\ lastFlushed = 0 /\ faults = 0
        /\ logs = TRUE /\ early = FALSE /\ phase = "running"
    BY Zenon DEF DbInit
  <2>4. 0 \in Int /\ 0 \in Nat
    OBVIOUS
  <2> QED BY <2>1, <2>2, <2>3, <2>4, Zenon DEF DbType
<1>2. Holders = {}
  BY DEF DbInit, Holders
<1>3. CountInv
  BY <1>2, HoldersFinite DEF DbInit, CountInv
<1>4. FlushInv /\ LogInv /\ RecoverInv
  BY DEF DbInit, FlushInv, LogInv, RecoverInv
<1> QED BY <1>1, <1>3, <1>4 DEF DbInv

(* CDB::CDB. *)
LEMMA CDBOpenInv ==
    ASSUME DbInv, NEW t \in Threads, NEW mode \in {"read", "write"}, CDBOpen(t, mode)
    PROVE  DbInv'
<1>1. /\ phase \in {"running", "stopping"} /\ handle[t] = "none"
      /\ handle' = [handle EXCEPT ![t] = mode] /\ open' = TRUE
      /\ count' = IF count = -1 THEN 1 ELSE count + 1
      /\ txn' = txn /\ committed' = committed /\ dat' = dat /\ alone' = alone /\ logs' = logs
      /\ quiet' = quiet /\ updated' = updated /\ lastFlushed' = lastFlushed
      /\ backup' = backup /\ bak' = bak /\ faults' = faults /\ early' = early /\ phase' = phase
  BY DEF CDBOpen
<1>2. DbType'
  BY <1>1 DEF DbInv, DbType
<1>3. count' # -1 /\ count' = Cardinality(Holders')
  <2>1. t \notin Holders /\ Holders' = Holders \cup {t}
    BY <1>1 DEF DbInv, DbType, Holders
  <2>2. Cardinality(Holders') = Cardinality(Holders) + 1
    BY <2>1, HoldersFinite, FS_AddElement
  <2> QED BY <1>1, <2>2, HoldersFinite DEF DbInv, CountInv
<1>4. CountInv'
  <2>1. \A u \in Threads : txn'[u] # NoTxn => handle'[u] = "write"
    BY <1>1 DEF DbInv, DbType, CountInv
  <2> QED BY <1>1, <1>3, <2>1 DEF CountInv
<1>5. FlushInv'
  BY <1>1, <1>3 DEF DbInv, FlushInv
<1>6. LogInv' /\ RecoverInv'
  BY <1>1 DEF DbInv, LogInv, RecoverInv
<1> QED BY <1>2, <1>4, <1>5, <1>6 DEF DbInv

(* TxnBegin. *)
LEMMA TxnBeginInv ==
    ASSUME DbInv, NEW t \in Threads, TxnBegin(t)
    PROVE  DbInv'
<1>1. /\ handle[t] = "write" /\ txn' = [txn EXCEPT ![t] = {}]
      /\ UNCHANGED <<count, open, handle, committed, dat, alone, logs, quiet, updated,
                     lastFlushed, backup, bak, faults, early, phase>>
  BY DEF TxnBegin
<1>2. DbType'
  BY <1>1 DEF DbInv, DbType
<1>3. CountInv'
  <2>1. Holders' = Holders
    BY <1>1 DEF Holders
  <2>2. \A u \in Threads : txn'[u] # NoTxn => handle'[u] = "write"
    BY <1>1 DEF DbInv, DbType, CountInv
  <2> QED BY <1>1, <2>1, <2>2 DEF DbInv, CountInv
<1>4. FlushInv'
  <2>1. \A u \in Threads : txn'[u] = txn[u] \/ txn'[u] = {}
    BY <1>1 DEF DbInv, DbType
  <2> QED BY <1>1, <2>1 DEF DbInv, FlushInv
<1>5. LogInv' /\ RecoverInv'
  BY <1>1 DEF DbInv, LogInv, RecoverInv
<1> QED BY <1>2, <1>3, <1>4, <1>5 DEF DbInv

(* A write: CWalletDB::Write..., with or without a transaction. *)
LEMMA WriteInv ==
    ASSUME DbInv, NEW t \in Threads, NEW r \in Records, NEW counted \in BOOLEAN,
           Write(t, r, counted)
    PROVE  DbInv'
<1>1. /\ handle[t] = "write"
      /\ updated' = IF counted THEN updated + 1 ELSE updated
      /\ quiet' = IF counted THEN quiet ELSE quiet \cup {r}
      /\ UNCHANGED <<count, open, handle, dat, alone, logs, lastFlushed, backup, bak,
                     faults, early, phase>>
      /\ \/ txn[t] = NoTxn /\ committed' = committed \cup {r} /\ txn' = txn
         \/ /\ txn[t] # NoTxn /\ txn' = [txn EXCEPT ![t] = txn[t] \cup {r}]
            /\ committed' = committed
  BY DEF Write
<1>2. /\ count # -1 /\ phase \in {"running", "stopping"}
      /\ committed \subseteq committed' /\ committed' \subseteq committed \cup {r}
  <2>1. t \in Holders
    BY <1>1 DEF Holders
  <2>2. count # -1
    BY <2>1 DEF DbInv, CountInv
  <2> QED BY <1>1, <2>2 DEF DbInv, CountInv
<1>3. DbType'
  BY <1>1 DEF DbInv, DbType
<1>4. CountInv'
  <2>1. Holders' = Holders
    BY <1>1 DEF Holders
  <2>2. \A u \in Threads : txn'[u] # NoTxn => handle'[u] = "write"
    BY <1>1 DEF DbInv, DbType, CountInv
  <2> QED BY <1>1, <2>1, <2>2 DEF DbInv, CountInv
<1>5. FlushInv'
  <2>1. lastFlushed' <= updated' /\ (counted => lastFlushed' # updated')
    BY <1>1 DEF DbInv, DbType, FlushInv
  <2>2. ASSUME ~counted, phase = "running", lastFlushed = updated
        PROVE  /\ committed' \ quiet' \subseteq alone'
               /\ \A u \in Threads : txn'[u] # NoTxn => txn'[u] \subseteq quiet'
    <3>1. quiet' = quiet \cup {r} /\ alone' = alone
      BY <1>1, <2>2
    <3>2. committed \ quiet \subseteq alone
      BY <2>2 DEF DbInv, FlushInv
    <3>3. \A u \in Threads : txn[u] # NoTxn => txn[u] \subseteq quiet
      BY <2>2 DEF DbInv, FlushInv
    <3>4. \A u \in Threads : txn'[u] = txn[u] \/ (txn[u] # NoTxn /\ txn'[u] = txn[u] \cup {r})
      BY <1>1 DEF DbInv, DbType
    <3> QED BY <1>2, <3>1, <3>2, <3>3, <3>4
  <2>3. CASE counted
    BY <1>1, <1>2, <2>1, <2>3 DEF FlushInv
  <2>4. CASE ~counted
    BY <1>1, <1>2, <2>1, <2>2, <2>4 DEF FlushInv
  <2> QED BY <2>3, <2>4
<1>6. LogInv' /\ RecoverInv'
  BY <1>1, <1>2 DEF DbInv, LogInv, RecoverInv
<1> QED BY <1>3, <1>4, <1>5, <1>6 DEF DbInv

(* TxnCommit. *)
LEMMA TxnCommitInv ==
    ASSUME DbInv, NEW t \in Threads, TxnCommit(t)
    PROVE  DbInv'
<1>1. /\ txn[t] # NoTxn /\ committed' = committed \cup txn[t]
      /\ txn' = [txn EXCEPT ![t] = NoTxn]
      /\ UNCHANGED <<count, open, handle, dat, alone, logs, quiet, updated, lastFlushed,
                     backup, bak, faults, early, phase>>
  BY DEF TxnCommit
<1>2. count # -1 /\ phase \in {"running", "stopping"}
  <2>1. t \in Holders
    BY <1>1 DEF DbInv, CountInv, Holders
  <2>2. count # -1
    BY <2>1 DEF DbInv, CountInv
  <2> QED BY <2>2 DEF DbInv, CountInv
<1>3. DbType'
  BY <1>1 DEF DbInv, DbType
<1>4. \A u \in Threads : txn'[u] = txn[u] \/ txn'[u] = NoTxn
  BY <1>1 DEF DbInv, DbType
<1>5. CountInv'
  <2>1. Holders' = Holders
    BY <1>1 DEF Holders
  <2> QED BY <1>1, <1>4, <2>1 DEF DbInv, CountInv
<1>6. FlushInv'
  <2>1. ASSUME phase = "running", lastFlushed = updated
        PROVE  committed' \ quiet \subseteq alone
    <3>1. committed \ quiet \subseteq alone /\ txn[t] \subseteq quiet
      BY <1>1, <2>1 DEF DbInv, FlushInv
    <3> QED BY <1>1, <3>1
  <2> QED BY <1>1, <1>2, <1>4, <2>1 DEF DbInv, FlushInv
<1>7. LogInv' /\ RecoverInv'
  <2>1. logs
    BY <1>2 DEF DbInv, LogInv
  <2> QED BY <1>1, <2>1 DEF DbInv, LogInv, RecoverInv
<1> QED BY <1>3, <1>5, <1>6, <1>7 DEF DbInv

(* CDB::Close, up to the use count. *)
LEMMA CDBCloseInv ==
    ASSUME DbInv, NEW t \in Threads, CDBClose(t)
    PROVE  DbInv'
<1>1. /\ handle[t] \in {"read", "write"} /\ dat' \in {dat, committed}
      /\ txn' = [txn EXCEPT ![t] = NoTxn] /\ handle' = [handle EXCEPT ![t] = "closing"]
      /\ UNCHANGED <<count, open, committed, alone, logs, quiet, updated, lastFlushed,
                     backup, bak, faults, early, phase>>
  BY DEF CDBClose
<1>2. DbType'
  BY <1>1 DEF DbInv, DbType
<1>3. /\ \A u \in Threads : txn'[u] = NoTxn \/ (u # t /\ txn'[u] = txn[u])
      /\ \A u \in Threads : u # t => handle'[u] = handle[u]
  BY <1>1 DEF DbInv, DbType
<1>4. CountInv'
  <2>1. Holders' = Holders
    BY <1>1 DEF DbInv, DbType, Holders
  <2> QED BY <1>1, <1>3, <2>1 DEF DbInv, CountInv
<1>5. FlushInv'
  BY <1>1, <1>3 DEF DbInv, FlushInv
<1>6. LogInv' /\ RecoverInv'
  BY <1>1 DEF DbInv, LogInv, RecoverInv
<1> QED BY <1>2, <1>4, <1>5, <1>6 DEF DbInv

(* CDB::Close: the use count drops. *)
LEMMA CDBReleaseInv ==
    ASSUME DbInv, NEW t \in Threads, CDBRelease(t)
    PROVE  DbInv'
<1>1. /\ handle[t] = "closing" /\ handle' = [handle EXCEPT ![t] = "none"]
      /\ count' = count - 1
      /\ UNCHANGED <<open, txn, committed, dat, alone, logs, quiet, updated, lastFlushed,
                     backup, bak, faults, early, phase>>
  BY DEF CDBRelease
<1>2. DbType'
  BY <1>1 DEF DbInv, DbType
<1>3. count # -1 /\ count' = Cardinality(Holders') /\ count' # -1
  <2>1. t \in Holders /\ Holders' = Holders \ {t}
    BY <1>1 DEF DbInv, DbType, Holders
  <2>2. Cardinality(Holders') = Cardinality(Holders) - 1 /\ Cardinality(Holders) # 0
    BY <2>1, HoldersFinite, FS_RemoveElement, Zenon
  <2>3. count # -1 /\ count = Cardinality(Holders)
    BY <2>1, Zenon DEF DbInv, CountInv
  <2> QED BY <1>1, <2>2, <2>3, HoldersFinite
<1>4. CountInv'
  <2>1. \A u \in Threads : txn'[u] # NoTxn => handle'[u] = "write"
    BY <1>1 DEF DbInv, DbType, CountInv
  <2> QED BY <1>1, <1>3, <2>1 DEF DbInv, CountInv
<1>5. FlushInv'
  BY <1>1, <1>3 DEF DbInv, FlushInv
<1>6. LogInv' /\ RecoverInv'
  BY <1>1 DEF DbInv, LogInv, RecoverInv
<1> QED BY <1>2, <1>4, <1>5, <1>6 DEF DbInv

(* CloseDb and CheckpointLSN, for a file that nobody uses. *)
LEMMA DetachInv ==
    ASSUME DbInv, phase \in {"running", "stopping"}, count \in {-1, 0}, Detach,
           handle' = handle, txn' = txn, committed' = committed, logs' = logs,
           quiet' = quiet, updated' = updated, lastFlushed' \in {lastFlushed, updated},
           backup'.has = backup'.of, bak' = bak, faults' = faults,
           phase' \in {"running", "stopping"}, early' = early
    PROVE  DbInv'
<1>1. open' = FALSE /\ dat' = committed /\ alone' = committed /\ count' = -1
  BY DEF Detach
<1>2. DbType'
  BY <1>1 DEF DbInv, DbType
<1>3. CountInv'
  <2>1. Holders' = {}
    BY NobodyHolds DEF Holders
  <2> QED BY <1>1, <2>1 DEF DbInv, CountInv
<1>4. FlushInv'
  <2>1. \A u \in Threads : txn'[u] = NoTxn
    BY NobodyHolds
  <2>2. lastFlushed' <= updated'
    BY DEF DbInv, DbType, FlushInv
  <2> QED BY <1>1, <2>1, <2>2 DEF FlushInv
<1>5. LogInv' /\ RecoverInv'
  BY <1>1 DEF DbInv, LogInv, RecoverInv
<1> QED BY <1>2, <1>3, <1>4, <1>5 DEF DbInv

(* The flushing thread, a backup and the first flush of a shutdown. *)
LEMMA FlushesInv ==
    ASSUME DbInv, ThreadFlushWalletDB \/ BackupWallet \/ FlushFalse
    PROVE  DbInv'
<1>0. backup.has = backup.of
  BY DEF DbInv, RecoverInv
<1>1. CASE ThreadFlushWalletDB
  BY <1>0, <1>1, DetachInv DEF ThreadFlushWalletDB
<1>2. CASE BackupWallet
  <2>1. backup'.has = backup'.of
    BY <1>2 DEF BackupWallet, Detach
  <2> QED BY <1>2, <2>1, DetachInv DEF BackupWallet
<1>3. CASE FlushFalse /\ count = 0
  BY <1>0, <1>3, DetachInv DEF FlushFalse, FlushUnused
<1>4. CASE FlushFalse /\ count # 0
  <2>1. /\ phase = "running" /\ phase' = "stopping"
        /\ UNCHANGED <<open, dat, alone, count, handle, txn, committed, logs, quiet, updated,
                       lastFlushed, backup, bak, faults, early>>
    BY <1>4 DEF FlushFalse, FlushUnused
  <2>2. Holders' = Holders
    BY <2>1 DEF Holders
  <2>3. DbType' /\ CountInv'
    BY <2>1, <2>2 DEF DbInv, DbType, CountInv
  <2>4. FlushInv' /\ LogInv' /\ RecoverInv'
    BY <2>1 DEF DbInv, FlushInv, LogInv, RecoverInv
  <2> QED BY <2>3, <2>4 DEF DbInv
<1> QED BY <1>1, <1>2, <1>3, <1>4

(* The end of the process leaves no handle and no transaction. *)
LEMMA ExitedClears ==
    ASSUME Exited
    PROVE  /\ phase' = "down" /\ count' = -1 /\ Holders' = {}
           /\ handle' \in [Threads -> {"none", "read", "write", "closing"}]
           /\ txn' = [t \in Threads |-> txn'[t]]
           /\ \A t \in Threads : txn'[t] = NoTxn
<1>1. phase' = "down" /\ count' = -1
  BY DEF Exited
<1>2. handle' = [t \in Threads |-> "none"] /\ txn' = [t \in Threads |-> NoTxn]
  BY DEF Exited
<1>3. Holders' = {}
  BY <1>2 DEF Holders
<1> QED BY <1>1, <1>2, <1>3, Zenon

(* Flush(true): the logs are removed when no file is in use. *)
LEMMA FlushTrueInv ==
    ASSUME DbInv, FlushTrue
    PROVE  DbInv'
<1>1. /\ phase \in {"starting", "stopping"} /\ logs' = (count > 0)
      /\ IF count = 0 THEN dat' = committed /\ alone' = committed
                      ELSE dat' = dat /\ alone' = alone
      /\ early' = (early \/ phase = "starting")
      /\ UNCHANGED <<committed, quiet, updated, lastFlushed, backup, bak, faults>>
  BY DEF FlushTrue
<1>2. Exited
  BY DEF FlushTrue
<1>3. DbType'
  BY <1>1, <1>2, ExitedClears DEF DbInv, DbType
<1>4. CountInv'
  BY <1>2, ExitedClears DEF CountInv
<1>5. FlushInv'
  BY <1>1, <1>2, ExitedClears DEF DbInv, FlushInv
<1>6. LogInv'
  <2>1. count = -1 \/ count = 0 \/ count > 0
    BY HoldersFinite DEF DbInv, CountInv
  <2>2. CASE count = 0
    BY <1>1, <1>2, <2>2, ExitedClears DEF LogInv
  <2>3. CASE count = -1
    <3>1. phase = "stopping" => committed \subseteq alone
      BY <2>3 DEF DbInv, FlushInv
    <3> QED BY <1>1, <1>2, <2>3, <3>1, ExitedClears, Zenon DEF DbInv, LogInv
  <2>4. CASE count > 0
    BY <1>1, <1>2, <2>4, ExitedClears DEF DbInv, LogInv, DbType
  <2> QED BY <2>1, <2>2, <2>3, <2>4
<1>7. RecoverInv'
  BY <1>1, <1>2, ExitedClears DEF DbInv, RecoverInv
<1> QED BY <1>3, <1>4, <1>5, <1>6, <1>7 DEF DbInv

(* The process dies. *)
LEMMA DbCrashInv ==
    ASSUME DbInv, DbCrash
    PROVE  DbInv'
<1>1. /\ phase # "down" /\ faults' = faults + 1
      /\ UNCHANGED <<committed, dat, alone, logs, quiet, updated, lastFlushed, backup, bak,
                     early>>
  BY DEF DbCrash
<1>2. Exited
  BY DEF DbCrash
<1>3. DbType'
  BY <1>1, <1>2, ExitedClears DEF DbInv, DbType
<1>4. CountInv'
  BY <1>2, ExitedClears DEF CountInv
<1>5. FlushInv' /\ LogInv'
  BY <1>1, <1>2, ExitedClears DEF DbInv, FlushInv, LogInv
<1>6. RecoverInv'
  BY <1>1, <1>2, ExitedClears DEF DbInv, DbType, RecoverInv
<1> QED BY <1>3, <1>4, <1>5, <1>6 DEF DbInv

(* CDBEnv::Open with DB_RECOVER: nothing committed is missing, unless the logs
   were removed by a start that failed. *)
LEMMA StartInv ==
    ASSUME DbInv, Start
    PROVE  DbInv'
<1>1. /\ phase = "down" /\ phase' = "starting" /\ logs' = TRUE
      /\ dat' = Recovered /\ committed' = Recovered
      /\ UNCHANGED <<count, open, handle, txn, alone, quiet, updated, lastFlushed, backup,
                     bak, faults, early>>
  BY DEF Start
<1>2. Recovered = committed
  BY DEF Recovered, DbInv, LogInv
<1>3. Holders' = Holders
  BY <1>1 DEF Holders
<1>4. DbType' /\ CountInv'
  BY <1>1, <1>3 DEF DbInv, DbType, CountInv
<1>5. FlushInv'
  BY <1>1 DEF DbInv, FlushInv
<1>6. LogInv' /\ RecoverInv'
  BY <1>1, <1>2 DEF DbInv, LogInv, RecoverInv
<1> QED BY <1>4, <1>5, <1>6 DEF DbInv

(* LoadWallet. *)
LEMMA LoadInv ==
    ASSUME DbInv, Load
    PROVE  DbInv'
<1>1. /\ phase = "starting" /\ phase' = "running" /\ count' = 0 /\ open' = TRUE
      /\ lastFlushed' = updated /\ quiet' = quiet \cup committed
      /\ UNCHANGED <<handle, txn, committed, dat, alone, logs, updated, backup, bak, faults,
                     early>>
  BY DEF Load
<1>2. count = -1 /\ \A t \in Threads : txn[t] = NoTxn
  <2>1. count = -1
    BY <1>1 DEF DbInv, CountInv
  <2> QED BY <2>1, NobodyHolds
<1>3. Holders' = {} /\ Cardinality(Holders') = 0
  <2>1. Holders = {} /\ Holders' = Holders
    BY <1>1, <1>2 DEF DbInv, CountInv, Holders
  <2> QED BY <2>1, HoldersFinite
<1>4. DbType' /\ CountInv'
  BY <1>1, <1>3 DEF DbInv, DbType, CountInv
<1>5. FlushInv'
  BY <1>1, <1>2 DEF DbInv, DbType, FlushInv
<1>6. LogInv' /\ RecoverInv'
  BY <1>1 DEF DbInv, LogInv, RecoverInv
<1> QED BY <1>4, <1>5, <1>6 DEF DbInv

(* CDBEnv::Salvage and CWalletDB::Recover: the file is renamed, then written anew. *)
LEMMA RecoverInvs ==
    ASSUME DbInv, RecoverRename \/ RecoverCommit
    PROVE  DbInv'
<1>1. CASE RecoverRename
  <2>1. /\ phase = "down" /\ phase' = "renamed" /\ faults' = faults + 1 /\ logs' = TRUE
        /\ committed' = {} /\ dat' = {} /\ alone' = {} /\ count' = -1
        /\ UNCHANGED <<handle, txn, quiet, updated, lastFlushed, backup, early>>
    BY <1>1 DEF RecoverRename
  <2>2. Holders' = {}
    BY <2>1 DEF DbInv, CountInv, Holders
  <2>3. DbType' /\ CountInv'
    BY <2>1, <2>2 DEF DbInv, DbType, CountInv
  <2>4. FlushInv' /\ LogInv'
    BY <2>1 DEF DbInv, FlushInv, LogInv
  <2>5. RecoverInv'
    BY <2>1 DEF DbInv, DbType, RecoverInv
  <2> QED BY <2>3, <2>4, <2>5 DEF DbInv
<1>2. CASE RecoverCommit
  <2>1. /\ phase = "renamed" /\ phase' = "down"
        /\ committed' = bak \cup {Trailer} /\ dat' = committed'
        /\ UNCHANGED <<count, open, handle, txn, alone, logs, quiet, updated, lastFlushed,
                       backup, bak, faults, early>>
    BY <1>2 DEF RecoverCommit
  <2>2. Holders' = Holders
    BY <2>1 DEF Holders
  <2>3. DbType' /\ CountInv'
    BY <2>1, <2>2 DEF DbInv, DbType, CountInv
  <2>4. FlushInv' /\ LogInv' /\ RecoverInv'
    <3>1. alone = {} /\ logs
      BY <2>1 DEF DbInv, LogInv, RecoverInv
    <3> QED BY <2>1, <3>1 DEF DbInv, FlushInv, LogInv, RecoverInv
  <2> QED BY <2>3, <2>4 DEF DbInv
<1> QED BY <1>1, <1>2

(* Every step keeps the invariant. *)
LEMMA DbInvStep == DbInv /\ [DbNext]_dvars => DbInv'
<1> SUFFICES ASSUME DbInv, [DbNext]_dvars PROVE DbInv'
  OBVIOUS
<1>1. ASSUME NEW t \in Threads, NEW mode \in {"read", "write"}, CDBOpen(t, mode)
      PROVE  DbInv'
  BY <1>1, CDBOpenInv
<1>2. ASSUME NEW t \in Threads, TxnBegin(t) \/ TxnCommit(t) \/ CDBClose(t) \/ CDBRelease(t)
      PROVE  DbInv'
  BY <1>2, TxnBeginInv, TxnCommitInv, CDBCloseInv, CDBReleaseInv
<1>3. ASSUME NEW t \in Threads, NEW r \in Records, NEW counted \in BOOLEAN, Write(t, r, counted)
      PROVE  DbInv'
  BY <1>3, WriteInv
<1>4. CASE ThreadFlushWalletDB \/ BackupWallet \/ FlushFalse
  BY <1>4, FlushesInv
<1>5. CASE FlushTrue \/ DbCrash \/ Start \/ Load
  BY <1>5, FlushTrueInv, DbCrashInv, StartInv, LoadInv
<1>6. CASE RecoverRename \/ RecoverCommit
  BY <1>6, RecoverInvs
<1>7. CASE UNCHANGED dvars
  <2>1. UNCHANGED <<count, open, handle, txn, committed, dat, alone, logs, quiet, updated,
                    lastFlushed, backup, bak, faults, early, phase>>
    BY <1>7 DEF dvars
  <2>2. Holders' = Holders
    BY <2>1 DEF Holders
  <2>3. DbType' /\ CountInv'
    BY <2>1, <2>2 DEF DbInv, DbType, CountInv
  <2>4. FlushInv' /\ LogInv' /\ RecoverInv'
    BY <2>1 DEF DbInv, FlushInv, LogInv, RecoverInv
  <2> QED BY <2>3, <2>4 DEF DbInv
<1> QED BY <1>1, <1>2, <1>3, <1>4, <1>5, <1>6, <1>7 DEF DbNext

(* The invariant implies what the users of wallet.dat rely on. *)
LEMMA DbInvSound == DbInv => FileSound
<1> SUFFICES ASSUME DbInv PROVE FileSound
  OBVIOUS
<1>1. HandlesLive
  <2>1. Holders # {} => open /\ count = Cardinality(Holders)
    BY DEF DbInv, CountInv
  <2>2. \A t \in Threads : txn[t] # NoTxn => handle[t] = "write"
    BY DEF DbInv, CountInv
  <2> QED BY <2>1, <2>2 DEF HandlesLive, Holders
<1>2. FileComplete
  <2>1. phase = "running" /\ faults <= 1 => bak \subseteq committed
    BY DEF DbInv, RecoverInv
  <2> QED BY <2>1 DEF DbInv, FlushInv, LogInv, RecoverInv, FileComplete
<1> QED BY <1>1, <1>2 DEF FileSound

(* For any number of threads, records and faults: the use count keeps wallet.dat
   open under every handle (CDB, CDBEnv::CloseDb), and no finished write is lost
   to the flushing thread, a backup, a shutdown or a recovery
   (ThreadFlushWalletDB, BackupWallet, CDBEnv::Flush, CWalletDB::Recover). *)
THEOREM FileAlwaysSound == DbSpec => []FileSound
<1>1. DbInit => DbInv
  BY DbInvInit
<1>2. DbInv /\ [DbNext]_dvars => DbInv'
  BY DbInvStep
<1>3. DbInv => FileSound
  BY DbInvSound
<1> QED BY <1>1, <1>2, <1>3, PTL DEF DbSpec
=============================================================================
