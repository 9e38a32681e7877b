------------------------------ MODULE PosixEnv ------------------------------
(***************************************************************************)
(* The process-wide parts of PosixEnv (leveldb/util/env_posix.cc): the      *)
(* limit on mapped table files, the lock on a database directory and the    *)
(* bgqueue of the background thread.  Two processes compete for one LOCK      *)
(* file; each has threads that lock and unlock it.  The operating system's  *)
(* record lock belongs to a process, and closing any descriptor of the file *)
(* gives it up.                                                             *)
(***************************************************************************)
EXTENDS Integers, Sequences, FiniteSets

CONSTANTS Lockers,      \* the threads that open the database, of all processes
          ProcessOf,    \* thread -> its process
          MmapLimit,    \* 1000 in the code
          Mappers,      \* threads that open table files, of one process
          MaxItems      \* bound: calls of Schedule

VARIABLES
    lockedFiles,  \* locked_files_ of each process: whether it holds the name
    fcntlOwner,   \* external: the process whose record lock stands, or NoOwner
    locker,       \* thread -> "idle", "opened", "inserted", "locked", "unlocked", "removed"
    allowed,      \* allowed_
    mapper,       \* thread -> "idle", "checked", "acquired", "mapped" or "pread"
    bgqueue,        \* queue_: the items scheduled and not taken
    waiting,      \* the background thread is in pthread_cond_wait
    started,      \* started_bgthread_
    items,        \* items scheduled so far
    ran           \* the items run, in order

evars == <<lockedFiles, fcntlOwner, locker, allowed, mapper, bgqueue, waiting, started, items, ran>>
lockVars == <<lockedFiles, fcntlOwner, locker>>
mmapVars == <<allowed, mapper>>
itemVars == <<bgqueue, waiting, started, items, ran>>

NoOwner == "none"

EnvInit ==
    /\ lockedFiles = {} /\ fcntlOwner = NoOwner
    /\ locker = [t \in Lockers |-> "idle"]
    /\ allowed = MmapLimit /\ mapper = [t \in Mappers |-> "idle"]
    /\ bgqueue = <<>> /\ waiting = FALSE /\ started = FALSE /\ items = 0 /\ ran = <<>>

\* close() of a descriptor of the LOCK file by a process: its record lock goes.
AfterClose(owner, p) == IF owner = p THEN NoOwner ELSE owner

\* LockFile: open, then the table of the process, then fcntl.
LockFile_Open(t) ==
    /\ locker[t] = "idle" /\ locker' = [locker EXCEPT ![t] = "opened"]
    /\ UNCHANGED <<lockedFiles, fcntlOwner, mmapVars, itemVars>>

LockFile_Insert(t) ==
    LET p == ProcessOf[t]
    IN  /\ locker[t] = "opened"
        /\ \/ /\ p \notin lockedFiles
              /\ lockedFiles' = lockedFiles \cup {p}
              /\ locker' = [locker EXCEPT ![t] = "inserted"]
              /\ UNCHANGED fcntlOwner
           \/ /\ p \in lockedFiles     \* "already held by process": close(fd)
              /\ locker' = [locker EXCEPT ![t] = "idle"]
              /\ fcntlOwner' = AfterClose(fcntlOwner, p)
              /\ UNCHANGED lockedFiles
        /\ UNCHANGED <<mmapVars, itemVars>>

LockFile_Fcntl(t) ==
    LET p == ProcessOf[t]
    IN  /\ locker[t] = "inserted"
        /\ \/ /\ fcntlOwner \in {NoOwner, p}
              /\ fcntlOwner' = p /\ locker' = [locker EXCEPT ![t] = "locked"]
              /\ UNCHANGED lockedFiles
           \/ /\ fcntlOwner \notin {NoOwner, p}
              /\ lockedFiles' = lockedFiles \ {p}
              /\ locker' = [locker EXCEPT ![t] = "idle"]
              /\ UNCHANGED fcntlOwner
        /\ UNCHANGED <<mmapVars, itemVars>>

\* UnlockFile: fcntl, then the table, then close.
UnlockFile_Fcntl(t) ==
    /\ locker[t] = "locked" /\ locker' = [locker EXCEPT ![t] = "unlocked"]
    /\ fcntlOwner' = AfterClose(fcntlOwner, ProcessOf[t])
    /\ UNCHANGED <<lockedFiles, mmapVars, itemVars>>

UnlockFile_Remove(t) ==
    /\ locker[t] = "unlocked" /\ locker' = [locker EXCEPT ![t] = "removed"]
    /\ lockedFiles' = lockedFiles \ {ProcessOf[t]}
    /\ UNCHANGED <<fcntlOwner, mmapVars, itemVars>>

UnlockFile_Close(t) ==
    /\ locker[t] = "removed" /\ locker' = [locker EXCEPT ![t] = "idle"]
    /\ fcntlOwner' = AfterClose(fcntlOwner, ProcessOf[t])
    /\ UNCHANGED <<lockedFiles, mmapVars, itemVars>>

\* NewRandomAccessFile: MmapLimiter::Acquire looks without the mutex, then again
\* with it; without a slot the file is read with pread.
Acquire_Look(t) ==
    /\ mapper[t] = "idle"
    /\ mapper' = [mapper EXCEPT ![t] = IF allowed <= 0 THEN "pread" ELSE "checked"]
    /\ UNCHANGED <<allowed, lockVars, itemVars>>

Acquire_Take(t) ==
    /\ mapper[t] = "checked"
    /\ mapper' = [mapper EXCEPT ![t] = IF allowed <= 0 THEN "pread" ELSE "acquired"]
    /\ allowed' = IF allowed <= 0 THEN allowed ELSE allowed - 1
    /\ UNCHANGED <<lockVars, itemVars>>

\* The rest: GetFileSize and mmap, and the slot given back when one fails.
NewRandomAccessFile(t, ok) ==
    /\ mapper[t] = "acquired"
    /\ mapper' = [mapper EXCEPT ![t] = IF ok THEN "mapped" ELSE "idle"]
    /\ allowed' = IF ok THEN allowed ELSE allowed + 1
    /\ UNCHANGED <<lockVars, itemVars>>

\* The destructors of the two kinds of file.
DeleteFile(t) ==
    /\ mapper[t] \in {"mapped", "pread"}
    /\ mapper' = [mapper EXCEPT ![t] = "idle"]
    /\ allowed' = IF mapper[t] = "mapped" THEN allowed + 1 ELSE allowed
    /\ UNCHANGED <<lockVars, itemVars>>

\* Schedule: the signal is sent only when the bgqueue is empty.
Schedule ==
    /\ items < MaxItems /\ items' = items + 1
    /\ started' = TRUE
    /\ waiting' = (waiting /\ bgqueue # <<>>)
    /\ bgqueue' = Append(bgqueue, items + 1)
    /\ UNCHANGED <<ran, lockVars, mmapVars>>

\* BGThread: wait while the bgqueue is empty, else take the first item and run it.
BGThread ==
    /\ started /\ ~waiting
    /\ IF bgqueue = <<>>
       THEN waiting' = TRUE /\ UNCHANGED <<bgqueue, ran>>
       ELSE ran' = Append(ran, Head(bgqueue)) /\ bgqueue' = Tail(bgqueue) /\ UNCHANGED waiting
    /\ UNCHANGED <<started, items, lockVars, mmapVars>>

EnvNext ==
    \/ \E t \in Lockers :
          \/ LockFile_Open(t) \/ LockFile_Insert(t) \/ LockFile_Fcntl(t)
          \/ UnlockFile_Fcntl(t) \/ UnlockFile_Remove(t) \/ UnlockFile_Close(t)
    \/ \E t \in Mappers :
          \/ Acquire_Look(t) \/ Acquire_Take(t) \/ DeleteFile(t)
          \/ \E ok \in BOOLEAN : NewRandomAccessFile(t, ok)
    \/ Schedule \/ BGThread

EnvSpec == EnvInit /\ [][EnvNext]_evars /\ WF_evars(BGThread)

(* LockFile: at most one thread of all processes has the database open, and
   while it does the operating system's lock stands in its process's name; the
   slots for mapped files are all accounted for and never more than the limit. *)
LockExclusive ==
    /\ \A t \in Lockers : locker[t] = "locked" => fcntlOwner = ProcessOf[t]
    /\ Cardinality({t \in Lockers : locker[t] = "locked"}) <= 1
    /\ allowed >= 0
    /\ allowed + Cardinality({t \in Mappers : mapper[t] \in {"acquired", "mapped"}}) = MmapLimit

(* Schedule: every item is run, once and in the order of the calls, although
   the thread is woken only by the call that finds the bgqueue empty. *)
ScheduledRun ==
    /\ []\A i \in 1 .. Len(ran) : ran[i] = i
    /\ \A i \in 1 .. MaxItems : (items = i) ~> (Len(ran) >= i)
=============================================================================
