------------------------------ MODULE LevelDB ------------------------------
(***************************************************************************)
(* The storage engine under the block tree and the coins database          *)
(* (leveldb::DBImpl and VersionSet): the queue of writers and its group    *)
(* commit, the log, the two memtables, the versions with their table       *)
(* files, the background thread that flushes and compacts, readers that    *)
(* pin a version, and recovery after the process or the machine stops.     *)
(*                                                                         *)
(* A user key is a number, an entry is one operation of a batch with its   *)
(* sequence number, and val is the identity of the write.  A table file is *)
(* the set of its entries.  Every step that runs without mutex_ is an      *)
(* action of its own.  No program in this repository calls GetSnapshot, so *)
(* snapshots_ is empty, and paranoid_checks is off, so bg_error_ is never  *)
(* set.  File creation, renaming and removal reach the disk in order.      *)
(***************************************************************************)
EXTENDS Integers, Sequences, FiniteSets, SequencesExt

CONSTANTS
    Keys,            \* the user keys, natural numbers
    Writers,         \* the threads that call Write
    SyncWriters,     \* those that pass syncoptions
    Readers,         \* the threads that call Get or hold an iterator
    Batches,         \* the batches a writer may submit: sequences of [key, del]
    MaxWrites,       \* bound: operations submitted
    MaxFaults,       \* bound: stops of the process or the machine, failed I/O
    BufferSize,      \* options_.write_buffer_size, in entries
    GroupLimit,      \* the size limit of BuildBatchGroup, in operations
    NumLevels,       \* config::kNumLevels
    MaxMemLevel,     \* config::kMaxMemCompactLevel
    L0Trigger,       \* config::kL0_CompactionTrigger
    L0Stop,          \* config::kL0_StopWritesTrigger
    LevelSize,       \* MaxBytesForLevel, in entries
    GrandLimit,      \* kMaxGrandParentOverlapBytes, in entries
    ExpandLimit      \* kExpandedCompactionByteSizeLimit, in entries

ASSUME EngineAssumption ==
    /\ Keys \subseteq Nat /\ SyncWriters \subseteq Writers
    /\ \A c \in {MaxWrites, MaxFaults, BufferSize, GroupLimit, MaxMemLevel,
                 LevelSize, GrandLimit, ExpandLimit} : c \in Nat
    /\ NumLevels \in Nat /\ NumLevels > 1 /\ MaxMemLevel < NumLevels
    /\ L0Trigger \in Nat /\ L0Stop \in Nat /\ L0Trigger > 0
    /\ L0Stop >= L0Trigger

VARIABLES
    \* what survives the process
    logs,            \* log file number -> its records, in order
    synced,          \* log file number -> how many records are on the medium
    tables,          \* table file number -> its entries
    manifest,        \* what replaying the descriptor named by CURRENT yields
    \* the process
    mode,            \* "down", "opening" or "up"
    writers_,        \* the queue of writers
    req,             \* writer -> its Writer record, or Idle
    group,           \* the batch group being written by the head writer
    mem, imm,        \* mem_ and imm_ (imm_ = NULL is NoTable)
    vset,            \* VersionSet: current, log number, next file, last sequence
    pending,         \* pending_outputs_
    bg,              \* the background thread
    reads,           \* reader -> what it pinned, or Idle
    \* bounds and history
    issued, faults,
    history,         \* the entries the database logically holds
    promised         \* the values of acknowledged synchronous writes

diskVars   == <<logs, synced, tables, manifest>>
writes == <<writers_, req, group>>
ldbvars   == <<diskVars, mode, writes, mem, imm, vset, pending, bg, reads,
            issued, faults, history, promised>>

Idle == [op |-> "idle"]
NoTable == {[op |-> "null"]}
Levels == 0 .. NumLevels - 1
NoFiles == [l \in Levels |-> {}]

----------------------------------------------------------------------------
(* Internal keys and lookups                                               *)

\* InternalKeyComparator::Compare: by user key, then the newest first.
Before(a, b) == a.key < b.key \/ (a.key = b.key /\ a.seq > b.seq)

\* DBIter and SaveValue stop at the first entry of the user key that is at or
\* below the sequence number: the newest one.
Newest(S, k, s) ==
    LET seen == {e \in S : e.key = k /\ e.seq <= s}
    IN  {e \in seen : \A f \in seen : f.seq <= e.seq}

\* The value a lookup returns: the write it finds, or 0 when there is none or
\* it is a deletion.
ValueOf(found) ==
    IF \E e \in found : ~e.del THEN (CHOOSE e \in found : TRUE).val ELSE 0

KeysOf(S) == {e.key : e \in S}
Lo(S) == CHOOSE k \in KeysOf(S) : \A j \in KeysOf(S) : k <= j
Hi(S) == CHOOSE k \in KeysOf(S) : \A j \in KeysOf(S) : k >= j

Contents(fs) == UNION {tables[n] : n \in fs}
Size(fs) == Cardinality(Contents(fs))

\* SomeFileOverlapsRange, and GetOverlappingInputs above level 0.
Touching(fs, lo, hi) == {n \in fs : Lo(tables[n]) <= hi /\ Hi(tables[n]) >= lo}

\* GetOverlappingInputs: level-0 files may overlap each other, so a file that
\* widens the range restarts the search; it ends with the least range that no
\* file crosses.
GetOverlappingInputs(v, level, lo, hi) ==
    IF level > 0 THEN Touching(v[level], lo, hi)
    ELSE LET settled == {r \in Keys \X Keys :
                 /\ r[1] <= lo /\ hi <= r[2]
                 /\ \A n \in Touching(v[0], r[1], r[2]) :
                       r[1] <= Lo(tables[n]) /\ Hi(tables[n]) <= r[2]}
         IN  {n \in v[0] : \A r \in settled : n \in Touching({n}, r[1], r[2])}

\* The files of one level in which Version::Get looks: at level 0 every file
\* whose range holds the key, above it the one FindFile's search yields.
Candidates(v, level, k, s) ==
    IF level = 0 THEN Touching(v[0], k, k)
    ELSE LET target == [key |-> k, seq |-> s]
             Largest(n) == CHOOSE e \in tables[n] :
                            \A f \in tables[n] : ~Before(e, f)
             after == {n \in v[level] : ~Before(Largest(n), target)}
         IN  {n \in after : /\ \A m \in after \ {n} : Before(Largest(n), Largest(m))
                            /\ Lo(tables[n]) <= k}

\* Version::Get: level by level, level 0 from the newest file to the oldest,
\* and the first file that has the key answers.
VersionGet(v, k, s) ==
    LET hits == {<<l, n>> \in Levels \X UNION {v[l] : l \in Levels} :
                    /\ n \in Candidates(v, l, k, s)
                    /\ Newest(tables[n], k, s) # {}}
        first == {h \in hits : \A g \in hits :
                    h[1] < g[1] \/ (h[1] = g[1] /\ h[2] >= g[2])}
    IN  IF hits = {} THEN {}
        ELSE Newest(tables[(CHOOSE h \in first : TRUE)[2]], k, s)

\* DBImpl::Get: the memtable, the one being flushed, then the version.
DBGet(m, i, v, k, s) ==
    CASE Newest(m, k, s) # {} -> Newest(m, k, s)
      [] Newest(m, k, s) = {} /\ i # NoTable /\ Newest(i, k, s) # {} ->
            Newest(i, k, s)
      [] OTHER -> VersionGet(v, k, s)

----------------------------------------------------------------------------
(* The state of the version set                                            *)

NoGroup == [step |-> "none"]
NoFlush == [step |-> "none"]
NoComp  == [step |-> "none"]
BgOff   == [at |-> "off", flush |-> NoFlush, comp |-> NoComp]

MinusAll(f, S) == [x \in DOMAIN f \ S |-> f[x]]
With(f, x, y) == [z \in DOMAIN f \cup {x} |-> IF z = x THEN y ELSE f[z]]

\* Finalize: the score of a level is its size over its limit, level 0 counts
\* files; the best level is the first with the highest score.
Score(v, l) == IF l = 0 THEN <<Cardinality(v[0]), L0Trigger>>
                        ELSE <<Size(v[l]), LevelSize>>
Above(a, b) == a[1] * b[2] > b[1] * a[2]
BestLevel(v) ==
    CHOOSE l \in 0 .. NumLevels - 2 : \A m \in 0 .. NumLevels - 2 :
        /\ ~Above(Score(v, m), Score(v, l))
        /\ Above(Score(v, l), Score(v, m)) \/ l <= m

NeedsCompaction(vs) ==
    LET s == Score(vs.cur, BestLevel(vs.cur))
    IN  s[1] >= s[2] \/ vs.seek # 0

(* The variant forgets the immutable memtable. *)
ScheduleCompaction(at, i, vs) == IF at = "off" /\ NeedsCompaction(vs) THEN "scheduled" ELSE at

\* MaybeScheduleCompaction, when nothing is scheduled.
MaybeSchedule(at, i, vs) ==
    IF at = "off" /\ (i # NoTable \/ NeedsCompaction(vs)) THEN "scheduled" ELSE at

\* VersionSet::Builder: the deleted files leave their levels, the added ones
\* enter theirs.
Apply(v, deleted, level, added) ==
    [l \in Levels |-> (v[l] \ deleted) \cup (IF l = level THEN added ELSE {})]

(* The variant does not look for overlaps. *)
PickDeepest(v, lo, hi) == MaxMemLevel

\* PickLevelForMemTableOutput.
PickLevel(v, lo, hi) ==
    LET free(j) == /\ Touching(v[j + 1], lo, hi) = {}
                   /\ j + 2 < NumLevels =>
                        Size(Touching(v[j + 2], lo, hi)) <= GrandLimit
    IN  IF Touching(v[0], lo, hi) # {} THEN 0
        ELSE Max({m \in 0 .. MaxMemLevel : \A j \in 0 .. m - 1 : free(j)})

\* AddLiveFiles: the files of every version that is referenced.
Files(v) == UNION {v[l] : l \in Levels}
(* The variant forgets the versions that readers hold. *)
LiveOfCurrent(cur, c, rs) == Files(cur) \cup (IF c = NoComp THEN {} ELSE Files(c.base))
LiveFiles(cur, c, rs) ==
    Files(cur) \cup (IF c = NoComp THEN {} ELSE Files(c.base))
        \cup UNION {Files(rs[r].cur) : r \in {q \in Readers : rs[q] # Idle}}

\* DeleteObsoleteFiles.
Keep(vs, pend, c) ==
    /\ tables' = MinusAll(tables, DOMAIN tables \ (pend \cup LiveFiles(vs.cur, c, reads)))
    /\ logs'   = MinusAll(logs, {n \in DOMAIN logs : n < vs.log})
    /\ synced' = MinusAll(synced, {n \in DOMAIN synced : n < vs.log})

\* What a descriptor record carries: LogAndApply.
Descr(vs) == [cur |-> vs.cur, log |-> vs.log, next |-> vs.next, last |-> vs.last]

----------------------------------------------------------------------------
(* Write                                                                   *)

LdbInit ==
    /\ logs = [n \in {3} |-> <<>>] /\ synced = [n \in {3} |-> 0] /\ tables = <<>>
    /\ manifest = [cur |-> NoFiles, log |-> 3, next |-> 4, last |-> 0]
    /\ mode = "up" /\ writers_ = <<>> /\ req = [w \in Writers |-> Idle]
    /\ group = NoGroup /\ mem = {} /\ imm = NoTable
    /\ vset = [cur |-> NoFiles, log |-> 3, next |-> 4, last |-> 0,
               logfile |-> 3, seek |-> 0]
    /\ pending = {} /\ bg = BgOff /\ reads = [r \in Readers |-> Idle]
    /\ issued = 0 /\ faults = 0 /\ history = {}
    /\ promised = {}

\* A thread calls Write: its Writer joins writers_.  An empty batch is what
\* CLevelDB::Sync submits.
Submit(w) ==
    /\ mode = "up" /\ req[w] = Idle
    /\ \E b \in Batches :
        LET n == IF b = <<>> THEN 1 ELSE Len(b) IN
        /\ b = <<>> => w \in SyncWriters
        /\ issued + n <= MaxWrites
        /\ issued' = issued + n
        /\ req' = [req EXCEPT ![w] =
              [op |-> "write", sync |-> w \in SyncWriters,
               ops |-> [i \in 1 .. Len(b) |->
                          [key |-> b[i].key, del |-> b[i].del, val |-> issued + i]]]]
    /\ writers_' = Append(writers_, w)
    /\ UNCHANGED <<diskVars, mode, group, mem, imm, vset, pending, bg, reads,
                   faults, history, promised>>

(* The variant takes along whoever waits. *)
GroupAll == Len(writers_)

\* BuildBatchGroup: how many writers the head takes along.
GroupSize ==
    LET first == req[writers_[1]]
        Total[i \in 0 .. Len(writers_)] ==
            IF i = 0 THEN 0 ELSE Total[i - 1] + Len(req[writers_[i]].ops)
        Fits(n) == \A i \in 2 .. n :
                      /\ ~(req[writers_[i]].sync /\ ~first.sync)
                      /\ Total[i] <= GroupLimit
    IN  Max({n \in 1 .. Len(writers_) : Fits(n)})

\* The operations of a group, with their sequence numbers.
GroupOps(n) ==
    LET Cat[i \in 0 .. n] == IF i = 0 THEN <<>> ELSE Cat[i - 1] \o req[writers_[i]].ops
    IN  [j \in 1 .. Len(Cat[n]) |->
           [key |-> Cat[n][j].key, del |-> Cat[n][j].del, val |-> Cat[n][j].val,
            seq |-> vset.last + j]]

Entries(rec) == {rec[j] : j \in 1 .. Len(rec)}

Head1 == writers_ # <<>> /\ mode = "up" /\ group = NoGroup
HasRoom == Cardinality(mem) <= BufferSize

\* MakeRoomForWrite finds room; the head forms its group, lets go of the mutex
\* and appends one record to the log.
WriteLog ==
    /\ Head1 /\ HasRoom
    /\ LET n == GroupSize
           ops == GroupOps(n)
       IN  \/ /\ logs' = [logs EXCEPT ![vset.logfile] = Append(@, ops)]
              /\ group' = [step |-> IF req[writers_[1]].sync THEN "sync" ELSE "insert",
                           n |-> n, ops |-> ops, ok |-> TRUE]
              /\ UNCHANGED faults
           \/ /\ faults < MaxFaults /\ faults' = faults + 1
              /\ group' = [step |-> "finish", n |-> n, ops |-> ops, ok |-> FALSE]
              /\ UNCHANGED logs
    /\ UNCHANGED <<synced, tables, manifest, mode, writers_, req, mem, imm, vset,
                   pending, bg, reads, issued, history, promised>>

\* logfile_->Sync().
WriteSync ==
    /\ group.step = "sync"
    /\ \/ /\ synced' = [synced EXCEPT ![vset.logfile] = Len(logs[vset.logfile])]
          /\ group' = [group EXCEPT !.step = "insert"]
          /\ UNCHANGED faults
       \/ /\ faults < MaxFaults /\ faults' = faults + 1
          /\ group' = [group EXCEPT !.step = "finish", !.ok = FALSE]
          /\ UNCHANGED synced
    /\ UNCHANGED <<logs, tables, manifest, mode, writers_, req, mem, imm, vset,
                   pending, bg, reads, issued, history, promised>>

\* WriteBatchInternal::InsertInto(updates, mem_), still without the mutex.
WriteInsert ==
    /\ group.step = "insert"
    /\ mem' = mem \cup Entries(group.ops)
    /\ group' = [group EXCEPT !.step = "finish"]
    /\ UNCHANGED <<diskVars, mode, writers_, req, imm, vset, pending, bg, reads,
                   issued, faults, history, promised>>

\* The mutex again: the last sequence number advances whatever the status, and
\* every writer of the group returns.
WriteFinish ==
    /\ group.step = "finish"
    /\ vset' = [vset EXCEPT !.last = @ + Len(group.ops)]
    /\ writers_' = SubSeq(writers_, group.n + 1, Len(writers_))
    /\ LET done == {writers_[i] : i \in 1 .. group.n}
           flushed == {w \in done : req[w].sync}
       IN  /\ req' = [w \in Writers |-> IF w \in done THEN Idle ELSE req[w]]
           /\ history' = IF group.ok THEN history \cup Entries(group.ops) ELSE history
           /\ promised' =
                IF ~group.ok THEN promised
                ELSE promised \cup UNION {{o.val : o \in Entries(req[w].ops)} : w \in flushed}
    /\ group' = NoGroup
    /\ UNCHANGED <<diskVars, mode, mem, imm, pending, bg, reads, issued, faults>>

\* MakeRoomForWrite: the memtable is full and the other one is free, so a new
\* log is opened and the memtables change places.  When the file cannot be
\* created its number is given back and the head writer fails.
SwitchMemTable ==
    /\ Head1 /\ ~HasRoom /\ imm = NoTable /\ Cardinality(vset.cur[0]) < L0Stop
    /\ \/ /\ logs' = With(logs, vset.next, <<>>)
          /\ synced' = With(synced, vset.next, 0)
          /\ imm' = mem /\ mem' = {}
          /\ vset' = [vset EXCEPT !.next = @ + 1, !.logfile = vset.next]
          /\ bg' = [bg EXCEPT !.at = MaybeSchedule(@, mem, vset)]
          /\ UNCHANGED <<writers_, req, faults>>
       \/ /\ faults < MaxFaults /\ faults' = faults + 1
          /\ writers_' = Tail(writers_) /\ req' = [req EXCEPT ![writers_[1]] = Idle]
          /\ UNCHANGED <<logs, synced, imm, mem, vset, bg>>
    /\ UNCHANGED <<tables, manifest, mode, group, pending, reads, issued,
                   history, promised>>

----------------------------------------------------------------------------
(* The background thread: flushing the immutable memtable                  *)

\* BackgroundCall ends: it may be scheduled again at once.
Finished(vs, i) == [BgOff EXCEPT !.at = MaybeSchedule("off", i, vs)]

\* CompactMemTable starts, at the top of the call or between two keys of a
\* compaction: WriteLevel0Table takes a file number and unlocks.
FlushBegin ==
    /\ mode = "up" /\ imm # NoTable /\ bg.flush = NoFlush
    /\ bg.at = "scheduled" \/ (bg.comp.step = "work" /\ ~bg.comp.move)
    /\ bg' = [bg EXCEPT !.at = "busy", !.flush = [step |-> "build", num |-> vset.next]]
    /\ vset' = [vset EXCEPT !.next = @ + 1]
    /\ pending' = pending \cup {vset.next}
    /\ UNCHANGED <<diskVars, mode, writes, mem, imm, reads, issued, faults, history,
                   promised>>

\* The flush is given up: within a compaction the compaction goes on, else
\* BackgroundCall waits and schedules itself again.
FlushFails ==
    /\ faults < MaxFaults /\ faults' = faults + 1
    /\ bg' = IF bg.comp # NoComp THEN [bg EXCEPT !.flush = NoFlush]
                                 ELSE Finished(vset, imm)
    /\ pending' = pending \ {bg.flush.num}
    /\ UNCHANGED <<diskVars, vset>>

\* BuildTable writes the table and syncs it, or fails and removes it.
FlushBuild ==
    /\ bg.flush.step = "build"
    /\ \/ /\ tables' = With(tables, bg.flush.num, imm)
          /\ bg' = [bg EXCEPT !.flush.step = "built"]
          /\ UNCHANGED <<logs, synced, manifest, vset, pending, faults>>
       \/ FlushFails
    /\ UNCHANGED <<mode, writes, mem, imm, reads, issued, history, promised>>

\* The version set after the flush, which no longer needs the earlier logs.
Flushed ==
    [vset EXCEPT !.cur = Apply(@, {}, PickLevel(@, Lo(imm), Hi(imm)), {bg.flush.num}),
                 !.log = vset.logfile, !.seek = 0]

\* LogAndApply writes the edit to the descriptor and syncs it.
FlushLog ==
    /\ bg.flush.step = "built"
    /\ \/ /\ manifest' = Descr(Flushed)
          /\ bg' = [bg EXCEPT !.flush = [step |-> "logged", num |-> @.num, new |-> Flushed.cur,
                                         log |-> vset.logfile]]
          /\ pending' = pending \ {bg.flush.num}
          /\ UNCHANGED <<logs, synced, tables, vset, faults>>
       \/ FlushFails
    /\ UNCHANGED <<mode, writes, mem, imm, reads, issued, history, promised>>

\* LogAndApply installs the version, and CompactMemTable drops the memtable and
\* removes the files nothing refers to.
FlushInstall ==
    /\ bg.flush.step = "logged"
    /\ LET vs == [vset EXCEPT !.cur = bg.flush.new, !.log = bg.flush.log, !.seek = 0]
       IN  /\ vset' = vs
           /\ Keep(vs, pending, bg.comp)
           /\ bg' = IF bg.comp # NoComp THEN [bg EXCEPT !.flush = NoFlush]
                                        ELSE Finished(vs, NoTable)
    /\ imm' = NoTable
    /\ UNCHANGED <<manifest, mode, writes, mem, pending, reads, issued, faults,
                   history, promised>>

----------------------------------------------------------------------------
(* The background thread: compactions                                      *)

\* SetupOtherInputs: the files of the next level under the range of the
\* inputs, and more files of this level when that adds none to the next.
Inputs(v, l, in0) ==
    LET c0 == Contents(in0)
        in1 == GetOverlappingInputs(v, l + 1, Lo(c0), Hi(c0))
        all == Contents(in0 \cup in1)
        more0 == GetOverlappingInputs(v, l, Lo(all), Hi(all))
        m0 == Contents(more0)
        more1 == GetOverlappingInputs(v, l + 1, Lo(m0), Hi(m0))
        widen == /\ in1 # {} /\ Cardinality(more0) > Cardinality(in0)
                 /\ Size(in1) + Size(more0) < ExpandLimit
                 /\ Cardinality(more1) = Cardinality(in1)
    IN  IF widen THEN <<more0, more1>> ELSE <<in0, in1>>

\* IsBaseLevelForKey: no deeper file of the input version can hold the key.
IsBaseLevelForKey(v, l, k) == \A d \in l + 2 .. NumLevels - 1 : Touching(v[d], k, k) = {}

\* The loop of DoCompactionWork: an entry is dropped when a newer entry of its
\* key is already as old as every reader's view, and a deletion when nothing
\* deeper is left for it to hide.
Kept(v, l, in, smallest) ==
    LET all == Contents(in) IN
    {e \in all :
        /\ ~\E f \in all : /\ f.key = e.key /\ f.seq > e.seq /\ f.seq <= smallest
        /\ ~(e.del /\ e.seq <= smallest /\ IsBaseLevelForKey(v, l, e.key))}

\* PickCompaction: the level that is too large, else the file that was
\* searched in vain too often.  compact_pointer_ only chooses among the files
\* of the level.
Picks ==
    LET l == BestLevel(vset.cur)
        s == Score(vset.cur, l)
    IN  IF s[1] >= s[2] THEN {<<l, n>> : n \in vset.cur[l]}
        ELSE {<<m, n>> \in Levels \X {vset.seek} : n \in vset.cur[m]}

\* BackgroundCompaction: nothing to do, a file to move down, or files to merge.
CompactBegin ==
    /\ mode = "up" /\ bg.at = "scheduled" /\ imm = NoTable
    /\ \/ /\ ~NeedsCompaction(vset)
          /\ bg' = BgOff
       \/ \E p \in Picks :
            LET v == vset.cur
                l == p[1]
                in0 == IF l > 0 THEN {p[2]}
                       ELSE GetOverlappingInputs(v, 0, Lo(tables[p[2]]), Hi(tables[p[2]]))
            IN
            \E in \in {Inputs(v, l, in0)} :
            LET all == Contents(in[1] \cup in[2])
                above == IF l + 2 < NumLevels
                         THEN GetOverlappingInputs(v, l + 2, Lo(all), Hi(all)) ELSE {}
                move == /\ Cardinality(in[1]) = 1 /\ in[2] = {}
                        /\ Size(above) <= GrandLimit
            IN  /\ NeedsCompaction(vset)
                /\ bg' = [bg EXCEPT !.at = "busy", !.comp =
                     [step |-> "work", level |-> l, in |-> in[1] \cup in[2],
                      base |-> v, move |-> move, outs |-> {},
                      todo |-> IF move THEN {}
                               ELSE Kept(v, l, in[1] \cup in[2], vset.last)]]
    /\ UNCHANGED <<diskVars, mode, writes, mem, imm, vset, pending, reads, issued,
                   faults, history, promised>>

\* CleanupCompaction, ReleaseInputs and DeleteObsoleteFiles after a failure.
CompactFails ==
    /\ faults < MaxFaults /\ faults' = faults + 1
    /\ pending' = pending \ bg.comp.outs
    /\ IF bg.comp.move THEN UNCHANGED <<tables, logs, synced>>
                       ELSE Keep(vset, pending \ bg.comp.outs, NoComp)
    /\ bg' = Finished(vset, imm)
    /\ UNCHANGED <<manifest, vset>>

\* One output file of a compaction: the next entries in order, as many as the
\* size limits allow, written and synced without the mutex.
CompactOutput ==
    /\ bg.comp.step = "work" /\ bg.comp.todo # {} /\ bg.flush = NoFlush
    /\ \/ \E last \in bg.comp.todo :
            LET out == {e \in bg.comp.todo : ~Before(last, e)} IN
            /\ tables' = With(tables, vset.next, out)
            /\ pending' = pending \cup {vset.next}
            /\ vset' = [vset EXCEPT !.next = @ + 1]
            /\ bg' = [bg EXCEPT !.comp.todo = @ \ out, !.comp.outs = @ \cup {vset.next}]
            /\ UNCHANGED <<logs, synced, manifest, faults>>
       \/ CompactFails
    /\ UNCHANGED <<mode, writes, mem, imm, reads, issued, history, promised>>

\* The version after the compaction: the edit is applied to the version that
\* is current now, which a flush may have changed meanwhile.
Compacted ==
    LET c == bg.comp IN
    Apply(vset.cur, c.in, c.level + 1, IF c.move THEN c.in ELSE c.outs)

\* InstallCompactionResults, or the edit of a move: LogAndApply to the disk.
CompactLog ==
    /\ bg.comp.step = "work" /\ bg.comp.todo = {} /\ bg.flush = NoFlush
    /\ \/ /\ manifest' = Descr([vset EXCEPT !.cur = Compacted])
          /\ bg' = [bg EXCEPT !.comp.step = "logged"]
          /\ UNCHANGED <<logs, synced, tables, vset, pending, faults>>
       \/ CompactFails
    /\ UNCHANGED <<mode, writes, mem, imm, reads, issued, history, promised>>

CompactInstall ==
    /\ bg.comp.step = "logged"
    /\ LET vs == [vset EXCEPT !.cur = Compacted, !.seek = 0]
           c == bg.comp
       IN  /\ vset' = vs
           /\ pending' = pending \ c.outs
           /\ IF c.move THEN UNCHANGED <<tables, logs, synced>>
                        ELSE Keep(vs, pending \ c.outs, NoComp)
           /\ bg' = Finished(vs, imm)
    /\ UNCHANGED <<manifest, mode, writes, mem, imm, reads, issued, faults,
                   history, promised>>

----------------------------------------------------------------------------
(* Readers                                                                 *)

\* Get and NewInternalIterator take the sequence number and the references
\* under the mutex.  What enters the memtable later has a higher number.
ReadBegin(r) ==
    /\ mode = "up" /\ reads[r] = Idle
    /\ reads' = [reads EXCEPT ![r] =
          [op |-> "read", snap |-> vset.last, mem |-> mem, imm |-> imm, cur |-> vset.cur,
           want |-> [k \in Keys |-> ValueOf(Newest(history, k, vset.last))]]]
    /\ UNCHANGED <<diskVars, mode, writes, mem, imm, vset, pending, bg, issued,
                   faults, history, promised>>

\* The reference is dropped; UpdateStats may find that the first of several
\* files searched has used up its seeks.
ReadEnd(r) ==
    /\ mode = "up" /\ reads[r] # Idle
    /\ reads' = [reads EXCEPT ![r] = Idle]
    /\ LET at(k) == {<<l, n>> \in Levels \X Files(vset.cur) :
                       n \in Candidates(vset.cur, l, k, reads[r].snap)}
           first(k) == {h \in at(k) : \A g \in at(k) :
                          h[1] < g[1] \/ (h[1] = g[1] /\ h[2] >= g[2])}
           charged == UNION {{h[2] : h \in first(k)} :
                             k \in {j \in Keys : Cardinality(at(j)) > 1}}
       IN  \E n \in {0} \cup charged :
              LET vs == IF n = 0 \/ vset.seek # 0 \/ reads[r].cur # vset.cur THEN vset
                        ELSE [vset EXCEPT !.seek = n]
              IN  /\ vset' = vs
                  /\ bg' = [bg EXCEPT !.at = MaybeSchedule(@, imm, vs)]
    /\ UNCHANGED <<diskVars, mode, writes, mem, imm, pending, issued, faults,
                   history, promised>>

----------------------------------------------------------------------------
(* Stopping and recovery                                                   *)

\* The process ends: nothing handed to the operating system is lost.  The
\* machine ends: of each log file some part beyond the last Sync is lost.
Stop(machine) ==
    /\ mode # "down" /\ faults < MaxFaults /\ faults' = faults + 1
    /\ \E kept \in [DOMAIN logs -> 0 .. MaxWrites] :
        LET live == {n \in DOMAIN logs : n >= manifest.log}
            of(f, ns) == UNION {UNION {Entries(f[n][i]) : i \in 1 .. Len(f[n])} : n \in ns}
            left == [n \in DOMAIN logs |-> SubSeq(logs[n], 1, kept[n])]
        IN  /\ \A n \in DOMAIN logs :
                  kept[n] \in (IF machine THEN synced[n] ELSE Len(logs[n])) .. Len(logs[n])
            /\ logs' = left
            /\ synced' = kept
            /\ history' = (history \ (of(logs, live) \ of(left, live))) \cup of(left, live)
    /\ mode' = "down" /\ writers_' = <<>> /\ req' = [w \in Writers |-> Idle]
    /\ group' = NoGroup /\ mem' = {} /\ imm' = NoTable
    /\ vset' = [vset EXCEPT !.cur = NoFiles, !.log = 0, !.next = 0, !.last = 0,
                            !.logfile = 0, !.seek = 0]
    /\ pending' = {} /\ bg' = BgOff /\ reads' = [r \in Readers |-> Idle]
    /\ UNCHANGED <<tables, manifest, issued, promised>>

\* RecoverLogFile: the records of a log fill memtables; each one that is full,
\* and the last one, becomes a table.
RecoverLogFile(records) ==
    LET Step(s, rec) ==
            LET m == s.mem \cup Entries(rec)
            IN  IF Cardinality(m) > BufferSize
                THEN [out |-> Append(s.out, m), mem |-> {}, open |-> FALSE]
                ELSE [out |-> s.out, mem |-> m, open |-> TRUE]
        end == FoldLeft(Step, [out |-> <<>>, mem |-> {}, open |-> FALSE], records)
    IN  IF end.open THEN Append(end.out, end.mem) ELSE end.out

\* The logs from the descriptor's log number on are replayed in the order of
\* their numbers; WriteLevel0Table takes a file number for each table, and
\* MarkFileNumberUsed keeps later numbers off the logs.
RecoverLogs ==
    LET live == {n \in DOMAIN logs : n >= manifest.log}
        start == Max({manifest.next + 1, manifest.log + 1})
        Step(s, n) ==
            LET out == RecoverLogFile(logs[n])
            IN  [next |-> Max({s.next + Len(out), n + 1}),
                 added |-> s.added @@ [x \in s.next .. s.next + Len(out) - 1 |->
                                           out[x - s.next + 1]]]
    IN  FoldLeft(Step, [next |-> start, added |-> <<>>], SetToSortSeq(live, <))

\* DB::Open up to the new log file: VersionSet::Recover reads the descriptor,
\* the logs are replayed, and the tables that are not empty enter level 0.
OpenRecover ==
    /\ mode = "down"
    /\ Files(manifest.cur) \subseteq DOMAIN tables
    /\ \E rec \in {RecoverLogs} :
         LET new == {n \in DOMAIN rec.added : rec.added[n] # {}}
             seqs == {e.seq : e \in UNION {rec.added[n] : n \in new}}
         IN  /\ tables' = [n \in DOMAIN tables \cup new |->
                              IF n \in new THEN rec.added[n] ELSE tables[n]]
             /\ logs' = With(logs, rec.next, <<>>)
             /\ synced' = With(synced, rec.next, 0)
             /\ vset' = [cur |-> Apply(manifest.cur, {}, 0, new),
                         log |-> rec.next, next |-> rec.next + 1,
                         logfile |-> rec.next, seek |-> 0,
                         last |-> Max({manifest.last} \cup seqs)]
    /\ mode' = "opening"
    /\ UNCHANGED <<manifest, writes, mem, imm, pending, bg, reads, issued, faults,
                   history, promised>>

\* LogAndApply writes a descriptor of its own and CURRENT is renamed to it;
\* then DeleteObsoleteFiles and MaybeScheduleCompaction.
OpenInstall ==
    /\ mode = "opening"
    /\ manifest' = Descr(vset)
    /\ Keep(vset, pending, NoComp)
    /\ bg' = [bg EXCEPT !.at = MaybeSchedule(@, imm, vset)]
    /\ mode' = "up"
    /\ UNCHANGED <<writes, mem, imm, vset, pending, reads, issued, faults, history,
                   promised>>

Background == \/ FlushBegin \/ FlushBuild \/ FlushLog \/ FlushInstall
              \/ CompactBegin \/ CompactOutput \/ CompactLog \/ CompactInstall
Writing == WriteLog \/ WriteSync \/ WriteInsert \/ WriteFinish \/ SwitchMemTable
Open == OpenRecover \/ OpenInstall

LdbNext ==
    \/ \E w \in Writers : Submit(w)
    \/ Writing
    \/ Background
    \/ \E r \in Readers : ReadBegin(r) \/ ReadEnd(r)
    \/ Stop(TRUE) \/ Stop(FALSE)
    \/ Open

\* The threads run: the background thread, the head writer, and recovery.
LdbFairness == WF_ldbvars(Background) /\ WF_ldbvars(Writing) /\ WF_ldbvars(Open)

LdbSpec == LdbInit /\ [][LdbNext]_ldbvars /\ LdbFairness

----------------------------------------------------------------------------
(* Properties                                                              *)

\* Every level above 0 holds files with disjoint ranges, as the assertion of
\* VersionSet::Builder demands, and an entry never lies below an older entry
\* of its key: the assumption under which Version::Get stops at the first hit.
LevelsOrdered ==
    mode = "up" =>
    LET v == vset.cur
        above(e, a, f, b) == e.key = f.key /\ e.seq > f.seq => a <= b
    IN  /\ \A l \in Levels \ {0} : \A m, n \in v[l] :
              m # n => Touching({m}, Lo(tables[n]), Hi(tables[n])) = {}
        /\ \A a, b \in Levels : \A e \in Contents(v[a]), f \in Contents(v[b]) :
              above(e, a, f, b)
        /\ \A m, n \in v[0] : m > n => \A e \in tables[m], f \in tables[n] :
              e.key = f.key => e.seq >= f.seq
        /\ \A e \in mem, f \in (IF imm = NoTable THEN {} ELSE imm) \cup Contents(Files(v)) :
              e.key = f.key => e.seq > f.seq

\* A Get returns the newest write of its key that the database holds, across
\* flushes, compactions, switches of the memtable and restarts: no restart
\* loses or resurrects a write, except what the machine lost with its logs.
GetIsNewest ==
    mode = "up" => \A k \in Keys :
        ValueOf(DBGet(mem, imm, vset.cur, k, vset.last))
            = ValueOf(Newest(history, k, MaxWrites))

\* A reader that has let go of the mutex finds every file of its version, and
\* in them what the database held when it started.
ReadersUndisturbed ==
    \A r \in Readers : reads[r] # Idle =>
        /\ Files(reads[r].cur) \subseteq DOMAIN tables
        /\ \A k \in Keys :
              ValueOf(DBGet(reads[r].mem, reads[r].imm, reads[r].cur, k, reads[r].snap))
                  = reads[r].want[k]

\* A write acknowledged with sync is never lost, also when it was written by
\* the group of another writer.
SyncedNeverLost == promised \subseteq {e.val : e \in history}

\* A recovery finds every table file its descriptor names, so it never ends
\* with "missing files".
NothingMissing == Files(manifest.cur) \subseteq DOMAIN tables

\* Write returns: the waits of MakeRoomForWrite end, because the background
\* thread is scheduled whenever a writer depends on it.
WritesReturn == \A w \in Writers : req[w] # Idle ~> req[w] = Idle

=============================================================================
