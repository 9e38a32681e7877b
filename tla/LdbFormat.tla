----------------------------- MODULE LdbFormat ------------------------------
(***************************************************************************)
(* The encodings of the storage engine: variable-length numbers and slices *)
(* (util/coding.cc), write batches (db/write_batch.cc) and version edits   *)
(* (db/version_edit.cc).  A byte is a number below 2 * B, where B, 128 in  *)
(* the code, marks that more bytes follow; numbers have Words bits, 32 in  *)
(* the code.  None stands for a failed decoding.                           *)
(***************************************************************************)
EXTENDS Integers, Sequences, SequencesExt

CONSTANTS B,          \* 2^7 in the code
          VBits,      \* the bits of B
          VWidth,     \* the bits of the number
          EditLevels  \* config::kNumLevels

None == <<>>

\* EncodeVarint32 and EncodeVarint64.
RECURSIVE EncodeVarint(_)
EncodeVarint(v) == IF v < B THEN <<v>> ELSE <<(v % B) + B>> \o EncodeVarint(v \div B)

\* GetVarint32PtrFallback and GetVarint64Ptr: <<value, rest>>; what a last byte
\* has beyond the width is shifted out.
GetVarint(in) ==
    LET stops == {i \in 1 .. Len(in) : VBits * (i - 1) < VWidth /\ in[i] < B}
        n == CHOOSE i \in stops : \A j \in stops : i <= j
        Value[i \in 0 .. n] ==
            IF i = 0 THEN 0 ELSE Value[i - 1] + (in[i] % B) * 2 ^ (VBits * (i - 1))
    IN  IF stops = {} THEN None
        ELSE <<Value[n] % 2 ^ VWidth, SubSeq(in, n + 1, Len(in))>>

\* PutLengthPrefixedSlice and GetLengthPrefixedSlice.
PutSlice(s) == EncodeVarint(Len(s)) \o s
GetSlice(in) ==
    LET Cut(v) == IF v = None THEN None
                  ELSE IF Len(v[2]) < v[1] THEN None
                  ELSE <<SubSeq(v[2], 1, v[1]), SubSeq(v[2], v[1] + 1, Len(v[2]))>>
    IN  Cut(GetVarint(in))

\* One field after another: the values, then what is left, or None.
GetFields(in, readers) ==
    LET GetLevel(l) == IF l = None THEN None ELSE IF l[1] < EditLevels THEN l ELSE None
        Add(values, v) == IF v = None THEN None ELSE <<Append(values, v[1]), v[2]>>
        Step(s, R) ==
            IF s = None THEN None
            ELSE Add(s[1], CASE R = "varint" -> GetVarint(s[2])
                             [] R = "slice" -> GetSlice(s[2])
                             [] R = "level" -> GetLevel(GetVarint(s[2])))
    IN  FoldLeft(Step, <<<<>>, in>>, readers)

PutFields(values, readers) ==
    FlattenSeq([i \in 1 .. Len(values) |->
        IF readers[i] = "slice" THEN PutSlice(values[i]) ELSE EncodeVarint(values[i])])

----------------------------------------------------------------------------
(* Write batches: [seq, count, ops]; rep_ beyond the header is a byte string *)

kTypeDeletion == 0
kTypeValue    == 1
OpFields(tag) == IF tag = kTypeValue THEN <<"slice", "slice">> ELSE <<"slice">>

\* WriteBatch::Put and WriteBatch::Delete, and Append of a whole batch.
BatchAdd(b, op) ==
    [b EXCEPT !.count = @ + 1, !.rep = @ \o <<op[1]>> \o PutFields(Tail(op), OpFields(op[1]))]
BatchAppend(dst, src) ==
    [dst EXCEPT !.count = @ + src.count, !.rep = @ \o src.rep]
EmptyBatch(seq) == [seq |-> seq, count |-> 0, rep |-> <<>>]

\* WriteBatch::Iterate with MemTableInserter: the entries handed to the memtable,
\* each with its sequence number, and whether the batch was well formed.
RECURSIVE IterateFrom(_, _, _)
IterateFrom(b, in, out) ==
    LET Insert(got) ==
            IF got = None THEN [entries |-> out, ok |-> FALSE]
            ELSE IterateFrom(b, got[2], Append(out, <<b.seq + Len(out), in[1]>> \o got[1]))
    IN  IF in = <<>> THEN [entries |-> out, ok |-> Len(out) = b.count]
        ELSE IF in[1] \notin {kTypeValue, kTypeDeletion} THEN [entries |-> out, ok |-> FALSE]
        ELSE Insert(GetFields(Tail(in), OpFields(in[1])))

InsertInto(b) == IterateFrom(b, b.rep, <<>>)

----------------------------------------------------------------------------
(* Version edits: a sequence of fields, each a tag and its values          *)

EditFields ==
    [t \in 1 .. 9 |->
        CASE t = 1 -> <<"slice">>                       \* kComparator
          [] t \in {2, 3, 4, 9} -> <<"varint">>         \* log, next file, sequence
          [] t = 5 -> <<"level", "slice">>              \* kCompactPointer
          [] t = 6 -> <<"level", "varint">>             \* kDeletedFile
          [] t = 7 -> <<"level", "varint", "varint", "slice", "slice">>  \* kNewFile
          [] OTHER -> <<>>]

\* VersionEdit::EncodeTo.
EncodeTo(edit) ==
    FlattenSeq([i \in 1 .. Len(edit) |->
        EncodeVarint(edit[i][1]) \o PutFields(Tail(edit[i]), EditFields[edit[i][1]])])

\* VersionEdit::DecodeFrom; ok is false for Corruption.
RECURSIVE DecodeFields(_, _)
DecodeFields(in, out) ==
    LET Field(tag, got) == IF got = None THEN [ok |-> FALSE, edit |-> out]
                           ELSE DecodeFields(got[2], Append(out, <<tag>> \o got[1]))
        Tagged(tag) ==
            IF tag = None THEN [ok |-> in = <<>>, edit |-> out]
            ELSE IF tag[1] \notin 1 .. 9 \ {8} THEN [ok |-> FALSE, edit |-> out]
            ELSE Field(tag[1], GetFields(tag[2], EditFields[tag[1]]))
    IN  Tagged(GetVarint(in))

DecodeFrom(in) == DecodeFields(in, <<>>)

----------------------------------------------------------------------------
(* Properties                                                              *)

\* Every number comes back from its encoding, whatever follows it, and no
\* encoding is the beginning of another.
VarintsRead(v, rest) == GetVarint(EncodeVarint(v) \o rest) = <<v, rest>>

\* A batch gives the memtable the operations that were put into it, in order
\* and under consecutive sequence numbers, also when it was put together from
\* the batches of a group; cut short at any byte it is recognised as damaged.
BatchReadsBack(ops, seq) ==
    LET fill(os, s) == FoldLeft(BatchAdd, EmptyBatch(s), os)
        half == Len(ops) \div 2
        joined == BatchAppend(fill(SubSeq(ops, 1, half), seq),
                              fill(SubSeq(ops, half + 1, Len(ops)), 0))
        want == [i \in 1 .. Len(ops) |-> <<seq + i - 1>> \o ops[i]]
        refused(cut) == ~cut.ok /\ IsPrefix(cut.entries, want)
        reads(b) ==
            /\ \A c \in {b, joined} : InsertInto(c) = [entries |-> want, ok |-> TRUE]
            /\ \A n \in 0 .. Len(b.rep) - 1 : refused(InsertInto([b EXCEPT !.rep = SubSeq(@, 1, n)]))
    IN  reads(fill(ops, seq))

\* A version edit comes back field for field, and one cut inside a field is
\* refused.
EditReadsBack(edit) ==
    LET bounds == {Len(EncodeTo(SubSeq(edit, 1, i))) : i \in 0 .. Len(edit)}
        reads(enc) ==
            /\ DecodeFrom(enc) = [ok |-> TRUE, edit |-> edit]
            /\ \A n \in 0 .. Len(enc) : n \notin bounds => ~DecodeFrom(SubSeq(enc, 1, n)).ok
    IN  reads(EncodeTo(edit))

-----------------------------------------------------------------------------
(* The format of the log and of the descriptor (db/log_writer.cc,          *)
(* db/log_reader.cc): records are cut into fragments that fit into blocks.  *)
(* A file is a sequence of cells.  A header takes kHeaderSize cells, of     *)
(* which the first carries what it says: the record, how far the record had *)
(* been written, the type and the length.  The checksum of a fragment holds *)
(* exactly when its cells are the ones that were written.                   *)

CONSTANTS kBlockSize, kHeaderSize

Zero == [t |-> "zero"]
Bad  == [t |-> "bad"]
Filler(f) == [t |-> "hdr", f |-> f]
Payload(r, i) == [t |-> "pay", r |-> r, i |-> i]

\* EmitPhysicalRecord.
Physical(f) ==
    <<[t |-> "start", f |-> f]>>
      \o [i \in 1 .. kHeaderSize - 1 |-> Filler(f)]
      \o [i \in 1 .. f.len |-> Payload(f.rec, f.from + i)]

TypeOf(begin, end) ==
    CASE begin /\ end -> "full" [] begin /\ ~end -> "first"
      [] ~begin /\ end -> "last" [] OTHER -> "middle"

\* The loop of Writer::AddRecord.  w is the file with block_offset_, from is
\* what is already written of the record.
RECURSIVE Fragments(_, _, _, _)
Fragments(w, rec, size, from) ==
    LET leftover == kBlockSize - w.offset
        switch == leftover < kHeaderSize
        cells == IF switch THEN w.cells \o [i \in 1 .. leftover |-> Zero] ELSE w.cells
        offset == IF switch THEN 0 ELSE w.offset
        avail == kBlockSize - offset - kHeaderSize
        len == IF size - from < avail THEN size - from ELSE avail
        f == [rec |-> rec, from |-> from, len |-> len,
              type |-> TypeOf(from = 0 /\ ~w.cont, from + len = size)]
        w2 == [cells |-> cells \o Physical(f), offset |-> offset + kHeaderSize + len,
               cont |-> TRUE]
    IN  IF from + len = size THEN [w2 EXCEPT !.cont = FALSE]
        ELSE Fragments(w2, rec, size, from + len)

AddRecord(w, rec, size) == Fragments(w, rec, size, 0)

EmptyLog == [cells |-> <<>>, offset |-> 0, cont |-> FALSE]

\* The file of the records 1, 2, ... with these sizes.
LogOf(sizes) ==
    LET Add(w, i) == AddRecord(w, i, sizes[i])
    IN  FoldLeft(Add, EmptyLog, [i \in 1 .. Len(sizes) |-> i]).cells

----------------------------------------------------------------------------
(* Reading.  buffer_ is what is left of the block at pos.                  *)

BlockEnd(cells, pos) ==
    LET full == ((pos \div kBlockSize) + 1) * kBlockSize
    IN  IF full < Len(cells) THEN full ELSE Len(cells)

Intact(cells, pos, f) ==
    /\ SubSeq(cells, pos + 1, pos + kHeaderSize + f.len) = Physical(f)

\* ReadPhysicalRecord at pos (counted from 0): a fragment, "eof", or "bad",
\* after which the rest of the block is dropped.
RECURSIVE ReadPhysicalRecord(_, _)
ReadPhysicalRecord(cells, pos) ==
    LET end == BlockEnd(cells, pos)
        atEof == end < ((pos \div kBlockSize) + 1) * kBlockSize
        c == cells[pos + 1]
    IN  IF end - pos < kHeaderSize
        THEN IF atEof THEN [type |-> "eof", pos |-> end]
             ELSE ReadPhysicalRecord(cells, end)
        ELSE IF c.t = "start" /\ pos + kHeaderSize + c.f.len <= end /\ Intact(cells, pos, c.f)
        THEN [type |-> c.f.type, f |-> c.f, pos |-> pos + kHeaderSize + c.f.len]
        ELSE [type |-> "bad", pos |-> end]

\* ReadRecord, called until it returns false.  s holds the position, the pieces
\* of the record being put together (scratch) and the records returned.
RECURSIVE ReadRecords(_, _)
ReadRecords(cells, s) ==
    LET At(p, in, scratch, out) == [pos |-> p.pos, in |-> in, scratch |-> scratch, out |-> out]
        After(p) ==
            CASE p.type = "full" -> At(p, FALSE, <<>>, Append(s.out, <<p.f>>))
              [] p.type = "first" -> At(p, TRUE, <<p.f>>, s.out)
              [] p.type = "middle" /\ s.in -> At(p, TRUE, Append(s.scratch, p.f), s.out)
              [] p.type = "last" /\ s.in ->
                    At(p, FALSE, <<>>, Append(s.out, Append(s.scratch, p.f)))
              [] OTHER -> At(p, FALSE, <<>>, s.out)
        Go(p) == IF p.type = "eof" THEN s.out ELSE ReadRecords(cells, After(p))
    IN  Go(ReadPhysicalRecord(cells, s.pos))

\* The records a reader of the file gets, each as its fragments.
ReadAll(cells) ==
    ReadRecords(cells, [pos |-> 0, in |-> FALSE, scratch |-> <<>>, out |-> <<>>])

----------------------------------------------------------------------------
(* Properties                                                              *)

\* A list of fragments is the whole of one written record.
Whole(fs, sizes) ==
    LET r == fs[1].rec
        Sum(a, f) == IF f.rec = r /\ f.from = a THEN a + f.len ELSE -1
    IN  FoldLeft(Sum, 0, fs) = sizes[r]

Numbers(out) == [i \in 1 .. Len(out) |-> out[i][1].rec]

\* Where a cell of record r lies in the file.
CellsOf(cells, r) ==
    {p \in 1 .. Len(cells) : \/ cells[p].t = "pay" /\ cells[p].r = r
                             \/ cells[p].t \in {"start", "hdr"} /\ cells[p].f.rec = r}

\* Whatever was cut off the end of a log, whatever zeros a preallocated mapping
\* left there and whichever cell was damaged, the reader returns whole records
\* that were written, in the order in which they were written.  A cut loses
\* exactly the records it touches, and a damaged cell only records with a
\* fragment in its block: what recovery relies on after a crash.
LogReadsBack(sizes) ==
    LET block(p) == (p - 1) \div kBlockSize
        sound(out) == /\ \A i \in 1 .. Len(out) : Whole(out[i], sizes)
                      /\ \A i \in 1 .. Len(out) - 1 : out[i][1].rec < out[i + 1][1].rec
        zeros == [i \in 1 .. kBlockSize + 1 |-> Zero]
        cutAt(cells, cut, out) ==
            /\ sound(out)
            /\ ToSet(Numbers(out)) = {r \in 1 .. Len(sizes) : \A p \in CellsOf(cells, r) : p <= cut}
        damagedAt(cells, at, out) ==
            /\ sound(out)
            /\ \A r \in 1 .. Len(sizes) :
                  (\A p \in CellsOf(cells, r) : block(p) # block(at)) => r \in ToSet(Numbers(out))
        reads(cells) ==
            /\ \A cut \in 0 .. Len(cells), tail \in {<<>>, zeros} :
                  cutAt(cells, cut, ReadAll(SubSeq(cells, 1, cut) \o tail))
            /\ \A at \in 1 .. Len(cells) :
                  damagedAt(cells, at, ReadAll([cells EXCEPT ![at] = Bad]))
    IN  reads(LogOf(sizes))

-----------------------------------------------------------------------------
(* Table files: blocks of entries with shared key prefixes (block_builder  *)
(* and block), the table with its index and filter blocks (table_builder,  *)
(* table, filter_block, bloom) and the iterator over it                     *)
(* (two_level_iterator).  An internal key is a sequence of bytes, the user  *)
(* key, followed by one cell for the sequence number.  The place of an      *)
(* entry in its block is its offset, and the size of a block is the sum of  *)
(* its values.                                                              *)

CONSTANTS MaxByte,          \* 0xff in the code
          MaxSequence,      \* kMaxSequenceNumber
          RestartInterval,  \* options.block_restart_interval
          BlockSize,        \* options.block_size
          FilterBase,       \* kFilterBase
          BitsPerKey, MinBits, HashWidth   \* of the bloom filter; MinBits is 64

User(k) == Front(k)

\* Slice::compare.
RECURSIVE Less(_, _)
Less(a, b) == IF a = <<>> \/ b = <<>> THEN a = <<>> /\ b # <<>>
              ELSE a[1] < b[1] \/ (a[1] = b[1] /\ Less(Tail(a), Tail(b)))

\* InternalKeyComparator::Compare.
KeyLess(a, b) == \/ Less(User(a), User(b))
                 \/ User(a) = User(b) /\ Last(a) > Last(b)

Common(a, b) ==
    LET n == IF Len(a) < Len(b) THEN Len(a) ELSE Len(b)
        diff == {i \in 1 .. n : a[i] # b[i]}
    IN  IF diff = {} THEN n ELSE (CHOOSE i \in diff : \A j \in diff : i <= j) - 1

\* BytewiseComparatorImpl::FindShortestSeparator.
UserSeparator(start, limit) ==
    LET d == Common(start, limit) + 1
    IN  IF d <= Len(start) /\ d <= Len(limit) /\ start[d] < MaxByte
           /\ start[d] + 1 < limit[d]
        THEN Append(SubSeq(start, 1, d - 1), start[d] + 1)
        ELSE start

\* BytewiseComparatorImpl::FindShortSuccessor.
UserSuccessor(key) ==
    LET free == {i \in 1 .. Len(key) : key[i] # MaxByte}
        i == CHOOSE j \in free : \A l \in free : j <= l
    IN  IF free = {} THEN key ELSE Append(SubSeq(key, 1, i - 1), key[i] + 1)

\* InternalKeyComparator: the shorter user key gets the earliest number.
Shortened(start, user) ==
    IF Len(user) < Len(User(start)) /\ Less(User(start), user)
    THEN Append(user, MaxSequence) ELSE start
FindShortestSeparator(start, limit) == Shortened(start, UserSeparator(User(start), User(limit)))
FindShortSuccessor(key) == Shortened(key, UserSuccessor(User(key)))

----------------------------------------------------------------------------
(* Blocks                                                                  *)

\* BlockBuilder.
NewBlock == [entries |-> <<>>, restarts |-> <<1>>, counter |-> 0, last |-> <<>>]

BlockAdd(b, interval, key, value) ==
    LET restart == b.counter >= interval
        shared == IF restart THEN 0 ELSE Common(b.last, key)
    IN  [entries  |-> Append(b.entries, [shared |-> shared, value |-> value,
                                         delta |-> SubSeq(key, shared + 1, Len(key))]),
         restarts |-> IF restart THEN Append(b.restarts, Len(b.entries) + 1) ELSE b.restarts,
         counter  |-> (IF restart THEN 0 ELSE b.counter) + 1,
         last     |-> key]

\* Block::Iter: current_, the end of the current entry, restart_index_ and key_.
Beyond(b) == Len(b.entries) + 1
BlockIter(b) == [cur |-> Beyond(b), end |-> Beyond(b), ri |-> Len(b.restarts) + 1, key |-> <<>>]
BValid(b, it) == it.cur < Beyond(b)
BValue(b, it) == b.entries[it.cur].value

SeekToRestartPoint(b, it, index) ==
    [it EXCEPT !.key = <<>>, !.ri = index, !.end = b.restarts[index]]

ParseNextKey(b, it) ==
    IF it.end >= Beyond(b)
    THEN [it EXCEPT !.cur = Beyond(b), !.ri = Len(b.restarts) + 1]
    ELSE LET e == b.entries[it.end]
             passed == {j \in it.ri .. Len(b.restarts) : j = it.ri \/ b.restarts[j] < it.end}
         IN  [cur |-> it.end, end |-> it.end + 1,
              ri  |-> CHOOSE j \in passed : \A l \in passed : l <= j,
              key |-> SubSeq(it.key, 1, e.shared) \o e.delta]

\* Block::Iter::Next, SeekToFirst and SeekToLast.
BNext(b, it) == ParseNextKey(b, it)
BSeekToFirst(b, it) == ParseNextKey(b, SeekToRestartPoint(b, it, 1))

RECURSIVE ParseUntil(_, _, _)
ParseUntil(b, it, stop) ==
    LET n == ParseNextKey(b, it)
    IN  IF BValid(b, n) /\ n.end < stop THEN ParseUntil(b, n, stop) ELSE n
BSeekToLast(b, it) == ParseUntil(b, SeekToRestartPoint(b, it, Len(b.restarts)), Beyond(b))

\* Block::Iter::Prev: back to a restart point before the entry, and forward.
BPrev(b, it) ==
    LET before == {j \in 1 .. it.ri : b.restarts[j] < it.cur}
    IN  IF before = {} THEN [it EXCEPT !.cur = Beyond(b), !.ri = Len(b.restarts) + 1]
        ELSE ParseUntil(b, SeekToRestartPoint(b, it,
                               CHOOSE j \in before : \A l \in before : l <= j), it.cur)

\* Block::Iter::Seek: a binary search of the restart points, whose keys are
\* stored whole, then a scan.
RECURSIVE RestartBefore(_, _, _, _)
RestartBefore(b, target, left, right) ==
    IF left >= right THEN left
    ELSE LET mid == (left + right + 1) \div 2
         IN  IF KeyLess(b.entries[b.restarts[mid]].delta, target)
             THEN RestartBefore(b, target, mid, right)
             ELSE RestartBefore(b, target, left, mid - 1)

RECURSIVE ScanTo(_, _, _)
ScanTo(b, it, target) ==
    LET n == ParseNextKey(b, it)
    IN  IF BValid(b, n) /\ KeyLess(n.key, target) THEN ScanTo(b, n, target) ELSE n
BSeek(b, it, target) ==
    ScanTo(b, SeekToRestartPoint(b, it, RestartBefore(b, target, 1, Len(b.restarts))), target)

----------------------------------------------------------------------------
(* The filter block                                                        *)

\* BloomFilterPolicy: a hash of the user key, and k probes at equal distances.
HashSize == 2 ^ HashWidth
BloomHash(user) ==
    LET Step(h, c) == (h * 5 + c + 3) % HashSize IN FoldLeft(Step, 7, user)
Probes == IF (BitsPerKey * 69) \div 100 < 1 THEN 1 ELSE (BitsPerKey * 69) \div 100
Bits(n) == LET bits == IF n * BitsPerKey < MinBits THEN MinBits ELSE n * BitsPerKey
           IN  ((bits + 7) \div 8) * 8
ProbesOf(user, bits) ==
    LET h == BloomHash(user)
        delta == (h \div 8) + ((h * (HashSize \div 8)) % HashSize)    \* rotated
    IN  {((h + j * delta) % HashSize) % bits : j \in 0 .. Probes - 1}

\* CreateFilter and KeyMayMatch, through InternalFilterPolicy, which drops the
\* sequence numbers.
CreateFilter(keys) ==
    LET bits == Bits(Len(keys))
    IN  [bits |-> bits, set |-> UNION {ProbesOf(User(keys[i]), bits) : i \in 1 .. Len(keys)}]
PolicyMayMatch(filter, key) == ProbesOf(User(key), filter.bits) \subseteq filter.set

\* FilterBlockBuilder: GenerateFilter, StartBlock, AddKey and Finish.  An empty
\* sequence is the filter of no keys.
GenerateFilter(f) ==
    [keys |-> <<>>,
     filters |-> Append(f.filters, IF f.keys = <<>> THEN <<>> ELSE <<CreateFilter(f.keys)>>)]

RECURSIVE StartBlock(_, _)
StartBlock(f, offset) ==
    IF offset \div FilterBase > Len(f.filters) THEN StartBlock(GenerateFilter(f), offset) ELSE f

FinishFilter(f) == IF f.keys # <<>> THEN GenerateFilter(f).filters ELSE f.filters

\* FilterBlockReader::KeyMayMatch: beyond the array everything may match.
KeyMayMatch(filters, offset, key) ==
    LET i == (offset \div FilterBase) + 1
    IN  i <= Len(filters) => filters[i] # <<>> /\ PolicyMayMatch(filters[i][1], key)

----------------------------------------------------------------------------
(* TableBuilder                                                            *)

NewTable == [data |-> NewBlock, size |-> 0, index |-> NewBlock, last |-> <<>>,
             pending |-> <<>>, offset |-> 0, blocks |-> <<>>,
             filter |-> [keys |-> <<>>, filters |-> <<>>]]

\* Flush: the block is written, its index entry waits for the next key, and
\* the filter moves on to the new offset.
Flush(r) ==
    IF r.data.entries = <<>> THEN r
    ELSE [r EXCEPT !.blocks = Append(@, [offset |-> r.offset, block |-> r.data]),
                   !.data = NewBlock, !.size = 0, !.pending = <<Len(r.blocks) + 1>>,
                   !.offset = @ + r.size, !.filter = StartBlock(@, r.offset + r.size)]

\* The index entry of the block written last: index keys are never compressed.
IndexAdd(r, key) ==
    IF r.pending = <<>> THEN r
    ELSE [r EXCEPT !.index = BlockAdd(@, 1, key, r.pending[1]), !.pending = <<>>]

TableAdd(r0, e) ==
    LET Put(r) == [r EXCEPT !.filter.keys = Append(@, e.key), !.last = e.key,
                            !.size = @ + e.value,
                            !.data = BlockAdd(@, RestartInterval, e.key, e.value)]
        Full(r) == IF r.size >= BlockSize THEN Flush(r) ELSE r
    IN  Full(Put(IndexAdd(r0, IF r0.pending = <<>> THEN <<>>
                              ELSE FindShortestSeparator(r0.last, e.key))))

\* Finish: the filter block, the last index entry and the index block.
FinishTable(r0) ==
    LET Closed(r) ==
          [blocks |-> r.blocks, filters |-> FinishFilter(r.filter),
           index |-> IndexAdd(r, IF r.pending = <<>> THEN <<>> ELSE FindShortSuccessor(r.last)).index]
    IN  Closed(Flush(r0))

BuildTable(entries) == FinishTable(FoldLeft(TableAdd, NewTable, entries))

----------------------------------------------------------------------------
(* Reading a table                                                         *)

\* TwoLevelIterator: the index iterator, and the data iterator when there is one.
DataBlock(t, it) == t.blocks[BValue(t.index, it.index)].block
TValid(t, it) == it.data # <<>> /\ BValid(DataBlock(t, it), it.data[1])

\* InitDataBlock: no block, or the iterator of the block at its start, at its
\* end or at the target, as its callers place it at once.
InitDataBlock(t, index, placed) ==
    [index |-> index,
     data |-> IF BValid(t.index, index) THEN <<placed[BValue(t.index, index)]>> ELSE <<>>]
AtFirst(t) == [n \in DOMAIN t.blocks |->
                 BSeekToFirst(t.blocks[n].block, BlockIter(t.blocks[n].block))]
AtLast(t) == [n \in DOMAIN t.blocks |->
                BSeekToLast(t.blocks[n].block, BlockIter(t.blocks[n].block))]
AtTarget(t, target) ==
    [n \in DOMAIN t.blocks |->
       BSeek(t.blocks[n].block, BlockIter(t.blocks[n].block), target)]

RECURSIVE SkipForward(_, _)
SkipForward(t, it) ==
    IF TValid(t, it) THEN it
    ELSE IF ~BValid(t.index, it.index) THEN [it EXCEPT !.data = <<>>]
    ELSE SkipForward(t, InitDataBlock(t, BNext(t.index, it.index), AtFirst(t)))

RECURSIVE SkipBackward(_, _)
SkipBackward(t, it) ==
    IF TValid(t, it) THEN it
    ELSE IF ~BValid(t.index, it.index) THEN [it EXCEPT !.data = <<>>]
    ELSE SkipBackward(t, InitDataBlock(t, BPrev(t.index, it.index), AtLast(t)))

TSeek(t, target) ==
    SkipForward(t, InitDataBlock(t, BSeek(t.index, BlockIter(t.index), target),
                                 AtTarget(t, target)))
TSeekToLast(t) ==
    SkipBackward(t, InitDataBlock(t, BSeekToLast(t.index, BlockIter(t.index)), AtLast(t)))
TNext(t, it) == SkipForward(t, [it EXCEPT !.data = <<BNext(DataBlock(t, it), @[1])>>])
TPrev(t, it) == SkipBackward(t, [it EXCEPT !.data = <<BPrev(DataBlock(t, it), @[1])>>])

\* Table::InternalGet: the index, the filter, then the block.
InternalGet(t, k) ==
    LET Found(b, it) == IF BValid(b, it) THEN it.key ELSE <<>>
        Within(blk) == IF ~KeyMayMatch(t.filters, blk.offset, k) THEN <<>>
                       ELSE Found(blk.block, BSeek(blk.block, BlockIter(blk.block), k))
        At(i) == IF BValid(t.index, i) THEN Within(t.blocks[BValue(t.index, i)]) ELSE <<>>
    IN  At(BSeek(t.index, BlockIter(t.index), k))

----------------------------------------------------------------------------
(* Properties                                                              *)

TKey(t, it) == IF TValid(t, it) THEN it.data[1].key ELSE <<>>

\* A table gives back what was put into it, across its blocks, its restart
\* points and the shortened keys of its index: from every target the iterator
\* stands at the first key that is not before it, its neighbours are reached by
\* Next and Prev, and a lookup finds the newest entry of a user key at or below
\* its sequence number, which the filter never hides.
TableReadsBack(entries, targets) ==
    LET n == Len(entries)
        key(i) == IF i \in 1 .. n THEN entries[i].key ELSE <<>>
        from(k) == Cardinality({i \in 1 .. n : KeyLess(key(i), k)}) + 1
        stands(t, it, i) == /\ TKey(t, it) = key(i)
                            /\ i <= n => /\ TKey(t, TNext(t, it)) = key(i + 1)
                                         /\ TKey(t, TPrev(t, it)) = key(i - 1)
        finds(got, i, k) == IF i <= n THEN User(key(i)) = User(k) => got = key(i) ELSE got = <<>>
        reads(t) ==
            /\ TKey(t, TSeekToLast(t)) = key(n)
            /\ \A k \in targets : /\ stands(t, TSeek(t, k), from(k))
                                   /\ finds(InternalGet(t, k), from(k), k)
    IN  reads(BuildTable(entries))
=============================================================================
