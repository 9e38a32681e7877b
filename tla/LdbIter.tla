------------------------------ MODULE LdbIter ------------------------------
(***************************************************************************)
(* Iterating over a database: DBIter (db/db_iter.cc), which shows the       *)
(* newest visible value of every user key, on top of MergingIterator        *)
(* (table/merger.cc), which merges the memtables and the tables.  A child   *)
(* is a sorted sequence of entries with a position, 0 when it is invalid.   *)
(* The client moves the iterator as it likes; cursor is where an iterator   *)
(* over the visible keys themselves would stand.                            *)
(***************************************************************************)
EXTENDS Integers, Sequences, FiniteSets, SequencesExt

CONSTANTS IKeys,      \* user keys, positive numbers
          Children,   \* how many iterators are merged
          MaxEntries, \* bound: entries in the database
          TurnForward \* whether Next follows Prev while later entries exist

VARIABLES
    data,       \* child -> its entries [key, seq, del], sorted
    merge,      \* MergingIterator: positions, current_ (0 for NULL), direction_
    dbiter,       \* DBIter: valid_, direction_, saved_key_, saved_value_
    sequence,   \* the iterator's sequence number, 0 before it is created
    cursor      \* the user key it should stand at, 0 for none

ivars == <<data, merge, dbiter, sequence, cursor>>

EntrySeqs == UNION {ToSet(data[c]) : c \in 1 .. Children}

\* InternalKeyComparator::Compare.
ILess(a, b) == a.key < b.key \/ (a.key = b.key /\ a.seq > b.seq)

----------------------------------------------------------------------------
(* MergingIterator                                                         *)

At(m, c) == data[c][m.pos[c]]
CValid(m, c) == m.pos[c] # 0
MValid(m) == m.current # 0
MEntry(m) == At(m, m.current)

CSeek(c, target) ==
    LET after == {i \in 1 .. Len(data[c]) : ~ILess(data[c][i], target)}
    IN  IF after = {} THEN 0 ELSE CHOOSE i \in after : \A j \in after : i <= j
CNext(c, p) == IF p = Len(data[c]) THEN 0 ELSE p + 1
CPrev(p) == p - 1

\* FindSmallest and FindLargest.
FindSmallest(m) ==
    LET valid == {c \in 1 .. Children : CValid(m, c)}
    IN  [m EXCEPT !.current = IF valid = {} THEN 0
            ELSE CHOOSE c \in valid : \A d \in valid : ~ILess(At(m, d), At(m, c))]
FindLargest(m) ==
    LET valid == {c \in 1 .. Children : CValid(m, c)}
    IN  [m EXCEPT !.current = IF valid = {} THEN 0
            ELSE CHOOSE c \in valid : \A d \in valid : ~ILess(At(m, c), At(m, d))]

MSeekToFirst ==
    FindSmallest([pos |-> [c \in 1 .. Children |-> IF data[c] = <<>> THEN 0 ELSE 1],
                  current |-> 0, forward |-> TRUE])
MSeekToLast ==
    FindLargest([pos |-> [c \in 1 .. Children |-> Len(data[c])],
                 current |-> 0, forward |-> FALSE])
MSeek(target) ==
    FindSmallest([pos |-> [c \in 1 .. Children |-> CSeek(c, target)],
                  current |-> 0, forward |-> TRUE])

\* Next: after moving backwards the other children are placed after the key.
MNext(m) ==
    LET turned == [c \in 1 .. Children |->
            IF m.forward \/ c = m.current THEN m.pos[c]
            ELSE LET p == CSeek(c, MEntry(m))
                 IN  IF p # 0 /\ data[c][p] = MEntry(m) THEN CNext(c, p) ELSE p]
    IN  FindSmallest([m EXCEPT !.forward = TRUE,
            !.pos = [turned EXCEPT ![m.current] = CNext(m.current, @)]])

\* Prev: after moving forwards the other children are placed before the key.
MPrev(m) ==
    LET turned == [c \in 1 .. Children |->
            IF ~m.forward \/ c = m.current THEN m.pos[c]
            ELSE LET p == CSeek(c, MEntry(m))
                 IN  IF p # 0 THEN CPrev(p) ELSE Len(data[c])]
    IN  FindLargest([m EXCEPT !.forward = FALSE,
            !.pos = [turned EXCEPT ![m.current] = CPrev(@)]])

----------------------------------------------------------------------------
(* DBIter.  A pair <<m, d>> holds both iterators; saved_key_ is 0 when      *)
(* cleared.                                                                 *)

Invalid(dir) == [valid |-> FALSE, forward |-> dir, key |-> 0, value |-> 0]

\* The loop of FindNextUserEntry.
RECURSIVE FindNextUserEntry(_, _, _)
FindNextUserEntry(m, skipping, skip) ==
    IF ~MValid(m) THEN <<m, Invalid(TRUE)>>
    ELSE LET e == MEntry(m) IN
         CASE e.seq <= sequence /\ e.del -> FindNextUserEntry(MNext(m), TRUE, e.key)
           [] e.seq <= sequence /\ ~e.del /\ ~(skipping /\ e.key <= skip) ->
                 <<m, [valid |-> TRUE, forward |-> TRUE, key |-> 0, value |-> 0]>>
           [] OTHER -> FindNextUserEntry(MNext(m), skipping, skip)

\* The loop of FindPrevUserEntry; del is value_type = kTypeDeletion.
RECURSIVE FindPrevUserEntry(_, _, _, _)
FindPrevUserEntry(m, del, key, value) ==
    LET done == IF del THEN Invalid(TRUE)
                ELSE [valid |-> TRUE, forward |-> FALSE, key |-> key, value |-> value]
    IN  IF ~MValid(m) THEN <<m, done>>
        ELSE LET e == MEntry(m) IN
             IF e.seq > sequence THEN FindPrevUserEntry(MPrev(m), del, key, value)
             ELSE IF ~del /\ e.key < key THEN <<m, done>>
             ELSE IF e.del THEN FindPrevUserEntry(MPrev(m), TRUE, 0, 0)
             ELSE FindPrevUserEntry(MPrev(m), FALSE, e.key, e.seq)

\* Next: from the reverse direction iter_ stands just before the entries of the
\* current key.
DNext(m, d) ==
    LET m2 == IF d.forward THEN m ELSE IF MValid(m) THEN MNext(m) ELSE MSeekToFirst
    IN  IF ~MValid(m2) THEN <<m2, Invalid(TRUE)>>
        ELSE FindNextUserEntry(m2, TRUE, MEntry(m2).key)

\* Prev: from the forward direction, back until the key changes.
RECURSIVE BackBefore(_, _)
BackBefore(m, key) ==
    LET p == MPrev(m)
    IN  IF MValid(p) /\ ~(MEntry(p).key < key) THEN BackBefore(p, key) ELSE p
DPrev(m, d) ==
    LET back == BackBefore(m, MEntry(m).key)
    IN  IF ~d.forward THEN FindPrevUserEntry(m, TRUE, d.key, d.value)
        ELSE IF ~MValid(back) THEN <<back, Invalid(TRUE)>>
        ELSE FindPrevUserEntry(back, TRUE, 0, 0)

DSeek(k) ==
    LET m == MSeek([key |-> k, seq |-> sequence]) IN FindNextUserEntry(m, FALSE, 0)
DSeekToFirst == FindNextUserEntry(MSeekToFirst, FALSE, 0)
DSeekToLast == FindPrevUserEntry(MSeekToLast, TRUE, 0, 0)

----------------------------------------------------------------------------
(* What a client may do                                                    *)

IterInit ==
    /\ data = [c \in 1 .. Children |-> <<>>]
    /\ merge = [pos |-> [c \in 1 .. Children |-> 0], current |-> 0, forward |-> TRUE]
    /\ dbiter = Invalid(TRUE) /\ sequence = 0 /\ cursor = 0

\* The database before the iterator exists: writes have spread over the children.
Write ==
    /\ sequence = 0 /\ Cardinality(EntrySeqs) < MaxEntries
    /\ \E c \in 1 .. Children, k \in IKeys, del \in BOOLEAN :
         LET e == [key |-> k, seq |-> Cardinality(EntrySeqs) + 1, del |-> del]
         IN  data' = [data EXCEPT ![c] = SortSeq(Append(@, e), ILess)]
    /\ UNCHANGED <<merge, dbiter, sequence, cursor>>

NewIterator ==
    /\ sequence = 0
    /\ sequence' \in {Cardinality(EntrySeqs), Cardinality(EntrySeqs) - 1} \ {0, -1}
    /\ UNCHANGED <<data, merge, dbiter, cursor>>

\* The visible keys, by the definition of visibility.
Visible ==
    {k \in IKeys : \E e \in EntrySeqs :
        /\ e.key = k /\ e.seq <= sequence /\ ~e.del
        /\ ~\E f \in EntrySeqs : f.key = k /\ f.seq <= sequence /\ f.seq > e.seq}
Least(S) == IF S = {} THEN 0 ELSE CHOOSE k \in S : \A j \in S : k <= j
Greatest(S) == IF S = {} THEN 0 ELSE CHOOSE k \in S : \A j \in S : k >= j

Moves(both, to) ==
    /\ sequence # 0
    /\ merge' = both[1] /\ dbiter' = both[2] /\ cursor' = to
    /\ UNCHANGED <<data, sequence>>

Move ==
    \/ \E k \in IKeys : Moves(DSeek(k), Least({j \in Visible : j >= k}))
    \/ Moves(DSeekToFirst, Least(Visible))
    \/ Moves(DSeekToLast, Greatest(Visible))
    \/ /\ dbiter.valid
       /\ TurnForward \/ dbiter.forward \/ sequence = Cardinality(EntrySeqs)
       /\ Moves(DNext(merge, dbiter), Least({j \in Visible : j > cursor}))
    \/ dbiter.valid /\ Moves(DPrev(merge, dbiter), Greatest({j \in Visible : j < cursor}))

IterNext == Write \/ NewIterator \/ Move
IterSpec == IterInit /\ [][IterNext]_ivars

----------------------------------------------------------------------------
(* Properties                                                              *)

\* However a client seeks and changes direction, DBIter stands at the visible
\* key an iterator over the visible keys would stand at, and shows the value
\* that is visible: no deleted, overwritten or later entry is ever shown, and
\* none that is visible is passed over.  (db_iter.cc:151 says of a Next after a
\* Prev that "iter_ is pointing just before the entries for this->key()".)
IteratorIsExact ==
    /\ dbiter.valid = (cursor # 0)
    /\ dbiter.valid =>
         LET key == IF dbiter.forward THEN MEntry(merge).key ELSE dbiter.key
             seq == IF dbiter.forward THEN MEntry(merge).seq ELSE dbiter.value
         IN  /\ key = cursor
             /\ seq = Greatest({e.seq : e \in {f \in EntrySeqs : /\ f.key = cursor
                                                              /\ f.seq <= sequence}})

=============================================================================
