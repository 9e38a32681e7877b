----------------------------- MODULE TimeData ------------------------------
(***************************************************************************)
(* The network's time (util.cpp: AddTimeData; util.h:       *)
(* CMedianFilter): each peer's version message gives a sample of the        *)
(* difference of its clock from ours, and the median of the last samples is *)
(* added to our clock.                                                      *)
(***************************************************************************)
EXTENDS Integers, Sequences, FiniteSets, SequencesExt

CONSTANTS WindowSize,     \* vTimeOffsets' size, 200
          Trusted,        \* 70 * 60
          Close           \* 5 * 60

Abs64(n) == IF n < 0 THEN -n ELSE n

\* CMedianFilter: the last nSize values, the initial one first.
FilterOf == <<0>>
Input(values, value) ==
    Append(IF Len(values) = WindowSize THEN Tail(values) ELSE values, value)
SortedValues(values) == SortSeq(values, LAMBDA a, b : a < b)

\* Division of C++ rounds towards zero.
Half(n) == IF n < 0 THEN -((-n) \div 2) ELSE n \div 2
(* The variant takes the middle of the values as they came. *)
MedianUnsorted(values) == values[(Len(values) \div 2) + 1]
Median(values) ==
    LET s == SortedValues(values)
        size == Len(s)
    IN  IF size % 2 = 1 THEN s[(size \div 2) + 1]
        ELSE Half(s[size \div 2] + s[(size \div 2) + 1])

TimeStart == [known |-> {}, vTimeOffsets |-> FilterOf, nTimeOffset |-> 0, warned |-> FALSE]

AddTimeData(t, ip, nOffsetSample) ==
    IF ip \in t.known THEN t
    ELSE LET values == Input(t.vTimeOffsets, nOffsetSample)
             heard == [t EXCEPT !.known = @ \cup {ip}, !.vTimeOffsets = values]
             nMedian == Median(values)
             fMatch == \E i \in DOMAIN values : values[i] # 0 /\ Abs64(values[i]) < Close
         IN  IF Len(values) < 5 \/ Len(values) % 2 = 0 THEN heard
             ELSE IF Abs64(nMedian) < Trusted THEN [heard EXCEPT !.nTimeOffset = nMedian]
             ELSE [heard EXCEPT !.nTimeOffset = 0, !.warned = @ \/ ~fMatch]

\* The samples <<peer, offset>> of a session, in order.
TimeAfter(samples) ==
    FoldLeft(LAMBDA t, s : AddTimeData(t, s[1], s[2]), TimeStart, samples)

(* "Only let other nodes change our time by so much": the adjustment stays
   below the limit; a peer has one vote however often it connects; and as long
   as more than half of the samples a decision is made from (our own clock is
   one of them) lie between two values, so does the adjustment, unless those
   values are beyond the limit.  A set of peers that is in the minority cannot
   move the clock. *)
TimeOffsetHonest(samples, lo, hi) ==
    LET t == TimeAfter(samples)
        values == t.vTimeOffsets
        within == {i \in DOMAIN values : values[i] \in lo..hi}
        decided == Len(values) >= 5 /\ Len(values) % 2 = 1
        peers == {samples[i][1] : i \in DOMAIN samples}
    IN  /\ Abs64(t.nTimeOffset) < Trusted
        /\ Len(values) = IF Cardinality(peers) + 1 < WindowSize THEN Cardinality(peers) + 1
                         ELSE WindowSize
        /\ decided /\ 2 * Cardinality(within) > Len(values) =>
               \/ t.nTimeOffset \in lo..hi
               \/ t.nTimeOffset = 0 /\ (lo <= -Trusted \/ hi >= Trusted)
        /\ t.warned => \E i \in DOMAIN samples : Abs64(samples[i][2]) >= Trusted
=============================================================================
