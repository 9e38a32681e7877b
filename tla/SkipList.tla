------------------------------ MODULE SkipList ------------------------------
(***************************************************************************)
(* The memtable's skip list (db/skiplist.h): one writer at a time inserts  *)
(* while any number of iterators search the list without a lock.  A node is *)
(* its key, head_ is head_ and Nil the NULL pointer.  Every load and store   *)
(* of a link is a step; a link of a new node that was never stored has no   *)
(* value, so a reader that would load it is stuck on garbage.               *)
(***************************************************************************)
EXTENDS Integers, FiniteSets, FiniteSetsExt

CONSTANTS SKeys,         \* the keys that may be inserted, positive numbers
          Iterators,     \* the readers
          kMaxHeight,
          MaxSeeks       \* bound: operations of one iterator

ASSUME SkipAssumption ==
    /\ SKeys \subseteq Nat \ {0}
    /\ \E last \in SKeys : \A k \in SKeys : k <= last
    /\ kMaxHeight \in Nat \ {0}

VARIABLES
    next,       \* <<node, level>> -> node: the links that have been stored
    heights,    \* the values max_height_ has had; a relaxed load sees any of them
    insert,     \* the Insert under way
    iter        \* iterator -> its operation and position

svars == <<next, heights, insert, iter>>

head_ == 0
Nil  == 1 + Max(SKeys)
NoInsert == [key |-> Nil]

SkipInit ==
    /\ next = [p \in {head_} \X (0 .. kMaxHeight - 1) |-> Nil]
    /\ heights = {1}
    /\ insert = NoInsert
    /\ iter = [i \in Iterators |-> [op |-> "idle", node |-> Nil, n |-> 0]]

\* The nodes an iterator walking level l meets.
OnLevel(l) == {k \in SKeys : \E p \in DOMAIN next : p[2] = l /\ next[p] = k}

\* KeyIsAfterNode: NULL is considered infinite, and head_ comes before all.
KeyIsAfterNode(key, n) == n # Nil /\ n < key

\* FindGreaterOrEqual, run by the writer, which nobody disturbs: on level l it
\* ends at p, the node before the key; above the highest level p is head_.
IsPrev(key, l, p) ==
    IF l < Max(heights)
    THEN /\ <<p, l>> \in DOMAIN next
         /\ p = head_ \/ KeyIsAfterNode(key, p)
         /\ ~KeyIsAfterNode(key, next[<<p, l>>])
    ELSE p = head_

\* Insert up to the publication: the search, RandomHeight, and the new height of
\* the list, which readers may see at any time.
InsertBegin ==
    /\ insert = NoInsert
    /\ \E k \in SKeys \ OnLevel(0), height \in 1 .. kMaxHeight :
        /\ \E prev \in [0 .. height - 1 -> {head_} \cup SKeys] :
            /\ \A l \in 0 .. height - 1 : IsPrev(k, l, prev[l])
            /\ insert' = [key |-> k, height |-> height, level |-> 0, prev |-> prev]
        /\ heights' = heights \cup {Max(heights \cup {height})}
    /\ UNCHANGED <<next, iter>>

(* The variant publishes the node before it has a link of its own. *)
PublishFirst ==
    /\ insert # NoInsert
    /\ next' = [next EXCEPT ![<<insert.prev[insert.level], insert.level>>] = insert.key]
    /\ insert' = IF insert.level + 1 = insert.height THEN NoInsert
                 ELSE [insert EXCEPT !.level = @ + 1]
    /\ UNCHANGED <<heights, iter>>

\* One turn of the loop that links the node in, from the bottom up: the node's
\* own link first, then the store that publishes it.
InsertLink ==
    /\ insert # NoInsert
    /\ LET l == insert.level
           p == insert.prev[l]
           own == [q \in DOMAIN next \cup {<<insert.key, l>>} |->
                      IF q = <<insert.key, l>> THEN next[<<p, l>>] ELSE next[q]]
       IN  /\ next' = [own EXCEPT ![<<p, l>>] = insert.key]
           /\ insert' = IF l + 1 = insert.height THEN NoInsert
                        ELSE [insert EXCEPT !.level = l + 1]
    /\ UNCHANGED <<heights, iter>>

\* An iterator starts a search.  seen is what was in the list by then.
Start(i, op, key) ==
    /\ iter[i].n < MaxSeeks
    /\ \E h \in heights :
        iter' = [iter EXCEPT ![i] =
                    [op |-> op, key |-> key, x |-> head_, level |-> h - 1,
                     seen |-> OnLevel(0), n |-> iter[i].n + 1]]
    /\ UNCHANGED <<next, heights, insert>>

\* Seek(target).
Seek(i) == iter[i].op = "idle" /\ \E k \in SKeys : Start(i, "ge", k)

\* Prev(): there are no back links, so it is a search for the last node before
\* the current one.
StepBack(i) == /\ iter[i].op = "idle" /\ iter[i].node # Nil
               /\ Start(i, "lt", iter[i].node)

\* SeekToLast().
SeekToLast(i) == iter[i].op = "idle" /\ Start(i, "last", Nil)

\* The node an operation ends at; head_ stands for "before the first".
Position(i, node) ==
    iter' = [iter EXCEPT ![i] = [op |-> "idle", n |-> @.n,
                                 node |-> IF node = head_ THEN Nil ELSE node]]

\* SeekToFirst() and Next(): one load.
SeekToFirst(i) ==
    /\ iter[i].op = "idle" /\ iter[i].n < MaxSeeks
    /\ iter' = [iter EXCEPT ![i] = [op |-> "idle", n |-> @.n + 1,
                                    node |-> next[<<head_, 0>>]]]
    /\ UNCHANGED <<next, heights, insert>>

StepForward(i) ==
    /\ iter[i].op = "idle" /\ iter[i].node # Nil
    /\ Position(i, next[<<iter[i].node, 0>>])
    /\ UNCHANGED <<next, heights, insert>>

\* One turn of the loop of FindGreaterOrEqual, FindLessThan or FindLast.
Search(i) ==
    LET s == iter[i]
        n == next[<<s.x, s.level>>]
        goOn == IF s.op = "last" THEN n # Nil ELSE KeyIsAfterNode(s.key, n)
    IN  /\ s.op # "idle"
        /\ <<s.x, s.level>> \in DOMAIN next
        /\ \/ /\ goOn
              /\ iter' = [iter EXCEPT ![i].x = n]
           \/ /\ ~goOn /\ s.level > 0
              /\ iter' = [iter EXCEPT ![i].level = s.level - 1]
           \/ /\ ~goOn /\ s.level = 0
              /\ Position(i, IF s.op = "ge" THEN n ELSE s.x)
        /\ UNCHANGED <<next, heights, insert>>

SkipNext ==
    \/ InsertBegin \/ InsertLink
    \/ \E i \in Iterators : \/ Seek(i) \/ StepBack(i) \/ SeekToLast(i)
                            \/ SeekToFirst(i) \/ StepForward(i) \/ Search(i)

----------------------------------------------------------------------------
(* Properties                                                              *)

\* The list while an Insert is half done: every level is sorted and closed, and
\* is part of the one below it.
SkipListSound ==
    /\ \A p \in DOMAIN next : next[p] # Nil => <<next[p], p[2]>> \in DOMAIN next
    /\ \A p \in DOMAIN next : p[1] < next[p]
    /\ \A l \in 1 .. kMaxHeight - 1 : OnLevel(l) \subseteq OnLevel(l - 1)

\* A reader in the middle of a search never comes to a link that is unset.
ReadersOnList ==
    \A i \in Iterators : iter[i].op # "idle" => <<iter[i].x, iter[i].level>> \in DOMAIN next

\* The node a search s may end at, given what was in the list when it started.
EndsRight(s, to) ==
    CASE s.op = "ge" -> to >= s.key /\ ~\E k \in s.seen : s.key <= k /\ k < to
      [] s.op = "lt" -> IF to = Nil THEN ~\E k \in s.seen : k < s.key
                        ELSE to < s.key /\ ~\E k \in s.seen : to < k /\ k < s.key
      [] s.op = "last" -> IF to = Nil THEN s.seen = {}
                          ELSE ~\E k \in s.seen : k > to

\* A search that runs against inserts ends where a search of the list as it was
\* when it started would end, or at a key inserted since: it never passes over a
\* key that was there.
SearchMissesNothing ==
    [][\A i \in Iterators : iter[i].op # "idle" /\ iter'[i].op = "idle" =>
          EndsRight(iter[i], iter'[i].node)]_svars

\* The skip list a reader walks without a lock is sorted on every level, and a search
\* in it misses no key that was there before (FindGreaterOrEqual, Insert).
MemTableSound == [](SkipListSound /\ ReadersOnList) /\ SearchMissesNothing

SkipSpec == SkipInit /\ [][SkipNext]_svars

=============================================================================
