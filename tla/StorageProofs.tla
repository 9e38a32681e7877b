--------------------------- MODULE StorageProofs ---------------------------
(***************************************************************************)
(* Proofs about the memtable's skip list (SkipList), for any keys, height  *)
(* and number of readers.                                                  *)
(***************************************************************************)
EXTENDS SkipList, TLAPS

Nodes == {head_} \cup SKeys
Levels == 0 .. kMaxHeight - 1

IdleOp == [op : {"idle"}, node : SKeys \cup {Nil}, n : Nat]
SearchOp == [op : {"ge", "lt", "last"}, key : SKeys \cup {Nil}, x : Nodes, level : Levels,
             seen : SUBSET SKeys, n : Nat]
Searches == UNION {[0 .. h - 1 -> Nodes] : h \in 1 .. kMaxHeight}
InsertOp == [key : SKeys, height : 1 .. kMaxHeight, level : Levels, prev : Searches]

SkipType ==
    /\ DOMAIN next \subseteq Nodes \X Levels
    /\ next \in [DOMAIN next -> SKeys \cup {Nil}]
    /\ heights \subseteq 1 .. kMaxHeight
    /\ insert \in {NoInsert} \cup InsertOp
    /\ iter = [i \in Iterators |-> iter[i]]

(* Every level is a chain from head_ to Nil that passes over none of the nodes
   that have a link on it, and a node on a level is on all below. *)
Linked(x, l) == <<x, l>> \in DOMAIN next
Chained ==
    /\ \A l \in Levels : Linked(head_, l)
    /\ \A x \in Nodes, l \in Levels : Linked(x, l) =>
          /\ x < next[<<x, l>>]
          /\ next[<<x, l>>] # Nil => Linked(next[<<x, l>>], l)
          /\ x # head_ => \E w \in Nodes : Linked(w, l) /\ next[<<w, l>>] = x
          /\ \A y \in Nodes : Linked(y, l) /\ x < y => next[<<x, l>>] <= y
          /\ \A j \in Levels : j < l => Linked(x, j)

(* The levels nobody has reached are empty. *)
HeightInv ==
    /\ \E top \in heights : \A h \in heights : h <= top
    /\ \A l \in Levels : (\A h \in heights : h <= l) => next[<<head_, l>>] = Nil

(* The search of an Insert stays right until its node is linked in: the node has
   its links up to level, and goes right behind prev on the others. *)
InsertInv ==
    insert # NoInsert =>
        /\ insert.level < insert.height
        /\ \E h \in heights : insert.height <= h
        /\ \A l \in 0 .. insert.level - 1 : Linked(insert.key, l)
        /\ \A l \in Levels : l >= insert.level => ~Linked(insert.key, l)
        /\ \A l \in insert.level .. insert.height - 1 :
              /\ insert.prev[l] \in Nodes /\ Linked(insert.prev[l], l)
              /\ insert.prev[l] < insert.key
              /\ insert.key < next[<<insert.prev[l], l>>]

(* An iterator stands at a node of the list; a search has not passed its key. *)
IterOk(s) ==
    \/ s \in IdleOp /\ (s.node # Nil => Linked(s.node, 0))
    \/ /\ s \in SearchOp
       /\ Linked(s.x, s.level)
       /\ \A k \in s.seen : Linked(k, 0)
       /\ s.op # "last" => s.key \in SKeys /\ s.x < s.key

IterInv == \A i \in Iterators : IterOk(iter[i])

SkipInv == SkipType /\ Chained /\ HeightInv /\ InsertInv /\ IterInv

(* The largest member of a set is what Max chooses. *)
LEMMA MaxIs ==
    ASSUME NEW S \in SUBSET Int, NEW m \in S, \A y \in S : y <= m
    PROVE  Max(S) = m
<1>1. m \in S /\ \A y \in S : m >= y
  OBVIOUS
<1>2. \A x \in S : (\A y \in S : x >= y) => x = m
  OBVIOUS
<1> QED BY <1>1, <1>2, Zenon DEF Max

(* NULL is past every key. *)
LEMMA NilIsLast == Nil \in Nat /\ (\A k \in SKeys : k < Nil) /\ head_ < Nil
<1>1. PICK last \in SKeys : \A k \in SKeys : k <= last
  BY SkipAssumption
<1>2. SKeys \in SUBSET Int
  BY SkipAssumption
<1>3. Max(SKeys) = last
  BY <1>1, <1>2, MaxIs
<1> QED BY <1>1, <1>3, SkipAssumption DEF Nil, head_

(* The constants as the steps below use them. *)
LEMMA Places ==
    /\ \A k \in SKeys : k \in Nat /\ 0 < k /\ k < Nil /\ k # Nil /\ k # head_ /\ k \in Nodes
    /\ \A x \in Nodes : x \in Nat /\ x < Nil /\ x # Nil /\ (x = head_ \/ x \in SKeys)
    /\ Nil \in Nat /\ head_ = 0 /\ head_ \in Nodes
    /\ kMaxHeight \in Nat /\ kMaxHeight > 0
    /\ 0 \in Levels /\ \A l \in Levels : l \in Nat
BY NilIsLast, SkipAssumption DEF Nodes, Levels, head_

(* The nodes met on level 0 are those that have a link there. *)
LEMMA OnLevelIs ==
    ASSUME SkipType, Chained, NEW l \in Levels
    PROVE  OnLevel(l) = {k \in SKeys : Linked(k, l)}
<1>1. ASSUME NEW k \in SKeys, NEW p \in DOMAIN next, p[2] = l, next[p] = k
      PROVE  Linked(k, l)
  <2>1. PICK x \in Nodes, j \in Levels : p = <<x, j>>
    BY <1>1 DEF SkipType
  <2>2. j = l /\ Linked(x, l) /\ next[<<x, l>>] = k /\ k # Nil
    BY <1>1, <2>1, Places DEF Linked, Nodes
  <2> QED BY <2>2 DEF Chained
<1>2. ASSUME NEW k \in SKeys, Linked(k, l)
      PROVE  \E p \in DOMAIN next : p[2] = l /\ next[p] = k
  <2>1. k \in Nodes /\ k # head_
    BY Places DEF Nodes
  <2>2. PICK w \in Nodes : Linked(w, l) /\ next[<<w, l>>] = k
    BY <1>2, <2>1 DEF Chained
  <2> QED BY <2>2 DEF Linked
<1> QED BY <1>1, <1>2 DEF OnLevel

(* SkipInit establishes the invariant. *)
LEMMA SkipInvInit == SkipInit => SkipInv
<1> SUFFICES ASSUME SkipInit PROVE SkipInv
  OBVIOUS
<1> USE Places
<1>1. SkipType
  BY DEF SkipInit, SkipType, Nodes, Levels, NoInsert
<1>2. Chained
  <2>1. \A l \in Levels : Linked(head_, l) /\ next[<<head_, l>>] = Nil
    BY DEF SkipInit, Linked, Levels
  <2>2. \A x \in Nodes, l \in Levels : Linked(x, l) => x = head_
    <3>1. DOMAIN next = {head_} \X Levels
      BY DEF SkipInit, Levels
    <3> SUFFICES ASSUME NEW x \in Nodes, NEW l \in Levels, <<x, l>> \in DOMAIN next
                 PROVE  x = head_
      BY Zenon DEF Linked
    <3>2. <<x, l>> \in {head_} \X Levels
      BY <3>1, Zenon
    <3>3. x \in {head_}
      BY ONLY <3>2
    <3> QED BY <3>3, Zenon
  <2>3. ASSUME NEW x \in Nodes, NEW l \in Levels, Linked(x, l)
        PROVE  /\ x < next[<<x, l>>] /\ next[<<x, l>>] = Nil /\ x = head_
               /\ \A y \in Nodes : Linked(y, l) /\ x < y => next[<<x, l>>] <= y
               /\ \A j \in Levels : Linked(x, j)
    <3>1. x = head_ /\ next[<<x, l>>] = Nil /\ \A j \in Levels : Linked(x, j)
      BY <2>1, <2>2, <2>3, Zenon
    <3>2. head_ < Nil /\ ~(head_ < head_)
      BY Places
    <3>3. \A y \in Nodes : Linked(y, l) => ~(x < y)
      BY <2>2, <3>1, <3>2, Zenon
    <3> QED BY <3>1, <3>2, <3>3, Zenon
  <2> QED BY <2>1, <2>3, Zenon DEF Chained
<1>3. HeightInv
  BY DEF SkipInit, HeightInv, Levels
<1>4. InsertInv
  BY DEF SkipInit, InsertInv
<1>5. IterInv
  BY DEF SkipInit, IterInv, IterOk, IdleOp
<1> QED BY <1>1, <1>2, <1>3, <1>4, <1>5 DEF SkipInv

(* The links a reader loads. *)
LEMMA LinkIs ==
    ASSUME SkipInv, NEW x \in Nodes, NEW l \in Levels, Linked(x, l)
    PROVE  /\ next[<<x, l>>] \in SKeys \cup {Nil} /\ x < next[<<x, l>>]
           /\ next[<<x, l>>] # Nil => Linked(next[<<x, l>>], l)
           /\ \A y \in Nodes : Linked(y, l) /\ x < y => next[<<x, l>>] <= y
           /\ \A j \in Levels : j < l => Linked(x, j)
<1>1. next[<<x, l>>] \in SKeys \cup {Nil}
  BY DEF SkipInv, SkipType, Linked
<1> QED BY <1>1 DEF SkipInv, Chained

(* What points at a node. *)
LEMMA BehindIs ==
    ASSUME SkipInv, NEW x \in SKeys, NEW l \in Levels, Linked(x, l)
    PROVE  \E w \in Nodes : Linked(w, l) /\ next[<<w, l>>] = x /\ w < x
<1>1. x \in Nodes /\ x # head_
  BY Places DEF Nodes
<1>2. PICK w \in Nodes : Linked(w, l) /\ next[<<w, l>>] = x
  BY <1>1 DEF SkipInv, Chained
<1> QED BY <1>2, LinkIs

(* head_ is on every level. *)
LEMMA HeadIs ==
    ASSUME SkipInv, NEW l \in Levels
    PROVE  Linked(head_, l)
BY DEF SkipInv, Chained

(* The search of Insert: prev is where the node goes on every level. *)
LEMMA InsertBeginInv == SkipInv /\ InsertBegin => SkipInv'
<1> SUFFICES ASSUME SkipInv, InsertBegin PROVE SkipInv'
  OBVIOUS
<1> USE Places
<1>0. PICK k \in SKeys \ OnLevel(0), height \in 1 .. kMaxHeight :
        /\ \E prev \in [0 .. height - 1 -> Nodes] :
            /\ \A l \in 0 .. height - 1 : IsPrev(k, l, prev[l])
            /\ insert' = [key |-> k, height |-> height, level |-> 0, prev |-> prev]
        /\ heights' = heights \cup {Max(heights \cup {height})}
        /\ next' = next /\ iter' = iter
  BY Zenon DEF InsertBegin, Nodes
<1>1. PICK prev \in [0 .. height - 1 -> Nodes] :
        /\ \A l \in 0 .. height - 1 : IsPrev(k, l, prev[l])
        /\ insert' = [key |-> k, height |-> height, level |-> 0, prev |-> prev]
        /\ heights' = heights \cup {Max(heights \cup {height})}
        /\ next' = next /\ iter' = iter
  BY <1>0
<1>k. k \in SKeys
  OBVIOUS
<1>2. PICK top \in heights : \A h \in heights : h <= top
  BY DEF SkipInv, HeightInv
<1>3. heights \subseteq 1 .. kMaxHeight /\ heights \in SUBSET Int
  BY DEF SkipInv, SkipType
<1>4. Max(heights) = top
  BY <1>2, <1>3, MaxIs
<1>5. PICK new \in 1 .. kMaxHeight :
        /\ heights' = heights \cup {new} /\ top <= new /\ height <= new
  <2>1. CASE height <= top
    <3>1. Max(heights \cup {height}) = top
      <4>1. heights \cup {height} \in SUBSET Int /\ top \in heights \cup {height}
            /\ \A y \in heights \cup {height} : y <= top
        BY <1>2, <1>3, <2>1
      <4> QED BY <4>1, MaxIs, Zenon
    <3> QED BY <1>1, <1>2, <1>3, <2>1, <3>1
  <2>2. CASE top < height
    <3>1. Max(heights \cup {height}) = height
      <4>1. heights \cup {height} \in SUBSET Int /\ height \in heights \cup {height}
            /\ \A y \in heights \cup {height} : y <= height
        BY <1>2, <1>3, <2>2
      <4> QED BY <4>1, MaxIs, Zenon
    <3> QED BY <1>1, <1>2, <1>3, <2>2, <3>1
  <2> QED BY <1>2, <1>3, <2>1, <2>2
<1>6. \A l \in Levels : ~Linked(k, l)
  <2>1. ~Linked(k, 0)
    <3>1. OnLevel(0) = {j \in SKeys : Linked(j, 0)}
      BY OnLevelIs DEF SkipInv
    <3> QED BY <1>1, <3>1
  <2>2. \A l \in Levels : Linked(k, l) => l = 0 \/ Linked(k, 0)
    <3> SUFFICES ASSUME NEW l \in Levels, Linked(k, l), l # 0 PROVE Linked(k, 0)
      OBVIOUS
    <3>1. \A j \in Levels : j < l => Linked(k, j)
      BY <1>k, LinkIs, Zenon
    <3> QED BY <3>1
  <2> QED BY <2>1, <2>2
<1>7. ASSUME NEW l \in 0 .. height - 1
      PROVE  /\ prev[l] \in Nodes /\ Linked(prev[l], l)
             /\ prev[l] < k /\ k < next[<<prev[l], l>>]
  <2>1. l \in Levels /\ IsPrev(k, l, prev[l]) /\ prev[l] \in Nodes
    BY <1>1 DEF Levels
  <2>2. Linked(prev[l], l) /\ prev[l] < k /\ ~KeyIsAfterNode(k, next[<<prev[l], l>>])
    <3>1. CASE l < top
      BY <1>1, <1>4, <2>1, <3>1 DEF IsPrev, Linked, KeyIsAfterNode
    <3>2. CASE ~(l < top)
      <4>1. prev[l] = head_
        BY <1>4, <2>1, <3>2 DEF IsPrev
      <4>2. \A h \in heights : h <= l
        BY <1>2, <1>3, <2>1, <3>2
      <4>3. next[<<head_, l>>] = Nil
        BY <2>1, <4>2 DEF SkipInv, HeightInv
      <4>4. Linked(head_, l)
        BY <2>1, HeadIs
      <4> QED BY <1>k, <4>1, <4>3, <4>4 DEF KeyIsAfterNode
    <3> QED BY <3>1, <3>2
  <2>3. PICK n \in SKeys \cup {Nil} : n = next[<<prev[l], l>>]
    BY <2>2 DEF Linked, SkipInv, SkipType
  <2>4. n # k
    <3>1. n # Nil => Linked(n, l)
      BY <2>1, <2>2, <2>3, LinkIs, Zenon
    <3>2. k # Nil
      BY <1>k
    <3> QED BY <1>6, <2>1, <3>1, <3>2
  <2> QED BY <1>1, <2>1, <2>2, <2>3, <2>4 DEF KeyIsAfterNode
<1>8. SkipType'
  <2>1. insert' \in InsertOp
    <3>1. prev \in Searches
      BY <1>1 DEF Searches
    <3> QED BY <1>1, <3>1 DEF InsertOp
  <2> QED BY <1>1, <1>5, <2>1, Zenon DEF SkipInv, SkipType
<1>9. Chained'
  BY <1>1, Zenon DEF SkipInv, Chained, Linked
<1>10. HeightInv'
  <2>1. \A h \in heights' : h <= new
    BY <1>2, <1>3, <1>5
  <2>2. \A l \in Levels : (\A h \in heights' : h <= l) => next'[<<head_, l>>] = Nil
    BY <1>1, <1>5 DEF SkipInv, HeightInv
  <2> QED BY <1>5, <2>1, <2>2, Zenon DEF HeightInv
<1>11. InsertInv'
  <2>1. insert'.key = k /\ insert'.height = height /\ insert'.level = 0 /\ insert'.prev = prev
    <3>1. insert' = [key |-> k, height |-> height, level |-> 0, prev |-> prev]
      BY <1>1
    <3> QED BY ONLY <3>1
  <2>2. new \in heights'
    BY <1>5
  <2>3. next' = next
    BY <1>1
  <2> QED BY <1>1, <1>5, <1>6, <1>7, <2>1, <2>2, <2>3 DEF InsertInv, Linked
<1>12. IterInv'
  BY <1>1 DEF SkipInv, IterInv, IterOk, Linked
<1> QED BY <1>8, <1>9, <1>10, <1>11, <1>12 DEF SkipInv

(* One level of the loop of Insert: the node stands between prev and what was
   behind it, on that level only. *)
LEMMA InsertLinkInv == SkipInv /\ InsertLink => SkipInv'
<1> SUFFICES ASSUME SkipInv, InsertLink PROVE SkipInv'
  OBVIOUS
<1> USE Places
<1>1. insert \in InsertOp /\ insert # NoInsert
  BY DEF InsertLink, SkipInv, SkipType
<1>2. PICK k \in SKeys, height \in 1 .. kMaxHeight, l \in Levels, prev \in Searches :
        insert = [key |-> k, height |-> height, level |-> l, prev |-> prev]
  BY <1>1 DEF InsertOp
<1>3. PICK p \in Nodes : p = prev[l] /\ Linked(p, l) /\ p < k /\ k < next[<<p, l>>]
  <2>1. insert.key = k /\ insert.prev = prev /\ insert.height = height /\ insert.level = l
    BY ONLY <1>2
  <2>2. l \in l .. height - 1
    BY <1>1, <2>1 DEF SkipInv, InsertInv
  <2> QED BY <1>1, <2>1, <2>2 DEF SkipInv, InsertInv
<1>4. PICK n \in SKeys \cup {Nil} : n = next[<<p, l>>]
  BY <1>3 DEF Linked, SkipInv, SkipType
<1>5. /\ l < height /\ (\E h \in heights : height <= h)
      /\ \A j \in 0 .. l - 1 : Linked(k, j)
      /\ \A j \in Levels : j >= l => ~Linked(k, j)
  BY <1>1, <1>2 DEF SkipInv, InsertInv
<1>6. /\ DOMAIN next' = DOMAIN next \cup {<<k, l>>}
      /\ next'[<<k, l>>] = n /\ next'[<<p, l>>] = k
      /\ \A q \in DOMAIN next : q # <<p, l>> => next'[q] = next[q]
      /\ next' \in [DOMAIN next' -> SKeys \cup {Nil}]
  <2>1. next' = [[q \in DOMAIN next \cup {<<k, l>>} |->
                     IF q = <<k, l>> THEN n ELSE next[q]] EXCEPT ![<<p, l>>] = k]
    BY <1>2, <1>3, <1>4 DEF InsertLink
  <2>2. <<k, l>> \notin DOMAIN next /\ <<p, l>> \in DOMAIN next /\ k # p
    BY <1>3, <1>5 DEF Linked
  <2> QED BY <1>4, <2>1, <2>2 DEF SkipInv, SkipType
<1>7. /\ insert' = IF l + 1 = height THEN NoInsert
                    ELSE [key |-> k, height |-> height, level |-> l + 1, prev |-> prev]
      /\ heights' = heights /\ iter' = iter
  BY <1>2 DEF InsertLink
<1>8. /\ \A x \in Nodes, j \in Levels : Linked(x, j)' <=> Linked(x, j) \/ (x = k /\ j = l)
      /\ \A x \in Nodes, j \in Levels : Linked(x, j) /\ ~(x = p /\ j = l) =>
            next'[<<x, j>>] = next[<<x, j>>]
  BY <1>6 DEF Linked
<1>9. SkipType'
  <2>1. DOMAIN next' \subseteq Nodes \X Levels
    BY <1>6 DEF SkipInv, SkipType, Nodes
  <2>2. insert' \in {NoInsert} \cup InsertOp
    <3>1. l + 1 # height => l + 1 \in Levels
      BY <1>5 DEF Levels
    <3> QED BY <1>7, <3>1 DEF InsertOp
  <2> QED BY <1>6, <1>7, <2>1, <2>2 DEF SkipInv, SkipType
<1>10. Chained'
  <2>1. \A j \in Levels : Linked(head_, j)'
    BY <1>8 DEF SkipInv, Chained
  <2>2. ASSUME NEW x \in Nodes, NEW j \in Levels, Linked(x, j)'
        PROVE  /\ x < next'[<<x, j>>]
               /\ next'[<<x, j>>] # Nil => <<next'[<<x, j>>], j>> \in DOMAIN next'
               /\ x # head_ => \E w \in Nodes : Linked(w, j)' /\ next'[<<w, j>>] = x
               /\ \A y \in Nodes : Linked(y, j)' /\ x < y => next'[<<x, j>>] <= y
               /\ \A i \in Levels : i < j => Linked(x, i)'
    <3>0. \A y \in Nodes, i \in Levels : Linked(y, i) => Linked(y, i)'
      BY <1>8
    <3>1. CASE j # l
      <4>1. PICK m \in SKeys \cup {Nil} :
              Linked(x, j) /\ m = next[<<x, j>>] /\ m = next'[<<x, j>>]
        BY <1>8, <2>2, <3>1, LinkIs, Zenon
      <4>2. /\ x < m /\ (m # Nil => Linked(m, j))
            /\ \A y \in Nodes : Linked(y, j) /\ x < y => m <= y
            /\ \A i \in Levels : i < j => Linked(x, i)
        <5>1. /\ x < next[<<x, j>>] /\ (next[<<x, j>>] # Nil => Linked(next[<<x, j>>], j))
              /\ \A y \in Nodes : Linked(y, j) /\ x < y => next[<<x, j>>] <= y
              /\ \A i \in Levels : i < j => Linked(x, i)
          BY <4>1, LinkIs, Zenon
        <5> QED BY <4>1, <5>1, Zenon
      <4>3. x # head_ => \E w \in Nodes : Linked(w, j)' /\ next'[<<w, j>>] = x
        <5>1. SUFFICES ASSUME x # head_ PROVE \E w \in Nodes : Linked(w, j)' /\ next'[<<w, j>>] = x
          OBVIOUS
        <5>2. PICK w \in Nodes : Linked(w, j) /\ next[<<w, j>>] = x /\ w < x
          BY <4>1, <5>1, BehindIs
        <5> QED BY <1>8, <3>1, <5>2, Zenon
      <4>4. \A y \in Nodes : Linked(y, j)' => Linked(y, j)
        BY <1>8, <3>1
      <4>5. \A i \in Levels : i < j => Linked(x, i)'
        BY <3>0, <4>2
      <4>6. m # Nil => Linked(m, j)'
        BY <3>0, <4>2
      <4>7. m # Nil => <<m, j>> \in DOMAIN next'
        BY <4>6 DEF Linked
      <4> QED BY <4>1, <4>2, <4>3, <4>4, <4>5, <4>7
    <3>2. /\ n # Nil => Linked(n, l)
          /\ \A y \in Nodes : Linked(y, l) /\ p < y => n <= y
          /\ \A i \in Levels : i < l => Linked(p, i)
      BY <1>3, <1>4, LinkIs
    <3>3. k \in Nodes /\ k # p /\ ~Linked(k, l) /\ k < n
      <4>1. k \in Nodes /\ k # p /\ k < n
        BY <1>3, <1>4 DEF Nodes
      <4>2. ~Linked(k, l)
        BY <1>5
      <4> QED BY <4>1, <4>2
    <3>4. CASE j = l /\ x = k
      <4>1. next'[<<x, j>>] = n /\ Linked(p, j)' /\ next'[<<p, j>>] = x
        BY <1>3, <1>6, <1>8, <3>4
      <4>2. n # Nil => <<n, j>> \in DOMAIN next'
        <5>1. n # Nil => Linked(n, j)'
          BY <1>4, <3>0, <3>2, <3>4, Zenon
        <5> QED BY <5>1 DEF Linked
      <4>3. \A y \in Nodes : Linked(y, j)' /\ x < y => n <= y
        <5> SUFFICES ASSUME NEW y \in Nodes, Linked(y, l)', k < y PROVE n <= y
          BY <3>4, Zenon
        <5>1. k \in Nat /\ p \in Nat /\ y \in Nat /\ p < k
          BY <1>3 DEF Nodes
        <5>2. p < y /\ y # k
          BY ONLY <5>1, k < y
        <5>3. Linked(y, l)
          BY <1>8, <5>2, Zenon
        <5> QED BY <3>2, <5>2, <5>3, Zenon
      <4>4. \A i \in Levels : i < j => Linked(x, i)'
        <5> SUFFICES ASSUME NEW i \in Levels, i < l PROVE Linked(k, i)'
          BY <3>4
        <5>1. i \in 0 .. l - 1
          OBVIOUS
        <5>2. Linked(k, i)
          BY <1>5, <5>1
        <5> QED BY <3>0, <3>3, <5>2
      <4> QED BY <3>3, <3>4, <4>1, <4>2, <4>3, <4>4
    <3>5. CASE j = l /\ x = p
      <4>1. next'[<<x, j>>] = k /\ <<k, j>> \in DOMAIN next'
        BY <1>6, <3>5
      <4>2. x # head_ => \E w \in Nodes : Linked(w, j)' /\ next'[<<w, j>>] = x
        <5>1. SUFFICES ASSUME x # head_ PROVE \E w \in Nodes : Linked(w, j)' /\ next'[<<w, j>>] = x
          OBVIOUS
        <5>2. PICK w \in Nodes : Linked(w, l) /\ next[<<w, l>>] = x /\ w < x
          BY <1>3, <3>5, <5>1, BehindIs, Zenon
        <5> QED BY <1>8, <3>5, <5>2
      <4>3. \A y \in Nodes : Linked(y, j)' /\ x < y => k <= y
        <5> SUFFICES ASSUME NEW y \in Nodes, Linked(y, l)', p < y PROVE k <= y
          BY <3>5
        <5>1. y = k \/ Linked(y, l)
          BY <1>8
        <5>2. Linked(y, l) => n <= y
          BY <3>2
        <5>3. y \in Nat /\ k \in Nat /\ n \in Nat /\ k < n
          BY <1>4, <3>3
        <5>4. CASE y = k
          BY ONLY <5>3, <5>4
        <5>5. CASE Linked(y, l)
          <6>1. n <= y
            BY <5>2, <5>5, Zenon
          <6> QED BY ONLY <5>3, <6>1
        <5> QED BY <5>1, <5>4, <5>5, Zenon
      <4>4. \A i \in Levels : i < j => Linked(x, i)'
        <5> SUFFICES ASSUME NEW i \in Levels, i < l PROVE Linked(p, i)'
          BY <3>5
        <5>1. Linked(p, i)
          BY <3>2
        <5> QED BY <3>0, <5>1
      <4> QED BY <1>3, <3>5, <4>1, <4>2, <4>3, <4>4
    <3>6. CASE j = l /\ x # k /\ x # p
      <4>1. PICK m \in SKeys \cup {Nil} :
              /\ m = next[<<x, l>>] /\ Linked(x, l) /\ m = next'[<<x, j>>]
        BY <1>8, <2>2, <3>6 DEF SkipInv, SkipType, Linked
      <4>2. /\ x < m /\ (m # Nil => Linked(m, l))
            /\ \A y \in Nodes : Linked(y, l) /\ x < y => m <= y
            /\ \A i \in Levels : i < l => Linked(x, i)
        <5>1. /\ x < next[<<x, l>>] /\ (next[<<x, l>>] # Nil => Linked(next[<<x, l>>], l))
              /\ \A y \in Nodes : Linked(y, l) /\ x < y => next[<<x, l>>] <= y
              /\ \A i \in Levels : i < l => Linked(x, i)
          BY <4>1, LinkIs, Zenon
        <5> QED BY <4>1, <5>1
      <4>3. x # head_ => \E w \in Nodes : Linked(w, j)' /\ next'[<<w, j>>] = x
        <5>1. SUFFICES ASSUME x # head_ PROVE \E w \in Nodes : Linked(w, j)' /\ next'[<<w, j>>] = x
          OBVIOUS
        <5>2. PICK w \in Nodes : Linked(w, l) /\ next[<<w, l>>] = x
          BY <4>1, <5>1, BehindIs, Zenon
        <5>3. CASE w = p
          BY <1>4, <1>6, <1>8, <3>3, <3>6, <5>2, <5>3
        <5>4. CASE w # p
          BY <1>8, <3>6, <5>2, <5>4, Zenon
        <5> QED BY <5>3, <5>4
      <4>4. x < k => m <= k
        <5>1. /\ x \in Nat /\ m \in Nat /\ p \in Nat /\ k \in Nat /\ n \in Nat
              /\ p < k /\ k < n /\ x # p
          BY <1>3, <1>4, <3>3, <3>6 DEF Nodes
        <5>2. x < p => m <= p
          BY <1>3, <4>2, Zenon
        <5>3. p < x => n <= x
          BY <3>2, <4>1, Zenon
        <5> QED BY ONLY <5>1, <5>2, <5>3
      <4>5. \A y \in Nodes : Linked(y, j)' /\ x < y => m <= y
        <5> SUFFICES ASSUME NEW y \in Nodes, Linked(y, l)', x < y PROVE m <= y
          BY <3>6, Zenon
        <5>1. y = k \/ Linked(y, l)
          BY <1>8, Zenon
        <5>2. CASE y = k
          BY <4>4, <5>2, Zenon
        <5>3. CASE Linked(y, l)
          BY <4>2, <5>3, Zenon
        <5> QED BY <5>1, <5>2, <5>3, Zenon
      <4>6. m # Nil => <<m, j>> \in DOMAIN next'
        <5>1. m # Nil => Linked(m, j)'
          BY <3>0, <3>6, <4>2
        <5> QED BY <5>1 DEF Linked
      <4>7. \A i \in Levels : i < j => Linked(x, i)'
        <5> SUFFICES ASSUME NEW i \in Levels, i < l PROVE Linked(x, i)'
          BY <3>6
        <5>1. Linked(x, i)
          BY <4>2
        <5> QED BY <3>0, <5>1
      <4> QED BY <4>1, <4>2, <4>3, <4>5, <4>6, <4>7
    <3> QED BY <3>1, <3>4, <3>5, <3>6
  <2> QED BY <2>1, <2>2, Zenon DEF Chained, Linked
<1>11. HeightInv'
  <2>1. \A j \in Levels : (\A h \in heights : h <= j) => j # l
    BY <1>5 DEF SkipInv, SkipType
  <2>2. \A j \in Levels : j # l => next'[<<head_, j>>] = next[<<head_, j>>]
    BY <1>8 DEF SkipInv, Chained
  <2> QED BY <1>7, <2>1, <2>2 DEF SkipInv, HeightInv
<1>12. InsertInv'
  <2>1. CASE l + 1 = height
    BY <1>7, <2>1 DEF InsertInv
  <2>2. CASE l + 1 # height
    <3>1. /\ insert'.key = k /\ insert'.height = height /\ insert'.level = l + 1
          /\ insert'.prev = prev
      BY <1>7, <2>2
    <3>2. l + 1 < height /\ (\E h \in heights' : height <= h)
      BY <1>5, <1>7, <2>2
    <3>3. \A j \in 0 .. l : Linked(k, j)'
      BY <1>5, <1>8 DEF Levels, Nodes
    <3>4. \A j \in Levels : j >= l + 1 => ~Linked(k, j)'
      BY <1>5, <1>8 DEF Nodes
    <3>5. ASSUME NEW j \in l + 1 .. height - 1
          PROVE  /\ prev[j] \in Nodes /\ Linked(prev[j], j)'
                 /\ prev[j] < k /\ k < next'[<<prev[j], j>>]
      <4>1. j \in Levels /\ j # l
        BY DEF Levels
      <4>2. /\ prev[j] \in Nodes /\ Linked(prev[j], j)
            /\ prev[j] < k /\ k < next[<<prev[j], j>>]
        BY <1>1, <1>2 DEF SkipInv, InsertInv
      <4> QED BY <1>8, <4>1, <4>2, Zenon
    <3> QED BY <3>1, <3>2, <3>3, <3>4, <3>5 DEF InsertInv
  <2> QED BY <2>1, <2>2
<1>13. IterInv'
  <2> SUFFICES ASSUME NEW i \in Iterators PROVE IterOk(iter[i])'
    BY DEF IterInv
  <2>1. IterOk(iter[i]) /\ iter' = iter
    BY <1>7 DEF SkipInv, IterInv
  <2>2. CASE iter[i] \in IdleOp /\ (iter[i].node # Nil => Linked(iter[i].node, 0))
    BY <1>8, <2>1, <2>2 DEF IterOk, IdleOp, Nodes
  <2>3. CASE /\ iter[i] \in SearchOp
             /\ Linked(iter[i].x, iter[i].level)
             /\ \A y \in iter[i].seen : Linked(y, 0)
             /\ iter[i].op # "last" => iter[i].key \in SKeys /\ iter[i].x < iter[i].key
    <3>1. iter[i].x \in Nodes /\ iter[i].level \in Levels /\ iter[i].seen \subseteq Nodes
      BY <2>3 DEF SearchOp, Nodes
    <3>2. Linked(iter[i].x, iter[i].level)' /\ \A y \in iter[i].seen : Linked(y, 0)'
      BY <1>8, <2>1, <2>3, <3>1, Zenon
    <3> QED BY <2>1, <2>3, <3>2 DEF IterOk
  <2> QED BY <2>1, <2>2, <2>3 DEF IterOk
<1> QED BY <1>9, <1>10, <1>11, <1>12, <1>13 DEF SkipInv

(* A step of one iterator leaves the list alone. *)
LEMMA IteratorStep ==
    ASSUME SkipInv, NEW i \in Iterators, NEW r, IterOk(r),
           iter' = [iter EXCEPT ![i] = r], UNCHANGED <<next, heights, insert>>
    PROVE  SkipInv'
<1>1. SkipType'
  BY DEF SkipInv, SkipType
<1>2. Chained' /\ HeightInv'
  BY DEF SkipInv, Chained, HeightInv, Linked
<1>3. InsertInv'
  BY DEF SkipInv, InsertInv, Linked
<1>4. IterInv'
  <2>1. \A j \in Iterators : iter'[j] = IF j = i THEN r ELSE iter[j]
    BY DEF SkipInv, SkipType
  <2>2. \A j \in Iterators : IterOk(iter'[j])
    BY <2>1 DEF SkipInv, IterInv
  <2>3. next' = next
    OBVIOUS
  <2> QED BY <2>2, <2>3 DEF IterInv, IterOk, Linked
<1> QED BY <1>1, <1>2, <1>3, <1>4 DEF SkipInv

(* A search starts at head_, whatever height it reads. *)
LEMMA StartInv ==
    ASSUME SkipInv, NEW i \in Iterators, NEW op \in {"ge", "lt", "last"},
           NEW key \in SKeys \cup {Nil}, op # "last" => key \in SKeys,
           Start(i, op, key), iter[i].n \in Nat
    PROVE  SkipInv'
<1> USE Places
<1>1. PICK h \in heights :
        /\ iter' = [iter EXCEPT ![i] =
                       [op |-> op, key |-> key, x |-> head_, level |-> h - 1,
                        seen |-> OnLevel(0), n |-> iter[i].n + 1]]
        /\ UNCHANGED <<next, heights, insert>>
  BY Zenon DEF Start
<1>2. PICK level \in Levels, n \in Nat, seen \in SUBSET SKeys :
        level = h - 1 /\ n = iter[i].n + 1 /\ seen = OnLevel(0)
  <2>1. h - 1 \in Levels
    BY DEF SkipInv, SkipType, Levels
  <2>2. OnLevel(0) \subseteq SKeys
    BY DEF OnLevel
  <2> QED BY <2>1, <2>2
<1>3. PICK r : r = [op |-> op, key |-> key, x |-> head_, level |-> level, seen |-> seen, n |-> n]
  BY Zenon
<1>4. iter' = [iter EXCEPT ![i] = r]
  BY <1>1, <1>2, <1>3
<1>5. IterOk(r)
  <2>1. r \in SearchOp
    BY <1>3 DEF SearchOp
  <2>2. Linked(head_, level)
    BY DEF SkipInv, Chained
  <2>3. \A k \in seen : Linked(k, 0)
    BY <1>2, OnLevelIs DEF SkipInv
  <2> QED BY <1>3, <2>1, <2>2, <2>3 DEF IterOk
<1> QED BY <1>1, <1>4, <1>5, IteratorStep, Zenon

(* An iterator that rests is at a node of the list. *)
LEMMA IdleIs ==
    ASSUME SkipInv, NEW i \in Iterators, iter[i].op = "idle"
    PROVE  /\ iter[i] \in IdleOp
           /\ iter[i].node # Nil => iter[i].node \in SKeys /\ Linked(iter[i].node, 0)
<1>1. IterOk(iter[i])
  BY DEF SkipInv, IterInv
<1>2. iter[i] \notin SearchOp
  BY DEF SearchOp
<1>3. iter[i] \in IdleOp /\ (iter[i].node # Nil => Linked(iter[i].node, 0))
  BY <1>1, <1>2 DEF IterOk
<1> QED BY <1>3 DEF IdleOp

(* An operation ends at a node of the list or past its end. *)
LEMMA RestInv ==
    ASSUME SkipInv, NEW i \in Iterators, NEW node \in SKeys \cup {Nil}, NEW n \in Nat,
           node # Nil => Linked(node, 0),
           iter' = [iter EXCEPT ![i] = [op |-> "idle", n |-> n, node |-> node]],
           UNCHANGED <<next, heights, insert>>
    PROVE  SkipInv'
<1>1. PICK r : r = [op |-> "idle", n |-> n, node |-> node]
  BY Zenon
<1>2. r \in IdleOp /\ r.node = node
  BY <1>1 DEF IdleOp
<1>3. IterOk(r)
  BY <1>2 DEF IterOk
<1>4. iter' = [iter EXCEPT ![i] = r]
  BY <1>1
<1> QED BY <1>3, <1>4, IteratorStep, Zenon

(* A turn of a search at node x of level l, which has n behind it: on, down or
   to its end. *)
Turn(i, op, key, x, l, seen, c, n) ==
    /\ iter[i] = [op |-> op, key |-> key, x |-> x, level |-> l, seen |-> seen, n |-> c]
    /\ Linked(x, l) /\ n = next[<<x, l>>]
    /\ \A k \in seen : Linked(k, 0)
    /\ op # "last" => key \in SKeys /\ x < key
    /\ UNCHANGED <<next, heights, insert>>
    /\ \/ /\ n # Nil /\ (op # "last" => n < key)
          /\ iter' = [iter EXCEPT ![i] =
                [op |-> op, key |-> key, x |-> n, level |-> l, seen |-> seen, n |-> c]]
       \/ /\ l > 0
          /\ iter' = [iter EXCEPT ![i] =
                [op |-> op, key |-> key, x |-> x, level |-> l - 1, seen |-> seen, n |-> c]]
       \/ /\ l = 0 /\ (n = Nil \/ (op # "last" /\ key <= n))
          /\ \E node \in SKeys \cup {Nil} :
               /\ node = IF op = "ge" THEN n ELSE IF x = head_ THEN Nil ELSE x
               /\ iter' = [iter EXCEPT ![i] = [op |-> "idle", n |-> c, node |-> node]]

LEMMA SearchIs ==
    ASSUME SkipInv, NEW i \in Iterators, Search(i)
    PROVE  \E op \in {"ge", "lt", "last"}, key \in SKeys \cup {Nil}, x \in Nodes,
              l \in Levels, seen \in SUBSET SKeys, c \in Nat, n \in SKeys \cup {Nil} :
            Turn(i, op, key, x, l, seen, c, n)
<1>1. iter[i] \in SearchOp /\ Linked(iter[i].x, iter[i].level)
      /\ (\A k \in iter[i].seen : Linked(k, 0))
      /\ (iter[i].op # "last" => iter[i].key \in SKeys /\ iter[i].x < iter[i].key)
  <2>1. IterOk(iter[i]) /\ iter[i].op # "idle"
    BY DEF SkipInv, IterInv, Search
  <2> QED BY <2>1 DEF IterOk, IdleOp
<1>2. PICK op \in {"ge", "lt", "last"}, key \in SKeys \cup {Nil}, x \in Nodes,
           l \in Levels, seen \in SUBSET SKeys, c \in Nat :
        iter[i] = [op |-> op, key |-> key, x |-> x, level |-> l, seen |-> seen, n |-> c]
  BY <1>1, Zenon DEF SearchOp
<1>3. /\ iter[i].op = op /\ iter[i].key = key /\ iter[i].x = x /\ iter[i].level = l
      /\ iter[i].seen = seen /\ iter[i].n = c
  BY ONLY <1>2
<1>4. /\ Linked(x, l) /\ (\A k \in seen : Linked(k, 0))
      /\ op # "last" => key \in SKeys /\ x < key
  BY <1>1, <1>3
<1>5. PICK n \in SKeys \cup {Nil} : n = next[<<x, l>>] /\ n \in Nat /\ n # head_
  BY <1>4, LinkIs, Places
<1>6. UNCHANGED <<next, heights, insert>> /\ iter = [j \in Iterators |-> iter[j]]
  BY DEF Search, SkipInv, SkipType
<1>7. PICK goOn \in BOOLEAN :
        /\ goOn <=> IF op = "last" THEN n # Nil ELSE KeyIsAfterNode(key, n)
        /\ \/ goOn /\ iter' = [iter EXCEPT ![i].x = n]
           \/ ~goOn /\ l > 0 /\ iter' = [iter EXCEPT ![i].level = l - 1]
           \/ ~goOn /\ l = 0 /\ Position(i, IF op = "ge" THEN n ELSE x)
  BY <1>3, <1>5, Zenon DEF Search
<1>8. CASE goOn /\ iter' = [iter EXCEPT ![i].x = n]
  <2>1. [iter[i] EXCEPT !.x = n]
           = [op |-> op, key |-> key, x |-> n, level |-> l, seen |-> seen, n |-> c]
    BY ONLY <1>2
  <2>2. iter' = [iter EXCEPT ![i] =
                    [op |-> op, key |-> key, x |-> n, level |-> l, seen |-> seen, n |-> c]]
    BY <1>6, <1>8, <2>1, Zenon
  <2>3. n # Nil /\ (op # "last" => n < key)
    BY <1>4, <1>7, <1>8 DEF KeyIsAfterNode
  <2> QED BY <1>2, <1>4, <1>5, <1>6, <2>2, <2>3, Zenon DEF Turn
<1>9. CASE ~goOn /\ l > 0 /\ iter' = [iter EXCEPT ![i].level = l - 1]
  <2>0. PICK m : m = l - 1
    BY Zenon
  <2>1. [iter[i] EXCEPT !.level = m]
           = [op |-> op, key |-> key, x |-> x, level |-> m, seen |-> seen, n |-> c]
    BY ONLY <1>2
  <2>2. iter' = [iter EXCEPT ![i].level = m]
    BY <1>9, <2>0, Zenon
  <2>3. iter' = [iter EXCEPT ![i] =
                    [op |-> op, key |-> key, x |-> x, level |-> m, seen |-> seen, n |-> c]]
    BY <1>6, <2>2, <2>1, Zenon
  <2>4. iter' = [iter EXCEPT ![i] =
                    [op |-> op, key |-> key, x |-> x, level |-> l - 1, seen |-> seen, n |-> c]]
    BY <2>0, <2>3, Zenon
  <2>5. Turn(i, op, key, x, l, seen, c, n)
    BY <1>2, <1>4, <1>5, <1>6, <1>9, <2>4, Zenon DEF Turn
  <2> QED BY <1>5, <2>5, Zenon
<1>10. CASE ~goOn /\ l = 0 /\ Position(i, IF op = "ge" THEN n ELSE x)
  <2>1. PICK node \in SKeys \cup {Nil} :
          node = IF op = "ge" THEN n ELSE IF x = head_ THEN Nil ELSE x
    BY Places
  <2>2. iter' = [iter EXCEPT ![i] = [op |-> "idle", n |-> c, node |-> node]]
    BY <1>3, <1>5, <1>10, <2>1, Zenon DEF Position
  <2>3. n = Nil \/ (op # "last" /\ key <= n)
    <3>1. CASE op = "last"
      BY <1>7, <1>10, <3>1
    <3>2. CASE op # "last"
      <4>1. key \in Nat /\ ~KeyIsAfterNode(key, n)
        BY <1>4, <1>7, <1>10, <3>2, Places
      <4> QED BY <1>5, <3>2, <4>1 DEF KeyIsAfterNode
    <3> QED BY <3>1, <3>2
  <2>4. Turn(i, op, key, x, l, seen, c, n)
    BY <1>2, <1>4, <1>5, <1>6, <1>10, <2>1, <2>2, <2>3, Zenon DEF Turn
  <2> QED BY <1>5, <2>4, Zenon
<1> QED BY <1>7, <1>8, <1>9, <1>10, Zenon

(* A turn of a search keeps the invariant. *)
LEMMA SearchInv ==
    ASSUME SkipInv, NEW i \in Iterators, Search(i)
    PROVE  SkipInv'
<1> USE Places
<1>0. PICK op \in {"ge", "lt", "last"}, key \in SKeys \cup {Nil}, x \in Nodes,
           l \in Levels, seen \in SUBSET SKeys, c \in Nat, n \in SKeys \cup {Nil} :
        Turn(i, op, key, x, l, seen, c, n)
  BY SearchIs
<1>1. /\ Linked(x, l) /\ n = next[<<x, l>>]
      /\ \A k \in seen : Linked(k, 0)
      /\ op # "last" => key \in SKeys /\ x < key
      /\ UNCHANGED <<next, heights, insert>>
  BY <1>0 DEF Turn
<1>2. /\ n # Nil => Linked(n, l)
      /\ \A j \in Levels : j < l => Linked(x, j)
  BY <1>1, LinkIs, Zenon
<1>3. ASSUME NEW y \in Nodes, NEW j \in Levels, Linked(y, j), op # "last" => y < key,
             iter' = [iter EXCEPT ![i] =
                        [op |-> op, key |-> key, x |-> y, level |-> j, seen |-> seen, n |-> c]]
      PROVE  SkipInv'
  <2>1. PICK r : r = [op |-> op, key |-> key, x |-> y, level |-> j, seen |-> seen, n |-> c]
    BY Zenon
  <2>2. r \in SearchOp
    BY <2>1 DEF SearchOp
  <2>3. IterOk(r)
    BY <1>1, <1>3, <2>1, <2>2 DEF IterOk
  <2> QED BY <1>1, <1>3, <2>1, <2>3, IteratorStep, Zenon
<1>4. CASE /\ n # Nil /\ (op # "last" => n < key)
           /\ iter' = [iter EXCEPT ![i] =
                 [op |-> op, key |-> key, x |-> n, level |-> l, seen |-> seen, n |-> c]]
  BY <1>2, <1>3, <1>4, Zenon DEF Nodes
<1>5. CASE /\ l > 0
           /\ iter' = [iter EXCEPT ![i] =
                 [op |-> op, key |-> key, x |-> x, level |-> l - 1, seen |-> seen, n |-> c]]
  <2>1. PICK j \in Levels : j = l - 1
    BY <1>5 DEF Levels
  <2>2. Linked(x, j)
    BY <1>2, <2>1
  <2> QED BY <1>1, <1>3, <1>5, <2>1, <2>2, Zenon
<1>6. CASE /\ l = 0
           /\ \E node \in SKeys \cup {Nil} :
                /\ node = IF op = "ge" THEN n ELSE IF x = head_ THEN Nil ELSE x
                /\ iter' = [iter EXCEPT ![i] = [op |-> "idle", n |-> c, node |-> node]]
  <2>1. PICK node \in SKeys \cup {Nil} :
          /\ node = IF op = "ge" THEN n ELSE IF x = head_ THEN Nil ELSE x
          /\ iter' = [iter EXCEPT ![i] = [op |-> "idle", n |-> c, node |-> node]]
    BY <1>6, Zenon
  <2>2. node # Nil => Linked(node, 0)
    BY <1>1, <1>2, <1>6, <2>1
  <2> QED BY <1>1, <2>1, <2>2, RestInv, Zenon
<1> QED BY <1>0, <1>4, <1>5, <1>6, Zenon DEF Turn

(* Every step keeps the invariant. *)
LEMMA SkipInvStep == SkipInv /\ [SkipNext]_svars => SkipInv'
<1> SUFFICES ASSUME SkipInv, [SkipNext]_svars PROVE SkipInv'
  OBVIOUS
<1> USE Places
<1>1. CASE InsertBegin
  BY <1>1, InsertBeginInv
<1>2. CASE InsertLink
  BY <1>2, InsertLinkInv
<1>3. ASSUME NEW i \in Iterators, Seek(i) PROVE SkipInv'
  <2>1. PICK k \in SKeys : Start(i, "ge", k)
    BY <1>3 DEF Seek
  <2>2. iter[i].n \in Nat
    BY <1>3, IdleIs DEF Seek, IdleOp
  <2> QED BY <2>1, <2>2, StartInv
<1>4. ASSUME NEW i \in Iterators, StepBack(i) PROVE SkipInv'
  <2>1. Start(i, "lt", iter[i].node) /\ iter[i].node \in SKeys /\ iter[i].n \in Nat
    BY <1>4, IdleIs DEF StepBack, IdleOp
  <2>2. PICK k \in SKeys : k = iter[i].node
    BY <2>1
  <2> QED BY <2>1, <2>2, StartInv
<1>5. ASSUME NEW i \in Iterators, SeekToLast(i) PROVE SkipInv'
  <2>1. Start(i, "last", Nil) /\ iter[i].n \in Nat
    BY <1>5, IdleIs DEF SeekToLast, IdleOp
  <2> QED BY <2>1, StartInv
<1>6. ASSUME NEW i \in Iterators, SeekToFirst(i) PROVE SkipInv'
  <2>1. PICK n \in Nat : n = iter[i].n + 1
    BY <1>6, IdleIs DEF SeekToFirst, IdleOp
  <2>2. Linked(head_, 0)
    BY DEF SkipInv, Chained
  <2>3. PICK node \in SKeys \cup {Nil} :
          node = next[<<head_, 0>>] /\ (node # Nil => Linked(node, 0))
    BY <2>2, LinkIs
  <2>4. /\ iter' = [iter EXCEPT ![i] = [op |-> "idle", n |-> n, node |-> node]]
        /\ UNCHANGED <<next, heights, insert>>
    BY <1>6, <2>1, <2>3 DEF SeekToFirst
  <2> QED BY <2>3, <2>4, RestInv, Zenon
<1>7. ASSUME NEW i \in Iterators, StepForward(i) PROVE SkipInv'
  <2>1. PICK n \in Nat : n = iter[i].n
    BY <1>7, IdleIs DEF StepForward, IdleOp
  <2>2. iter[i].node \in SKeys /\ Linked(iter[i].node, 0)
    BY <1>7, IdleIs DEF StepForward
  <2>3. PICK node \in SKeys \cup {Nil} :
          node = next[<<iter[i].node, 0>>] /\ (node # Nil => Linked(node, 0))
    BY <2>2, LinkIs DEF Nodes
  <2>4. /\ iter' = [iter EXCEPT ![i] = [op |-> "idle", n |-> n, node |-> node]]
        /\ UNCHANGED <<next, heights, insert>>
    BY <1>7, <2>1, <2>3, Zenon DEF StepForward, Position
  <2> QED BY <2>3, <2>4, RestInv, Zenon
<1>8. ASSUME NEW i \in Iterators, Search(i) PROVE SkipInv'
  BY <1>8, SearchInv
<1>9. CASE UNCHANGED svars
  <2>1. next' = next /\ heights' = heights /\ insert' = insert /\ iter' = iter
    BY <1>9 DEF svars
  <2>2. SkipType'
    BY <2>1 DEF SkipInv, SkipType
  <2>3. Chained' /\ HeightInv'
    <3>1. Chained'
      BY <2>1, Zenon DEF SkipInv, Chained, Linked
    <3>2. HeightInv'
      BY <2>1, Zenon DEF SkipInv, HeightInv
    <3> QED BY <3>1, <3>2, Zenon
  <2>4. InsertInv' /\ IterInv'
    BY <2>1 DEF SkipInv, InsertInv, IterInv, IterOk, Linked
  <2> QED BY <2>2, <2>3, <2>4 DEF SkipInv
<1> QED BY <1>1, <1>2, <1>3, <1>4, <1>5, <1>6, <1>7, <1>8, <1>9 DEF SkipNext

(* The invariant implies what readers rely on. *)
LEMMA SkipInvSound == SkipInv => SkipListSound /\ ReadersOnList
<1> SUFFICES ASSUME SkipInv PROVE SkipListSound /\ ReadersOnList
  OBVIOUS
<1> USE Places
<1>1. ASSUME NEW p \in DOMAIN next
      PROVE  (next[p] # Nil => <<next[p], p[2]>> \in DOMAIN next) /\ p[1] < next[p]
  <2>1. PICK x \in Nodes, l \in Levels : p = <<x, l>>
    BY DEF SkipInv, SkipType
  <2>2. Linked(x, l) /\ p[1] = x /\ p[2] = l
    BY <2>1 DEF Linked
  <2>3. x < next[<<x, l>>] /\ (next[<<x, l>>] # Nil => Linked(next[<<x, l>>], l))
    BY <2>2, LinkIs
  <2> QED BY <2>1, <2>2, <2>3 DEF Linked
<1>2. ASSUME NEW l \in 1 .. kMaxHeight - 1
      PROVE  OnLevel(l) \subseteq OnLevel(l - 1)
  <2>1. PICK m \in Levels : m = l - 1 /\ l \in Levels
    BY DEF Levels
  <2>2. OnLevel(l) = {k \in SKeys : Linked(k, l)} /\ OnLevel(m) = {k \in SKeys : Linked(k, m)}
    BY <2>1, OnLevelIs DEF SkipInv
  <2>3. \A k \in SKeys : Linked(k, l) => Linked(k, m)
    <3> SUFFICES ASSUME NEW k \in SKeys, Linked(k, l) PROVE Linked(k, m)
      OBVIOUS
    <3>1. \A j \in Levels : j < l => Linked(k, j)
      BY <2>1, LinkIs, Zenon
    <3> QED BY <2>1, <3>1
  <2> QED BY <2>1, <2>2, <2>3
<1>3. ASSUME NEW i \in Iterators, iter[i].op # "idle"
      PROVE  <<iter[i].x, iter[i].level>> \in DOMAIN next
  <2>1. IterOk(iter[i]) /\ iter[i] \notin IdleOp
    BY <1>3, Zenon DEF SkipInv, IterInv, IdleOp
  <2> QED BY <2>1 DEF IterOk, Linked
<1> QED BY <1>1, <1>2, <1>3, Zenon DEF SkipListSound, ReadersOnList

(* The end of a search: nothing that was there when it began lies between the
   node it found and the one before it. *)
LEMMA SearchEndsRight ==
    ASSUME SkipInv, NEW i \in Iterators, Search(i), iter'[i].op = "idle"
    PROVE  EndsRight(iter[i], iter'[i].node)
<1>0. PICK op \in {"ge", "lt", "last"}, key \in SKeys \cup {Nil}, x \in Nodes,
           l \in Levels, seen \in SUBSET SKeys, c \in Nat, n \in SKeys \cup {Nil} :
        Turn(i, op, key, x, l, seen, c, n)
  BY SearchIs
<1> USE Places
<1>1. /\ iter[i] = [op |-> op, key |-> key, x |-> x, level |-> l, seen |-> seen, n |-> c]
      /\ Linked(x, l) /\ n = next[<<x, l>>]
      /\ \A k \in seen : Linked(k, 0)
      /\ op # "last" => key \in SKeys /\ x < key
  BY <1>0 DEF Turn
<1>2. iter = [j \in Iterators |-> iter[j]]
  BY Zenon DEF SkipInv, SkipType
<1>3. PICK node \in SKeys \cup {Nil} :
        /\ l = 0 /\ (n = Nil \/ (op # "last" /\ key <= n))
        /\ node = IF op = "ge" THEN n ELSE IF x = head_ THEN Nil ELSE x
        /\ iter'[i].node = node
  <2>1. \A r : iter' = [iter EXCEPT ![i] = r] => iter'[i] = r
    BY <1>2, Zenon
  <2>2. \A y, j : [op |-> op, key |-> key, x |-> y, level |-> j, seen |-> seen, n |-> c].op # "idle"
    BY ONLY op \in {"ge", "lt", "last"}
  <2>3. /\ l = 0 /\ (n = Nil \/ (op # "last" /\ key <= n))
        /\ \E node \in SKeys \cup {Nil} :
             /\ node = IF op = "ge" THEN n ELSE IF x = head_ THEN Nil ELSE x
             /\ iter' = [iter EXCEPT ![i] = [op |-> "idle", n |-> c, node |-> node]]
    <3>1. \A y, j : iter' # [iter EXCEPT ![i] =
                 [op |-> op, key |-> key, x |-> y, level |-> j, seen |-> seen, n |-> c]]
      BY <2>1, <2>2, iter'[i].op = "idle", Zenon
    <3> QED BY <1>0, <3>1, Zenon DEF Turn
  <2>4. \A node : [op |-> "idle", n |-> c, node |-> node].node = node
    BY ONLY TRUE
  <2> QED BY <2>1, <2>3, <2>4, Zenon
<1>4. \A k \in seen : x < k => n <= k
  BY <1>1, <1>3, LinkIs, Zenon DEF Nodes
<1>5. iter[i].op = op /\ iter[i].key = key /\ iter[i].seen = seen
  BY ONLY <1>1
<1>6. CASE op = "ge"
  <2>1. node = n /\ node >= key /\ ~\E k \in seen : key <= k /\ k < node
    <3>1. key \in SKeys /\ x < key /\ node = n
      BY <1>1, <1>3, <1>6
    <3>2. n >= key
      BY <1>3, <3>1
    <3>3. ASSUME NEW k \in seen, key <= k, k < n PROVE FALSE
      <4>1. k \in Nat /\ key \in Nat /\ x \in Nat /\ n \in Nat
        BY <3>1
      <4>2. x < k
        BY <3>1, <3>3, <4>1
      <4> QED BY <1>4, <3>3, <4>1, <4>2
    <3> QED BY <3>1, <3>2, <3>3, Zenon
  <2> QED BY <1>3, <1>5, <1>6, <2>1 DEF EndsRight
<1>7. CASE op = "lt"
  <2>1. IF node = Nil THEN ~\E k \in seen : k < key
        ELSE node < key /\ ~\E k \in seen : node < k /\ k < key
    BY <1>1, <1>3, <1>4, <1>7
  <2> QED BY <1>3, <1>5, <1>7, <2>1, Zenon DEF EndsRight
<1>8. CASE op = "last"
  <2>1. IF node = Nil THEN seen = {} ELSE ~\E k \in seen : k > node
    BY <1>1, <1>3, <1>4, <1>8
  <2> QED BY <1>3, <1>5, <1>8, <2>1, Zenon DEF EndsRight
<1> QED BY <1>6, <1>7, <1>8, Zenon

(* Only a turn of its search takes an iterator out of a search. *)
LEMMA SearchStep ==
    SkipInv /\ SkipNext =>
        \A i \in Iterators : iter[i].op # "idle" /\ iter'[i].op = "idle" =>
            EndsRight(iter[i], iter'[i].node)
<1> SUFFICES ASSUME SkipInv, SkipNext, NEW i \in Iterators,
                    iter[i].op # "idle", iter'[i].op = "idle"
             PROVE  EndsRight(iter[i], iter'[i].node)
  OBVIOUS
<1>1. iter = [j \in Iterators |-> iter[j]]
  BY DEF SkipInv, SkipType
<1>2. ~InsertBegin /\ ~InsertLink
  BY DEF InsertBegin, InsertLink
<1>3. ASSUME NEW j \in Iterators, Seek(j) \/ StepBack(j) \/ SeekToLast(j) PROVE FALSE
  <2>1. iter[j].op = "idle" /\ \E r : iter' = [iter EXCEPT ![j] = r]
    BY <1>3 DEF Seek, StepBack, SeekToLast, Start
  <2> QED BY <1>1, <2>1, Zenon
<1>4. ASSUME NEW j \in Iterators, SeekToFirst(j) \/ StepForward(j) PROVE FALSE
  <2>1. iter[j].op = "idle" /\ \E r : iter' = [iter EXCEPT ![j] = r]
    BY <1>4 DEF SeekToFirst, StepForward, Position
  <2> QED BY <1>1, <2>1
<1>5. ASSUME NEW j \in Iterators, Search(j) PROVE j = i
  BY <1>1, <1>5, Zenon DEF Search, Position
<1>6. Search(i)
  BY <1>2, <1>3, <1>4, <1>5 DEF SkipNext
<1> QED BY <1>6, SearchEndsRight

(* The memtable under one writer and any number of readers that take no lock
   (SkipList::Insert, FindGreaterOrEqual, FindLessThan, FindLast): every level
   stays sorted and complete, and a search ends where it should. *)
THEOREM MemTableAlwaysSound == SkipSpec => MemTableSound
<1>1. SkipInit => SkipInv
  BY SkipInvInit
<1>2. SkipInv /\ [SkipNext]_svars => SkipInv'
  BY SkipInvStep
<1>3. SkipInv => SkipListSound /\ ReadersOnList
  BY SkipInvSound
<1>4. SkipInv /\ [SkipNext]_svars =>
        [\A i \in Iterators : iter[i].op # "idle" /\ iter'[i].op = "idle" =>
            EndsRight(iter[i], iter'[i].node)]_svars
  BY SearchStep
<1> QED BY <1>1, <1>2, <1>3, <1>4, PTL DEF SkipSpec, MemTableSound, SearchMissesNothing
=============================================================================
