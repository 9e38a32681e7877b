---------------------------- MODULE PeerManager ----------------------------
(***************************************************************************)
(* NetworkPeerManager: the tables of known peer addresses.  An entry is in *)
(* one or more "new" buckets or in one "tried" bucket; a map by network    *)
(* address, a randomly ordered vector, reference counts and two counters   *)
(* are kept beside the buckets.  Each public operation holds cs and is one *)
(* step.  Random draws are choices; times other than nLastSuccess only     *)
(* decide between outcomes that the draws allow anyway, and are left out.  *)
(***************************************************************************)
EXTENDS Integers, Sequences, FiniteSets, SequencesExt, FiniteSetsExt, TLC

CONSTANTS
    Address,                            \* CService: [ip, port]
    Source,                             \* where an address is heard of
    GetTriedBucket,                     \* [Address -> buckets of tried]
    GetNewBucket,                       \* [Address \X Source -> new buckets]
    NEW_BUCKET_COUNT, NEW_BUCKET_SIZE, NEW_BUCKETS_PER_ADDRESS,
    TRIED_BUCKET_COUNT, TRIED_BUCKET_SIZE, TRIED_ENTRIES_INSPECT_ON_EVICT,
    GETADDR_MAX_PCT,
    MaxId, MaxTime                      \* bounds of the model

VARIABLES
    nIdCount,
    mapNetworkPeer,     \* id -> entry
    mapAddr,            \* ip -> id
    vRandom,            \* sequence of the ids
    nTried, vvTried,    \* bucket -> sequence of ids
    nNew, vvNew,        \* bucket -> set of ids
    nTime               \* adjusted time

vars == <<nIdCount, mapNetworkPeer, mapAddr, vRandom, nTried, vvTried, nNew, vvNew, nTime>>

NewBuckets == 0..(NEW_BUCKET_COUNT - 1)
TriedBuckets == 0..(TRIED_BUCKET_COUNT - 1)
Empty == [x \in {} |-> x]

(* The tables as a record, for the operations to work on in turn. *)
Tables ==
    [nIdCount |-> nIdCount, peer |-> mapNetworkPeer, addr |-> mapAddr, random |-> vRandom,
     nTried |-> nTried, tried |-> vvTried, nNew |-> nNew, new |-> vvNew]
SetTables(T) ==
    /\ nIdCount' = T.nIdCount /\ mapNetworkPeer' = T.peer /\ mapAddr' = T.addr
    /\ vRandom' = T.random /\ nTried' = T.nTried /\ vvTried' = T.tried
    /\ nNew' = T.nNew /\ vvNew' = T.new

NewEntry(a, src, nRandomPos) ==
    [addr |-> a, source |-> src, nLastSuccess |-> 0, nRefCount |-> 0,
     fInTried |-> FALSE, nRandomPos |-> nRandomPos]

-----------------------------------------------------------------------------
Create(T, a, src) ==
    [T EXCEPT !.nIdCount = @ + 1,
              !.peer = (T.nIdCount :> NewEntry(a, src, Len(T.random) + 1)) @@ @,
              !.addr = (a.ip :> T.nIdCount) @@ @,
              !.random = Append(@, T.nIdCount),
              !.nNew = @ + 1]

(* The variant does not tell the entries where they are. *)
SwapRandomOnly(T, p, q) ==
    [T EXCEPT !.random = [@ EXCEPT ![p] = T.random[q], ![q] = T.random[p]]]
SwapRandom(T, p, q) ==
    [T EXCEPT !.peer = [@ EXCEPT ![T.random[p]].nRandomPos = q, ![T.random[q]].nRandomPos = p],
              !.random = [@ EXCEPT ![p] = T.random[q], ![q] = T.random[p]]]

Delete(T0, id) ==
    LET T == SwapRandom(T0, T0.peer[id].nRandomPos, Len(T0.random))
    IN  [T EXCEPT !.random = Front(@),
                  !.addr = Restrict(@, DOMAIN @ \ {T.peer[id].addr.ip}),
                  !.peer = Restrict(@, DOMAIN @ \ {id}),
                  !.nNew = @ - 1]

(* ShrinkNew takes a terrible entry, or the oldest of four draws: any      *)
(* entry of the bucket may be the one.                                     *)
ShrinkNew(T0, b, id) ==
    LET T == [T0 EXCEPT !.peer[id].nRefCount = @ - 1, !.new[b] = @ \ {id}]
    IN  IF T.peer[id].nRefCount = 0 THEN Delete(T, id) ELSE T

(* A bucket that is full loses an entry first; the variant lets it grow.   *)
FullLate(T, b) == Cardinality(T.new[b]) = NEW_BUCKET_SIZE + 1
Full(T, b) == Cardinality(T.new[b]) = NEW_BUCKET_SIZE
(* Add_ from where the entry is known. *)
Place(T0, id, b) ==
    LET T == [T0 EXCEPT !.peer[id].nRefCount = @ + 1]
        Insert(U) == [U EXCEPT !.new[b] = @ \cup {id}]
    IN  IF id \in T0.new[b] THEN {T0}
        ELSE IF Full(T, b) THEN {Insert(ShrinkNew(T, b, x)) : x \in T.new[b]}
        ELSE {Insert(T)}

AddNew(a, src) ==
    /\ a.ip \notin DOMAIN mapAddr
    /\ nIdCount < MaxId
    /\ \E T \in Place(Create(Tables, a, src), nIdCount, GetNewBucket[a, src]) : SetTables(T)
    /\ UNCHANGED nTime

(* An entry that is known is placed into another bucket, if it is not in   *)
(* tried and not yet in too many, if there is news and a draw says so.     *)
AddKnown(a, src) ==
    /\ a.ip \in DOMAIN mapAddr
    /\ LET id == mapAddr[a.ip]
       IN  /\ ~mapNetworkPeer[id].fInTried
           /\ mapNetworkPeer[id].nRefCount # NEW_BUCKETS_PER_ADDRESS
           /\ \E T \in Place(Tables, id, GetNewBucket[mapNetworkPeer[id].addr, src]) : SetTables(T)
    /\ UNCHANGED nTime

-----------------------------------------------------------------------------
(* SelectTried: the outcomes [v, id, pos] of shuffling the first entries   *)
(* of a bucket and taking the least recently successful of them.  pos is   *)
(* where that entry was before it was swapped to the front.                *)
Swap(v, i, j) == [v EXCEPT ![i] = v[j], ![j] = v[i]]
InspectAt(s, i) ==
    {LET id == s.v[p]
         fOlder == s.id = -1 \/ mapNetworkPeer[id].nLastSuccess < mapNetworkPeer[s.id].nLastSuccess
     IN  [v |-> Swap(s.v, i, p), id |-> IF fOlder THEN id ELSE s.id, pos |-> IF fOlder THEN p ELSE s.pos]
     : p \in i..Len(s.v)}
SelectTried(v) ==
    FoldLeft(LAMBDA S, i : UNION {InspectAt(s, i) : s \in S},
             {[v |-> v, id |-> -1, pos |-> -1]},
             [i \in 1..Min({TRIED_ENTRIES_INSPECT_ON_EVICT, Len(v)}) |-> i])

(* MakeTried(id, origin): out of all new buckets, into the tried bucket;   *)
(* if that is full, in the place of an entry that returns to a new bucket. *)
(* The variant leaves the entry in its other new buckets.                  *)
OutOfOrigin(T, id, origin) ==
    [T EXCEPT !.new = [@ EXCEPT ![origin] = @ \ {id}], !.peer[id].nRefCount = 0, !.nNew = @ - 1]
OutOfNew(T, id, origin) ==
    [T EXCEPT !.new = [b \in NewBuckets |-> @[b] \ {id}],
              !.peer[id].nRefCount = @ - Cardinality({b \in NewBuckets : id \in T.new[b]}),
              !.nNew = @ - 1]
ReturnTo(T, old, origin) ==
    LET own == GetNewBucket[T.peer[old].addr, T.peer[old].source]
    IN  IF Cardinality(T.new[own]) < NEW_BUCKET_SIZE THEN own ELSE origin
Evict(T, id, origin, k, s) ==
    LET old == s.v[s.pos]
    IN  [T EXCEPT !.peer = [@ EXCEPT ![old].fInTried = FALSE, ![old].nRefCount = 1,
                                     ![id].fInTried = TRUE],
                  !.new[ReturnTo(T, old, origin)] = @ \cup {old},
                  !.nNew = @ + 1,
                  !.tried[k] = [s.v EXCEPT ![s.pos] = id]]
MakeTried(T0, id, origin) ==
    LET T == OutOfNew(T0, id, origin)
        k == GetTriedBucket[T.peer[id].addr]
    IN  IF Len(T.tried[k]) < TRIED_BUCKET_SIZE
        THEN {[T EXCEPT !.tried[k] = Append(@, id), !.nTried = @ + 1, !.peer[id].fInTried = TRUE]}
        ELSE {Evict(T, id, origin, k, s) : s \in SelectTried(T.tried[k])}

Stamped(id) == [Tables EXCEPT !.peer[id].nLastSuccess = nTime']
IsKnown(a) == a.ip \in DOMAIN mapAddr /\ mapNetworkPeer[mapAddr[a.ip]].addr = a

(* Good_. *)
Good(a) ==
    /\ IsKnown(a)
    /\ nTime' \in {t \in {nTime, nTime + 1} : t <= MaxTime}
    /\ LET id == mapAddr[a.ip]
           origins == {b \in NewBuckets : id \in vvNew[b]}
       IN  IF mapNetworkPeer[id].fInTried \/ origins = {} THEN SetTables(Stamped(id))
           ELSE \E b \in origins : \E T \in MakeTried(Stamped(id), id, b) : SetTables(T)

(* GetAddr_ shuffles the first part of vRandom. *)
GetAddr ==
    LET nNodes == (GETADDR_MAX_PCT * Len(vRandom)) \div 100
        Draw(S, n) == UNION {{SwapRandom(T, n, p) : p \in n..Len(T.random)} : T \in S}
    IN  /\ \E T \in FoldLeft(Draw, {Tables}, [n \in 1..nNodes |-> n]) : SetTables(T)
        /\ UNCHANGED nTime

-----------------------------------------------------------------------------
(* Writing peers.dat and reading it again.  nNew new and nTried tried      *)
(* entries are written in the order of their ids, and numbered so when     *)
(* they are read; tried buckets, counts and vRandom are made anew.  (An    *)
(* entry whose tried bucket is full is lost; BucketsBounded rules it out.) *)
FirstOf(S, n) == LET ids == SetToSortSeq(S, <) IN SubSeq(ids, 1, Min({n, Len(ids)}))
SavedNew == FirstOf({id \in DOMAIN mapNetworkPeer : mapNetworkPeer[id].nRefCount # 0}, nNew)
SavedTried == FirstOf({id \in DOMAIN mapNetworkPeer : mapNetworkPeer[id].fInTried}, nTried)

(* The new buckets, as written (peers.dat comes from a build with the same *)
(* number of buckets).  The variant numbers the entries of a bucket from 1. *)
ReadBucketsFromOne(news) ==
    [b \in NewBuckets |-> {i \in DOMAIN news : news[i] \in vvNew[b]}]
ReadBuckets(news) ==
    [b \in NewBuckets |-> {i - 1 : i \in {i \in DOMAIN news : news[i] \in vvNew[b]}}]

(* The variant reads the tried entries without marking them.               *)
ReadUnmarked(i, news) == FALSE
ReadInTried(i, news) == i > Len(news)
ReadTables ==
    LET news == SavedNew
        buckets == ReadBuckets(news)
        saved == news \o SavedTried
        entry == [i \in DOMAIN saved |-> mapNetworkPeer[saved[i]]]
        n == Len(saved)
        nNewRead == Len(news)
    IN  [nIdCount |-> n,
         peer |-> [id \in 0..(n - 1) |->
                     [entry[id + 1] EXCEPT
                         !.nRefCount = Cardinality({b \in NewBuckets : id \in buckets[b]}),
                         !.fInTried = ReadInTried(id + 1, news),
                         !.nRandomPos = id + 1]],
         addr |-> [ip \in {entry[i].addr.ip : i \in 1..n} |->
                     (CHOOSE i \in 1..n : entry[i].addr.ip = ip) - 1],
         random |-> [i \in 1..n |-> i - 1],
         nTried |-> n - nNewRead,
         tried |-> [k \in TriedBuckets |->
                      SelectSeq([i \in 1..(n - nNewRead) |-> nNewRead + i - 1],
                                LAMBDA id : GetTriedBucket[entry[id + 1].addr] = k)],
         nNew |-> nNew, new |-> buckets]

Restart ==
    /\ \E T \in {ReadTables} : SetTables(T)
    /\ UNCHANGED nTime

Init ==
    /\ nIdCount = 0 /\ mapNetworkPeer = Empty /\ mapAddr = Empty /\ vRandom = <<>>
    /\ nTried = 0 /\ vvTried = [k \in TriedBuckets |-> <<>>]
    /\ nNew = 0 /\ vvNew = [b \in NewBuckets |-> {}]
    /\ nTime = 1

Next ==
    \/ \E a \in Address, src \in Source : AddNew(a, src) \/ AddKnown(a, src)
    \/ \E a \in Address : Good(a)
    \/ GetAddr
    \/ Restart

Spec == Init /\ [][Next]_vars

-----------------------------------------------------------------------------
Ids == DOMAIN mapNetworkPeer
BucketsOf(id) == {b \in NewBuckets : id \in vvNew[b]}
TriedIds == UNION {Range(vvTried[k]) : k \in TriedBuckets}

(* Ids, entries, buckets and counters. *)
TypeOK ==
    /\ nIdCount \in 0..MaxId /\ Ids \subseteq 0..(nIdCount - 1)
    /\ \A id \in Ids : /\ mapNetworkPeer[id].addr \in Address
                        /\ mapNetworkPeer[id].nRefCount \in 0..NEW_BUCKETS_PER_ADDRESS
    /\ UNION Range(vvNew) \cup TriedIds \subseteq Ids
    /\ nTried \in Nat /\ nNew \in Nat

(* mapAddr and vRandom are exact indexes of the entries, and nRandomPos is *)
(* the inverse of vRandom: what the asserts of SwapRandom, GetAddr_ and    *)
(* Select_ need, after any deletions and shuffles.                         *)
IndexesExact ==
    /\ TypeOK
    /\ Range(mapAddr) = Ids
    /\ \A ip \in DOMAIN mapAddr : mapNetworkPeer[mapAddr[ip]].addr.ip = ip
    /\ Range(vRandom) = Ids /\ Len(vRandom) = Cardinality(Ids)
    /\ \A id \in Ids : /\ mapNetworkPeer[id].nRandomPos \in DOMAIN vRandom
                        /\ vRandom[mapNetworkPeer[id].nRandomPos] = id

(* An entry is in tried, in the one bucket of its address, or in at least  *)
(* one and at most NEW_BUCKETS_PER_ADDRESS new buckets, as many as its     *)
(* nRefCount; nNew and nTried count the two.  Without this Select_ would   *)
(* search an empty table for ever and Good_ would find no bucket.          *)
CountsExact ==
    /\ \A id \in Ids :
          LET e == mapNetworkPeer[id]
          IN  /\ e.nRefCount = Cardinality(BucketsOf(id))
              /\ e.fInTried <=> e.nRefCount = 0
              /\ e.fInTried <=> id \in TriedIds
    /\ \A k \in TriedBuckets :
          /\ IsInjective(vvTried[k])
          /\ \A id \in Range(vvTried[k]) : GetTriedBucket[mapNetworkPeer[id].addr] = k
    /\ nTried = Cardinality(TriedIds)
    /\ nNew = Cardinality(Ids \ TriedIds)

(* No bucket holds more than its size ("there is certainly place there"    *)
(* when MakeTried returns an evicted entry).                               *)
BucketsBounded ==
    /\ \A b \in NewBuckets : Cardinality(vvNew[b]) <= NEW_BUCKET_SIZE
    /\ \A k \in TriedBuckets : Len(vvTried[k]) <= TRIED_BUCKET_SIZE

(* An entry of the tried table is never deleted, only evicted to the new   *)
(* table (the comment on ShrinkNew).                                       *)
IsTried(a) == IsKnown(a) /\ mapAddr[a.ip] \in TriedIds
TriedNotDeleted == [][\A a \in Address : IsTried(a) => IsKnown(a)']_vars

(* Writing peers.dat and reading it again keeps every entry, and the       *)
(* buckets it is in, although ids, tried buckets and counts are rebuilt.   *)
Where(T, a) ==
    IF a.ip \notin DOMAIN T.addr \/ T.peer[T.addr[a.ip]].addr # a THEN <<>>
    ELSE <<T.peer[T.addr[a.ip]].fInTried, {b \in NewBuckets : T.addr[a.ip] \in T.new[b]}>>
RestartKeepsTables ==
    \E T \in {ReadTables} : \A a \in Address : Where(T, a) = Where(Tables, a)

(* "find the least recently tried among them": when the whole bucket is    *)
(* inspected, the entry that MakeTried evicts has the oldest nLastSuccess. *)
EvictsOldest ==
    \A k \in TriedBuckets :
        Len(vvTried[k]) \in 1..TRIED_ENTRIES_INSPECT_ON_EVICT =>
            \A s \in SelectTried(vvTried[k]) : \A id \in Range(vvTried[k]) :
                mapNetworkPeer[s.v[s.pos]].nLastSuccess <= mapNetworkPeer[id].nLastSuccess
=============================================================================
