------------------------------ MODULE LRUCache ------------------------------
(***************************************************************************)
(* A shard of the LRU cache (util/cache.cc) under the table cache          *)
(* (db/table_cache.cc), which keeps the open table files.  A handle is a    *)
(* number; table_ is the hash table with its chains; every operation holds  *)
(* the shard's mutex.  A thread that does not find its table lets go of the *)
(* mutex while it opens the file, so two may open and insert the same one.  *)
(* The low bits of a key's hash are the key itself.                         *)
(***************************************************************************)
EXTENDS Integers, Sequences, FiniteSets, SequencesExt

CONSTANTS CKeys,         \* the keys (file numbers)
          Threads,
          capacity_,
          MinLength,     \* the buckets of a new hash table (4 in the code)
          MaxHandles     \* bound: handles ever created

VARIABLES
    handles,    \* handle -> [key, refs]; a freed handle is not in the domain
    lru,        \* the list at lru_, the oldest first
    buckets,    \* list_: a chain of handles for each bucket
    usage,      \* usage_
    made,       \* handles created so far
    client      \* thread -> what it is doing

cvars == <<handles, lru, buckets, usage, made, client>>

CIdle == [at |-> "idle"]

CacheInit ==
    /\ handles = <<>> /\ lru = <<>> /\ usage = 0 /\ made = 0
    /\ buckets = [b \in 0 .. MinLength - 1 |-> <<>>]
    /\ client = [t \in Threads |-> CIdle]

\* FindPointer: the place of the key in its chain, or 0 at the end.
Bucket(bs, k) == k % Cardinality(DOMAIN bs)
Place(bs, hs, k) ==
    LET chain == bs[Bucket(bs, k)]
    IN  SelectInSeq(chain, LAMBDA h : hs[h].key = k)

\* HandleTable::Lookup, 0 for NULL.
TableLookup(bs, hs, k) ==
    LET p == Place(bs, hs, k) IN IF p = 0 THEN 0 ELSE bs[Bucket(bs, k)][p]

Elems(bs) == UNION {ToSet(bs[b]) : b \in DOMAIN bs}

\* Resize: every chain is walked and each handle put at the front of its new
\* chain.
Resize(bs, hs, n) ==
    LET walk == FlattenSeq([i \in 1 .. Cardinality(DOMAIN bs) |-> bs[i - 1]])
    IN  [b \in 0 .. n - 1 |-> Reverse(SelectSeq(walk, LAMBDA h : hs[h].key % n = b))]

\* HandleTable::Insert: the handle takes the place of one with the same key, or
\* goes to the end of the chain; the table grows beyond one handle per bucket.
TableInsert(bs, hs, h) ==
    LET k == hs[h].key
        b == Bucket(bs, k)
        p == Place(bs, hs, k)
        put == [bs EXCEPT ![b] = IF p = 0 THEN Append(@, h) ELSE [@ EXCEPT ![p] = h]]
        n == Cardinality(DOMAIN bs)
    IN  IF p = 0 /\ Cardinality(Elems(put)) > n THEN Resize(put, hs, 2 * n) ELSE put

\* HandleTable::Remove.
TableRemove(bs, hs, k) ==
    LET p == Place(bs, hs, k)
    IN  IF p = 0 THEN bs ELSE [bs EXCEPT ![Bucket(bs, k)] = RemoveAt(@, p)]

\* LRU_Remove, and LRU_Append which makes a handle the newest.
LRU_Remove(l, h) == SelectSeq(l, LAMBDA g : g # h)
LRU_Append(l, h) == Append(l, h)

(* The variant does not give the charge back. *)
UnrefCharged(s, h) ==
    IF s.handles[h].refs > 1 THEN [s EXCEPT !.handles[h].refs = @ - 1]
    ELSE [s EXCEPT !.handles = [g \in DOMAIN @ \ {h} |-> @[g]]]

\* Unref: the last reference frees the handle and gives its charge back.
Unref(s, h) ==
    IF s.handles[h].refs > 1
    THEN [s EXCEPT !.handles[h].refs = @ - 1]
    ELSE [s EXCEPT !.handles = [g \in DOMAIN @ \ {h} |-> @[g]],
                   !.usage = @ - 1]

\* One turn of the eviction loop of Insert: the oldest entry leaves the list
\* and the table, whether somebody uses it or not.
EvictOldest(s) ==
    LET old == s.lru[1]
    IN  Unref([s EXCEPT !.lru = LRU_Remove(@, old),
                        !.buckets = TableRemove(@, s.handles, s.handles[old].key)], old)

RECURSIVE Shrink(_)
Shrink(s) == IF s.usage > capacity_ /\ s.lru # <<>> THEN Shrink(EvictOldest(s)) ELSE s

State == [handles |-> handles, lru |-> lru, buckets |-> buckets, usage |-> usage]

Commit(s) == /\ handles' = s.handles /\ lru' = s.lru
             /\ buckets' = s.buckets /\ usage' = s.usage

\* LRUCache::Insert: two references, one of the cache and one of the caller.
Insert(s, h, k) ==
    LET hs == [g \in DOMAIN s.handles \cup {h} |->
                  IF g = h THEN [key |-> k, refs |-> 2] ELSE s.handles[g]]
        old == TableLookup(s.buckets, s.handles, k)
        in == [handles |-> hs, lru |-> LRU_Append(s.lru, h), usage |-> s.usage + 1,
               buckets |-> TableInsert(s.buckets, hs, h)]
    IN  Shrink(IF old = 0 THEN in
               ELSE Unref([in EXCEPT !.lru = LRU_Remove(@, old)], old))

\* FindTable: LRUCache::Lookup takes a reference and makes the entry the newest;
\* without an entry the mutex is free while the file is opened.
FindTable(t, k) ==
    /\ client[t] = CIdle
    /\ LET h == TableLookup(buckets, handles, k) IN
       IF h # 0
       THEN /\ handles' = [handles EXCEPT ![h].refs = @ + 1]
            /\ lru' = LRU_Append(LRU_Remove(lru, h), h)
            /\ client' = [client EXCEPT ![t] = [at |-> "using", h |-> h, key |-> k]]
       ELSE /\ client' = [client EXCEPT ![t] = [at |-> "opening", key |-> k]]
            /\ UNCHANGED <<handles, lru>>
    /\ UNCHANGED <<buckets, usage, made>>

\* The file could not be opened: errors are not cached.
OpenFails(t) ==
    /\ client[t].at = "opening"
    /\ client' = [client EXCEPT ![t] = CIdle]
    /\ UNCHANGED <<handles, lru, buckets, usage, made>>

\* The file is open and enters the cache.
OpenDone(t) ==
    /\ client[t].at = "opening" /\ made < MaxHandles
    /\ made' = made + 1
    /\ Commit(Insert(State, made + 1, client[t].key))
    /\ client' = [client EXCEPT ![t] = [at |-> "using", h |-> made + 1, key |-> @.key]]

\* Get ends, or the cleanup of an iterator runs (UnrefEntry): Release.
Release(t) ==
    /\ client[t].at = "using"
    /\ Commit(Unref(State, client[t].h))
    /\ client' = [client EXCEPT ![t] = CIdle]
    /\ UNCHANGED made

\* TableCache::Evict, when the table file is removed: LRUCache::Erase.
Evict(k) ==
    LET h == TableLookup(buckets, handles, k) IN
    /\ h # 0
    /\ Commit(Unref([State EXCEPT !.buckets = TableRemove(@, handles, k),
                                  !.lru = LRU_Remove(@, h)], h))
    /\ UNCHANGED <<made, client>>

CacheNext ==
    \/ \E t \in Threads : \/ \E k \in CKeys : FindTable(t, k)
                          \/ OpenFails(t) \/ OpenDone(t) \/ Release(t)
    \/ \E k \in CKeys : Evict(k)

CacheSpec == CacheInit /\ [][CacheNext]_cvars

----------------------------------------------------------------------------
(* Properties                                                              *)

\* The entry a thread uses stays open until it is released, the entries counted
\* in usage_ are those that exist, an entry exists exactly as long as the cache
\* or a thread refers to it, and the list and the hash table hold the same
\* entries, one for each key: no file stays open for good and none is closed
\* under a reader.
CacheAccounts ==
    LET users(h) == {t \in Threads : client[t].at = "using" /\ client[t].h = h}
    IN  /\ usage = Cardinality(DOMAIN handles)
        /\ \A t \in Threads : client[t].at = "using" =>
              /\ client[t].h \in DOMAIN handles
              /\ handles[client[t].h].key = client[t].key
        /\ \A h \in DOMAIN handles :
              /\ handles[h].refs = Cardinality(users(h)) + (IF h \in ToSet(lru) THEN 1 ELSE 0)
              /\ handles[h].refs > 0
        /\ ToSet(lru) = Elems(buckets) /\ IsInjective(lru)
        /\ \A h \in ToSet(lru) : TableLookup(buckets, handles, handles[h].key) = h
        /\ usage > capacity_ => lru = <<>>

=============================================================================
