----------------------------- MODULE FilterPeer -----------------------------
(***************************************************************************)
(* The filters that lightweight peers load (bloom.cpp), the messages that  *)
(* change them (filterload, filteradd, filterclear of main.cpp), and the   *)
(* filtered blocks made with them (CMerkleBlock).                          *)
(*                                                                         *)
(* A filter is [size, bits, isFull, isEmpty, nHashFuncs, nFlags], bits the *)
(* set of its bits that are set.  What is looked up in it is a number: a   *)
(* data element of a script, a transaction's hash, or an outpoint.         *)
(* A transaction is [id, vin, vout]: vin the numbers of the outpoints it   *)
(* spends and the data of its scripts, vout the data and the type of each  *)
(* output.                                                                 *)
(***************************************************************************)
EXTENDS Merkle, Functions

CONSTANTS MaxFilterSize, MaxHashFuncs     \* MAX_BLOOM_FILTER_SIZE in bytes, MAX_HASH_FUNCS

\* MurmurHash3 (hash.cpp); any function of the number of the hash and of the data will do.
Murmur(i, data) == (data + 3) * (2 * i + 5) + i

Bit(f, i, data) == Murmur(i, data) % (8 * f.size)

BitsFor(f, data) == {Bit(f, i, data) : i \in 0 .. f.nHashFuncs - 1}

insert(f, data) ==
    IF f.isFull THEN f ELSE [f EXCEPT !.bits = @ \cup BitsFor(f, data), !.isEmpty = FALSE]

contains(f, data) == f.isFull \/ (~f.isEmpty /\ BitsFor(f, data) \subseteq f.bits)

IsWithinSizeConstraints(f) == f.size <= MaxFilterSize /\ f.nHashFuncs <= MaxHashFuncs

UpdateEmptyFull(f) ==
    [f EXCEPT !.isFull = f.bits = 0 .. 8 * f.size - 1, !.isEmpty = f.bits = {}]

-----------------------------------------------------------------------------

\* The outpoint <<id, i>> as a number to look up.
Outpoint(id, i) == 50 + 10 * id + i

IdData(id) == 30 + id

\* Whether the update flags ask for the outpoint of an output that matched.
Inserts(f, out) ==
    \/ f.nFlags = "all"
    \/ f.nFlags = "p2pubkey" /\ out.type \in {"pubkey", "multisig"}

\* The outputs one by one: the filter grows while it is being used.

MatchOutputs(f, tx) ==
    FoldLeftDomain(LAMBDA s, i :
        LET out == tx.vout[i]
            hit == \E d \in out.data : contains(s.filter, d)
        IN  IF ~hit THEN s
            ELSE [found |-> TRUE,
                  filter |-> IF Inserts(s.filter, out) THEN insert(s.filter, Outpoint(tx.id, i - 1))
                             ELSE s.filter],
        [found |-> contains(f, IdData(tx.id)), filter |-> f], tx.vout)

IsRelevantAndUpdate(f, tx) ==
    IF f.isFull \/ f.isEmpty THEN [found |-> f.isFull, filter |-> f]
    ELSE LET s == MatchOutputs(f, tx)
         IN  [s EXCEPT !.found = @ \/ \E in \in ToSet(tx.vin) :
                                          \/ contains(s.filter, in.prevout)
                                          \/ \E d \in in.data : contains(s.filter, d)]

\* CMerkleBlock: the transactions in order, then the partial tree of the matches.
MerkleBlock(vtx, f) ==
    LET s == FoldLeft(LAMBDA a, tx :
                 LET r == IsRelevantAndUpdate(a.filter, tx)
                 IN  [filter |-> r.filter, vMatch |-> Append(a.vMatch, r.found)],
                 [filter |-> f, vMatch |-> <<>>], vtx)
        txids == [i \in DOMAIN vtx |-> TxHash(vtx[i].id)]
    IN  [root |-> MerkleRoot(txids), txn |-> PartialMerkleTree(txids, s.vMatch), filter |-> s.filter]

-----------------------------------------------------------------------------
(* A node and a lightweight peer that has loaded a filter: RelayTransaction*)
(* (net.cpp), ProcessGetData and the messages filterload, filteradd,       *)
(* filterclear and mempool (main.cpp).  The peer itself is not code of     *)
(* this program: it asks for everything that is announced to it, and its   *)
(* messages are Asks.                                                      *)
(*                                                                         *)
(* Body gives what each transaction spends and pays; Mine are the keys of  *)
(* the peer.  relay is mapRelay, old the part of it that is fifteen        *)
(* minutes old: Age happens only when nothing waits or is on its way.      *)

CONSTANTS Body,               \* the transactions
          Mine,               \* data elements the peer looks for
          FilterBytes, FilterHashes, UpdateFlag,
          MaxConnected, MaxAsks      \* bounds on the blocks and the peer's own messages

VARIABLES pool, relay, old, chain, fpeer, out, in, client

fvars == <<pool, relay, old, chain, fpeer, out, in, client>>

FilterTxIds == DOMAIN Body

EmptyFilter == [size |-> FilterBytes, bits |-> {}, isFull |-> FALSE, isEmpty |-> FALSE,
                nHashFuncs |-> FilterHashes, nFlags |-> UpdateFlag]

\* CBloomFilter(): everything matches.
FullFilter == [EmptyFilter EXCEPT !.isFull = TRUE]

NewFilterPeer == [filter |-> FullFilter, fRelayTxes |-> FALSE, known |-> {}, toSend |-> {}]

PeerInit ==
    /\ pool = {} /\ relay = {} /\ old = {}
    /\ chain = <<>>
    /\ fpeer = NewFilterPeer
    /\ out = <<>> /\ in = <<>>
    /\ client = [has |-> {}, blocks |-> {}, asks |-> 0]

Confirmed == UNION {ToSet(chain[b]) : b \in DOMAIN chain}

\* The transactions whose outputs a transaction spends.
SpentBy(t) == {i \in FilterTxIds : \E k \in DOMAIN Body[t].vin, n \in 0 .. Len(Body[i].vout) - 1 :
                               Body[t].vin[k].prevout = Outpoint(i, n)}

-----------------------------------------------------------------------------

\* RelayTransaction: old entries are dropped, and the peers that want it are told.
RelayTransaction(t) ==
    LET r == IsRelevantAndUpdate(fpeer.filter, Body[t]) IN
    /\ relay' = (relay \ old) \cup {t}
    /\ old' = {}
    /\ fpeer' = IF ~fpeer.fRelayTxes THEN fpeer
               ELSE [fpeer EXCEPT !.filter = r.filter,
                                 !.toSend = IF r.found /\ t \notin fpeer.known THEN @ \cup {t} ELSE @]

\* A transaction accepted from another peer.
AcceptTx(t) ==
    /\ t \notin pool \cup Confirmed /\ SpentBy(t) \subseteq pool \cup Confirmed
    /\ pool' = pool \cup {t}
    /\ RelayTransaction(t)
    /\ UNCHANGED <<chain, out, in, client>>

\* SendMessages: some of the queue is held back (trickle).
Announce ==
    /\ \E now \in SUBSET fpeer.toSend :
          /\ now # {}
          /\ fpeer' = [fpeer EXCEPT !.toSend = @ \ now, !.known = @ \cup now]
          /\ out' = IF now \subseteq fpeer.known THEN out
                    ELSE Append(out, [type |-> "inv", ids |-> now \ fpeer.known])
    /\ UNCHANGED <<pool, relay, old, chain, in, client>>

\* A block is connected: its transactions leave the pool, and it is announced.
ConnectBlock(ids) ==
    /\ Len(chain) < MaxConnected /\ ids # {} /\ ids \cap Confirmed = {}
    /\ \A t \in ids : SpentBy(t) \subseteq ids \cup Confirmed
    /\ chain' = Append(chain, SetToSortSeq(ids, <))
    /\ pool' = pool \ ids
    /\ out' = Append(out, [type |-> "block", no |-> Len(chain) + 1])
    /\ UNCHANGED <<relay, old, fpeer, in, client>>

Age ==
    /\ out = <<>> /\ in = <<>> /\ fpeer.toSend = {} /\ relay # old
    /\ old' = relay
    /\ UNCHANGED <<pool, relay, chain, fpeer, out, in, client>>

-----------------------------------------------------------------------------
(* The peer's messages.                                                    *)

OnFilterLoad(m) ==
    IF IsWithinSizeConstraints(m.filter)
    THEN [fpeer EXCEPT !.filter = UpdateEmptyFull(m.filter), !.fRelayTxes = TRUE]
    ELSE [fpeer EXCEPT !.fRelayTxes = TRUE]

OnFilterAdd(m) == [fpeer EXCEPT !.filter = insert(@, m.data)]

OnFilterClear == [fpeer EXCEPT !.filter = FullFilter, !.fRelayTxes = TRUE]

\* mempool: in the order of the hashes, which is not the order of the spends.
OnMempool(order) ==
    LET s == FoldLeft(LAMBDA a, t :
                 LET r == IsRelevantAndUpdate(a.filter, Body[t])
                 IN  [filter |-> r.filter, ids |-> IF r.found THEN a.ids \cup {t} ELSE a.ids],
                 [filter |-> fpeer.filter, ids |-> {}], order)
    IN  [fpeer |-> [fpeer EXCEPT !.filter = s.filter],
         out |-> IF s.ids = {} THEN <<>> ELSE <<[type |-> "inv", ids |-> s.ids]>>]

\* getdata of a filtered block: the proof, and the matched transactions not announced.
OnGetBlock(b) ==
    LET vtx == [i \in DOMAIN chain[b] |-> Body[chain[b][i]]]
        mb == MerkleBlock(vtx, fpeer.filter)
        matched == SelectSeq(chain[b], LAMBDA t : Contains(ExtractMatches(mb.txn).match, TxHash(t)))
        sent == SelectSeq(matched, LAMBDA t : t \notin fpeer.known)
    IN  [fpeer |-> [fpeer EXCEPT !.filter = mb.filter],
         out |-> <<[type |-> "merkleblock", no |-> b, txn |-> mb.txn]>>
                     \o [i \in DOMAIN sent |-> [type |-> "tx", id |-> sent[i]]]]

(* The variant looks in the pool only. *)
OnGetTxPool(t) ==
    [fpeer |-> fpeer,
     out |-> IF t \in pool THEN <<[type |-> "tx", id |-> t]>> ELSE <<[type |-> "notfound", id |-> t]>>]

\* getdata of a transaction: from mapRelay, from the pool, or notfound.
OnGetTx(t) ==
    [fpeer |-> fpeer,
     out |-> IF t \in relay \cup pool THEN <<[type |-> "tx", id |-> t]>>
             ELSE <<[type |-> "notfound", id |-> t]>>]

Quiet(p) == [fpeer |-> p, out |-> <<>>]

Answers(m) ==
    CASE m.type = "filterload" -> {Quiet(OnFilterLoad(m))}
      [] m.type = "filteradd" -> {Quiet(OnFilterAdd(m))}
      [] m.type = "filterclear" -> {Quiet(OnFilterClear)}
      [] m.type = "mempool" -> {OnMempool(order) : order \in SetToSeqs(pool)}
      [] m.type = "getblock" -> {OnGetBlock(m.no)}
      [] m.type = "gettx" -> {OnGetTx(m.id)}

ProcessFilterMessage ==
    /\ in # <<>>
    /\ \E a \in Answers(Head(in)) : fpeer' = a.fpeer /\ out' = out \o a.out
    /\ in' = Tail(in)
    /\ UNCHANGED <<pool, relay, old, chain, client>>

-----------------------------------------------------------------------------
(* The peer, external to this program.                                     *)

\* The filter the peer makes: its keys, and the outputs it knows to be its own.
OwnFilter ==
    LET outputs == {Outpoint(o[1], o[2]) : o \in {o \in client.has \X (0 .. 3) :
                        o[2] < Len(Body[o[1]].vout) /\ Body[o[1]].vout[o[2] + 1].data \cap Mine # {}}}
    IN  FoldSet(LAMBDA d, f : insert(f, d), EmptyFilter, Mine \cup outputs)

\* What it says of its own accord: first its filter, then at times the others.
Asks(m) ==
    /\ out = <<>> /\ in = <<>>
    /\ m.type # "filterload" => client.asks > 0
    /\ client.asks < MaxAsks
    /\ in' = <<m>>
    /\ client' = [client EXCEPT !.asks = @ + 1]
    /\ UNCHANGED <<pool, relay, old, chain, fpeer, out>>

Requests == {[type |-> "mempool"], [type |-> "filterclear"],
             [type |-> "filterload", filter |-> OwnFilter]}
                 \cup {[type |-> "filteradd", data |-> d] : d \in Mine}

Receive ==
    /\ out # <<>>
    /\ LET m == Head(out) IN
       /\ in' = CASE m.type = "inv" ->
                       in \o SetToSeq({[type |-> "gettx", id |-> t] : t \in m.ids \ client.has})
                  [] m.type = "block" -> Append(in, [type |-> "getblock", no |-> m.no])
                  [] OTHER -> in
       /\ client' = CASE m.type = "tx" -> [client EXCEPT !.has = @ \cup {m.id}]
                      [] m.type = "merkleblock" ->
                            [client EXCEPT !.blocks = @ \cup {<<m.no, ExtractMatches(m.txn).root>>}]
                      [] OTHER -> client
    /\ out' = Tail(out)
    /\ UNCHANGED <<pool, relay, old, chain, fpeer>>

PeerNext ==
    \/ \E t \in FilterTxIds : AcceptTx(t)
    \/ Announce
    \/ \E ids \in SUBSET FilterTxIds : ConnectBlock(ids)
    \/ Age
    \/ ProcessFilterMessage
    \/ \E m \in Requests : Asks(m)
    \/ Receive

PeerSpec == PeerInit /\ [][PeerNext]_fvars

-----------------------------------------------------------------------------

\* The transactions that are the peer's own: they pay one of its keys, or they
\* spend an output that does.
Pays(t, n) == Body[t].vout[n].data \cap Mine # {}

Relevant(t) ==
    \/ \E n \in DOMAIN Body[t].vout : Pays(t, n)
    \/ \E i \in FilterTxIds : \E n \in DOMAIN Body[i].vout :
           Pays(i, n) /\ \E k \in DOMAIN Body[t].vin : Body[t].vin[k].prevout = Outpoint(i, n - 1)

\* "we MUST always provide at least what the remote peer needs" (main.cpp,
\* ProcessGetData): when a filtered block has been answered and nothing is under
\* way, a peer that loaded a filter for its keys holds every transaction of the block
\* that pays or spends what is its own, and the block's merkle root, though some were
\* announced before and left out of the answer, some have left the pool, and the
\* filter was growing all the time.
FilteredBlockComplete ==
    out = <<>> /\ in = <<>> =>
        \A b \in client.blocks :
            /\ b[2] = MerkleRoot([i \in DOMAIN chain[b[1]] |-> TxHash(chain[b[1]][i])])
            /\ \A t \in ToSet(chain[b[1]]) : Relevant(t) => t \in client.has
=============================================================================
