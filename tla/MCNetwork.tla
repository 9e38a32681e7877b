----------------------------- MODULE MCNetwork -----------------------------
(***************************************************************************)
(* Small instances of the parts of the network layer, checked side by side:  *)
(* a behaviour runs one part, the others rest in their initial states.       *)
(*   peers      the table of known addresses (PeerManager)                  *)
(*   nodes      connections, their slots and the threads that use them (Net) *)
(*   stream     the bytes between two nodes (Socket)                        *)
(*   handshake  versions and addresses exchanged over a connection          *)
(*   localhost  the addresses the node takes for its own                    *)
(*   pool       the memory pool and the orphan transactions (Mempool)       *)
(*   filter     a peer that has loaded a Bloom filter (FilterPeer)          *)
(***************************************************************************)
EXTENDS PeerManager, Mempool, Net, Socket, Handshake, FilterPeer

CONSTANT Parts
VARIABLE part

netvars == <<part, vars, poolvars, nvars, sockvars, hvars, lhvars, fvars>>

\* Four peers, two of them at one network address, heard of from two sources;
\* two new buckets and one tried bucket.
AddressTable == [ip : {"u", "v", "w"}, port : {1}] \cup {[ip |-> "u", port |-> 2]}
GetTriedBucketTable == [a \in AddressTable |-> 0]
GetNewBucketTable == [p \in AddressTable \X Source |->
    IF p[2] = "s" /\ p[1].ip # "w" THEN 0 ELSE 1]

\* A chain of loose transactions t1, t2, t3, a double spend x1 of t1, a spend y1
\* of a coinbase, whose fee is too small to be relayed, and branches over one
\* block: a2-a3 with t1 and t2, e2-e3 with t1, b2-f3 with x1, b2-b3-b4 with none.
CONSTANTS g, a1, a2, a3, b2, b3, b4, e2, e3, f3

ParentTable == g :> Null @@ a1 :> g @@ a2 :> a1 @@ a3 :> a2 @@ b2 :> a1 @@ b3 :> b2 @@ b4 :> b3
            @@ e2 :> a1 @@ e3 :> e2 @@ f3 :> b2
RECURSIVE PathOf(_)
PathOf(b) == IF ParentTable[b] = Null THEN {b} ELSE {b} \cup PathOf(ParentTable[b])
AncTable == [b \in DOMAIN ParentTable |-> PathOf(b)]
HeightTable == [b \in DOMAIN ParentTable |-> Cardinality(AncTable[b]) - 1]

Coinbase(v) == [fCoinBase |-> TRUE, vin |-> <<>>, vout |-> v]
Spend(i, v) == [fCoinBase |-> FALSE, vin |-> i, vout |-> v]

TxTable ==
    [c1 |-> Coinbase(<<5, 3>>), c2 |-> Coinbase(<<4>>), c3 |-> Coinbase(<<1>>),
     d2 |-> Coinbase(<<3>>), d3 |-> Coinbase(<<1>>), d4 |-> Coinbase(<<2>>),
     h2 |-> Coinbase(<<2>>), h3 |-> Coinbase(<<2>>),
     t1 |-> Spend(<< <<"c1", 1>> >>, <<3, 1>>),
     t2 |-> Spend(<< <<"t1", 1>> >>, <<2>>),
     t3 |-> Spend(<< <<"t1", 2>>, <<"t2", 1>> >>, <<1>>),
     x1 |-> Spend(<< <<"c1", 1>>, <<"c1", 2>> >>, <<5>>),
     y1 |-> Spend(<< <<"c2", 1>> >>, <<2>>)]
VtxTable ==
    g :> <<>> @@ a1 :> <<"c1">> @@ a2 :> <<"c2", "t1">> @@ a3 :> <<"c3", "t2">>
    @@ b2 :> <<"d2">> @@ b3 :> <<"d3">> @@ b4 :> <<"d4">>
    @@ e2 :> <<"h2", "t1">> @@ e3 :> <<"h3">> @@ f3 :> <<"d3", "x1">>
MinFeeTable == [t \in DOMAIN TxTable |-> 1]
RelayFeeTable == [t \in DOMAIN TxTable |-> IF t = "y1" THEN 3 ELSE 1]
VtxPrevTable == [t \in DOMAIN TxTable |-> CASE t = "t2" -> <<"t1">> [] t = "t3" -> <<"t1", "t2">> [] OTHER -> <<>>]

UnsolicitedTable == {[kind |-> "ping", size |-> 0, asks |-> 0],
                  [kind |-> "getdata", size |-> 1, asks |-> 2]}

\* a connects to b, b for one shot to c, and b to d, whose version is obsolete.
FromTable == <<"a", "b", "b">>
ToTable == <<"b", "c", "d">>
VersionTable == [n \in {"a", "b", "c", "d"} |->
    CASE n = "a" -> 5 [] n = "b" -> 4 [] n = "c" -> 4 [] n = "d" -> 1]

\* A peer at an IPv4 and one at an IPv6 address; public, private, IPv6 and 6to4
\* addresses of our own.
PeerAddrTable == <<Mapped(<<8, 8, 1, 1>>), <<38, 7, 1, 2>> \o Zeros(12)>>
CandidatesTable == {Mapped(<<9, 9, 1, 1>>), Mapped(<<10, 9, 1, 1>>),
                 <<38, 7, 9, 9>> \o Zeros(12), <<32, 2, 9, 9, 1, 1>> \o Zeros(10)}

\* Transaction 1 pays a key of the peer, 2 spends that and says nothing else.
BodyTable ==
    <<[id |-> 1, vin |-> <<[prevout |-> 49, data |-> {8}]>>,
       vout |-> <<[data |-> {9}, type |-> "pubkeyhash"], [data |-> {1}, type |-> "pubkey"]>>],
      [id |-> 2, vin |-> <<[prevout |-> Outpoint(1, 1), data |-> {}]>>,
       vout |-> <<[data |-> {7}, type |-> "pubkeyhash"]>>]>>

\* The tables, by names of their own, so that TLC evaluates each only once.
MCParent == ParentTable
MCAnc == AncTable
MCHeight == HeightTable
MCVtx == VtxTable
MCTx == TxTable
MCMinFee == MinFeeTable
MCRelayFee == RelayFeeTable
MCVtxPrev == VtxPrevTable
MCAddress == AddressTable
MCGetTriedBucket == GetTriedBucketTable
MCGetNewBucket == GetNewBucketTable
MCUnsolicited == UnsolicitedTable
MCFrom == FromTable
MCTo == ToTable
MCVersion == VersionTable
MCPeerAddr == PeerAddrTable
MCCandidates == CandidatesTable
MCBody == BodyTable

NetworkInit ==
    /\ part \in Parts
    /\ Init /\ PoolInit /\ NetInit /\ SockInit /\ ShakeInit /\ HostInit /\ PeerInit

Peers_ == /\ part = "peers" /\ Next
          /\ UNCHANGED <<part, poolvars, nvars, sockvars, hvars, lhvars, fvars>>
Pool_ == /\ part = "pool" /\ PoolNext
         /\ UNCHANGED <<part, vars, nvars, sockvars, hvars, lhvars, fvars>>
Nodes_ == /\ part = "nodes" /\ NetNext
          /\ UNCHANGED <<part, vars, poolvars, sockvars, hvars, lhvars, fvars>>
Stream == /\ part = "stream" /\ SockNext
          /\ UNCHANGED <<part, vars, poolvars, nvars, hvars, lhvars, fvars>>
Greeting == /\ part = "handshake" /\ ShakeNext
            /\ UNCHANGED <<part, vars, poolvars, nvars, sockvars, lhvars, fvars>>
OwnAddress == /\ part = "localhost" /\ HostNext
              /\ UNCHANGED <<part, vars, poolvars, nvars, sockvars, hvars, fvars>>
Filtering == /\ part = "filter" /\ PeerNext
             /\ UNCHANGED <<part, vars, poolvars, nvars, sockvars, hvars, lhvars>>

NetworkNext == Peers_ \/ Pool_ \/ Nodes_ \/ Stream \/ Greeting \/ OwnAddress \/ Filtering

NetworkSpec == NetworkInit /\ [][NetworkNext]_netvars

-----------------------------------------------------------------------------
(* Properties that join what the parts promise                             *)

\* The tables of the peer manager agree: mapNetworkPeer, mapAddr and vRandom
\* hold the same entries, every entry is in tried or in as many new buckets as
\* its nRefCount says, no bucket holds more than its size, and writing and
\* reading peers.dat puts every entry back into its buckets; and an address that
\* was connected to is never forgotten, only moved (TriedNotDeleted).
TablesExact ==
    /\ [](IndexesExact /\ CountsExact /\ BucketsBounded /\ RestartKeepsTables)
    /\ TriedNotDeleted

\* The memory pool stays true to the chain across reorganisations: mapNextTx
\* lists exactly what its transactions spend, each spends the pool or unspent
\* outputs of the chain, none is in the chain, and the orphans are indexed and
\* bounded (CTxMemPool, SetBestChain, AddOrphanTx); and no transaction of a
\* disconnected block is lost that could return to the pool (NothingLost).
PoolFollowsChain == [](PoolIndexExact /\ PoolSpendable /\ OrphansIndexed) /\ NothingLost
=============================================================================
