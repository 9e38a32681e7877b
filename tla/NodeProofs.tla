----------------------------- MODULE NodeProofs -----------------------------
(***************************************************************************)
(* Proofs about the connections of a node (Net), for any number of opening *)
(* threads, addresses, slots and connections.                              *)
(***************************************************************************)
EXTENDS Net, FiniteSetTheorems, SequenceTheorems, TLAPS

NodeRecord ==
    [addr : Addresses, fInbound : BOOLEAN, fNetworkNode : BOOLEAN, fDisconnect : BOOLEAN,
     socket : BOOLEAN, nRefCount : Int, grantOutbound : BOOLEAN,
     fSuccessfullyConnected : BOOLEAN, fStartSync : BOOLEAN,
     pool : {"vNodes", "vNodesDisconnected", "deleted"}]

OpenerRecord ==
    [at : {"idle", "find", "dial", "addref", "grant"}, addr : Addresses \cup {None},
     node : Nat \cup {None}]

(* The type invariant, with what each thread may point to. *)
NetType ==
    /\ node \in Seq(NodeRecord) /\ semOutbound \in Nat
    /\ opener \in [Openers -> OpenerRecord]
    /\ \A o \in Openers : /\ opener[o].at \in {"find", "dial"} => opener[o].addr \in Addresses
                          /\ opener[o].at \in {"addref", "grant"} => opener[o].node \in Nodes
    /\ sock \in [at : {"sweep", "accept", "serve"}, copy : SUBSET Nodes, todo : SUBSET Nodes]
    /\ sock.todo \subseteq sock.copy
    /\ msg \in [at : {"copy", "choose", "start", "talk"}, copy : SUBSET Nodes,
                todo : SUBSET Nodes, candidate : Nat \cup {None}]
    /\ msg.todo \subseteq msg.copy
    /\ msg.at = "start" => msg.candidate \in msg.copy

(* A thread is between connecting to n and moving the grant; two are. *)
Granting(o, n) == opener[o].at = "grant" /\ opener[o].node = n
Awaited(n) == \E o \in Openers : Granting(o, n)
AwaitedTwice(n) == \E o, p \in Openers : o # p /\ Granting(o, n) /\ Granting(p, n)

(* Every use of a node is covered by a reference: of the handler threads   *)
(* each one, of the list vNodes one more, and a node that a thread is      *)
(* about to give its grant keeps a reference when it is dropped, because   *)
(* the drop releases one only from a node with fNetworkNode or fInbound.   *)
RefsCover(n) ==
    LET r == node[n] IN
    /\ r.nRefCount >= Users(n)
    /\ r.pool = "vNodes" => r.nRefCount > Users(n)
    /\ r.pool = "vNodes" /\ (AwaitedTwice(n) \/ (Awaited(n) /\ (r.fNetworkNode \/ r.fInbound)))
         => r.nRefCount > Users(n) + 1
    /\ r.pool = "vNodesDisconnected" /\ (Awaited(n) \/ r.grantOutbound) => r.nRefCount > Users(n)
    /\ r.pool = "deleted" => Users(n) = 0 /\ ~Awaited(n)

Busy == {o \in Openers : opener[o].at # "idle"}
Granted == {n \in Nodes : node[n].grantOutbound}

SlotsEqual == semOutbound + Cardinality(Busy) + Cardinality(Granted) = MaxOutbound
OutboundHasSlot == \A n \in Live : ~node[n].fInbound => node[n].grantOutbound \/ Awaited(n)

NetInv == NetType /\ (\A n \in Nodes : RefsCover(n)) /\ SlotsEqual /\ OutboundHasSlot

-----------------------------------------------------------------------------
(* A function on the indices of a sequence is a sequence of that length. *)
LEMMA SameLength ==
    ASSUME NEW S, NEW s \in Seq(S), NEW f \in [1 .. Len(s) -> S]
    PROVE  f \in Seq(S) /\ Len(f) = Len(s)
<1>1. Len(s) \in Nat
  OBVIOUS
<1>2. f \in Seq(S)
  BY <1>1, SeqDef
<1>3. DOMAIN f = 1 .. Len(f) /\ Len(f) \in Nat
  BY <1>2
<1> QED
  BY <1>1, <1>2, <1>3

LEMMA AppendGrows ==
    ASSUME NEW S, NEW s \in Seq(S), NEW e \in S
    PROVE  /\ Append(s, e) \in Seq(S) /\ Len(Append(s, e)) = Len(s) + 1
           /\ 1 .. Len(Append(s, e)) = 1 .. Len(s) \cup {Len(s) + 1}
           /\ \A n \in 1 .. Len(s) : Append(s, e)[n] = s[n]
           /\ Append(s, e)[Len(s) + 1] = e
           /\ Len(s) + 1 \notin 1 .. Len(s)
  BY AppendProperties, LenProperties

(* What the record operators of Net do to a node. *)
SameUse(q, r) ==
    /\ q \in NodeRecord /\ q.pool = r.pool /\ q.fInbound = r.fInbound
    /\ q.fNetworkNode = r.fNetworkNode /\ q.grantOutbound = r.grantOutbound

LEMMA RefChanged ==
    ASSUME NEW r \in NodeRecord
    PROVE  /\ SameUse(AddRef(r), r) /\ AddRef(r).nRefCount = r.nRefCount + 1
           /\ SameUse(Release(r), r) /\ Release(r).nRefCount = r.nRefCount - 1
           /\ r.nRefCount \in Int
<1>1. AddRef(r) \in NodeRecord /\ Release(r) \in NodeRecord
  BY DEF AddRef, Release, NodeRecord
<1> QED BY <1>1 DEF AddRef, Release, NodeRecord, SameUse

LEMMA NetFinite ==
    ASSUME NetType
    PROVE  /\ IsFiniteSet(Busy) /\ Cardinality(Busy) \in Nat
           /\ IsFiniteSet(Granted) /\ Cardinality(Granted) \in Nat
           /\ IsFiniteSet(Nodes) /\ Len(node) \in Nat
<1>1. Len(node) \in Nat
  BY DEF NetType
<1>2. IsFiniteSet(Nodes)
  BY <1>1, FS_Interval DEF Nodes
<1>3. Granted \in SUBSET Nodes /\ Busy \in SUBSET Openers
  BY DEF Granted, Busy
<1>4. IsFiniteSet(Openers)
  BY NetAssumption
<1>5. IsFiniteSet(Granted) /\ IsFiniteSet(Busy)
  BY <1>2, <1>3, <1>4, FS_Subset
<1> QED
  BY <1>1, <1>2, <1>5, FS_CardinalityType

(* A step that leaves alone the references, the grants and where the nodes *)
(* are keeps the invariant.                                                *)
LEMMA KeptRefs ==
    ASSUME NetInv, NetType', Len(node') = Len(node), semOutbound' = semOutbound,
           Busy' = Busy, sock'.copy = sock.copy, msg'.copy = msg.copy,
           \A o \in Openers, n \in Nodes : Granting(o, n)' <=> Granting(o, n),
           \A n \in Nodes : /\ node'[n].nRefCount = node[n].nRefCount
                            /\ node'[n].pool = node[n].pool
                            /\ node'[n].fInbound = node[n].fInbound
                            /\ node'[n].fNetworkNode = node[n].fNetworkNode
                            /\ node'[n].grantOutbound = node[n].grantOutbound
    PROVE  NetInv'
<1>1. Nodes' = Nodes
  BY DEF Nodes
<1>2. ASSUME NEW n \in Nodes PROVE RefsCover(n)'
  <2>1. Users(n)' = Users(n) /\ (Awaited(n)' <=> Awaited(n)) /\ (AwaitedTwice(n)' <=> AwaitedTwice(n))
    BY DEF Users, Awaited, AwaitedTwice
  <2>2. RefsCover(n)
    BY DEF NetInv
  <2> QED BY <2>1, <2>2 DEF RefsCover
<1>3. Granted' = Granted
  BY <1>1 DEF Granted
<1>4. SlotsEqual'
  BY <1>3 DEF NetInv, SlotsEqual
<1>5. OutboundHasSlot'
  BY <1>1 DEF NetInv, OutboundHasSlot, Live, Awaited
<1> QED
  BY <1>1, <1>2, <1>4, <1>5 DEF NetInv
-----------------------------------------------------------------------------
(* Opening.                                                                *)

LEMMA OpenKeeps ==
    ASSUME NetInv, NEW o \in Openers, OpenNetworkConnection(o)
    PROVE  NetInv'
<1> USE DEF NetInv, OpenerAt
<1>0. PICK a \in Addresses : opener' = [opener EXCEPT ![o] = OpenerAt("find", a, None)]
  BY Zenon DEF OpenNetworkConnection
<1>1. NetType'
  BY <1>0 DEF OpenNetworkConnection, NetType, OpenerRecord, Nodes
<1>2. \A p \in Openers, n \in Nodes : Granting(p, n)' <=> Granting(p, n)
  BY <1>0 DEF OpenNetworkConnection, Granting, NetType
<1>3. Busy' = Busy \cup {o} /\ o \notin Busy
  BY <1>0 DEF OpenNetworkConnection, Busy, NetType
<1>4. Cardinality(Busy') = Cardinality(Busy) + 1
  BY <1>3, NetFinite, FS_AddElement, Zenon
<1>5. Granted' = Granted /\ Nodes' = Nodes
  BY DEF OpenNetworkConnection, Granted, Nodes
<1>6. SlotsEqual'
  BY <1>4, <1>5, NetFinite, NetAssumption DEF SlotsEqual, OpenNetworkConnection, NetType
<1>7. ASSUME NEW n \in Nodes PROVE RefsCover(n)'
  <2>1. Users(n)' = Users(n) /\ (Awaited(n)' <=> Awaited(n)) /\ (AwaitedTwice(n)' <=> AwaitedTwice(n))
    BY <1>2 DEF Users, Awaited, AwaitedTwice, OpenNetworkConnection
  <2> QED BY <2>1 DEF RefsCover, OpenNetworkConnection
<1>8. OutboundHasSlot'
  BY <1>2, <1>5 DEF OutboundHasSlot, Live, Awaited, OpenNetworkConnection
<1> QED BY <1>1, <1>5, <1>6, <1>7, <1>8

LEMMA FindKeeps ==
    ASSUME NetInv, NEW o \in Openers, FindExisting(o)
    PROVE  NetInv'
<1> USE DEF NetInv, OpenerAt
<1>0. \E l \in {"dial", "addref"}, n \in Nat \cup {None} :
         /\ opener' = [opener EXCEPT ![o] = OpenerAt(l, opener[o].addr, n)]
         /\ l = "addref" => n \in Nodes
  BY DEF FindExisting, FindService, FindNode, Live, Nodes, NetType
<1>1. NetType'
  BY <1>0 DEF FindExisting, NetType, OpenerRecord, Nodes
<1>2. /\ \A p \in Openers, n \in Nodes : Granting(p, n)' <=> Granting(p, n)
      /\ Busy' = Busy
  BY <1>0 DEF FindExisting, Granting, Busy, NetType, OpenerRecord
<1> QED BY <1>1, <1>2, KeptRefs DEF FindExisting

LEMMA AddRefKeeps ==
    ASSUME NetInv, NEW o \in Openers, AddRefExisting(o)
    PROVE  NetInv'
<1> USE DEF NetInv
<1>0. PICK m \in Nodes : /\ m = opener[o].node /\ opener[o].at = "addref"
                         /\ node[m].pool # "deleted" /\ node[m] \in NodeRecord
  BY DEF AddRefExisting, NetType, Nodes
<1>1. /\ \A n \in Nodes : node'[n] = IF n = m THEN AddRef(node[m]) ELSE node[n]
      /\ DOMAIN node' = 1 .. Len(node)
  BY <1>0 DEF AddRefExisting, NetType, Nodes
<1>2. \A n \in Nodes : node[n] \in NodeRecord /\ SameUse(node'[n], node[n])
  BY <1>0, <1>1, RefChanged DEF SameUse, NetType, Nodes
<1>3. node' \in Seq(NodeRecord) /\ Len(node') = Len(node) /\ Nodes' = Nodes
  <2>1. node' \in [1 .. Len(node) -> NodeRecord]
    BY <1>1, <1>2, Zenon DEF SameUse, Nodes, AddRefExisting
  <2> QED BY <2>1, SameLength DEF NetType, Nodes
<1>4. NetType'
  BY <1>0, <1>3, Zenon DEF AddRefExisting, NetType, OpenerRecord, OpenerAt
<1>5. /\ \A p \in Openers, n \in Nodes : Granting(p, n)' <=> Granting(p, n) \/ (p = o /\ n = m)
      /\ ~Granting(o, m) /\ Busy' = Busy
  BY <1>0, Zenon DEF AddRefExisting, Granting, Busy, NetType, OpenerRecord, OpenerAt
<1>6. ASSUME NEW n \in Nodes PROVE RefsCover(n)'
  <2>1. Users(n)' = Users(n) /\ Users(n) \in 0 .. 2 /\ SameUse(node'[n], node[n])
    BY <1>2 DEF Users, AddRefExisting
  <2>2. CASE n # m
    BY <1>1, <1>5, <2>1, <2>2, Zenon DEF RefsCover, Awaited, AwaitedTwice
  <2>3. CASE n = m
    <3>1. AwaitedTwice(n)' => Awaited(n)
      BY <1>5 DEF Awaited, AwaitedTwice
    <3>2. node'[m].nRefCount = node[m].nRefCount + 1 /\ node[m].nRefCount \in Int
      BY <1>0, <1>1, RefChanged
    <3> QED BY <1>0, <2>1, <2>3, <3>1, <3>2 DEF RefsCover, SameUse
  <2> QED BY <2>2, <2>3
<1>7. OutboundHasSlot'
  <2>1. \A n \in Nodes : Awaited(n) => Awaited(n)'
    BY <1>5 DEF Awaited
  <2> QED BY <2>1, <1>2, <1>3 DEF OutboundHasSlot, Live, SameUse
<1>8. Granted' = Granted
  BY <1>2, <1>3 DEF Granted, SameUse
<1>9. SlotsEqual'
  BY <1>5, <1>8 DEF SlotsEqual, AddRefExisting
<1> QED BY <1>3, <1>4, <1>6, <1>7, <1>9

LEMMA DialKeeps ==
    ASSUME NetInv, NEW o \in Openers, Dial(o)
    PROVE  NetInv'
<1> USE DEF NetInv, OpenerAt, NetIdle
<1>0. opener[o].at = "dial" /\ opener[o].addr \in Addresses /\ Len(node) \in Nat /\ o \in Busy
      /\ sock' = sock /\ msg' = msg
  BY DEF Dial, NetType, Busy
<1>1. CASE GiveUp(o) /\ UNCHANGED node
  <2>1. NetType'
    BY <1>1 DEF Dial, GiveUp, NetType, OpenerRecord, Nodes
  <2>2. \A p \in Openers, n \in Nodes : Granting(p, n)' <=> Granting(p, n)
    BY <1>0, <1>1 DEF GiveUp, Granting, NetType
  <2>3. Busy' = Busy \ {o}
    BY <1>1, Zenon DEF GiveUp, Busy, NetType
  <2>4. Cardinality(Busy') = Cardinality(Busy) - 1
    BY <1>0, <2>3, NetFinite, FS_RemoveElement, Zenon
  <2>5. Granted' = Granted /\ Nodes' = Nodes
    BY <1>1 DEF Granted, Nodes
  <2>6. SlotsEqual'
    BY <1>1, <2>4, <2>5, NetFinite, NetAssumption DEF SlotsEqual, GiveUp, NetType
  <2>7. ASSUME NEW n \in Nodes PROVE RefsCover(n)'
    <3>1. Users(n)' = Users(n) /\ (Awaited(n)' <=> Awaited(n)) /\ (AwaitedTwice(n)' <=> AwaitedTwice(n))
      BY <1>0, <2>2 DEF Users, Awaited, AwaitedTwice
    <3> QED BY <1>1, <3>1 DEF RefsCover
  <2>8. OutboundHasSlot'
    BY <1>1, <2>2, <2>5 DEF OutboundHasSlot, Live, Awaited
  <2> QED BY <2>1, <2>5, <2>6, <2>7, <2>8
<1>2. CASE /\ node' = Append(node, NewNode(opener[o].addr, FALSE))
           /\ opener' = [opener EXCEPT ![o] = OpenerAt("grant", opener[o].addr, Len(node) + 1)]
           /\ UNCHANGED semOutbound
  <2>0. NewNode(opener[o].addr, FALSE) \in NodeRecord
    BY <1>0 DEF NewNode, NodeRecord
  <2>1. /\ node' \in Seq(NodeRecord) /\ Len(node') = Len(node) + 1
        /\ Nodes' = Nodes \cup {Len(node) + 1}
        /\ \A n \in Nodes : node'[n] = node[n]
        /\ node'[Len(node) + 1] = NewNode(opener[o].addr, FALSE)
        /\ Len(node) + 1 \notin Nodes
    <3>1. node \in Seq(NodeRecord)
      BY DEF NetType
    <3>2. PICK e \in NodeRecord : e = NewNode(opener[o].addr, FALSE)
      BY <2>0, Zenon
    <3>3. node' = Append(node, e)
      BY <1>2, <3>2
    <3>4. /\ Append(node, e) \in Seq(NodeRecord) /\ Len(Append(node, e)) = Len(node) + 1
          /\ 1 .. Len(Append(node, e)) = 1 .. Len(node) \cup {Len(node) + 1}
          /\ \A n \in 1 .. Len(node) : Append(node, e)[n] = node[n]
          /\ Append(node, e)[Len(node) + 1] = e
          /\ Len(node) + 1 \notin 1 .. Len(node)
      BY <3>1, AppendGrows, Zenon
    <3> QED BY <3>2, <3>3, <3>4, Zenon DEF Nodes
  <2>2. NetType'
    <3>1. Nodes \subseteq Nodes' /\ Len(node) + 1 \in Nodes' /\ Len(node) + 1 \in Nat
      BY <1>0, <2>1 DEF Nodes
    <3>2. opener' \in [Openers -> OpenerRecord]
      BY <1>0, <1>2, <3>1 DEF NetType, OpenerRecord
    <3>3. \A p \in Openers :
             /\ opener'[p].at \in {"find", "dial"} => opener'[p].addr \in Addresses
             /\ opener'[p].at \in {"addref", "grant"} => opener'[p].node \in Nodes'
      BY <1>0, <1>2, <3>1, Zenon DEF NetType
    <3> QED BY <1>0, <1>2, <2>1, <3>1, <3>2, <3>3, Zenon DEF NetType
  <2>3. /\ \A p \in Openers, n \in Nodes : Granting(p, n)' <=> Granting(p, n)
        /\ \A p \in Openers, n \in Nodes' : n \notin Nodes => (Granting(p, n)' <=> p = o)
        /\ Busy' = Busy
    BY <1>0, <1>2, <2>1 DEF Granting, Busy, NetType, OpenerRecord, Nodes
  <2>4. Granted' = Granted
    BY <2>1 DEF Granted, NewNode
  <2>5. ASSUME NEW n \in Nodes PROVE RefsCover(n)'
    <3>1. Users(n)' = Users(n) /\ (Awaited(n)' <=> Awaited(n)) /\ (AwaitedTwice(n)' <=> AwaitedTwice(n))
      BY <1>0, <2>3, Zenon DEF Users, Awaited, AwaitedTwice
    <3> QED BY <2>1, <3>1 DEF RefsCover
  <2>6. ASSUME NEW n \in Nodes', n \notin Nodes PROVE RefsCover(n)'
    <3>1. Users(n)' = 0
      BY <1>0, <2>6 DEF Users, NetType
    <3>2. ~AwaitedTwice(n)'
      BY <2>3, <2>6 DEF AwaitedTwice
    <3>3. node'[n].nRefCount = 1 /\ ~node'[n].fNetworkNode /\ ~node'[n].fInbound
          /\ node'[n].pool = "vNodes"
      BY <2>1, <2>6 DEF NewNode
    <3> QED BY <3>1, <3>2, <3>3 DEF RefsCover
  <2>7. OutboundHasSlot'
    BY <2>1, <2>3 DEF OutboundHasSlot, Live, Awaited
  <2>8. SlotsEqual'
    BY <1>2, <2>3, <2>4 DEF SlotsEqual
  <2> QED BY <2>2, <2>5, <2>6, <2>7, <2>8
<1> QED BY <1>1, <1>2, Zenon DEF Dial

LEMMA GrantKeeps ==
    ASSUME NetInv, NEW o \in Openers, MoveGrant(o)
    PROVE  NetInv'
<1> USE DEF NetInv
<1>0. PICK m \in Nodes : m = opener[o].node /\ opener[o].at = "grant" /\ node[m] \in NodeRecord
  BY DEF MoveGrant, NetType, Nodes
<1>1. /\ \A n \in Nodes : node'[n] = IF n = m THEN WithGrant(node[m]) ELSE node[n]
      /\ DOMAIN node' = 1 .. Len(node) /\ o \in Busy /\ Granting(o, m)
      /\ sock' = sock /\ msg' = msg
  BY <1>0 DEF MoveGrant, NetType, Nodes, Busy, Granting
<1>2. /\ WithGrant(node[m]) \in NodeRecord /\ WithGrant(node[m]).nRefCount = node[m].nRefCount
      /\ WithGrant(node[m]).pool = node[m].pool /\ WithGrant(node[m]).fInbound = node[m].fInbound
      /\ WithGrant(node[m]).fNetworkNode /\ WithGrant(node[m]).grantOutbound
      /\ node[m].nRefCount \in Int
  BY <1>0, Zenon DEF WithGrant, NodeRecord
<1>3. node' \in Seq(NodeRecord) /\ Len(node') = Len(node) /\ Nodes' = Nodes
  <2>1. node' \in [1 .. Len(node) -> NodeRecord]
    BY <1>1, <1>2 DEF Nodes, MoveGrant, NetType
  <2> QED BY <2>1, SameLength DEF NetType, Nodes
<1>4. NetType'
  <2>1. semOutbound' \in Nat
    BY <1>0 DEF MoveGrant, NetType
  <2> QED BY <1>0, <1>1, <1>3, <2>1 DEF MoveGrant, NetType, OpenerRecord, NetIdle, OpenerAt
<1>5. /\ \A p \in Openers, n \in Nodes : Granting(p, n)' <=> Granting(p, n) /\ p # o
      /\ Busy' = Busy \ {o}
  BY <1>0 DEF MoveGrant, Granting, Busy, NetType, OpenerRecord, NetIdle, OpenerAt
<1>6. ASSUME NEW n \in Nodes PROVE RefsCover(n)'
  <2>1. Users(n)' = Users(n) /\ Users(n) \in 0 .. 2 /\ RefsCover(n)
    BY <1>1 DEF Users
  <2>2. (Awaited(n)' => Awaited(n)) /\ (AwaitedTwice(n)' => AwaitedTwice(n))
    BY <1>5, Zenon DEF Awaited, AwaitedTwice
  <2>3. CASE n # m
    BY <1>1, <2>1, <2>2, <2>3, Zenon DEF RefsCover
  <2>4. CASE n = m
    <3>1. Awaited(n) /\ (Awaited(n)' => AwaitedTwice(n))
      BY <1>1, <1>5, <2>4, Zenon DEF Awaited, AwaitedTwice
    <3> QED BY <1>1, <1>2, <2>1, <2>2, <2>4, <3>1 DEF RefsCover
  <2> QED BY <2>3, <2>4
<1>7. OutboundHasSlot'
  <2>1. \A n \in Nodes : n # m => (Awaited(n) => Awaited(n)')
    BY <1>0, <1>5, Zenon DEF Awaited, Granting
  <2> QED BY <2>1, <1>1, <1>2, <1>3, Zenon DEF OutboundHasSlot, Live
<1>8. SlotsEqual'
  <2>1. Cardinality(Busy') = Cardinality(Busy) - 1
    BY <1>1, <1>5, NetFinite, FS_RemoveElement, Zenon
  <2>2. Granted' = Granted \cup {m}
    BY <1>1, <1>2, <1>3, Zenon DEF Granted
  <2>3. Cardinality(Granted') = IF node[m].grantOutbound THEN Cardinality(Granted)
                                ELSE Cardinality(Granted) + 1
    <3>1. node[m].grantOutbound <=> m \in Granted
      BY DEF Granted
    <3> QED BY <2>2, <3>1, NetFinite, FS_AddElement, Zenon
  <2> QED BY <1>0, <2>1, <2>3, NetFinite, NetAssumption DEF SlotsEqual, MoveGrant, NetType
<1> QED BY <1>3, <1>4, <1>6, <1>7, <1>8
-----------------------------------------------------------------------------
(* The socket handler.                                                     *)

(* What the sweep does to a node; a live one is dropped, a dropped one     *)
(* that nobody refers to is deleted.                                       *)
LEMMA DropChanges ==
    ASSUME NEW r \in NodeRecord
    PROVE  /\ Drop(r) \in NodeRecord /\ Drop(r).pool = "vNodesDisconnected"
           /\ ~Drop(r).grantOutbound
           /\ Drop(r).nRefCount = IF r.fNetworkNode \/ r.fInbound THEN r.nRefCount - 1
                                  ELSE r.nRefCount
<1>1. Closed(r) \in NodeRecord /\ Closed(r).nRefCount = r.nRefCount
  BY Zenon DEF Closed, NodeRecord
<1>2. PICK c \in NodeRecord : c = Closed(r) /\ c.nRefCount = r.nRefCount
  BY <1>1
<1>3. PICK k \in Int : k = IF r.fNetworkNode \/ r.fInbound THEN r.nRefCount - 1 ELSE r.nRefCount
  BY DEF NodeRecord
<1>4. Drop(r) = [c EXCEPT !.pool = "vNodesDisconnected", !.grantOutbound = FALSE, !.nRefCount = k]
  BY <1>2, <1>3 DEF Drop
<1>5. /\ Drop(r) \in NodeRecord /\ Drop(r).pool = "vNodesDisconnected"
      /\ Drop(r).grantOutbound = FALSE /\ Drop(r).nRefCount = k
  BY <1>4, Zenon DEF NodeRecord
<1> QED BY <1>3, <1>5

LEMMA DestroyChanges ==
    ASSUME NEW r \in NodeRecord
    PROVE  /\ Destroyed(r) \in NodeRecord /\ Destroyed(r).nRefCount = r.nRefCount
           /\ Destroyed(r).grantOutbound => r.grantOutbound
           /\ IF r.pool = "vNodesDisconnected" /\ r.nRefCount <= 0
              THEN Destroyed(r).pool = "deleted" ELSE Destroyed(r) = r
  BY Zenon DEF Destroyed, NodeRecord

LEMMA SweepKeeps ==
    ASSUME NetInv, Sweep
    PROVE  NetInv'
<1> USE DEF NetInv
<1> DEFINE swept(n) == IF n \in Dropped THEN Drop(node[n]) ELSE node[n]
<1>0. \A n \in Nodes : node[n] \in NodeRecord
  BY DEF NetType, Nodes
<1>1. \A n \in Nodes : swept(n) \in NodeRecord /\ (swept(n).grantOutbound => node[n].grantOutbound)
  BY <1>0, DropChanges
<1>2. /\ \A n \in Nodes : node'[n] = Destroyed(swept(n)) /\ node'[n] \in NodeRecord
                          /\ (node'[n].grantOutbound => node[n].grantOutbound)
      /\ DOMAIN node' = 1 .. Len(node)
  BY <1>1, DestroyChanges DEF Sweep, Nodes
<1>3. node' \in Seq(NodeRecord) /\ Len(node') = Len(node) /\ Nodes' = Nodes
  <2>1. node' \in [1 .. Len(node) -> NodeRecord]
    BY <1>2 DEF Nodes, Sweep
  <2> QED BY <2>1, SameLength DEF NetType, Nodes
<1>4. PICK lost \in SUBSET Nodes :
         lost = {n \in Nodes : node[n].grantOutbound /\ ~node'[n].grantOutbound}
  BY Zenon
<1>5. IsFiniteSet(lost) /\ Cardinality(lost) \in Nat /\ semOutbound' = semOutbound + Cardinality(lost)
  <2>1. IsFiniteSet(lost)
    BY NetFinite, FS_Subset
  <2>2. semOutbound' = semOutbound + Cardinality(lost)
    BY <1>4 DEF Sweep
  <2> QED BY <2>1, <2>2, FS_CardinalityType
<1>6. NetType'
  <2>1. /\ sock' \in [at : {"sweep", "accept", "serve"}, copy : SUBSET Nodes, todo : SUBSET Nodes]
        /\ sock'.todo = sock.todo /\ sock'.copy = sock.copy
    BY DEF NetType, Sweep
  <2>2. semOutbound' \in Nat
    BY <1>5 DEF NetType
  <2> QED BY <1>3, <2>1, <2>2, Zenon DEF NetType, Sweep
<1>7. SlotsEqual'
  <2>1. Granted = Granted' \cup lost /\ Granted' \cap lost = {}
    BY <1>2, <1>3, <1>4 DEF Granted
  <2>2. IsFiniteSet(Granted') /\ Cardinality(Granted') \in Nat
    <3>1. Granted' \in SUBSET Granted
      BY <2>1
    <3> QED BY <3>1, NetFinite, FS_Subset, FS_CardinalityType
  <2>3. Cardinality(Granted) = Cardinality(Granted') + Cardinality(lost)
    <3>1. Cardinality(Granted' \cup lost) =
            Cardinality(Granted') + Cardinality(lost) - Cardinality(Granted' \cap lost)
      BY <1>5, <2>2, FS_Union
    <3>2. Cardinality(Granted' \cap lost) = 0 /\ Cardinality(Granted' \cup lost) = Cardinality(Granted)
      BY <2>1, FS_EmptySet, Zenon
    <3> QED BY <1>5, <2>2, <3>1, <3>2
  <2>4. Busy' = Busy
    BY DEF Busy, Sweep
  <2> QED BY <1>5, <2>2, <2>3, <2>4, NetFinite, NetAssumption DEF SlotsEqual, NetType
<1>8. ASSUME NEW n \in Nodes PROVE RefsCover(n)'
  <2>1. /\ Users(n)' = Users(n) /\ Users(n) \in 0 .. 2
        /\ (Awaited(n)' <=> Awaited(n)) /\ (AwaitedTwice(n)' <=> AwaitedTwice(n))
        /\ RefsCover(n) /\ node[n] \in NodeRecord /\ node[n].nRefCount \in Int
    <3>1. /\ Users(n)' = Users(n)
          /\ (Awaited(n)' <=> Awaited(n)) /\ (AwaitedTwice(n)' <=> AwaitedTwice(n))
      <4>1. sock'.copy = sock.copy /\ msg' = msg /\ opener' = opener
        BY DEF Sweep, NetType
      <4> QED BY ONLY <4>1, Zenon DEF Users, Awaited, AwaitedTwice, Granting
    <3>2. Users(n) \in 0 .. 2
      BY ONLY DEF Users
    <3>3. RefsCover(n) /\ node[n] \in NodeRecord
      BY <1>0, Zenon
    <3>4. node[n].nRefCount \in Int
      BY ONLY <3>3 DEF NodeRecord
    <3> QED BY <3>1, <3>2, <3>3, <3>4, Zenon
  <2>2. CASE n \in Dropped
    <3>1. /\ node[n].pool = "vNodes"
          /\ swept(n) = Drop(node[n])
      BY <2>2 DEF Dropped, Live
    <3>2. /\ node'[n] = Destroyed(Drop(node[n])) /\ Drop(node[n]) \in NodeRecord
      BY <1>2, <3>1, <2>1, DropChanges, Zenon
    <3> QED BY <2>1, <3>1, <3>2, DropChanges, DestroyChanges DEF RefsCover
  <2>3. CASE n \notin Dropped
    <3>1. node'[n] = Destroyed(node[n])
      BY <1>2, <2>3
    <3> QED BY <2>1, <3>1, DestroyChanges DEF RefsCover
  <2> QED BY <2>2, <2>3
<1>9. OutboundHasSlot'
  <2>1. ASSUME NEW n \in Live' PROVE n \in Live /\ node'[n] = node[n]
    BY <1>0, <1>2, <1>3, <2>1, DropChanges, DestroyChanges DEF Live
  <2>2. \A n \in Nodes : Awaited(n)' <=> Awaited(n)
    BY DEF Awaited, Granting, Sweep
  <2> QED BY <2>1, <2>2, Zenon DEF OutboundHasSlot, Live
<1> QED BY <1>3, <1>6, <1>7, <1>8, <1>9

LEMMA ServeKeeps ==
    ASSUME NetInv, SocketServe
    PROVE  NetInv'
<1> USE DEF NetInv
<1>1. PICK m \in sock.todo :
         /\ sock' = [sock EXCEPT !.todo = @ \ {m}]
         /\ \/ node' = node
            \/ node' = [node EXCEPT ![m] = Closed(@)]
            \/ node' = [node EXCEPT ![m] = Flagged(@)]
  BY Zenon DEF SocketServe
<1>2. m \in Nodes /\ node[m] \in NodeRecord /\ (\A n \in Nodes : node[n] \in NodeRecord)
  BY DEF NetType, Nodes
<1>3. ASSUME NEW n \in Nodes
      PROVE  SameUse(node'[n], node[n]) /\ node'[n].nRefCount = node[n].nRefCount
  <2>1. \/ node'[n] = node[n]
        \/ node'[n] = Closed(node[n])
        \/ node'[n] = Flagged(node[n])
    BY <1>1, <1>2 DEF NetType, Nodes
  <2>2. node[n] \in NodeRecord
    BY <1>2, Zenon
  <2> QED BY <2>1, <2>2, Zenon DEF Closed, Flagged, SameUse, NodeRecord
<1>4. node' \in Seq(NodeRecord) /\ Len(node') = Len(node) /\ Nodes' = Nodes
  <2>1. node \in [1 .. Len(node) -> NodeRecord]
    BY DEF NetType
  <2>2. node' \in [1 .. Len(node) -> NodeRecord]
    BY <1>1, <1>2, <2>1, <1>3 DEF SameUse, Nodes
  <2> QED BY <2>2, SameLength DEF NetType, Nodes
<1>5. /\ sock' \in [at : {"sweep", "accept", "serve"}, copy : SUBSET Nodes, todo : SUBSET Nodes]
      /\ sock'.todo \subseteq sock.todo /\ sock'.copy = sock.copy
  BY <1>1 DEF NetType
<1>6. NetType'
  BY <1>4, <1>5, Zenon DEF NetType, SocketServe
<1>7. Busy' = Busy /\ \A o \in Openers, n \in Nodes : Granting(o, n)' <=> Granting(o, n)
  BY DEF Busy, Granting, SocketServe
<1> QED BY <1>3, <1>4, <1>5, <1>6, <1>7, KeptRefs DEF SameUse, SocketServe

(* A handler lets go of the nodes it has copied, each with the reference   *)
(* it had taken; the other handler's copy, given as c, stays.              *)
LEMMA ReleaseCovers ==
    ASSUME NetInv, opener' = opener, semOutbound' = semOutbound, NetType',
           NEW c \in SUBSET Nodes, node' = Releases(c),
           \/ c = sock.copy /\ sock'.copy = {} /\ msg'.copy = msg.copy
           \/ c = msg.copy /\ msg'.copy = {} /\ sock'.copy = sock.copy,
           Len(node') = Len(node)
    PROVE  NetInv'
<1> USE DEF NetInv
<1>0. Nodes' = Nodes
  BY DEF Nodes
<1>1. ASSUME NEW n \in Nodes
      PROVE  /\ node[n] \in NodeRecord /\ SameUse(node'[n], node[n]) /\ node[n].nRefCount \in Int
             /\ node'[n].nRefCount = node[n].nRefCount - (IF n \in c THEN 1 ELSE 0)
  <2>1. node[n] \in NodeRecord /\ node'[n] = IF n \in c THEN Release(node[n]) ELSE node[n]
    BY DEF NetType, Nodes, Releases
  <2>2. SameUse(node[n], node[n]) /\ node[n].nRefCount \in Int
    BY <2>1, Zenon DEF SameUse, NodeRecord
  <2> QED BY <2>1, <2>2, RefChanged
<1>2. ASSUME NEW n \in Nodes PROVE RefsCover(n)'
  <2>1. (Awaited(n)' <=> Awaited(n)) /\ (AwaitedTwice(n)' <=> AwaitedTwice(n))
    BY DEF Awaited, AwaitedTwice, Granting
  <2>2. Users(n) = Users(n)' + (IF n \in c THEN 1 ELSE 0) /\ Users(n)' \in 0 .. 2
    BY DEF Users
  <2> QED BY <1>1, <2>1, <2>2 DEF RefsCover, SameUse
<1>3. Granted' = Granted /\ Busy' = Busy
  BY <1>0, <1>1 DEF Granted, Busy, SameUse
<1>4. SlotsEqual'
  BY <1>3, Zenon DEF SlotsEqual
<1>5. OutboundHasSlot'
  BY <1>0, <1>1 DEF OutboundHasSlot, Live, Awaited, Granting, SameUse
<1> QED BY <1>0, <1>2, <1>4, <1>5

LEMMA ReleasesTyped ==
    ASSUME NetType, NEW c \in SUBSET Nodes, node' = Releases(c)
    PROVE  node' \in Seq(NodeRecord) /\ Len(node') = Len(node) /\ Nodes' = Nodes
<1>1. node' \in [1 .. Len(node) -> NodeRecord]
  BY RefChanged DEF Releases, NetType, Nodes, SameUse
<1> QED BY <1>1, SameLength, Zenon DEF NetType, Nodes

LEMMA SocketReleaseKeeps ==
    ASSUME NetInv, SocketRelease
    PROVE  NetInv'
<1>0. sock.copy \in SUBSET Nodes
  BY Zenon DEF NetInv, NetType
<1>1. node' \in Seq(NodeRecord) /\ Len(node') = Len(node) /\ Nodes' = Nodes
  BY <1>0, ReleasesTyped, Zenon DEF NetInv, SocketRelease
<1>2. NetType'
  BY <1>1, Zenon DEF NetInv, NetType, SocketRelease
<1> QED BY <1>0, <1>1, <1>2, ReleaseCovers DEF SocketRelease

LEMMA MessageReleaseKeeps ==
    ASSUME NetInv, MessageRelease
    PROVE  NetInv'
<1>0. msg.copy \in SUBSET Nodes
  BY Zenon DEF NetInv, NetType
<1>1. node' \in Seq(NodeRecord) /\ Len(node') = Len(node) /\ Nodes' = Nodes
  BY <1>0, ReleasesTyped, Zenon DEF NetInv, MessageRelease
<1>2. NetType'
  BY <1>1, Zenon DEF NetInv, NetType, MessageRelease
<1> QED BY <1>0, <1>1, <1>2, ReleaseCovers DEF MessageRelease

(* A handler copies vNodes, with a reference on each node of the copy; a   *)
(* connection may have been accepted just before.                          *)
LEMMA CopyCovers ==
    ASSUME NetInv, opener' = opener, semOutbound' = semOutbound, NetType', Nodes \subseteq Nodes',
           \A n \in Nodes : node'[n] = IF n \in Live THEN AddRef(node[n]) ELSE node[n],
           \A n \in Nodes' \ Nodes : /\ node'[n].pool = "vNodes" /\ node'[n].fInbound
                                     /\ node'[n].nRefCount = 2 /\ ~node'[n].grantOutbound,
           \/ sock'.copy = Live' /\ msg'.copy = msg.copy
           \/ msg'.copy = Live' /\ sock'.copy = sock.copy
    PROVE  NetInv'
<1> USE DEF NetInv
<1>1. ASSUME NEW n \in Nodes
      PROVE  /\ node[n] \in NodeRecord /\ SameUse(node'[n], node[n]) /\ node[n].nRefCount \in Int
             /\ node'[n].nRefCount = node[n].nRefCount + (IF n \in Live THEN 1 ELSE 0)
  <2>1. node[n] \in NodeRecord /\ node'[n] = IF n \in Live THEN AddRef(node[n]) ELSE node[n]
    BY DEF NetType, Nodes
  <2>2. SameUse(node[n], node[n]) /\ node[n].nRefCount \in Int
    BY <2>1, Zenon DEF SameUse, NodeRecord
  <2> QED BY <2>1, <2>2, RefChanged
<1>2. \A n \in Nodes : n \in Live' <=> n \in Live
  BY <1>1, Zenon DEF Live, SameUse
<1>3. ASSUME NEW n \in Nodes PROVE RefsCover(n)'
  <2>1. (Awaited(n)' <=> Awaited(n)) /\ (AwaitedTwice(n)' <=> AwaitedTwice(n))
    BY Zenon DEF Awaited, AwaitedTwice, Granting
  <2>2. /\ Users(n)' <= Users(n) + (IF n \in Live THEN 1 ELSE 0)
        /\ Users(n) \in 0 .. 2 /\ Users(n)' \in 0 .. 2
    BY <1>2 DEF Users
  <2>3. node[n].pool = "vNodes" <=> n \in Live
    BY Zenon DEF Live
  <2> QED BY <1>1, <2>1, <2>2, <2>3 DEF RefsCover, SameUse
<1>4. ASSUME NEW n \in Nodes' \ Nodes PROVE RefsCover(n)' /\ ~Awaited(n)'
  <2>1. ~Awaited(n)' /\ ~AwaitedTwice(n)'
    BY <1>4 DEF Awaited, AwaitedTwice, Granting, NetType
  <2>2. Users(n)' \in 0 .. 1
    BY <1>4 DEF Users, NetType
  <2> QED BY <2>1, <2>2 DEF RefsCover
<1>5. Granted' = Granted /\ Busy' = Busy
  BY <1>1 DEF Granted, Busy, SameUse
<1>6. SlotsEqual'
  BY <1>5, Zenon DEF SlotsEqual
<1>7. OutboundHasSlot'
  BY <1>1, <1>2 DEF OutboundHasSlot, Live, Awaited, Granting, SameUse
<1> QED BY <1>3, <1>4, <1>6, <1>7, Zenon

LEMMA AddRefsTyped ==
    ASSUME NEW s \in Seq(NodeRecord), NEW c
    PROVE  /\ AddRefs(s, c) \in Seq(NodeRecord) /\ Len(AddRefs(s, c)) = Len(s)
           /\ \A n \in 1 .. Len(s) : AddRefs(s, c)[n] = IF n \in c THEN AddRef(s[n]) ELSE s[n]
<1>1. DOMAIN s = 1 .. Len(s)
  OBVIOUS
<1>2. AddRefs(s, c) \in [1 .. Len(s) -> NodeRecord]
  BY <1>1, RefChanged DEF AddRefs, SameUse
<1> QED BY <1>1, <1>2, SameLength DEF AddRefs

LEMMA MessageCopyKeeps ==
    ASSUME NetInv, MessageCopy
    PROVE  NetInv'
<1> USE DEF NetInv
<1>1. /\ node' \in Seq(NodeRecord) /\ Len(node') = Len(node)
      /\ \A n \in Nodes : node'[n] = IF n \in Live THEN AddRef(node[n]) ELSE node[n]
  BY AddRefsTyped DEF MessageCopy, NetType, Nodes
<1>2. Nodes' = Nodes
  BY <1>1 DEF Nodes
<1>3. Live' = Live /\ Live \subseteq Nodes
  <2>1. \A n \in Nodes : node'[n].pool = node[n].pool
    <3>1. \A n \in Nodes : node[n] \in NodeRecord
      BY DEF NetType, Nodes
    <3> QED BY <1>1, <3>1, RefChanged, Zenon DEF SameUse
  <2> QED BY <1>2, <2>1, Zenon DEF Live
<1>4. NetType'
  BY <1>1, <1>2, <1>3 DEF MessageCopy, NetType
<1> QED BY <1>1, <1>2, <1>3, <1>4, CopyCovers, Zenon DEF MessageCopy

LEMMA AcceptKeeps ==
    ASSUME NetInv, AcceptConnection
    PROVE  NetInv'
<1> USE DEF NetInv
<1>0. node \in Seq(NodeRecord)
  BY DEF NetType
<1>1. PICK s, a :
         /\ s = node \/ (a \in Addresses /\ s = Append(node, NewNode(a, TRUE)))
         /\ node' = AddRefs(s, {n \in DOMAIN s : s[n].pool = "vNodes"})
         /\ sock' = [at |-> "serve", copy |-> {n \in DOMAIN s : s[n].pool = "vNodes"},
                                     todo |-> {n \in DOMAIN s : s[n].pool = "vNodes"}]
  BY Zenon DEF AcceptConnection
<1>2. a \in Addresses => NewNode(a, TRUE) \in NodeRecord
  BY DEF NewNode, NodeRecord
<1>3. /\ s \in Seq(NodeRecord) /\ 1 .. Len(node) \subseteq 1 .. Len(s)
      /\ \A n \in 1 .. Len(node) : s[n] = node[n]
      /\ \A n \in 1 .. Len(s) : n \notin 1 .. Len(node) => a \in Addresses /\ s[n] = NewNode(a, TRUE)
  <2>1. CASE s = node
    BY <1>0, <2>1, Zenon
  <2>2. ASSUME a \in Addresses, s = Append(node, NewNode(a, TRUE))
        PROVE  /\ s \in Seq(NodeRecord)
               /\ 1 .. Len(s) = 1 .. Len(node) \cup {Len(node) + 1}
               /\ \A n \in 1 .. Len(node) : s[n] = node[n]
               /\ s[Len(node) + 1] = NewNode(a, TRUE)
    <3>1. PICK e \in NodeRecord : e = NewNode(a, TRUE)
      BY <1>2, <2>2, Zenon
    <3>2. s = Append(node, e)
      BY <2>2, <3>1
    <3>3. /\ Append(node, e) \in Seq(NodeRecord) /\ Len(Append(node, e)) = Len(node) + 1
          /\ 1 .. Len(Append(node, e)) = 1 .. Len(node) \cup {Len(node) + 1}
          /\ \A n \in 1 .. Len(node) : Append(node, e)[n] = node[n]
          /\ Append(node, e)[Len(node) + 1] = e
          /\ Len(node) + 1 \notin 1 .. Len(node)
      BY <1>0, AppendGrows, Zenon
    <3> QED BY <3>1, <3>2, <3>3, Zenon
  <2> QED BY <1>1, <2>1, <2>2, Zenon
<1>4. PICK c : c = {n \in 1 .. Len(s) : s[n].pool = "vNodes"}
  BY Zenon
<1>5. /\ node' = AddRefs(s, c) /\ sock' = [at |-> "serve", copy |-> c, todo |-> c]
  <2>1. DOMAIN s = 1 .. Len(s)
    BY <1>3
  <2>2. c = {n \in DOMAIN s : s[n].pool = "vNodes"}
    BY <1>4, <2>1, Zenon
  <2> QED BY <1>1, <2>2, Zenon
<1>6. /\ node' \in Seq(NodeRecord) /\ Len(node') = Len(s)
      /\ \A n \in 1 .. Len(s) : node'[n] = IF n \in c THEN AddRef(s[n]) ELSE s[n]
  BY <1>3, <1>5, AddRefsTyped
<1>7. Nodes' = 1 .. Len(s) /\ Nodes \subseteq Nodes'
  BY <1>3, <1>6 DEF Nodes
<1>8. c = Live'
  <2>1. \A n \in 1 .. Len(s) : s[n] \in NodeRecord /\ node'[n].pool = s[n].pool
    BY <1>3, <1>6, RefChanged DEF SameUse
  <2> QED BY <1>4, <1>7, <2>1, Zenon DEF Live
<1>9. \A n \in Nodes : node'[n] = IF n \in Live THEN AddRef(node[n]) ELSE node[n]
  BY <1>3, <1>4, <1>6, <1>7, Zenon DEF Live, Nodes
<1>10. ASSUME NEW n \in Nodes' \ Nodes
       PROVE  /\ node'[n].pool = "vNodes" /\ node'[n].fInbound
              /\ node'[n].nRefCount = 2 /\ ~node'[n].grantOutbound
  <2>1. a \in Addresses /\ s[n] = NewNode(a, TRUE) /\ s[n] \in NodeRecord
    BY <1>2, <1>3, <1>7, Zenon DEF Nodes
  <2>2. /\ s[n].pool = "vNodes" /\ s[n].fInbound /\ s[n].nRefCount = 1 /\ s[n].grantOutbound = FALSE
    BY <2>1 DEF NewNode
  <2>3. node'[n] = AddRef(s[n])
    BY <1>4, <1>6, <1>7, <2>2
  <2>4. SameUse(AddRef(s[n]), s[n]) /\ AddRef(s[n]).nRefCount = s[n].nRefCount + 1
    BY <2>1, RefChanged, Zenon
  <2> QED BY <2>2, <2>3, <2>4 DEF SameUse
<1>11. NetType'
  <2>1. c \subseteq Nodes'
    BY <1>8 DEF Live
  <2> QED BY <1>5, <1>6, <1>7, <2>1, Zenon DEF NetType, AcceptConnection
<1> QED BY <1>5, <1>7, <1>8, <1>9, <1>10, <1>11, CopyCovers, Zenon DEF AcceptConnection
-----------------------------------------------------------------------------
(* The message handler.                                                    *)

LEMMA ChooseKeeps ==
    ASSUME NetInv, ChooseSync
    PROVE  NetInv'
<1>1. /\ msg' \in [at : {"copy", "choose", "start", "talk"}, copy : SUBSET Nodes,
                   todo : SUBSET Nodes, candidate : Nat \cup {None}]
      /\ msg'.copy = msg.copy /\ msg'.todo = msg.todo
      /\ msg'.at = "start" => msg'.candidate \in msg.copy
  <2>0. msg.copy \subseteq Nat
    BY DEF NetInv, NetType, Nodes
  <2>1. \/ msg' = [msg EXCEPT !.at = "talk"]
        \/ \E n \in msg.copy : msg' = [msg EXCEPT !.at = "start", !.candidate = n]
    BY Zenon DEF ChooseSync
  <2> QED BY <2>0, <2>1, Zenon DEF NetInv, NetType
<1>2. Nodes' = Nodes /\ Busy' = Busy /\ \A o \in Openers, n \in Nodes : Granting(o, n)' <=> Granting(o, n)
  BY Zenon DEF Nodes, Busy, Granting, ChooseSync
<1>3. NetType'
  BY <1>1, <1>2, Zenon DEF NetInv, NetType, ChooseSync
<1> QED BY <1>1, <1>2, <1>3, KeptRefs, Zenon DEF ChooseSync

(* A step of the message handler that changes, of one node, neither its    *)
(* references nor its grant nor the list it is in.                         *)
LEMMA TouchKeeps ==
    ASSUME NetInv, NEW m \in Nodes, NEW r, node' = node \/ node' = [node EXCEPT ![m] = r],
           SameUse(r, node[m]), r.nRefCount = node[m].nRefCount,
           UNCHANGED <<semOutbound, opener, sock>>, msg'.copy = msg.copy,
           msg' \in [at : {"copy", "choose", "start", "talk"}, copy : SUBSET Nodes,
                     todo : SUBSET Nodes, candidate : Nat \cup {None}],
           msg'.todo \subseteq msg.todo, msg'.at # "start"
    PROVE  NetInv'
<1> USE DEF NetInv
<1>1. ASSUME NEW n \in Nodes
      PROVE  SameUse(node'[n], node[n]) /\ node'[n].nRefCount = node[n].nRefCount
  <2>1. node'[n] = node[n] \/ (n = m /\ node'[n] = r)
    BY DEF NetType, Nodes
  <2>2. SameUse(node[n], node[n])
    BY DEF NetType, Nodes, SameUse
  <2> QED BY <2>1, <2>2, Zenon
<1>2. node' \in Seq(NodeRecord) /\ Len(node') = Len(node) /\ Nodes' = Nodes
  <2>1. node \in [1 .. Len(node) -> NodeRecord]
    BY DEF NetType
  <2>2. node' \in [1 .. Len(node) -> NodeRecord]
    BY <2>1, Zenon DEF SameUse
  <2> QED BY <2>2, SameLength DEF NetType, Nodes
<1>3. NetType'
  BY <1>2, Zenon DEF NetType
<1>4. Busy' = Busy /\ \A o \in Openers, n \in Nodes : Granting(o, n)' <=> Granting(o, n)
  BY Zenon DEF Busy, Granting
<1> QED BY <1>1, <1>2, <1>3, <1>4, KeptRefs, Zenon DEF SameUse

LEMMA StartKeeps ==
    ASSUME NetInv, StartSync
    PROVE  NetInv'
<1> USE DEF NetInv
<1>1. msg.candidate \in Nodes
  BY DEF NetType, StartSync
<1>2. PICK m \in Nodes : m = msg.candidate /\ node[m] \in NodeRecord
  BY <1>1 DEF NetType, Nodes
<1>3. PICK r : r = [node[m] EXCEPT !.fStartSync = TRUE]
  BY Zenon
<1>4. SameUse(r, node[m]) /\ r.nRefCount = node[m].nRefCount
  BY <1>2, <1>3, Zenon DEF SameUse, NodeRecord
<1>5. node' = [node EXCEPT ![m] = r]
  BY <1>2, <1>3 DEF StartSync
<1>6. /\ msg' \in [at : {"copy", "choose", "start", "talk"}, copy : SUBSET Nodes,
                   todo : SUBSET Nodes, candidate : Nat \cup {None}]
      /\ msg'.copy = msg.copy /\ msg'.todo = msg.todo /\ msg'.at = "talk"
  BY Zenon DEF NetType, StartSync
<1>7. UNCHANGED <<semOutbound, opener, sock>>
  BY DEF StartSync
<1> QED BY <1>4, <1>5, <1>6, <1>7, TouchKeeps, Zenon

LEMMA TalkKeeps ==
    ASSUME NetInv, Talk
    PROVE  NetInv'
<1> USE DEF NetInv
<1>1. PICK m \in msg.todo :
         LET sent == [node[m] EXCEPT !.fStartSync = @ /\ ~node[m].fSuccessfullyConnected] IN
         /\ msg' = [msg EXCEPT !.todo = @ \ {m}]
         /\ \/ node' = node
            \/ node' = [node EXCEPT ![m] = [sent EXCEPT !.fSuccessfullyConnected = TRUE]]
            \/ node' = [node EXCEPT ![m] = Flagged(sent)]
            \/ node' = [node EXCEPT ![m] = Closed(sent)]
  BY Zenon DEF Talk
<1>2. m \in Nodes /\ node[m] \in NodeRecord
  BY DEF NetType, Nodes
<1>3. PICK b \in BOOLEAN : b = (node[m].fStartSync /\ ~node[m].fSuccessfullyConnected)
  BY <1>2, Zenon DEF NodeRecord
<1>4. PICK sent : sent = [node[m] EXCEPT !.fStartSync = b]
  BY Zenon
<1>5. SameUse(sent, node[m]) /\ sent.nRefCount = node[m].nRefCount
  BY <1>2, <1>3, <1>4, Zenon DEF SameUse, NodeRecord
<1>6. sent = [node[m] EXCEPT !.fStartSync = @ /\ ~node[m].fSuccessfullyConnected]
  BY <1>3, <1>4
<1>7. PICK r : /\ node' = node \/ node' = [node EXCEPT ![m] = r]
               /\ \/ r = [sent EXCEPT !.fSuccessfullyConnected = TRUE]
                  \/ r = Flagged(sent)
                  \/ r = Closed(sent)
  BY <1>1, <1>6
<1>8. SameUse(r, node[m]) /\ r.nRefCount = node[m].nRefCount
  <2>1. sent \in NodeRecord
    BY <1>5 DEF SameUse
  <2>2. SameUse(r, sent) /\ r.nRefCount = sent.nRefCount
    BY <1>7, <2>1, Zenon DEF Closed, Flagged, SameUse, NodeRecord
  <2> QED BY <1>5, <2>2 DEF SameUse
<1>9. /\ msg' \in [at : {"copy", "choose", "start", "talk"}, copy : SUBSET Nodes,
                   todo : SUBSET Nodes, candidate : Nat \cup {None}]
      /\ msg'.copy = msg.copy /\ msg'.todo \subseteq msg.todo /\ msg'.at = "talk"
  BY <1>1, Zenon DEF NetType, Talk
<1>10. UNCHANGED <<semOutbound, opener, sock>>
  BY DEF Talk
<1> QED BY <1>2, <1>7, <1>8, <1>9, <1>10, TouchKeeps
-----------------------------------------------------------------------------
(* The invariant holds, whatever the threads do. *)
LEMMA NetInvInit == NetInit => NetInv
<1> SUFFICES ASSUME NetInit PROVE NetInv
  OBVIOUS
<1>1. Nodes = {} /\ node \in Seq(NodeRecord)
  BY DEF NetInit, Nodes
<1>2. Busy = {} /\ Granted = {} /\ Live = {}
  BY <1>1, Zenon DEF NetInit, Busy, Granted, NetIdle, OpenerAt, Live
<1>3. NetType
  BY <1>1, NetAssumption, Zenon DEF NetInit, NetType, OpenerRecord, NetIdle, OpenerAt
<1>4. SlotsEqual
  <2>1. Cardinality(Busy) = 0 /\ Cardinality(Granted) = 0
    BY <1>2, FS_EmptySet, Zenon
  <2> QED BY <2>1, NetAssumption DEF NetInit, SlotsEqual
<1> QED BY <1>1, <1>2, <1>3, <1>4 DEF NetInv, OutboundHasSlot

LEMMA NetInvStep == NetInv /\ [NetNext]_nvars => NetInv'
<1> SUFFICES ASSUME NetInv, [NetNext]_nvars PROVE NetInv'
  OBVIOUS
<1>1. ASSUME NEW o \in Openers,
             \/ OpenNetworkConnection(o) \/ FindExisting(o)
             \/ AddRefExisting(o) \/ Dial(o) \/ MoveGrant(o)
      PROVE  NetInv'
  BY <1>1, OpenKeeps, FindKeeps, AddRefKeeps, DialKeeps, GrantKeeps
<1>2. CASE SocketNext
  BY <1>2, SweepKeeps, AcceptKeeps, ServeKeeps, SocketReleaseKeeps DEF SocketNext
<1>3. CASE MessageNext
  BY <1>3, MessageCopyKeeps, ChooseKeeps, StartKeeps, TalkKeeps, MessageReleaseKeeps, Zenon DEF MessageNext
<1>4. CASE BanExpires \/ UNCHANGED nvars
  <2>1. UNCHANGED <<node, semOutbound, opener, sock, msg>>
    BY <1>4, Zenon DEF BanExpires, nvars
  <2>2. NetType' /\ Nodes' = Nodes /\ Busy' = Busy
    BY <2>1, Zenon DEF NetInv, NetType, Nodes, Busy
  <2>3. \A o \in Openers, n \in Nodes : Granting(o, n)' <=> Granting(o, n)
    BY <2>1, Zenon DEF Granting
  <2> QED BY <2>1, <2>2, <2>3, KeptRefs
<1> QED BY <1>1, <1>2, <1>3, <1>4 DEF NetNext, OpenNext

(* There are at most as many live outbound connections as grants outside   *)
(* the semaphore: each has its own, or one of the threads is bringing it.  *)
LEMMA OutboundBounded ==
    ASSUME NetInv
    PROVE  Cardinality({n \in Live : ~node[n].fInbound}) <= MaxOutbound
<1> USE DEF NetInv
<1>1. PICK out, waiting : /\ out = {n \in Live : ~node[n].fInbound}
                          /\ waiting = {n \in Nodes : Awaited(n)}
  BY Zenon
<1>2. out \in SUBSET (Granted \cup waiting)
  BY <1>1, Zenon DEF OutboundHasSlot, Granted, Live
<1>3. IsFiniteSet(waiting) /\ Cardinality(waiting) \in Nat /\ Cardinality(waiting) <= Cardinality(Busy)
  <2>1. PICK ready \in SUBSET Busy : ready = {o \in Openers : opener[o].at = "grant"}
    BY Zenon DEF Busy
  <2>2. PICK f : f = [o \in ready |-> opener[o].node]
    BY Zenon
  <2>3. f \in Surjection(ready, waiting)
    BY <1>1, <2>1, <2>2 DEF Surjection, Awaited, Granting, NetType
  <2>4. IsFiniteSet(ready) /\ Cardinality(ready) <= Cardinality(Busy) /\ Cardinality(ready) \in Nat
    BY NetFinite, FS_Subset, FS_CardinalityType
  <2>5. IsFiniteSet(waiting) /\ Cardinality(waiting) <= Cardinality(ready)
    BY <2>3, <2>4, FS_Surjection, Zenon DEF ExistsSurjection
  <2> QED BY <2>4, <2>5, NetFinite, FS_CardinalityType
<1>4. /\ IsFiniteSet(Granted \cup waiting)
      /\ Cardinality(Granted \cup waiting) <= Cardinality(Granted) + Cardinality(waiting)
      /\ Cardinality(Granted \cup waiting) \in Nat
  <2>1. /\ IsFiniteSet(Granted \cup waiting)
        /\ Cardinality(Granted \cup waiting) =
             Cardinality(Granted) + Cardinality(waiting) - Cardinality(Granted \cap waiting)
    BY <1>3, NetFinite, FS_Union, Zenon
  <2>2. Granted \cap waiting \in SUBSET Granted
    OBVIOUS
  <2>3. Cardinality(Granted \cap waiting) \in Nat
    BY <2>2, NetFinite, FS_Subset, FS_CardinalityType
  <2> QED BY <1>3, <2>1, <2>3, NetFinite, FS_CardinalityType
<1>5. Cardinality(out) <= Cardinality(Granted \cup waiting) /\ Cardinality(out) \in Nat
  BY <1>2, <1>4, FS_Subset, FS_CardinalityType
<1> QED BY <1>1, <1>3, <1>4, <1>5, NetFinite, NetAssumption DEF SlotsEqual, NetType

LEMMA NetInvAccounts == NetInv => NodesAccounted
<1> SUFFICES ASSUME NetInv PROVE NodesAccounted
  BY Zenon
<1> USE DEF NetInv
<1>1. NodesAlive
  <2>1. \A n \in Nodes : /\ node[n].nRefCount >= Users(n)
                         /\ n \in Live => node[n].nRefCount > Users(n)
    BY Zenon DEF RefsCover, Live
  <2>2. \A n \in sock.copy \cup msg.copy : node[n].pool # "deleted"
    BY DEF RefsCover, Users, NetType
  <2>3. \A o \in Openers : opener[o].at = "grant" => node[opener[o].node].pool # "deleted"
    BY Zenon DEF RefsCover, Awaited, Granting, NetType
  <2> QED BY <2>1, <2>2, <2>3, Zenon DEF NodesAlive, Live
<1>2. SlotsConserved
  BY OutboundBounded DEF SlotsEqual, SlotsConserved, Busy, Granted
<1> QED BY <1>1, <1>2 DEF NodesAccounted

(* No CNode is deleted while a handler has it in its copy of vNodes or an  *)
(* opening thread is about to give it its grant, and every outbound slot   *)
(* is free, with an opening thread, or with one node (AddRef, Release,     *)
(* CSemaphoreGrant and the sweep of ThreadSocketHandler), for any number   *)
(* of threads, peers and slots.                                            *)
THEOREM NodesAlwaysAccounted == NetSpec => []NodesAccounted
  BY NetInvInit, NetInvStep, NetInvAccounts, PTL DEF NetSpec
=============================================================================
