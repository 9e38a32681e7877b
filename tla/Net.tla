--------------------------------- MODULE Net ---------------------------------
(***************************************************************************)
(* The life of connections (net.cpp, net.h): the threads that open them,   *)
(* the socket handler that accepts, serves, drops and deletes them, the    *)
(* message handler that talks through them and chooses the node to         *)
(* download the chain from.                                                *)
(*                                                                         *)
(* A CNode is an element of the sequence node and is never reused; where   *)
(* it is (vNodes, vNodesDisconnected, deleted) is its field pool.          *)
(* Everything done under one holding of cs_vNodes is one step, and a loop  *)
(* over a copy of vNodes is one step per node.  An inbound peer's port is  *)
(* never the port it listens on, so only another opening thread can make   *)
(* ConnectNode find a connection.  ConnectNode's increment of nRefCount    *)
(* outside cs_vNodes is taken to be atomic.                                *)
(***************************************************************************)
EXTENDS Integers, Sequences, FiniteSets

CONSTANTS Openers,            \* ThreadOpenConnections, ThreadOpenAddedConnections
          Addresses,
          MaxOutbound,        \* MAX_OUTBOUND_CONNECTIONS
          MaxInbound,         \* nMaxConnections - MAX_OUTBOUND_CONNECTIONS
          MaxNode,            \* bound on the connections ever made
          None

ASSUME NetAssumption == IsFiniteSet(Openers) /\ MaxOutbound \in Nat /\ None \notin Nat

VARIABLES node, semOutbound, opener, sock, msg, pnodeSync, setBanned

nvars == <<node, semOutbound, opener, sock, msg, pnodeSync, setBanned>>

Nodes == 1 .. Len(node)

Live == {n \in Nodes : node[n].pool = "vNodes"}

NewNode(a, inbound) ==
    [addr |-> a, fInbound |-> inbound, fNetworkNode |-> FALSE, fDisconnect |-> FALSE,
     socket |-> TRUE, nRefCount |-> 1, grantOutbound |-> FALSE,
     fSuccessfullyConnected |-> FALSE, fStartSync |-> FALSE, pool |-> "vNodes"]

AddRef(r) == [r EXCEPT !.nRefCount = @ + 1]
Release(r) == [r EXCEPT !.nRefCount = @ - 1]

\* An opening thread: where it is, the address it opens, the node it has found.
OpenerAt(l, a, n) == [at |-> l, addr |-> a, node |-> n]
NetIdle == OpenerAt("idle", None, None)

NetInit ==
    /\ node = <<>>
    /\ semOutbound = MaxOutbound
    /\ opener = [o \in Openers |-> NetIdle]
    /\ sock = [at |-> "sweep", copy |-> {}, todo |-> {}]
    /\ msg = [at |-> "copy", copy |-> {}, todo |-> {}, candidate |-> None]
    /\ pnodeSync = None
    /\ setBanned = {}

-----------------------------------------------------------------------------
(* Opening.                                                                *)

\* FindNode over the live connections: by address, or by address and port.
FindNode(a) == {n \in Live : node[n].addr = a}

FindService(a) == {n \in FindNode(a) : ~node[n].fInbound}

\* The destructor of an unmoved CSemaphoreGrant.
GiveUp(o) ==
    /\ semOutbound' = semOutbound + 1
    /\ opener' = [opener EXCEPT ![o] = NetIdle]

\* A slot is taken, an address is chosen, and OpenNetworkConnection goes on unless
\* it is connected or banned (otherwise the slot is given back at once).
OpenNetworkConnection(o) ==
    /\ opener[o].at = "idle" /\ semOutbound > 0
    /\ \E a \in Addresses :
          /\ FindNode(a) = {} /\ a \notin setBanned
          /\ opener' = [opener EXCEPT ![o] = OpenerAt("find", a, None)]
    /\ semOutbound' = semOutbound - 1
    /\ UNCHANGED <<node, sock, msg, pnodeSync, setBanned>>

\* ConnectNode: an existing connection, whose reference is taken later ...
FindExisting(o) ==
    /\ opener[o].at = "find"
    /\ LET a == opener[o].addr IN
       IF FindService(a) = {} THEN opener' = [opener EXCEPT ![o] = OpenerAt("dial", a, None)]
       ELSE \E n \in FindService(a) : opener' = [opener EXCEPT ![o] = OpenerAt("addref", a, n)]
    /\ UNCHANGED <<node, semOutbound, sock, msg, pnodeSync, setBanned>>

\* ... what happens to memory that was freed in between is undefined: no step.
AddRefExisting(o) ==
    /\ opener[o].at = "addref" /\ node[opener[o].node].pool # "deleted"
    /\ node' = [node EXCEPT ![opener[o].node] = AddRef(@)]
    /\ opener' = [opener EXCEPT ![o] = OpenerAt("grant", opener[o].addr, opener[o].node)]
    /\ UNCHANGED <<semOutbound, sock, msg, pnodeSync, setBanned>>

\* ... or a new one, which is in vNodes before it has its grant.
Dial(o) ==
    /\ opener[o].at = "dial"
    /\ \/ GiveUp(o) /\ UNCHANGED node
       \/ /\ Len(node) < MaxNode
          /\ node' = Append(node, NewNode(opener[o].addr, FALSE))
          /\ opener' = [opener EXCEPT ![o] = OpenerAt("grant", opener[o].addr, Len(node) + 1)]
          /\ UNCHANGED semOutbound
    /\ UNCHANGED <<sock, msg, pnodeSync, setBanned>>

WithGrant(r) == [r EXCEPT !.grantOutbound = TRUE, !.fNetworkNode = TRUE]

\* MoveTo releases the grant the node already holds, if any.
MoveGrant(o) ==
    LET n == opener[o].node IN
    /\ opener[o].at = "grant"
    /\ semOutbound' = semOutbound + (IF node[n].grantOutbound THEN 1 ELSE 0)
    /\ node' = [node EXCEPT ![n] = WithGrant(@)]
    /\ opener' = [opener EXCEPT ![o] = NetIdle]
    /\ UNCHANGED <<sock, msg, pnodeSync, setBanned>>

-----------------------------------------------------------------------------
(* The socket handler.                                                     *)

Flagged(r) == [r EXCEPT !.fDisconnect = TRUE]

\* CloseSocketDisconnect, on the record of a node; SyncAfter is its last line.
Closed(r) == [r EXCEPT !.fDisconnect = TRUE, !.socket = FALSE]

SyncAfter(closed) == IF pnodeSync \in closed THEN None ELSE pnodeSync

\* Nodes the sweep drops.  A node without references and traffic is dropped too,
\* but a live node always has one.
Dropped == {n \in Live : node[n].fDisconnect \/ node[n].nRefCount <= 0}

Drop(r) ==
    [Closed(r) EXCEPT !.pool = "vNodesDisconnected", !.grantOutbound = FALSE,
                      !.nRefCount = IF r.fNetworkNode \/ r.fInbound THEN @ - 1 ELSE @]

\* A disconnected node without references is deleted, with the grant it may hold.
Destroyed(r) ==
    IF r.pool = "vNodesDisconnected" /\ r.nRefCount <= 0
    THEN [r EXCEPT !.pool = "deleted", !.grantOutbound = FALSE] ELSE r

Sweep ==
    /\ sock.at = "sweep"
    /\ node' = [n \in Nodes |-> Destroyed(IF n \in Dropped THEN Drop(node[n]) ELSE node[n])]
    /\ semOutbound' = semOutbound
         + Cardinality({n \in Nodes : node[n].grantOutbound /\ ~node'[n].grantOutbound})
    /\ pnodeSync' = SyncAfter(Dropped)
    /\ sock' = [sock EXCEPT !.at = "accept"]
    /\ UNCHANGED <<opener, msg, setBanned>>

(* The variant copies vNodes without taking references. *)
NoRefs(nodes, S) == nodes
AddRefs(nodes, S) ==
    [n \in DOMAIN nodes |-> IF n \in S THEN AddRef(nodes[n]) ELSE nodes[n]]

Releases(S) == [n \in Nodes |-> IF n \in S THEN Release(node[n]) ELSE node[n]]

\* A connection is accepted, if there is one, then vNodes is copied for this round.
AcceptConnection ==
    /\ sock.at = "accept"
    /\ \E a \in Addresses \cup {None} :
          LET refused == \/ a = None \/ Len(node) >= MaxNode
                         \/ Cardinality({n \in Live : node[n].fInbound}) >= MaxInbound
                         \/ a \in setBanned
              nodes == IF refused THEN node ELSE Append(node, NewNode(a, TRUE))
              copy == {n \in DOMAIN nodes : nodes[n].pool = "vNodes"}
          IN  /\ node' = AddRefs(nodes, copy)
              /\ sock' = [at |-> "serve", copy |-> copy, todo |-> copy]
    /\ UNCHANGED <<semOutbound, opener, msg, pnodeSync, setBanned>>

\* Receive and send; the peer may have gone, or been silent for too long.
SocketServe ==
    /\ sock.at = "serve"
    /\ \E n \in sock.todo :
          /\ \A m \in sock.todo : n <= m
          /\ sock' = [sock EXCEPT !.todo = @ \ {n}]
          /\ \/ UNCHANGED <<node, pnodeSync>>
             \/ /\ node[n].socket
                /\ node' = [node EXCEPT ![n] = Closed(@)]
                /\ pnodeSync' = SyncAfter({n})
             \/ /\ node[n].socket
                /\ node' = [node EXCEPT ![n] = Flagged(@)]
                /\ UNCHANGED pnodeSync
    /\ UNCHANGED <<semOutbound, opener, msg, setBanned>>

SocketRelease ==
    /\ sock.at = "serve" /\ sock.todo = {}
    /\ node' = Releases(sock.copy)
    /\ sock' = [at |-> "sweep", copy |-> {}, todo |-> {}]
    /\ UNCHANGED <<semOutbound, opener, msg, pnodeSync, setBanned>>

-----------------------------------------------------------------------------
(* The message handler.                                                    *)

(* The variant trusts the pointer without looking for it in vNodes. *)
HaveSyncPointer == pnodeSync # None
fHaveSyncNode == pnodeSync \in Live

MessageCopy ==
    /\ msg.at = "copy"
    /\ node' = AddRefs(node, Live)
    /\ msg' = [at |-> IF fHaveSyncNode THEN "talk" ELSE "choose",
               copy |-> Live, todo |-> Live, candidate |-> None]
    /\ UNCHANGED <<semOutbound, opener, sock, pnodeSync, setBanned>>

\* What StartSync asks of a node: connected, not going away (the heights and the
\* services of the peers are left open).
Suitable(n) == node[n].fSuccessfullyConnected /\ ~node[n].fDisconnect

ChooseSync ==
    /\ msg.at = "choose"
    /\ LET c == {n \in msg.copy : Suitable(n)} IN
       IF c = {} THEN msg' = [msg EXCEPT !.at = "talk"]
       ELSE \E n \in c : msg' = [msg EXCEPT !.at = "start", !.candidate = n]
    /\ UNCHANGED <<node, semOutbound, opener, sock, pnodeSync, setBanned>>

\* By now the candidate may have been closed, dropped, or both.
StartSync ==
    /\ msg.at = "start"
    /\ node' = [node EXCEPT ![msg.candidate].fStartSync = TRUE]
    /\ pnodeSync' = msg.candidate
    /\ msg' = [msg EXCEPT !.at = "talk", !.candidate = None]
    /\ UNCHANGED <<semOutbound, opener, sock, setBanned>>

\* ProcessMessages and SendMessages for a node of the copy.  The handshake makes
\* it suitable; a message may cost it its connection and, if the peer has
\* misbehaved, its address a ban; SendMessages starts the download.
Talk ==
    /\ msg.at = "talk"
    /\ \E n \in msg.todo :
          /\ \A m \in msg.todo : n <= m
          /\ msg' = [msg EXCEPT !.todo = @ \ {n}]
          /\ LET sent == [node[n] EXCEPT !.fStartSync = @ /\ ~node[n].fSuccessfullyConnected] IN
             \/ /\ node[n].fDisconnect
                /\ UNCHANGED <<node, pnodeSync, setBanned>>
             \/ /\ ~node[n].fDisconnect
                /\ node' = [node EXCEPT ![n] = [sent EXCEPT !.fSuccessfullyConnected = TRUE]]
                /\ UNCHANGED <<pnodeSync, setBanned>>
             \/ /\ ~node[n].fDisconnect
                /\ node' = [node EXCEPT ![n] = Flagged(sent)]
                /\ UNCHANGED <<pnodeSync, setBanned>>
             \/ /\ ~node[n].fDisconnect
                /\ node' = [node EXCEPT ![n] = Closed(sent)]
                /\ pnodeSync' = SyncAfter({n})
                /\ setBanned' = setBanned \cup {node[n].addr}
    /\ UNCHANGED <<semOutbound, opener, sock>>

MessageRelease ==
    /\ msg.at = "talk" /\ msg.todo = {}
    /\ node' = Releases(msg.copy)
    /\ msg' = [at |-> "copy", copy |-> {}, todo |-> {}, candidate |-> None]
    /\ UNCHANGED <<semOutbound, opener, sock, pnodeSync, setBanned>>

\* IsBanned compares the time of the ban with the clock.
BanExpires ==
    /\ setBanned # {}
    /\ setBanned' = {}
    /\ UNCHANGED <<node, semOutbound, opener, sock, msg, pnodeSync>>

OpenNext ==
    \E o \in Openers : \/ OpenNetworkConnection(o) \/ FindExisting(o)
                       \/ AddRefExisting(o) \/ Dial(o) \/ MoveGrant(o)

SocketNext == Sweep \/ AcceptConnection \/ SocketServe \/ SocketRelease

MessageNext == MessageCopy \/ ChooseSync \/ StartSync \/ Talk \/ MessageRelease

NetNext == OpenNext \/ SocketNext \/ MessageNext \/ BanExpires

NetSpec == NetInit /\ [][NetNext]_nvars

-----------------------------------------------------------------------------

\* The handler threads that hold a node in their copy of vNodes.
Users(n) == (IF n \in sock.copy THEN 1 ELSE 0) + (IF n \in msg.copy THEN 1 ELSE 0)

\* No thread ever touches a deleted CNode: whatever a thread holds, in a copy of
\* vNodes or between connecting and moving the grant, has a reference that keeps
\* the sweep from deleting it, and GetRefCount's assertion holds.  (The one
\* exception is a thread that ConnectNode sends to a connection found by
\* FindNode, until it has taken its reference.)
NodesAlive ==
    /\ \A n \in Nodes : node[n].nRefCount >= Users(n)
    /\ \A n \in sock.copy \cup msg.copy : node[n].pool # "deleted"
    /\ \A o \in Openers : opener[o].at = "grant" => node[opener[o].node].pool # "deleted"
    /\ \A n \in Live : node[n].nRefCount > Users(n)

\* Every outbound slot is free, with a thread that is opening a connection, or
\* with one node; so there are never more outbound connections than slots
\* (CSemaphoreGrant, ThreadOpenConnections, the sweep).
SlotsConserved ==
    /\ semOutbound + Cardinality({o \in Openers : opener[o].at # "idle"})
         + Cardinality({n \in Nodes : node[n].grantOutbound}) = MaxOutbound
    /\ Cardinality({n \in Live : ~node[n].fInbound}) <= MaxOutbound

\* A CNode is not deleted while a thread uses it, and every outbound slot is free,
\* with a thread that is opening a connection, or with one node (net.cpp).
NodesAccounted == NodesAlive /\ SlotsConserved

\* The download of the chain never rests on a node that is gone: again and again
\* there is no suitable connection, or the synchronisation node is a live one
\* (StartSync, CloseSocketDisconnect, ThreadMessageHandler).
SyncGoesOn == []<>(pnodeSync \in Live \/ {n \in Live : Suitable(n)} = {})

\* "release outbound grant (if any)": a node that has left vNodes holds no slot.
GrantsReleased == \A n \in Nodes : node[n].pool # "vNodes" => ~node[n].grantOutbound

=============================================================================
