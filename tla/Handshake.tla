----------------------------- MODULE Handshake ------------------------------
(***************************************************************************)
(* How two nodes come to speak one version of the protocol (main.cpp:       *)
(* ProcessMessage for version, verack, addr, getaddr and ping, SendMessages; *)
(* net.cpp: PushVersion; net.h: CNode, SetRecvVersion).                      *)
(*                                                                         *)
(* A link is a connection made by node From[l] to node To[l], which may be  *)
(* the same one.  An end of a link is a CNode of the node at that side.  A  *)
(* message is written with the version of ssSend, and read with the version *)
(* its CNetMessage has.  The socket thread moves messages from the wire     *)
(* into vRecvMsg, the message handler takes them out, on their own time.    *)
(***************************************************************************)
EXTENDS Integers, Sequences, FiniteSets, NetAddr

CONSTANTS Links, From, To,
          Version,          \* node -> PROTOCOL_VERSION of its program
          OneShot,          \* the links made with fOneShot
          MinProto,         \* MIN_PROTO_VERSION, also the version before verack
          AddrTime,         \* CADDR_TIME_VERSION
          MaxEvents         \* bound: connections, pings, address broadcasts and
                            \* messages of another program, together

VARIABLES
    cnode,    \* end -> CNode, see NewCNode
    wire,     \* end -> the messages on their way to it
    inbox,    \* end -> vRecvMsg, each message with the version to read it with
    nonce,    \* node -> nLocalHostNonce
    nonces,   \* nonces drawn so far
    book,     \* node -> the addresses its network_peer_manager was given
    refresh,  \* node -> address broadcasts so far
    events,   \* how many of the events MaxEvents bounds there were
    misread   \* a message was read with another version than it was written with

hvars == <<cnode, wire, inbox, nonce, nonces, book, refresh, events, misread>>

Ends == Links \X {"out", "in"}
NodeAt(e) == IF e[2] = "out" THEN From[e[1]] ELSE To[e[1]]
Far(e) == <<e[1], IF e[2] = "out" THEN "in" ELSE "out">>
HostNodes == {NodeAt(e) : e \in Ends}

\* CNode::CNode, before a connection is made.
NewCNode == [open |-> FALSE, nVersion |-> 0, ssSend |-> MinProto, nRecvVersion |-> MinProto,
            fSuccessfullyConnected |-> FALSE, fDisconnect |-> FALSE, fGetAddr |-> FALSE,
            vAddrToSend |-> {}, setAddrKnown |-> {}, misbehaving |-> 0]

ShakeInit ==
    /\ cnode = [e \in Ends |-> NewCNode]
    /\ wire = [e \in Ends |-> <<>>] /\ inbox = [e \in Ends |-> <<>>]
    /\ nonce = [n \in HostNodes |-> 0] /\ nonces = 0
    /\ book = [n \in HostNodes |-> {}] /\ refresh = [n \in HostNodes |-> 0]
    /\ events = 0 /\ misread = FALSE

Lesser(a, b) == IF a < b THEN a ELSE b

\* PushMessage with the version of the stream.
Message(e, c, type) ==
    [type |-> type, ver |-> c.ssSend, version |-> Version[NodeAt(e)], nonce |-> 0, addrs |-> {}]

\* CNode::PushAddress.
PushAddress(c, addrs) == [c EXCEPT !.vAddrToSend = @ \cup (addrs \ c.setAddrKnown)]

\* PushVersion: a new nonce replaces the node's only one.
PushVersion(e) ==
    /\ nonces' = nonces + 1
    /\ nonce' = [nonce EXCEPT ![NodeAt(e)] = nonces + 1]
VersionMessage(e, c) == [Message(e, c, "version") EXCEPT !.nonce = nonces + 1]

Happen(k) == events + k <= MaxEvents /\ events' = events + k

\* ConnectNode, and accept at the other side.
Connect(l) ==
    LET e == <<l, "out">> IN
    /\ ~cnode[e].open /\ Happen(1)
    /\ cnode' = [cnode EXCEPT ![e].open = TRUE, ![Far(e)].open = TRUE]
    /\ PushVersion(e)
    /\ wire' = [wire EXCEPT ![Far(e)] = Append(@, VersionMessage(e, NewCNode))]
    /\ UNCHANGED <<inbox, book, refresh, misread>>

\* ReceiveMsgBytes: the message is queued with the version of the moment.
ReceiveMsg(e) ==
    /\ cnode[e].open /\ ~cnode[e].fDisconnect /\ wire[e] # <<>>
    /\ inbox' = [inbox EXCEPT ![e] = Append(@, [m |-> Head(wire[e]), ver |-> cnode[e].nRecvVersion])]
    /\ wire' = [wire EXCEPT ![e] = Tail(@)]
    /\ UNCHANGED <<cnode, nonce, nonces, book, refresh, events, misread>>

-----------------------------------------------------------------------------
(* ProcessMessage: the node after it, and what it sends.                   *)

Misbehaving(c) == [c EXCEPT !.misbehaving = @ + 1]

Result(c, out) == [c |-> c, out |-> out, greet |-> FALSE]

\* version: an obsolete peer and the node itself are disconnected; otherwise
\* reply with a version (inbound) and a verack, from then on with the version
\* agreed, and (outbound) tell the own address and ask for more.
OnVersion(e, c, m) ==
    LET n == NodeAt(e)
        inbound == e[2] = "in"
        heard == [c EXCEPT !.nVersion = m.version]
        agreed == [heard EXCEPT !.ssSend = Lesser(m.version, Version[n]),
                                !.fSuccessfullyConnected = TRUE]
        ask == ~inbound /\ (e[1] \in OneShot \/ m.version >= AddrTime)
        answer == (IF inbound THEN <<VersionMessage(e, heard)>> ELSE <<>>)
                      \o <<Message(e, heard, "verack")>>
                      \o (IF ask THEN <<Message(e, agreed, "getaddr")>> ELSE <<>>)
    IN  IF c.nVersion # 0 THEN Result(Misbehaving(c), <<>>)
        ELSE IF m.version < MinProto \/ (m.nonce = nonce[n] /\ m.nonce > 0)
             THEN Result([heard EXCEPT !.fDisconnect = TRUE], <<>>)
        ELSE [c |-> IF inbound THEN agreed
                    ELSE PushAddress([agreed EXCEPT !.fGetAddr = ask], {n}),
              out |-> answer, greet |-> inbound]

\* The other messages, of which one before the version is misbehaviour.
OnOther(e, c, m) ==
    CASE c.nVersion = 0 -> Result(Misbehaving(c), <<>>)
      [] c.nVersion # 0 /\ m.type = "verack" ->
            Result([c EXCEPT !.nRecvVersion = Lesser(c.nVersion, Version[NodeAt(e)])], <<>>)
      [] c.nVersion # 0 /\ m.type = "addr" ->
            Result([c EXCEPT !.setAddrKnown = @ \cup m.addrs, !.fGetAddr = FALSE,
                             !.fDisconnect = (e[1] \in OneShot /\ e[2] = "out")], <<>>)
      [] c.nVersion # 0 /\ m.type = "getaddr" ->
            Result(PushAddress([c EXCEPT !.vAddrToSend = {}], book[NodeAt(e)]), <<>>)
      [] c.nVersion # 0 /\ m.type = "ping" -> Result(c, <<Message(e, c, "pong")>>)
      [] OTHER -> Result(c, <<>>)

\* addr: addresses not asked for are passed on to two peers that know times.
AddrRelays(e, c, m) ==
    IF m.type # "addr" \/ c.nVersion = 0 \/ c.fGetAddr THEN {{}}
    ELSE LET peers == {f \in Ends : /\ NodeAt(f) = NodeAt(e) /\ cnode[f].open
                                    /\ ~cnode[f].fDisconnect /\ cnode[f].nVersion >= AddrTime}
         IN  {P \in SUBSET peers : Cardinality(P) = Lesser(2, Cardinality(peers))}

\* What the message gives the address manager.
Learned(e, c, m) ==
    CASE m.type = "addr" /\ c.nVersion # 0 -> m.addrs
      [] m.type = "version" /\ c.nVersion = 0 -> {NodeAt(Far(e))}
      [] OTHER -> {}

(* The variant leaves the queued messages as they are. *)
Unread(q, v) == q
\* SetRecvVersion reaches the messages that are already queued.
Reread(q, v) == [i \in DOMAIN q |-> [q[i] EXCEPT !.ver = v]]

\* The messages whose data depend on the version.
Versioned == {"addr", "getaddr", "ping", "pong"}

ProcessMessage(e) ==
    /\ cnode[e].open /\ ~cnode[e].fDisconnect /\ inbox[e] # <<>>
    /\ \E q \in {Head(inbox[e])} :
       \E r \in {IF q.m.type = "version" THEN OnVersion(e, cnode[e], q.m)
                 ELSE OnOther(e, cnode[e], q.m)} :
       \E P \in AddrRelays(e, cnode[e], q.m) :
          /\ cnode' = [f \in Ends |->
                          LET c == IF f = e THEN r.c ELSE cnode[f]
                          IN  IF f \in P THEN PushAddress(c, q.m.addrs) ELSE c]
          /\ wire' = [wire EXCEPT ![Far(e)] = @ \o r.out]
          /\ inbox' = [inbox EXCEPT ![e] =
                          IF r.c.nRecvVersion = cnode[e].nRecvVersion THEN Tail(@)
                          ELSE Reread(Tail(@), r.c.nRecvVersion)]
          /\ misread' = (misread \/ (/\ q.m.type \in Versioned /\ cnode[e].nVersion # 0
                                     /\ q.ver # q.m.ver))
          /\ book' = [book EXCEPT ![NodeAt(e)] =
                         IF r.c.fDisconnect /\ q.m.type = "version" THEN @
                         ELSE @ \cup Learned(e, cnode[e], q.m)]
          /\ IF r.greet THEN PushVersion(e) ELSE UNCHANGED <<nonce, nonces>>
    /\ UNCHANGED <<refresh, events>>

-----------------------------------------------------------------------------

\* The address broadcast of a node: every peer is told the own address, and
\* but for the first time may be told again what it knows.
Refreshed(n) ==
    [f \in Ends |->
        IF NodeAt(f) # n \/ ~cnode[f].open THEN cnode[f]
        ELSE PushAddress(IF refresh[n] = 0 THEN cnode[f]
                         ELSE [cnode[f] EXCEPT !.setAddrKnown = {}], {n})]

\* SendMessages: nothing before the peer's version; a ping when the link is
\* idle, the broadcast when it is due, and the addresses when they trickle.
SendMessages(e) ==
    LET n == NodeAt(e) IN
    /\ cnode[e].open /\ ~cnode[e].fDisconnect /\ cnode[e].nVersion # 0
    /\ \E ping, due, trickle \in BOOLEAN :
          /\ ping \/ due \/ trickle
          /\ Happen(Cardinality({x \in {1} : ping} \cup {x \in {2} : due}))
          /\ \E told \in {IF due THEN Refreshed(n) ELSE cnode} :
             \E c \in {told[e]} :
             \E new \in {IF trickle THEN c.vAddrToSend \ c.setAddrKnown ELSE {}} :
                /\ cnode' = [told EXCEPT
                       ![e].vAddrToSend = IF trickle THEN {} ELSE @,
                       ![e].setAddrKnown = @ \cup new]
                /\ wire' = [wire EXCEPT ![Far(e)] =
                       @ \o (IF ping THEN <<Message(e, c, "ping")>> ELSE <<>>)
                         \o (IF new = {} THEN <<>>
                             ELSE <<[Message(e, c, "addr") EXCEPT !.addrs = new]>>)]
          /\ refresh' = [refresh EXCEPT ![n] = IF due THEN @ + 1 ELSE @]
    /\ UNCHANGED <<inbox, nonce, nonces, book, misread>>

\* A node drops the link; the other end finds it closed.
Disconnect(e) ==
    /\ cnode[e].fDisconnect
    /\ cnode' = [cnode EXCEPT ![e] = [NewCNode EXCEPT !.open = TRUE, !.fDisconnect = TRUE],
                              ![Far(e)].fDisconnect = TRUE]
    /\ wire' = [wire EXCEPT ![e] = <<>>, ![Far(e)] = <<>>]
    /\ inbox' = [inbox EXCEPT ![e] = <<>>]
    /\ cnode' # cnode
    /\ UNCHANGED <<nonce, nonces, book, refresh, events, misread>>

\* Another program at the other end: a second version, or a message before it.
Odd(e, type) ==
    /\ cnode[e].open /\ ~cnode[e].fDisconnect /\ Happen(1)
    /\ type = "ping" => cnode[e].nVersion = 0 /\ wire[e] = <<>> /\ inbox[e] = <<>>
    /\ wire' = [wire EXCEPT ![e] = Append(@, Message(Far(e), cnode[Far(e)], type))]
    /\ UNCHANGED <<cnode, inbox, nonce, nonces, book, refresh, misread>>

ShakeNext ==
    \/ \E l \in Links : Connect(l)
    \/ \E e \in Ends : ReceiveMsg(e) \/ ProcessMessage(e) \/ SendMessages(e) \/ Disconnect(e)
    \/ \E e \in Ends, type \in {"version", "ping"} : Odd(e, type)

ShakeSpec == ShakeInit /\ [][ShakeNext]_hvars

-----------------------------------------------------------------------------

(* "Change version": every message is read with the version of the protocol
   it was written with, however the two ends' messages cross and wherever a
   message is when the verack before it is processed; an end that has heard a
   version keeps it. *)
VersionsAgree ==
    /\ ~misread
    /\ \A e \in Ends : cnode[e].fSuccessfullyConnected =>
           cnode[e].nVersion = Version[NodeAt(Far(e))]

-----------------------------------------------------------------------------
(* The addresses the node believes to be its own (net.cpp: AddLocal,         *)
(* SeenLocal, GetLocal, AdvertizeLocal, Discover, SetReachable, SetLimited;  *)
(* main.cpp: what the version handler and SendMessages do with them).       *)
(* Interfaces, the command line and peers suggest addresses; peers vote for *)
(* them; each peer is told the one it can reach best.                       *)

CONSTANTS Peers, PeerAddr,    \* the peers and their addresses
          Inbound,            \* the peers that connected to us
          Candidates,         \* the addresses of our interfaces and of our router
          Limited,            \* vfLimited, set by -onlynet: the networks left out
          fDiscover,
          MaxScore            \* bound: a score at which voting stops

LOCAL_IF == 1
LOCAL_BIND == 2
LOCAL_MANUAL == 5

VARIABLES
    mapLocalHost,   \* address -> nScore
    vfReachable,    \* the networks that are reachable
    hostPeer,           \* peer -> [connected, addrLocal, told]
    current         \* peers that were connected at the last change of a score

lhvars == <<mapLocalHost, vfReachable, hostPeer, current>>

NoAddr == <<>>

\* How well each peer reaches each address, and the networks of the addresses.
Reach == [p \in Peers |-> [a \in Candidates |-> GetReachabilityFrom(a, PeerAddr[p])]]
NetworkOf == [a \in Candidates |-> GetNetwork(a)]
Routable(a) == NetworkOf[a] # NET_UNROUTABLE

HostInit ==
    /\ mapLocalHost = <<>> /\ vfReachable = {} /\ current = {}
    /\ hostPeer = [p \in Peers |-> [connected |-> FALSE, addrLocal |-> NoAddr, told |-> {}]]

\* operator< of CNetAddr.
Before(a, b) ==
    \E i \in 1..16 : a[i] < b[i] /\ \A j \in 1..(i - 1) : a[j] = b[j]

\* GetLocal: the most reachable address, of those the one with the highest
\* score, of those the first of the map; NoAddr when there is none.
GetLocal(hosts, p) ==
    LET better(a, b) ==
            \/ Reach[p][a] > Reach[p][b]
            \/ Reach[p][a] = Reach[p][b] /\ hosts[a] > hosts[b]
            \/ Reach[p][a] = Reach[p][b] /\ hosts[a] = hosts[b] /\ Before(a, b)
    IN  IF DOMAIN hosts = {} THEN NoAddr
        ELSE CHOOSE a \in DOMAIN hosts : \A b \in DOMAIN hosts \ {a} : better(a, b)

(* The variant tells each peer once. *)
AdvertizeOnce(hosts, peers) ==
    [p \in Peers |->
        IF peers[p].connected /\ peers[p].addrLocal = NoAddr /\ GetLocal(hosts, p) # NoAddr
        THEN [peers[p] EXCEPT !.addrLocal = GetLocal(hosts, p)] ELSE peers[p]]

\* AdvertizeLocal: the connected peers that would be told another address than
\* the last time are told it.
AdvertizeLocal(hosts, peers) ==
    [p \in Peers |->
        LET addrLocal == GetLocal(hosts, p)
        IN  IF /\ peers[p].connected /\ addrLocal # NoAddr
               /\ Routable(addrLocal) /\ addrLocal # peers[p].addrLocal
            THEN [peers[p] EXCEPT !.told = @ \cup {addrLocal}, !.addrLocal = addrLocal]
            ELSE peers[p]]

SetReachable(net) ==
    vfReachable' = vfReachable \cup {net} \cup (IF net = NET_IPV6 THEN {NET_IPV4} ELSE {})

IsLimited(ip) == NetworkOf[ip] \in Limited
IsReachable(ip) == NetworkOf[ip] \in vfReachable \ Limited

Connected(peers) == {p \in Peers : peers[p].connected}

\* AddLocal, from Discover (LOCAL_IF), -bind (LOCAL_BIND) or -externalip
\* (LOCAL_MANUAL).
AddLocal(addr, nScore) ==
    /\ Routable(addr)
    /\ fDiscover \/ nScore >= LOCAL_MANUAL
    /\ ~IsLimited(addr)
    /\ LET fAlready == addr \in DOMAIN mapLocalHost
           score == IF ~fAlready THEN nScore
                    ELSE IF nScore >= mapLocalHost[addr] THEN nScore + 1 ELSE mapLocalHost[addr]
       IN  /\ score <= MaxScore
           /\ mapLocalHost' = [a \in DOMAIN mapLocalHost \cup {addr} |->
                                  IF a = addr THEN score ELSE mapLocalHost[a]]
    /\ SetReachable(NetworkOf[addr])
    /\ hostPeer' = AdvertizeLocal(mapLocalHost', hostPeer)
    /\ current' = Connected(hostPeer)

\* The version message of a peer, which says at which address it sees us.
OnVersionAddr(p, addrMe) ==
    LET seen == p \in Inbound /\ Routable(addrMe)
        vote == seen /\ addrMe \in DOMAIN mapLocalHost
        hosts == IF vote THEN [mapLocalHost EXCEPT ![addrMe] = @ + 1] ELSE mapLocalHost
        heard == IF seen THEN [hostPeer EXCEPT ![p].addrLocal = addrMe] ELSE hostPeer
        voted == IF vote THEN AdvertizeLocal(hosts, heard) ELSE heard
        best == GetLocal(hosts, p)
    IN  /\ ~hostPeer[p].connected
        /\ vote => hosts[addrMe] <= MaxScore
        /\ mapLocalHost' = hosts
        /\ hostPeer' = [voted EXCEPT
              ![p].connected = TRUE,
              ![p].told = IF p \notin Inbound /\ best # NoAddr /\ Routable(best)
                          THEN @ \cup {best} ELSE @]
        /\ current' = IF vote THEN Connected(hostPeer) ELSE current
        /\ UNCHANGED vfReachable

\* The address broadcast of SendMessages.
Rebroadcast ==
    /\ hostPeer' = [p \in Peers |->
                  LET best == GetLocal(mapLocalHost, p)
                  IN  IF hostPeer[p].connected /\ best # NoAddr /\ Routable(best)
                      THEN [hostPeer[p] EXCEPT !.told = @ \cup {best}] ELSE hostPeer[p]]
    /\ UNCHANGED <<mapLocalHost, vfReachable, current>>

\* A peer goes away.
Leave(p) ==
    /\ hostPeer[p].connected
    /\ hostPeer' = [hostPeer EXCEPT ![p] = [connected |-> FALSE, addrLocal |-> NoAddr, told |-> {}]]
    /\ current' = current \ {p}
    /\ UNCHANGED <<mapLocalHost, vfReachable>>

HostNext ==
    \/ \E addr \in Candidates, nScore \in {LOCAL_IF, LOCAL_BIND, LOCAL_MANUAL} :
           AddLocal(addr, nScore)
    \/ \E p \in Peers, addrMe \in Candidates : OnVersionAddr(p, addrMe)
    \/ Rebroadcast
    \/ \E p \in Peers : Leave(p)

HostSpec == HostInit /\ [][HostNext]_lhvars

-----------------------------------------------------------------------------

(* "find 'best' local address for a particular peer": a peer that was there
   when a score last changed has been told the address of ours it can reach
   best, however the votes and the discoveries were ordered; and the addresses
   told are routable, of networks that are not limited, and reachable. *)
LocalAddressBest ==
    /\ \A p \in current :
           LET best == GetLocal(mapLocalHost, p)
           IN  best # NoAddr => hostPeer[p].addrLocal = best
    /\ \A p \in Peers : \A a \in hostPeer[p].told :
           /\ a \in DOMAIN mapLocalHost /\ Routable(a) /\ IsReachable(a)
           /\ Reach[p][a] > REACH_UNREACHABLE
=============================================================================
