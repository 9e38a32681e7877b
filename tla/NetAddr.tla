------------------------------ MODULE NetAddr ------------------------------
(***************************************************************************)
(* Network addresses (netbase.cpp: CNetAddr): what kind an address is, the   *)
(* group it belongs to and how well it can be reached.  An address is the   *)
(* sequence of its 16 bytes, ip[0] first.                                   *)
(***************************************************************************)
EXTENDS Integers, Sequences

Zeros(n) == [i \in 1..n |-> 0]
pchIPv4 == Zeros(10) \o <<255, 255>>
pchRFC6052 == <<0, 100, 255, 155>> \o Zeros(8)
pchRFC6145 == Zeros(8) \o <<255, 255, 0, 0>>
pchRFC4862 == <<254, 128>> \o Zeros(6)

GetByte(ip, n) == ip[16 - n]
StartsWith(ip, prefix) == SubSeq(ip, 1, Len(prefix)) = prefix

IsIPv4(ip) == StartsWith(ip, pchIPv4)
IsRFC1918(ip) ==
    /\ IsIPv4(ip)
    /\ \/ GetByte(ip, 3) = 10
       \/ GetByte(ip, 3) = 192 /\ GetByte(ip, 2) = 168
       \/ GetByte(ip, 3) = 172 /\ GetByte(ip, 2) \in 16..31
IsRFC3927(ip) == IsIPv4(ip) /\ GetByte(ip, 3) = 169 /\ GetByte(ip, 2) = 254
IsRFC3849(ip) == StartsWith(ip, <<32, 1, 13, 184>>)
IsRFC3964(ip) == StartsWith(ip, <<32, 2>>)
IsRFC6052(ip) == StartsWith(ip, pchRFC6052)
IsRFC4380(ip) == StartsWith(ip, <<32, 1, 0, 0>>)
IsRFC4862(ip) == StartsWith(ip, pchRFC4862)
IsRFC4193(ip) == GetByte(ip, 15) \in {252, 253}
IsRFC6145(ip) == StartsWith(ip, pchRFC6145)
IsRFC4843(ip) == StartsWith(ip, <<32, 1, 0>>) /\ GetByte(ip, 12) \in 16..31

IsLocal(ip) ==
    \/ IsIPv4(ip) /\ GetByte(ip, 3) \in {127, 0}
    \/ ip = Zeros(15) \o <<1>>

IsValid(ip) ==
    /\ ~StartsWith(ip, SubSeq(pchIPv4, 4, 12))
    /\ ip # Zeros(16)
    /\ ~IsRFC3849(ip)
    /\ IsIPv4(ip) => SubSeq(ip, 13, 16) \notin {<<255, 255, 255, 255>>, Zeros(4)}

IsRoutable(ip) ==
    /\ IsValid(ip)
    /\ ~(\/ IsRFC1918(ip) \/ IsRFC3927(ip) \/ IsRFC4862(ip) \/ IsRFC4193(ip)
         \/ IsRFC4843(ip) \/ IsLocal(ip))

NET_UNROUTABLE == 0
NET_IPV4 == 1
NET_IPV6 == 2
NET_UNKNOWN == 3
NET_TEREDO == 4

GetNetwork(ip) ==
    IF ~IsRoutable(ip) THEN NET_UNROUTABLE ELSE IF IsIPv4(ip) THEN NET_IPV4 ELSE NET_IPV6

\* nClass and the first nBits of the address from nStartByte; a last half byte
\* has its low bits set.
GroupOf(ip, nClass, nStartByte, nBits) ==
    LET whole == nBits \div 8
        low == 2^(nBits % 8) - 1
        b == ip[nStartByte + whole + 1]
    IN  <<nClass>> \o SubSeq(ip, nStartByte + 1, nStartByte + whole)
            \o (IF low = 0 THEN <<>> ELSE <<b - (b % (low + 1)) + low>>)

\* Xor with 0xFF.
Inverted(b) == 255 - b

GetGroup(ip) ==
    CASE ~IsRoutable(ip) -> <<NET_UNROUTABLE>>
      [] IsRoutable(ip) /\ (IsIPv4(ip) \/ IsRFC6145(ip) \/ IsRFC6052(ip)) ->
            GroupOf(ip, NET_IPV4, 12, 16)
      [] IsRoutable(ip) /\ IsRFC3964(ip) -> GroupOf(ip, NET_IPV4, 2, 16)
      [] IsRoutable(ip) /\ IsRFC4380(ip) ->
            <<NET_IPV4, Inverted(GetByte(ip, 3)), Inverted(GetByte(ip, 2))>>
      [] IsRoutable(ip) /\ StartsWith(ip, <<32, 1, 4, 112>>) -> GroupOf(ip, NET_IPV6, 0, 36)
      [] OTHER -> GroupOf(ip, NET_IPV6, 0, 32)

GetExtNetwork(ip) ==
    IF ip = <<>> THEN NET_UNKNOWN ELSE IF IsRFC4380(ip) THEN NET_TEREDO ELSE GetNetwork(ip)

REACH_UNREACHABLE == 0
REACH_DEFAULT == 1
REACH_TEREDO == 2
REACH_IPV6_WEAK == 3
REACH_IPV4 == 4
REACH_IPV6_STRONG == 5

\* partner = <<>> stands for no partner.
GetReachabilityFrom(ip, partner) ==
    LET ourNet == GetExtNetwork(ip)
        theirNet == GetExtNetwork(partner)
        fTunnel == IsRFC3964(ip) \/ IsRFC6052(ip) \/ IsRFC6145(ip)
    IN  CASE ~IsRoutable(ip) -> REACH_UNREACHABLE
          [] IsRoutable(ip) /\ ourNet = NET_IPV4 -> REACH_IPV4
          [] IsRoutable(ip) /\ ourNet # NET_IPV4 /\ theirNet = NET_IPV4 -> REACH_DEFAULT
          [] IsRoutable(ip) /\ ourNet = NET_TEREDO /\ theirNet # NET_IPV4 -> REACH_TEREDO
          [] OTHER -> IF theirNet = NET_IPV6 /\ ~fTunnel THEN REACH_IPV6_STRONG
                      ELSE REACH_IPV6_WEAK

-----------------------------------------------------------------------------

\* The ways an IPv4 address is carried in an IPv6 one: mapped, SIIT translated,
\* the well-known prefix, 6to4 and Teredo.
Mapped(v4) == pchIPv4 \o v4
Carriers(v4) ==
    {pchRFC6145 \o v4, pchRFC6052 \o v4, <<32, 2>> \o v4 \o Zeros(10),
     <<32, 1, 0, 0>> \o Zeros(8) \o [i \in 1..4 |-> Inverted(v4[i])]}

(* "no two connections will be attempted to addresses with the same group": a
   host reached by its IPv4 address and through a tunnel is in one group; IPv4
   addresses of one /16, and no others, share a group, which no address of the
   IPv6 network outside the tunnels is in; and whatever cannot be routed to is
   in one group and is unreachable from everywhere. *)
GroupsSound(v4, w4, v6, partner) ==
    LET a == Mapped(v4)
        b == Mapped(w4)
    IN  /\ IsRoutable(a) =>
               \A c \in Carriers(v4) : IsRoutable(c) /\ GetGroup(c) = GetGroup(a)
        /\ IsRoutable(a) /\ IsRoutable(b) =>
               (GetGroup(a) = GetGroup(b) <=> SubSeq(v4, 1, 2) = SubSeq(w4, 1, 2))
        /\ GetNetwork(v6) = NET_IPV6 /\ v6 \notin UNION {Carriers(v4), Carriers(w4)} =>
               /\ IsRoutable(a) /\ GetGroup(v6) = GetGroup(a) =>
                      IsRFC3964(v6) \/ IsRFC4380(v6) \/ IsRFC6052(v6) \/ IsRFC6145(v6)
               /\ Len(GetGroup(v6)) \in {3, 5, 6}
        /\ \A c \in {a, b, v6} :
               /\ (GetNetwork(c) = NET_UNROUTABLE) = (GetGroup(c) = <<NET_UNROUTABLE>>)
               /\ (GetNetwork(c) = NET_UNROUTABLE)
                      = (GetReachabilityFrom(c, partner) = REACH_UNREACHABLE)
=============================================================================
