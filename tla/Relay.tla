-------------------------------- MODULE Relay --------------------------------
(***************************************************************************)
(* How nodes bring each other to the same chain: the handlers of the       *)
(* messages inv, getblocks, getdata and block, and SendMessages            *)
(* (main.cpp, net.h).  Every node runs the same code; mail[n][p] is the    *)
(* stream of messages from n to p, in order while the connection lasts.    *)
(*                                                                         *)
(* Blocks are numbers, 0 the genesis block, and Parent gives their tree;   *)
(* all are valid, and the work of a chain is its length.  The two minutes  *)
(* between requests for one block are not measured: a request is due at    *)
(* once or "later", and Tick makes the later ones due.  setInventoryKnown  *)
(* is not full.                                                            *)
(***************************************************************************)
EXTENDS Integers, Sequences, FiniteSets, SequencesExt

CONSTANTS RelayNodes,
          Parent,             \* Parent[b] < b, for the blocks 1 .. Len(Parent)
          BatchLimit,         \* the 500 blocks of a getblocks answer
          MaxDrop             \* bound on lost connections

VARIABLES index, best, orphans, asked, link, mail, mined, drops

rvars == <<index, best, orphans, asked, link, mail, mined, drops>>

Blocks == 1 .. Len(Parent)

\* The chain that ends in a block, and its length.
Branch[b \in 0 .. Len(Parent)] == IF b = 0 THEN <<0>> ELSE Append(Branch[Parent[b]], b)

Height == [b \in 0 .. Len(Parent) |-> Len(Branch[b]) - 1]

\* What a node keeps of a peer.
NewPeer ==
    [setInventoryKnown |-> {}, vInventoryToSend |-> <<>>, mapAskFor |-> {}, later |-> {},
     hashContinue |-> 0, lastGetBlocks |-> <<>>, fStartSync |-> TRUE]

RelayInit ==
    /\ index = [n \in RelayNodes |-> {0}]
    /\ best = [n \in RelayNodes |-> 0]
    /\ orphans = [n \in RelayNodes |-> {}]
    /\ asked = [n \in RelayNodes |-> {}]
    /\ link = [n \in RelayNodes |-> [p \in RelayNodes |-> NewPeer]]
    /\ mail = [n \in RelayNodes |-> [p \in RelayNodes |-> <<>>]]
    /\ mined = {}
    /\ drops = 0

-----------------------------------------------------------------------------
(* A handler at n works on the record                                      *)
(*    [index, best, orphans, asked, peer, out]                             *)
(* of n's own state and the messages it pushes to each peer.               *)

Own(n) == [index |-> index[n], best |-> best[n], orphans |-> orphans[n], asked |-> asked[n],
           link |-> link[n], out |-> [p \in RelayNodes |-> <<>>]]

Becomes(n, s) ==
    /\ index' = [index EXCEPT ![n] = s.index]
    /\ best' = [best EXCEPT ![n] = s.best]
    /\ orphans' = [orphans EXCEPT ![n] = s.orphans]
    /\ asked' = [asked EXCEPT ![n] = s.asked]
    /\ link' = [link EXCEPT ![n] = s.link]

PushMessage(s, p, m) == [s EXCEPT !.out[p] = Append(@, m)]

AlreadyHave(s, b) == b \in s.index \cup s.orphans

InMainChain(s, b) == b \in s.index /\ Contains(Branch[s.best], b)

\* Identical requests in a row are filtered out.
PushGetBlocks(s, p, begin, stop) ==
    IF s.link[p].lastGetBlocks = <<begin, stop>> THEN s
    ELSE PushMessage([s EXCEPT !.link[p].lastGetBlocks = <<begin, stop>>], p,
                     [type |-> "getblocks", locator |-> Reverse(Branch[begin]), stop |-> stop])

PushInventory(s, p, b) ==
    IF b \in s.link[p].setInventoryKnown THEN s
    ELSE [s EXCEPT !.link[p].vInventoryToSend = Append(@, b)]

AskFor(s, p, b) ==
    IF b \in s.asked THEN [s EXCEPT !.link[p].later = @ \cup {b}]
    ELSE [s EXCEPT !.asked = @ \cup {b}, !.link[p].mapAskFor = @ \cup {b}]

\* The earliest orphan of the branch; unknown blocks below it are not walked.
RECURSIVE GetOrphanRoot(_, _)
GetOrphanRoot(s, b) == IF Parent[b] \in s.orphans THEN GetOrphanRoot(s, Parent[b]) ELSE b

\* AcceptBlock and the relay of a new best block to every peer.
AcceptBlock(s, n, b) ==
    LET added == [s EXCEPT !.index = @ \cup {b},
                           !.best = IF Height[b] > Height[@] THEN b ELSE @]
    IN  IF added.best # b THEN added
        ELSE FoldLeft(LAMBDA t, p : PushInventory(t, p, b), added, SetToSeq(RelayNodes \ {n}))

\* The accepted block's orphans, theirs, and so on.
RECURSIVE AcceptOrphans(_, _, _)
AcceptOrphans(s, n, queue) ==
    IF queue = <<>> THEN s
    ELSE LET kids == {o \in s.orphans : Parent[o] = Head(queue)}
             seq == SetToSeq(kids)
             t == FoldLeft(LAMBDA u, o : AcceptBlock(u, n, o), s, seq)
         IN  AcceptOrphans([t EXCEPT !.orphans = @ \ kids], n, Tail(queue) \o seq)

ProcessBlock(s, n, p, b) ==
    IF AlreadyHave(s, b) THEN s
    ELSE IF Parent[b] \notin s.index
         THEN LET t == [s EXCEPT !.orphans = @ \cup {b}] IN
              PushGetBlocks([t EXCEPT !.asked = @ \ {b}], p, t.best, GetOrphanRoot(t, b))
    ELSE LET t == AcceptOrphans(AcceptBlock(s, n, b), n, <<b>>) IN [t EXCEPT !.asked = @ \ {b}]

-----------------------------------------------------------------------------
(* The messages.                                                           *)

Known(s, p, b) == [s EXCEPT !.link[p].setInventoryKnown = @ \cup {b}]

\* inv: ask for what is new; go on from an orphan, or from the last block.
OnInv(s, n, p, m) ==
    FoldLeftDomain(LAMBDA t, i :
        LET b == m.inv[i]
            u == Known(t, p, b)
        IN  IF ~AlreadyHave(u, b) THEN AskFor(u, p, b)
            ELSE IF b \in u.orphans THEN PushGetBlocks(u, p, u.best, GetOrphanRoot(u, b))
            ELSE IF i = Len(m.inv) THEN PushGetBlocks(u, p, b, 0)
            ELSE u, s, m.inv)

\* getblocks: the blocks after the locator's first block of our chain.
OnGetBlocks(s, n, p, m) ==
    LET common == SelectSeq(m.locator, LAMBDA b : InMainChain(s, b))
        rest == SelectSeq(Branch[s.best], LAMBDA b : Height[b] > Height[common[1]])
        k == SelectInSeq(rest, LAMBDA b : b = m.stop)
        upto == IF k = 0 THEN rest ELSE SubSeq(rest, 1, k - 1)
        limited == Len(upto) >= BatchLimit
        batch == IF limited THEN SubSeq(upto, 1, BatchLimit) ELSE upto
        t == FoldLeft(LAMBDA u, b : PushInventory(u, p, b), s, batch)
    IN  IF limited THEN [t EXCEPT !.link[p].hashContinue = Last(batch)] ELSE t

(* The variant does not announce the best block after a batch. *)
OnGetDataOnly(s, n, p, m) ==
    FoldLeft(LAMBDA t, b : IF b \notin t.index THEN t
                           ELSE PushMessage(t, p, [type |-> "block", block |-> b]), s, m.getdata)

\* getdata: the blocks, and after the last one of a batch the best block's inv.
OnGetData(s, n, p, m) ==
    FoldLeft(LAMBDA t, b :
        IF b \notin t.index THEN t
        ELSE LET u == PushMessage(t, p, [type |-> "block", block |-> b])
             IN  IF b # t.link[p].hashContinue THEN u
                 ELSE [PushMessage(u, p, [type |-> "inv", inv |-> <<u.best>>])
                          EXCEPT !.link[p].hashContinue = 0], s, m.getdata)

OnBlock(s, n, p, m) == ProcessBlock(Known(s, p, m.block), n, p, m.block)

Handled(n, p, m) ==
    CASE m.type = "inv" -> OnInv(Own(n), n, p, m)
      [] m.type = "getblocks" -> OnGetBlocks(Own(n), n, p, m)
      [] m.type = "getdata" -> OnGetData(Own(n), n, p, m)
      [] m.type = "block" -> OnBlock(Own(n), n, p, m)

ProcessBlockMessage(n, p) ==
    /\ mail[p][n] # <<>>
    /\ \E s \in {Handled(n, p, Head(mail[p][n]))} :
           /\ Becomes(n, s)
           /\ mail' = [x \in RelayNodes |-> [y \in RelayNodes |->
                          IF x = n THEN mail[x][y] \o s.out[y]
                          ELSE IF x = p /\ y = n THEN Tail(mail[x][y]) ELSE mail[x][y]]]
    /\ UNCHANGED <<mined, drops>>

-----------------------------------------------------------------------------

\* SendMessages: begin the download, announce, and send the requests that are due.
Sent(s, p) ==
    LET q == s.link[p]
        a == IF q.fStartSync THEN PushGetBlocks([s EXCEPT !.link[p].fStartSync = FALSE], p, s.best, 0)
             ELSE s
        inv == FoldLeft(LAMBDA v, b : IF b \in q.setInventoryKnown \/ Contains(v, b) THEN v
                                      ELSE Append(v, b), <<>>, q.vInventoryToSend)
        c == [a EXCEPT !.link[p].vInventoryToSend = <<>>,
                       !.link[p].setInventoryKnown = @ \cup ToSet(inv),
                       !.link[p].mapAskFor = {}]
        d == IF inv = <<>> THEN c ELSE PushMessage(c, p, [type |-> "inv", inv |-> inv])
        due == SelectSeq(SetToSortSeq(q.mapAskFor, <), LAMBDA b : ~AlreadyHave(s, b))
    IN  IF due = <<>> THEN d ELSE PushMessage(d, p, [type |-> "getdata", getdata |-> due])

SendBlockMessages(n, p) ==
    /\ LET q == link[n][p] IN q.fStartSync \/ q.vInventoryToSend # <<>> \/ q.mapAskFor # {}
    /\ \E s \in {Sent(Own(n), p)} :
       /\ Becomes(n, s)
       /\ mail' = [mail EXCEPT ![n] = [y \in RelayNodes |-> @[y] \o s.out[y]]]
    /\ UNCHANGED <<mined, drops>>

\* Two minutes pass.
Tick(n, p) ==
    /\ link[n][p].later # {}
    /\ link' = [link EXCEPT ![n][p].mapAskFor = @ \cup link[n][p].later, ![n][p].later = {}]
    /\ UNCHANGED <<index, best, orphans, asked, mail, mined, drops>>

\* A block made by n itself (ProcessBlock with no peer).
MineBlock(n) ==
    /\ \E b \in Blocks \ mined :
          /\ Parent[b] = best[n]
          /\ \A c \in Blocks \ mined : b <= c
          /\ Becomes(n, AcceptOrphans(AcceptBlock(Own(n), n, b), n, <<b>>))
          /\ mined' = mined \cup {b}
    /\ UNCHANGED <<mail, drops>>

\* A connection is lost, with all that was under way, and made again.
Reconnect(n, p) ==
    /\ drops < MaxDrop /\ drops' = drops + 1
    /\ mail' = [mail EXCEPT ![n][p] = <<>>, ![p][n] = <<>>]
    /\ link' = [link EXCEPT ![n][p] = NewPeer, ![p][n] = NewPeer]
    /\ UNCHANGED <<index, best, orphans, asked, mined>>

Exchange(n, p) == ProcessBlockMessage(n, p) \/ SendBlockMessages(n, p) \/ Tick(n, p)

Pairs == {e \in RelayNodes \X RelayNodes : e[1] # e[2]}

RelayNext ==
    \/ \E e \in Pairs : Exchange(e[1], e[2]) \/ Reconnect(e[1], e[2])
    \/ \E n \in RelayNodes : MineBlock(n)

\* The message handler serves every peer again and again.
RelaySpec ==
    /\ RelayInit /\ [][RelayNext]_rvars
    /\ \A e \in Pairs : /\ WF_rvars(ProcessBlockMessage(e[1], e[2]))
                        /\ WF_rvars(SendBlockMessages(e[1], e[2]))
                        /\ WF_rvars(Tick(e[1], e[2]))

-----------------------------------------------------------------------------

\* Connected nodes come to agree on the most work there is, however long the
\* difference, on whatever branches they were, and though a connection breaks with
\* requests under way (hashContinue, the filter of repeated getblocks, orphans).
NodesConverge ==
    <>[](\A n, p \in RelayNodes : Height[best[n]] = Height[best[p]])

\* A block is never left among the orphans once its parent is known, or once it is
\* itself in the index; the best chain is known in full and no known chain has more
\* work, whatever the order blocks arrive in (ProcessBlock's loop over the orphans).
RelaySound ==
    \A n \in RelayNodes :
        /\ \A o \in orphans[n] : Parent[o] \notin index[n]
        /\ orphans[n] \cap index[n] = {}
        /\ ToSet(Branch[best[n]]) \subseteq index[n]
        /\ \A b \in index[n] : Height[b] <= Height[best[n]]

=============================================================================
