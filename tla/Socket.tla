------------------------------- MODULE Socket -------------------------------
(***************************************************************************)
(* The byte stream between two nodes: how a message is framed, queued,     *)
(* written in pieces, read in pieces, put together again and answered      *)
(* (net.h, net.cpp, and ProcessMessages and ProcessGetData of main.cpp).   *)
(* Two threads serve each end.  The socket handler selects a direction     *)
(* (Select) and later serves the socket (Service); the message handler     *)
(* processes what has arrived (ProcessMessages) and pushes what it wants   *)
(* to say (SendMessages).  Between Select and Service the message handler  *)
(* may run, so that a socket chosen for reading may have data to send.     *)
(*                                                                         *)
(* A byte is a pair of the message it belongs to and its place in it; what *)
(* a receiver makes of bytes depends on their order only.  The kernel      *)
(* holds at most TcpBuffer bytes in each direction.                        *)
(***************************************************************************)
EXTENDS Integers, Sequences, SequencesExt

CONSTANTS Unsolicited,        \* what SendMessages may push: records [kind, size, asks]
          Header,             \* CMessageHeader::HEADER_SIZE
          BlockSize,          \* data bytes of a block
          SendBufferSize, ReceiveFloodSize,
          ReadSize,           \* pchBuf
          MaxSize,            \* MAX_SIZE
          TcpBuffer,
          MaxPush             \* bound: the unsolicited messages of both ends

VARIABLES end, tcp, pushed, processed

sockvars == <<end, tcp, pushed, processed>>

SocketEnds == {1, 2}

Other(n) == 3 - n

NetMessage(n, kind, size, asks) ==
    [no |-> n, kind |-> kind, size |-> size, asks |-> asks]

BytesOf(m) == [i \in 1 .. Header + m.size |-> <<m, i>>]

\* A CNode: the sending half, the receiving half and the pending requests.
NewEnd ==
    [vSendMsg |-> <<>>, nSendOffset |-> 0, nSendSize |-> 0,
     vRecvMsg |-> <<>>, vRecvGetData |-> <<>>,
     select |-> "none", fDisconnect |-> FALSE, pushes |-> 0]

SockInit ==
    /\ end = [n \in SocketEnds |-> NewEnd]
    /\ tcp = [n \in SocketEnds |-> <<>>]
    /\ pushed = [n \in SocketEnds |-> <<>>]
    /\ processed = [n \in SocketEnds |-> <<>>]

-----------------------------------------------------------------------------
(* Sending.  A pair of a CNode and the bytes on its wire is passed along.  *)

\* SocketSendData: as much of the queue as the kernel takes, message by message.
RECURSIVE SocketSendData(_, _)
SocketSendData(node, bytes) ==
    IF node.vSendMsg = <<>> THEN <<node, bytes>>
    ELSE LET data == Head(node.vSendMsg)
             rest == Len(data) - node.nSendOffset
             room == TcpBuffer - Len(bytes)
             n == IF rest <= room THEN rest ELSE room
             sent == bytes \o SubSeq(data, node.nSendOffset + 1, node.nSendOffset + n)
         IN  IF n < rest THEN <<[node EXCEPT !.nSendOffset = @ + n], sent>>
             ELSE SocketSendData([node EXCEPT !.vSendMsg = Tail(@),
                                              !.nSendOffset = 0,
                                              !.nSendSize = @ - Len(data)], sent)

(* The variant forgets to count the bytes. *)
EndMessageUncounted(node, bytes, m) ==
    LET queued == [node EXCEPT !.vSendMsg = Append(@, BytesOf(m))]
    IN  IF node.vSendMsg = <<>> THEN SocketSendData(queued, bytes) ELSE <<queued, bytes>>

\* EndMessage: queue the message; write at once when nothing was queued.
EndMessage(node, bytes, m) ==
    LET queued == [node EXCEPT !.vSendMsg = Append(@, BytesOf(m)),
                               !.nSendSize = @ + Header + m.size]
    IN  IF node.vSendMsg = <<>> THEN SocketSendData(queued, bytes) ELSE <<queued, bytes>>

\* PushMessage for each of a sequence of messages, numbered as they are pushed.
RECURSIVE PushAll(_, _, _, _)
PushAll(node, bytes, log, ms) ==
    IF ms = <<>> THEN <<node, bytes, log>>
    ELSE LET m == [Head(ms) EXCEPT !.no = Len(log) + 1]
             e == EndMessage(node, bytes, m)
         IN  PushAll(e[1], e[2], Append(log, m), Tail(ms))

PushUnsolicited(n) ==
    /\ ~end[n].fDisconnect
    /\ end[1].pushes + end[2].pushes < MaxPush
    /\ \E m \in Unsolicited :
          LET r == PushAll([end[n] EXCEPT !.pushes = @ + 1], tcp[n], pushed[n],
                           <<NetMessage(0, m.kind, m.size, m.asks)>>)
          IN  /\ end' = [end EXCEPT ![n] = r[1]]
              /\ tcp' = [tcp EXCEPT ![n] = r[2]]
              /\ pushed' = [pushed EXCEPT ![n] = r[3]]
    /\ UNCHANGED processed

-----------------------------------------------------------------------------
(* Receiving.                                                              *)

NewMessage == [hdr |-> <<>>, vRecv |-> <<>>]

\* The size a complete header states.
Stated(msg) == msg.hdr[Header][1].size

Complete(msg) == Len(msg.hdr) = Header /\ Len(msg.vRecv) = Stated(msg)

\* The buffer is resized to the stated size as soon as the header is read.
TotalRecvSize(msgs) ==
    FoldLeft(LAMBDA a, m : a + Header + (IF Len(m.hdr) = Header THEN Stated(m) ELSE 0), 0, msgs)

\* readHeader and readData, byte by byte; the empty sequence of results is a failure.
ReadByte(msgs, b) ==
    LET open == IF msgs = <<>> \/ Complete(Last(msgs)) THEN Append(msgs, NewMessage) ELSE msgs
        msg == Last(open)
        next == IF Len(msg.hdr) < Header THEN [msg EXCEPT !.hdr = Append(@, b)]
                                         ELSE [msg EXCEPT !.vRecv = Append(@, b)]
    IN  Front(open) \o <<next>>

TooLarge(msgs) == Len(Last(msgs).hdr) = Header /\ Stated(Last(msgs)) > MaxSize

ReceiveMsgBytes(msgs, bytes) == FoldLeft(ReadByte, msgs, bytes)

\* Which direction select() is asked about: sending first, then reading unless a
\* complete message waits and the buffer is over its limit.  A lock held by the
\* message handler (busy) makes the handler skip the question it protects.
Select(n) ==
    LET e == end[n] IN
    /\ ~e.fDisconnect
    /\ \E busy \in {"none", "cs_vSend"} :
          LET choice == IF busy # "cs_vSend" /\ e.vSendMsg # <<>> THEN "send"
                        ELSE IF \/ e.vRecvMsg = <<>>
                                \/ ~Complete(Head(e.vRecvMsg))
                                \/ TotalRecvSize(e.vRecvMsg) <= ReceiveFloodSize THEN "recv"
                        ELSE "none"
          IN  choice # e.select /\ end' = [end EXCEPT ![n].select = choice]
    /\ UNCHANGED <<tcp, pushed, processed>>

\* CloseSocketDisconnect: nothing more is read or processed, and the bytes the
\* other end has written but this one has not read are gone.
ClosedEnd(node) == [node EXCEPT !.fDisconnect = TRUE, !.vRecvMsg = <<>>, !.select = "none"]

Service(n) ==
    LET e == end[n]
        in == tcp[Other(n)]
    IN
    /\ ~e.fDisconnect
    /\ UNCHANGED <<pushed, processed>>
    /\ \/ /\ e.select = "recv" /\ in # <<>>
          /\ LET k == IF Len(in) <= ReadSize THEN Len(in) ELSE ReadSize
                 msgs == ReceiveMsgBytes(e.vRecvMsg, SubSeq(in, 1, k))
             IN  /\ tcp' = [tcp EXCEPT ![Other(n)] = SubSeq(in, k + 1, Len(in))]
                 /\ end' = [end EXCEPT ![n] = IF TooLarge(msgs) THEN ClosedEnd(e)
                                              ELSE [e EXCEPT !.vRecvMsg = msgs, !.select = "none"]]
       \/ /\ e.select = "recv" /\ in = <<>> /\ end[Other(n)].fDisconnect
          /\ end' = [end EXCEPT ![n] = ClosedEnd(e)]
          /\ UNCHANGED tcp
       \/ /\ e.select = "send" /\ Len(tcp[n]) < TcpBuffer /\ ~end[Other(n)].fDisconnect
          /\ LET r == SocketSendData(e, tcp[n])
             IN  /\ end' = [end EXCEPT ![n] = [r[1] EXCEPT !.select = "none"]]
                 /\ tcp' = [tcp EXCEPT ![n] = r[2]]
       \/ /\ e.select = "send" /\ end[Other(n)].fDisconnect
          /\ end' = [end EXCEPT ![n] = ClosedEnd(e)]
          /\ UNCHANGED tcp

\* A time-out, a ban, or a failing socket at n.
CloseSocket(n) ==
    /\ ~end[n].fDisconnect
    /\ end' = [end EXCEPT ![n] = ClosedEnd(@)]
    /\ UNCHANGED <<tcp, pushed, processed>>

-----------------------------------------------------------------------------
(* Processing.                                                             *)

Block == NetMessage(0, "block", BlockSize, 0)
Pong == NetMessage(0, "pong", 0, 0)

\* ProcessGetData: one block, then let the other peers have their turn.
ProcessGetData(node) ==
    IF node.vRecvGetData = <<>> \/ node.nSendSize >= SendBufferSize THEN <<node, <<>>>>
    ELSE <<[node EXCEPT !.vRecvGetData = Tail(@)], <<Block>>>>

\* The checksum holds when the data is the data the header was made for.
Intact(msg) == msg.hdr \o msg.vRecv = BytesOf(msg.hdr[1][1])

\* ProcessMessage, for what the order of the answers depends on.
Answer(node, m) ==
    CASE m.kind = "ping" -> <<node, <<Pong>>>>
      [] m.kind = "getdata" ->
            ProcessGetData([node EXCEPT !.vRecvGetData = @ \o [i \in 1 .. m.asks |-> m.no]])
      [] OTHER -> <<node, <<>>>>

\* The queue without the complete messages at its front whose checksum fails.
RECURSIVE SkipBroken(_)
SkipBroken(msgs) ==
    IF msgs # <<>> /\ Complete(Head(msgs)) /\ ~Intact(Head(msgs)) THEN SkipBroken(Tail(msgs)) ELSE msgs

\* The pending requests first, then at most one message.
ProcessMessages(n) ==
    LET given == ProcessGetData(end[n])
        first == PushAll(given[1], tcp[n], pushed[n], given[2])
        node == first[1]
        msgs == SkipBroken(node.vRecvMsg)
        a == Answer([node EXCEPT !.vRecvMsg = Tail(msgs)], Head(msgs).hdr[1][1])
        proceeds == node.vRecvGetData = <<>> /\ node.nSendSize < SendBufferSize
        takes == proceeds /\ msgs # <<>> /\ Complete(Head(msgs))
        r == IF takes THEN PushAll(a[1], first[2], first[3], a[2])
             ELSE <<[node EXCEPT !.vRecvMsg = IF proceeds THEN msgs ELSE @], first[2], first[3]>>
    IN
    /\ ~end[n].fDisconnect
    /\ end' = [end EXCEPT ![n] = r[1]]
    /\ tcp' = [tcp EXCEPT ![n] = r[2]]
    /\ pushed' = [pushed EXCEPT ![n] = r[3]]
    /\ processed' = IF takes THEN [processed EXCEPT ![n] = Append(@, Head(msgs).hdr[1][1])]
                    ELSE processed

SockNext ==
    \E n \in SocketEnds : \/ PushUnsolicited(n) \/ Select(n) \/ Service(n)
                    \/ CloseSocket(n) \/ ProcessMessages(n)

SockSpec == SockInit /\ [][SockNext]_sockvars

-----------------------------------------------------------------------------

\* The answers due to a sequence of processed messages, in order.
RECURSIVE Due(_)
Due(ms) ==
    IF ms = <<>> THEN <<>>
    ELSE (CASE Head(ms).kind = "ping" -> <<"pong">>
            [] Head(ms).kind = "getdata" -> [i \in 1 .. Head(ms).asks |-> "block"]
            [] OTHER -> <<>>) \o Due(Tail(ms))

\* However writes and reads are cut and the two threads interleave, what one end
\* processes is, message by message, what the other pushed; the answers it pushes
\* are those its requests call for, in the order the requests came ("this
\* maintains the order of responses"); and the byte counts the flow control
\* rests on are right, so that SocketSendData's assertions hold
\* (ReceiveMsgBytes, SocketSendData, EndMessage, ProcessMessages).
StreamIntact ==
    \A n \in SocketEnds :
        LET e == end[n]
            answers == SelectSeq(pushed[n], LAMBDA m : m.kind \in {"pong", "block"})
        IN  /\ IsPrefix(processed[n], pushed[Other(n)])
            /\ IsPrefix([i \in 1 .. Len(answers) |-> answers[i].kind], Due(processed[n]))
            /\ e.nSendSize = FoldLeft(LAMBDA a, d : a + Len(d), 0, e.vSendMsg)
            /\ IF e.vSendMsg = <<>> THEN e.nSendOffset = 0
               ELSE e.nSendOffset < Len(Head(e.vSendMsg))
            /\ e.nSendSize < SendBufferSize + Header + BlockSize + MaxPush * (Header + MaxSize)
            /\ TotalRecvSize(e.vRecvMsg) <= ReceiveFloodSize + ReadSize + MaxSize + Header

=============================================================================
