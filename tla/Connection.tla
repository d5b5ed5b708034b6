------------------------------ MODULE Connection ------------------------------
(* One connection: the PeerConnectionHandler with its two cycles, and the    *)
(* buffer from which Buffering.getPacket cuts the packets.  The bytes of the *)
(* peer arrive in pieces of any size, whenever reading is resumed.           *)
EXTENDS Integers, SequencesExt, FiniteSetsExt

CONSTANTS
  Msg,           \* the messages of the peer: sequences of bytes
  Corrupt,       \* those of them that do not parse
  Reply,         \* the messages of this node, each of which is sent once
  HandshakeBytes,
  Base,          \* the number of values of a byte
  HeaderSize,    \* the number of bytes that hold the length of a packet
  MAX_PACKET_LEN,
  MaxSent,       \* bound on the messages of the peer
  MaxBox         \* bound on the mailbox of the handler when this node sends to it

ASSUME ConnectionAssumption ==
  /\ Base \in Nat \ {0} /\ HeaderSize \in Nat \ {0} /\ MAX_PACKET_LEN \in Nat
  /\ Msg \subseteq Seq(0..Base - 1) /\ Corrupt \subseteq Msg
  /\ \A m \in Msg : Len(m) \in 1..MAX_PACKET_LEN
  /\ HandshakeBytes \in Seq(0..Base - 1) /\ HandshakeBytes # <<>>
  /\ {MaxSent, MaxBox} \subseteq Nat

\* The number a header stands for: digits, most significant first.
LengthOf(header) == FoldLeft(LAMBDA n, byte : n * Base + byte, 0, header)

Header == [1..HeaderSize -> 0..Base - 1]

\* Every length that is allowed fits into a header.
ASSUME HeaderHoldsLength ==
  \A n \in 0..MAX_PACKET_LEN : \E header \in Header : LengthOf(header) = n

VARIABLES
  stream,     \* bytes the peer wrote and this node has not read
  sent,       \* ghost: the messages the peer wrote
  link,       \* the TCP connection: "open", "closing" or "closed"
  reading,    \* whether it is to read
  writable,   \* whether it accepts writes: not after one has failed
  arrived,    \* what the peer has got of this node
  offered,    \* ghost: what was written, or tried to be
  box,        \* the mailbox of the handler
  cycle,      \* its behaviour: "handshake" or "working"; "stopped" in the end
  handshakeGot,
  handshakeSent,
  chunksBuffer,
  delivered,  \* the messages given to the NetworkController
  told,       \* the messages to the PeerManager
  gap         \* ghost: bytes behind the handshake were dropped with its piece

tcpVars == <<stream, sent, link, reading, writable, arrived>>
flags == <<handshakeGot, handshakeSent>>
handlerVars == <<cycle, flags, chunksBuffer, delivered, told, gap>>
connectionVars == <<tcpVars, offered, box, handlerVars>>

Event(kind, data) == [kind |-> kind, data |-> data]
-----------------------------------------------------------------------------
(* Buffering *)

LengthAt(data, i) == LengthOf(SubSeq(data, i, i + HeaderSize - 1))

ValidLength(data, i) == LengthAt(data, i) \in 0..MAX_PACKET_LEN

Complete(data, i) == Len(data) - i + 1 >= HeaderSize + LengthAt(data, i)

\* multiPacket from position i on: the packets, the position where the remainder
\* starts, and whether a length was invalid.
getPacket(data) ==
  LET cut[i \in 1..Len(data) + 1] ==
        IF Len(data) - i + 1 < HeaderSize
          THEN [packets |-> <<>>, rest |-> i, throws |-> FALSE]
        ELSE IF ~ValidLength(data, i)
          THEN [packets |-> <<>>, rest |-> i, throws |-> TRUE]
        ELSE IF ~Complete(data, i)
          THEN [packets |-> <<>>, rest |-> i, throws |-> FALSE]
        ELSE LET back == i + HeaderSize + LengthAt(data, i)
                 front == SubSeq(data, i + HeaderSize, back - 1)
                 more == cut[back]
             IN  [more EXCEPT !.packets = <<front>> \o @]
  IN  cut[1]

\* (Defect for mutation: what is left of a piece is forgotten.)
NoRemainder(data, cut) == <<>>

\* (Defect for mutation: packets that were cut stay in the buffer.)
Everything(data, cut) == data

Remainder(data, cut) == SubSeq(data, cut.rest, Len(data))

Parses(packet) == packet \in Msg \ Corrupt

\* The packets up to the first that does not parse; those behind it are dropped.
ParsedOf(packets) ==
  SubSeq(packets, 1, SelectInSeq(Append(packets, <<>>), LAMBDA p : ~Parses(p)) - 1)
-----------------------------------------------------------------------------
(* The connection actor of Akka, in pull mode and with useResumeWriting. *)

\* A write is accepted, or fails and comes back; until writing is resumed all
\* fail, and those to a closed connection vanish.
Write(what, rest) ==
  /\ offered' = Append(offered, what)
  /\ \/ /\ link = "open" /\ writable
        /\ arrived' = Append(arrived, what) /\ box' = rest /\ UNCHANGED writable
     \/ /\ link # "closed" /\ writable' = FALSE
        /\ box' = Append(rest, Event("CommandFailed", <<>>)) /\ UNCHANGED arrived
     \/ link = "closed" /\ box' = rest /\ UNCHANGED <<arrived, writable>>

Close == link' = IF link = "open" THEN "closing" ELSE link

Closed ==
  /\ link = "closing" /\ link' = "closed"
  /\ box' = Append(box, Event("ConnectionClosed", <<>>))
  /\ UNCHANGED <<stream, sent, reading, writable, arrived, offered, handlerVars>>

\* The peer closes, or the connection breaks.
Breaks ==
  /\ link = "open" /\ link' = "closed"
  /\ box' = Append(box, Event("ConnectionClosed", <<>>))
  /\ UNCHANGED <<stream, sent, reading, writable, arrived, offered, handlerVars>>

ReceivePiece ==
  /\ link = "open" /\ reading
  /\ \E n \in 1..Len(stream) :
       /\ box' = Append(box, Event("Received", SubSeq(stream, 1, n)))
       /\ stream' = SubSeq(stream, n + 1, Len(stream))
  /\ reading' = FALSE
  /\ UNCHANGED <<sent, link, writable, arrived, offered, handlerVars>>

HeaderOf(n) == CHOOSE header \in Header : LengthOf(header) = n

\* A peer of the same code: messages once it has got the handshake.
PeerSends(m) ==
  /\ Len(sent) < MaxSent /\ link = "open" /\ arrived # <<>>
  /\ sent' = Append(sent, m) /\ stream' = stream \o HeaderOf(Len(m)) \o m
  /\ UNCHANGED <<link, reading, writable, arrived, offered, box, handlerVars>>
-----------------------------------------------------------------------------
ConnectionInit ==
  /\ stream = HandshakeBytes /\ sent = <<>>
  /\ link = "open" /\ reading = TRUE /\ writable = TRUE
  /\ arrived = <<>> /\ offered = <<>> /\ box = <<Event("Handshake", <<>>)>>
  /\ cycle = "handshake" /\ handshakeGot = FALSE /\ handshakeSent = FALSE
  /\ chunksBuffer = <<>> /\ delivered = <<>> /\ told = <<>> /\ gap = FALSE

Took(behaviour, kind) ==
  /\ cycle = behaviour /\ box # <<>> /\ Head(box).kind = kind

(* handshakeCycle *)

SendHandshake ==
  /\ Took("handshake", "Handshake")
  /\ Write("Handshake", Append(Tail(box), Event("HandshakeCheck", <<>>)))
  /\ handshakeSent' = TRUE
  /\ UNCHANGED <<stream, sent, link, reading, cycle, handshakeGot, chunksBuffer,
                 delivered, told, gap>>

\* Bytes behind the handshake are not looked at.
HandshakeReceived ==
  /\ Took("handshake", "Received") /\ IsPrefix(HandshakeBytes, Head(box).data)
  /\ handshakeGot' = TRUE /\ told' = Append(told, "Handshaked") /\ reading' = TRUE
  /\ box' = Append(Tail(box), Event("HandshakeCheck", <<>>))
  /\ gap' = (gap \/ Head(box).data # HandshakeBytes)
  /\ UNCHANGED <<stream, sent, link, writable, arrived, offered, cycle,
                 handshakeSent, chunksBuffer, delivered>>

NoHandshakeReceived ==
  /\ Took("handshake", "Received") /\ ~IsPrefix(HandshakeBytes, Head(box).data)
  /\ box' = Tail(box) /\ Close
  /\ UNCHANGED <<stream, sent, reading, writable, arrived, offered, handlerVars>>

BothHandshakes == handshakeGot /\ handshakeSent

HandshakeCheck ==
  /\ Took("handshake", "HandshakeCheck") /\ box' = Tail(box)
  /\ IF BothHandshakes THEN cycle' = "working" /\ reading' = TRUE
     ELSE UNCHANGED <<cycle, reading>>
  /\ UNCHANGED <<stream, sent, link, writable, arrived, offered, flags,
                 chunksBuffer, delivered, told, gap>>

(* workingCycle *)

SendMessage ==
  /\ Took("working", "Message") /\ Write(Head(box).data, Tail(box))
  /\ UNCHANGED <<stream, sent, link, reading, handlerVars>>

BlacklistPeer ==
  /\ Took("working", "Blacklist") /\ box' = Tail(box)
  /\ told' = Append(told, "AddToBlacklist") /\ Close
  /\ UNCHANGED <<stream, sent, reading, writable, arrived, offered, cycle, flags,
                 chunksBuffer, delivered, gap>>

DataReceived ==
  LET data == chunksBuffer \o Head(box).data
      cut == getPacket(data)
  IN  /\ Took("working", "Received") /\ ~cut.throws /\ box' = Tail(box)
      /\ chunksBuffer' = Remainder(data, cut) /\ reading' = TRUE
      /\ delivered' = delivered \o ParsedOf(cut.packets)
      /\ UNCHANGED <<stream, sent, link, writable, arrived, offered, cycle, flags,
                     told, gap>>

\* An invalid length throws out of the handler: it is restarted and waits for
\* handshakes, of which none will come.
InvalidLength ==
  /\ Took("working", "Received")
  /\ getPacket(chunksBuffer \o Head(box).data).throws
  /\ cycle' = "handshake" /\ handshakeGot' = FALSE /\ handshakeSent' = FALSE
  /\ chunksBuffer' = <<>> /\ reading' = TRUE /\ box' = Tail(box)
  /\ UNCHANGED <<stream, sent, link, writable, arrived, offered, delivered, told, gap>>

(* processErrors, which belongs to both cycles *)

\* (Defect for mutation: it belongs to the second only.)
OnlyWorking == {"working"}

ErrorCycles == {"handshake", "working"}

\* (Defect for mutation: the connection is kept when a write has failed.)
KeptOpen == UNCHANGED link

CloseAfterFailure == Close

WriteFailed ==
  /\ \E behaviour \in ErrorCycles : Took(behaviour, "CommandFailed")
  /\ box' = Tail(box) /\ CloseAfterFailure
  /\ reading' = TRUE /\ writable' = TRUE
  /\ UNCHANGED <<stream, sent, arrived, offered, handlerVars>>

CloseConnection ==
  /\ \E behaviour \in ErrorCycles : Took(behaviour, "CloseConnection")
  /\ box' = Tail(box) /\ Close
  /\ UNCHANGED <<stream, sent, reading, writable, arrived, offered, handlerVars>>

ConnectionClosed ==
  /\ \E behaviour \in ErrorCycles : Took(behaviour, "ConnectionClosed")
  /\ box' = <<>> /\ cycle' = "stopped" /\ told' = Append(told, "Disconnected")
  /\ UNCHANGED <<tcpVars, offered, flags, chunksBuffer, delivered, gap>>

\* A message or a Blacklist before the working cycle, and what is left of the
\* handshakes in it, have no effect.
Unhandled ==
  /\ \/ \E kind \in {"Message", "Blacklist"} : Took("handshake", kind)
     \/ \E kind \in {"Handshake", "HandshakeCheck"} : Took("working", kind)
  /\ box' = Tail(box)
  /\ UNCHANGED <<tcpVars, offered, handlerVars>>

Handle ==
  \/ SendHandshake \/ HandshakeReceived \/ NoHandshakeReceived \/ HandshakeCheck
  \/ SendMessage \/ BlacklistPeer \/ DataReceived \/ InvalidLength
  \/ WriteFailed \/ CloseConnection \/ ConnectionClosed \/ Unhandled

\* What the node sends to the handler.
Command(kind, data) ==
  /\ cycle # "stopped" /\ Len(box) < MaxBox
  /\ \A i \in DOMAIN box : box[i].kind # kind
  /\ box' = Append(box, Event(kind, data))
  /\ UNCHANGED <<tcpVars, offered, handlerVars>>

SendReply(r) == r \notin ToSet(offered) /\ Command("Message", r)

\* Of the PeerManager and the synchronizer: once, for a link that is open.
Enforced(kind) ==
  link = "open" /\ "AddToBlacklist" \notin ToSet(told) /\ Command(kind, <<>>)

ConnectionNext ==
  \/ Handle \/ Closed \/ Breaks \/ ReceivePiece
  \/ \E m \in Msg : PeerSends(m)
  \/ \E r \in Reply : SendReply(r)
  \/ \E kind \in {"Blacklist", "CloseConnection"} : Enforced(kind)

\* The actors take their messages, and the connection reads when it is to and
\* closes when it is told.
Fairness == WF_connectionVars(Handle) /\ WF_connectionVars(ReceivePiece) /\ WF_connectionVars(Closed)

ConnectionSpec == ConnectionInit /\ [][ConnectionNext]_connectionVars /\ Fairness
-----------------------------------------------------------------------------
(* Properties *)

\* Nothing is delivered before both handshakes; and however the stream is cut,
\* what is delivered are messages the peer wrote, in their order and none twice,
\* unless bytes were dropped with the handshake (Buffering, "preserving remainder
\* data").
InOrder ==
  /\ delivered # <<>> => "Handshaked" \in ToSet(told) /\ "Handshake" \in ToSet(offered)
  /\ ~gap => \E kept \in SUBSET (1..Len(sent)) :
       delivered = [i \in 1..Cardinality(kept) |->
                      sent[CHOOSE k \in kept : Cardinality({j \in kept : j <= k}) = i]]

\* Writes that failed leave no hole: the peer gets the first ones of what was
\* written, the handshake before all (PeerConnectionHandler, processErrors).
NoHole == IsPrefix(arrived, offered)

\* On a connection that stays open all that a peer wrote is delivered, if its
\* messages parse and nothing came with its handshake.
AllDelivered ==
  [](link = "open" /\ ~gap /\ ToSet(sent) \cap Corrupt = {}) => <>[](delivered = sent)

\* The PeerManager learns of the end of every connection, whoever closes it and
\* in whatever cycle the handler is.
EndIsTold == (link # "open") ~> (cycle = "stopped" /\ Last(told) = "Disconnected")
=============================================================================
