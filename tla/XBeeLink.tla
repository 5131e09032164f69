------------------------------ MODULE XBeeLink ------------------------------
(***************************************************************************)
(* Packets from the radio to the main loop: a sender that frames them as   *)
(* XBee::send() and sendByte() do, a serial line that may lose bytes, and  *)
(* the parser of XBeeReceiver with its caller.  The sender is the XBee     *)
(* module, which speaks the same escaped protocol as XBee::send.           *)
(* Beside each byte of the queue runs a mark, a history variable: whether  *)
(* the byte is the last of a packet that arrived whole.                    *)
(***************************************************************************)
EXTENDS XBeeReceiver, FiniteSetsExt

CONSTANTS Packets,    \* the packets sent, <<api id, frame data ...>>
          LossMax     \* bytes the line may lose in a behaviour

\* A packet sent fits in the receiver's array, as the receiver counts.
ASSUME XBeeLinkAssumption ==
    /\ Packets \subseteq Seq(Byte) \ {<< >>}
    /\ \A p \in Packets : Len(p) + 3 <= MaxFrameDataSize
    /\ QueueMax > 1 /\ LossMax \in Nat

VARIABLES sender,     \* where send() is: its packet, the byte of the frame it
                      \* is at, whether half of it (the escape) was sent, and
                      \* the sum so far
          hurt,       \* history: a byte of it, or of the one before, was lost
          losses,     \* bytes lost so far
          marks,      \* history: a mark for each byte of the queue
          delivered,  \* the packet last given to the main loop
          missed      \* history: packets that came whole and were not
                      \* delivered since the last damaged one

linkVars == <<sender, hurt, losses, marks, delivered, missed>>
allVars == <<vars, linkVars>>

Begin(p) == [packet |-> p, at |-> 0, half |-> FALSE, sum |-> 0]

ChecksumAt(f) == Len(f.packet) + 3
Sent(f) == f.at > ChecksumAt(f)
InPacket(f) == f.at \in API_ID_INDEX .. ChecksumAt(f) - 1

\* send(): a start byte, the length from the API id on, the packet, and the
\* checksum, which completes the packet's sum to 0xff.
FrameByte(f) ==
    CASE f.at = 0 -> START_BYTE
      [] f.at = 1 -> Len(f.packet) \div 256
      [] f.at = 2 -> Len(f.packet) % 256
      [] InPacket(f) -> f.packet[f.at - 2]
      [] f.at = ChecksumAt(f) -> 255 - f.sum

\* sendByte(b, escape): everything but the start byte is escaped, four values
\* as an escape and the value with bit 5 toggled.
Escaped(f) == f.at > 0 /\ FrameByte(f) \in {START_BYTE, ESCAPE, XON, XOFF}

OnWire(f) == IF ~Escaped(f) THEN FrameByte(f)
             ELSE IF f.half THEN Toggle20(FrameByte(f)) ELSE ESCAPE

EndsByte(f) == Escaped(f) => f.half

\* Mutant: the sum starts after the API id.
Advance_NoApiId(f) ==
    [f EXCEPT !.at = @ + 1, !.half = FALSE,
              !.sum = IF InPacket(f) /\ f.at > API_ID_INDEX
                        THEN (@ + FrameByte(f)) % 256 ELSE @]

Advance(f) ==
    [f EXCEPT !.at = @ + 1, !.half = FALSE,
              !.sum = IF InPacket(f) THEN (@ + FrameByte(f)) % 256 ELSE @]

After(f) == IF EndsByte(f) THEN Advance(f) ELSE [f EXCEPT !.half = TRUE]

IsLast(f) == f.at = ChecksumAt(f) /\ EndsByte(f)

MissedCap == 4   \* how far missed packets are counted (bound)

NoMark == << >>
Damaged == << -1 >>   \* no packet

LinkInit ==
    /\ Init
    /\ sender \in {[Begin(p) EXCEPT !.at = Len(p) + 4] : p \in Packets}
    /\ hurt = FALSE /\ losses = 0
    /\ marks = << >>
    /\ delivered \in Packets
    /\ missed = 0

StartFrame(p) ==
    /\ Sent(sender)
    /\ sender' = Begin(p)
    /\ UNCHANGED <<vars, hurt, losses, marks, delivered, missed>>

\* The last byte of a packet is marked with the packet, or as damaged; if even
\* the last was lost the next start byte carries the news.
Mark(f, torn) == CASE IsLast(f) /\ ~torn -> f.packet
                   [] torn /\ (IsLast(f) \/ f.at = 0) -> Damaged
                   [] OTHER -> NoMark

\* The next byte arrives.
Arrive ==
    /\ ~Sent(sender) /\ Len(queue) < QueueMax
    /\ queue' = Append(queue, OnWire(sender)) /\ sender' = After(sender)
    /\ marks' = Append(marks, Mark(sender, hurt))
    /\ hurt' = (hurt /\ Mark(sender, hurt) # Damaged)
    /\ UNCHANGED <<parser, losses, delivered, missed>>

LoseByte ==
    /\ ~Sent(sender) /\ losses < LossMax
    /\ sender' = After(sender)
    /\ hurt' = TRUE /\ losses' = losses + 1
    /\ UNCHANGED <<vars, marks, delivered, missed>>

\* A turn of the parser, and the main loop's use of a packet it completed.
Receive ==
    /\ ReadPacket
    /\ LET read == Len(queue) - Len(queue')
           ended == {marks[i] : i \in 1 .. read} \ {NoMark}
           completes == ~IsAvailable /\ IsAvailable'
       IN  /\ marks' = SubSeq(marks, read + 1, Len(marks))
           /\ delivered' = IF completes THEN Packet' ELSE delivered
           /\ missed' = IF ended = {} THEN missed
                        ELSE IF ended = {Damaged} \/ (completes /\ Packet' \in ended)
                               THEN 0 ELSE Min({missed + 1, MissedCap})
    /\ UNCHANGED <<sender, hurt, losses>>

LinkNext == Arrive \/ LoseByte \/ Receive \/ \E p \in Packets : StartFrame(p)

(* The main loop calls readPacket for ever, and a frame once started is    *)
(* sent to its end.  Nobody has to start a frame.                          *)
LinkSpec == LinkInit /\ [][LinkNext]_allVars
              /\ WF_allVars(Receive) /\ WF_allVars(Arrive)

-----------------------------------------------------------------------------
(* The packets in a sequence of marks.                                     *)
PacketsIn(s) ==
    LET packets[i \in 0 .. Len(s)] ==
            IF i = 0 THEN << >>
            ELSE IF s[i] \in Packets THEN Append(packets[i - 1], s[i])
                 ELSE packets[i - 1]
    IN  packets[Len(s)]

(* The packets on their way on a line that loses nothing.                  *)
OnTheWay == PacketsIn(marks)
              \o (IF Sent(sender) THEN << >> ELSE <<sender.packet>>)

(* As long as the line loses nothing, the parser and the framing together  *)
(* are a first-in first-out line of packets, wherever a call of readPacket *)
(* runs out of bytes, between an escape and its byte as well: every packet *)
(* is delivered once, unchanged and in order.                              *)
Abstract == INSTANCE FifoLine WITH Item <- Packets, Depth <- QueueMax,
                                   queue <- OnTheWay, line <- delivered
CleanIsFifo ==
    [][losses' = 0 => (Abstract!Next \/ UNCHANGED Abstract!vars)]_allVars

(* And every packet sent on such a line is delivered in the end.           *)
CleanDelivers == []<>(losses > 0) \/ Abstract!Progress

(* Packets that one lost byte cannot disguise.  They are short and begin   *)
(* with an API id of 0x80 or more, as all that the radio sends do.  And no *)
(* byte 125 is followed by 17 or 19 or ends a packet: 125 and 17 are four  *)
(* bytes on the wire, which become 93 and 49 when the second of them is    *)
(* lost, as many bytes with the same sum.                                  *)
Unmistakable ==
    /\ MaxFrameDataSize < 128
    /\ \A p \in Packets :
         /\ p[1] >= 128 /\ p[Len(p)] # ESCAPE
         /\ \A i \in 1 .. Len(p) - 1 : p[i] = ESCAPE => p[i + 1] \notin {XON, XOFF}

(* A packet is delivered only if it was sent: one lost byte of such        *)
(* packets, wherever it is lost, never makes a packet out of the rest of a *)
(* frame or of two.                                                        *)
Genuine == Unmistakable /\ losses <= 1 => delivered \in Packets

(* However bytes were lost, at most three whole packets after a damaged    *)
(* one are missed before the parser is in step again: one whose start byte *)
(* is taken for data, one whose start byte ends the packet so begun, and   *)
(* one that the sum left over from that spoils.                            *)
Resynchronises == missed <= 3
=============================================================================
