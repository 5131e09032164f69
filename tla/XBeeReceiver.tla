---------------------------- MODULE XBeeReceiver ----------------------------
(***************************************************************************)
(* XBee::readPacket() of XBee.cpp, the incremental parser of the radio's   *)
(* API frames (ATAP = 2, escaped).  The main loop calls it again and again;*)
(* a call consumes what the serial buffer holds and returns when a packet  *)
(* is complete, when an error is found or when the buffer is empty, and    *)
(* the half-parsed packet waits in the members of class XBee.              *)
(* One action is one turn of the loop.  Bytes come from the serial buffer, *)
(* here the queue that UartRx implements; the environment appends to it    *)
(* between any two turns.  Bytes have their real values.                   *)
(***************************************************************************)
EXTENDS Integers, Sequences

CONSTANTS MaxFrameDataSize,  \* MAX_FRAME_DATA_SIZE, 110 in the program
          Alphabet,          \* the bytes that may arrive
          QueueMax           \* how many bytes may wait (bound)

Byte == 0 .. 255

ASSUME ReceiverAssumption ==
    /\ MaxFrameDataSize \in 4 .. 251
    /\ Alphabet \subseteq Byte
    /\ QueueMax \in Nat

START_BYTE == 126   \* 0x7e
ESCAPE     == 125   \* 0x7d
XON        == 17
XOFF       == 19
API_ID_INDEX == 3

Toggle20(b) == IF (b \div 32) % 2 = 1 THEN b - 32 ELSE b + 32   \* 0x20 ^ b

NO_ERROR == 0
CHECKSUM_FAILURE == 1
PACKET_EXCEEDS_BYTE_ARRAY_LENGTH == 2
UNEXPECTED_START_BYTE == 3

VARIABLES queue,          \* the serial receive buffer, oldest byte first
          reading,        \* the main program is in the loop of readPacket
          pos,            \* _pos
          escape,         \* _escape
          checksumTotal,  \* _checksumTotal
          response        \* _response, with its part of _responseFrameData

parser == <<reading, pos, escape, checksumTotal, response>>
vars == <<queue, parser>>

Responses == [apiId : Byte, msbLength : Byte, lsbLength : Byte,
              checksum : Byte, frameData : Seq(Byte), available : BOOLEAN,
              errorCode : NO_ERROR .. UNEXPECTED_START_BYTE]

\* XBeeResponse::reset().  The bytes of _responseFrameData stay, and are all
\* written again before the next packet is complete.
ResetResponse == [apiId |-> 0, msbLength |-> 0, lsbLength |-> 0,
                  checksum |-> 0, frameData |-> << >>,
                  available |-> FALSE, errorCode |-> NO_ERROR]

Init ==
    /\ queue = << >>
    /\ reading = FALSE
    /\ pos = 0 /\ escape = FALSE /\ checksumTotal = 0
    /\ response = ResetResponse

\* getPacketLength(): the shifted high byte is masked with 0xff, so it never
\* counts.
PacketLength == ((response.msbLength * 256) % 256) + response.lsbLength

IsAvailable == response.available
IsError == response.errorCode # NO_ERROR

\* What the caller takes from a complete packet: its API id and frame data.
Packet == <<response.apiId>> \o response.frameData

-----------------------------------------------------------------------------
\* Mutant: resetResponse() leaves _escape as it is.
CallReadPacket_KeepsEscape ==
    /\ ~reading
    /\ reading' = TRUE
    /\ IF IsAvailable \/ IsError
         THEN pos' = 0 /\ response' = ResetResponse
         ELSE UNCHANGED <<pos, response>>
    /\ UNCHANGED <<queue, escape, checksumTotal>>

\* A call first discards the response of the call before.
CallReadPacket ==
    /\ ~reading
    /\ reading' = TRUE
    /\ IF IsAvailable \/ IsError
         THEN pos' = 0 /\ escape' = FALSE /\ response' = ResetResponse
         ELSE UNCHANGED <<pos, escape, response>>
    /\ UNCHANGED <<queue, checksumTotal>>

\* `while (available())` ends: the packet so far waits for the next call.
OutOfBytes ==
    /\ reading /\ queue = << >>
    /\ reading' = FALSE
    /\ UNCHANGED <<queue, pos, escape, checksumTotal, response>>

Turn == reading /\ queue # << >>
Restarts == pos > 0 /\ Head(queue) = START_BYTE
Escapes  == pos > 0 /\ Head(queue) = ESCAPE

UnexpectedStart ==
    /\ Turn /\ Restarts
    /\ queue' = Tail(queue)
    /\ response' = [response EXCEPT !.errorCode = UNEXPECTED_START_BYTE]
    /\ reading' = FALSE
    /\ UNCHANGED <<pos, escape, checksumTotal>>

\* Mutant: the escape byte is dropped.
EscapeAlone_Forgets ==
    /\ Turn /\ Escapes /\ Len(queue) = 1
    /\ queue' = << >>
    /\ UNCHANGED <<reading, pos, escape, checksumTotal, response>>

\* An escape byte at the end of the buffer is remembered for later.
EscapeAlone ==
    /\ Turn /\ Escapes /\ Len(queue) = 1
    /\ queue' = << >>
    /\ escape' = TRUE
    /\ UNCHANGED <<reading, pos, checksumTotal, response>>

\* An escape byte that is not alone takes the next byte with it, whatever
\* that is; a remembered one applies to this byte.
Taken == IF Escapes THEN 2 ELSE 1
Unescaped ==
    LET b == IF Escapes THEN Toggle20(queue[2]) ELSE Head(queue)
    IN  IF escape THEN Toggle20(b) ELSE b

\* The common part of every turn that gets as far as the switch.
TakesByte ==
    /\ Turn /\ ~Restarts /\ Taken <= Len(queue)
    /\ queue' = SubSeq(queue, Taken + 1, Len(queue))
    /\ escape' = FALSE

Summed == (checksumTotal + Unescaped) % 256

AwaitStart ==
    /\ TakesByte /\ pos = 0
    /\ pos' = IF Unescaped = START_BYTE THEN 1 ELSE 0
    /\ UNCHANGED <<reading, checksumTotal, response>>

LengthByte ==
    /\ TakesByte
    /\ \/ /\ pos = 1
          /\ response' = [response EXCEPT !.msbLength = Unescaped]
       \/ /\ pos = 2
          /\ response' = [response EXCEPT !.lsbLength = Unescaped]
    /\ pos' = pos + 1
    /\ UNCHANGED <<reading, checksumTotal>>

ApiIdByte ==
    /\ TakesByte /\ pos = API_ID_INDEX
    /\ checksumTotal' = Summed
    /\ response' = [response EXCEPT !.apiId = Unescaped, !.frameData = << >>]
    /\ pos' = pos + 1
    /\ UNCHANGED reading

\* Mutant: one place too late.
BeyondArray_Late == pos > MaxFrameDataSize + 1

BeyondArray == pos > MaxFrameDataSize

TooLong ==
    /\ TakesByte /\ pos > API_ID_INDEX /\ BeyondArray
    /\ checksumTotal' = Summed
    /\ response' = [response EXCEPT !.errorCode = PACKET_EXCEEDS_BYTE_ARRAY_LENGTH]
    /\ reading' = FALSE
    /\ UNCHANGED pos

AtChecksum == pos > API_ID_INDEX /\ ~BeyondArray /\ pos = PacketLength + 3

\* Mutant: the checksum is not looked at.
EndOfPacket_NoCheck ==
    /\ TakesByte /\ AtChecksum
    /\ response' = [response EXCEPT !.checksum = Unescaped, !.available = TRUE]
    /\ pos' = 0 /\ checksumTotal' = 0
    /\ reading' = FALSE

\* Mutant: the sum goes on from packet to packet.
EndOfPacket_KeepsSum ==
    /\ TakesByte /\ AtChecksum
    /\ response' = IF Summed = 255
                     THEN [response EXCEPT !.checksum = Unescaped, !.available = TRUE]
                     ELSE [response EXCEPT !.errorCode = CHECKSUM_FAILURE]
    /\ pos' = 0 /\ checksumTotal' = Summed
    /\ reading' = FALSE

EndOfPacket ==
    /\ TakesByte /\ AtChecksum
    /\ response' = IF Summed = 255
                     THEN [response EXCEPT !.checksum = Unescaped, !.available = TRUE]
                     ELSE [response EXCEPT !.errorCode = CHECKSUM_FAILURE]
    /\ pos' = 0 /\ checksumTotal' = 0
    /\ reading' = FALSE

DataByte ==
    /\ TakesByte /\ pos > API_ID_INDEX /\ ~BeyondArray /\ ~AtChecksum
    /\ checksumTotal' = Summed
    /\ response' = [response EXCEPT !.frameData = Append(@, Unescaped)]
    /\ pos' = pos + 1
    /\ UNCHANGED reading

ReadPacket == \/ CallReadPacket \/ OutOfBytes \/ UnexpectedStart \/ EscapeAlone
              \/ AwaitStart \/ LengthByte \/ ApiIdByte
              \/ TooLong \/ EndOfPacket \/ DataByte

\* Any byte may arrive at any time.
ByteArrives(b) ==
    /\ Len(queue) < QueueMax
    /\ queue' = Append(queue, b)
    /\ UNCHANGED parser

Next == ReadPacket \/ \E b \in Alphabet : ByteArrives(b)

Spec == Init /\ [][Next]_vars

-----------------------------------------------------------------------------
(* Type invariant.                                                         *)
TypeOK ==
    /\ queue \in Seq(Byte)
    /\ reading \in BOOLEAN
    /\ pos \in 0 .. MaxFrameDataSize + 1
    /\ escape \in BOOLEAN
    /\ checksumTotal \in Byte
    /\ response \in Responses

(* Whatever arrives: the bytes stored are exactly those between the API id *)
(* and the position, never more than the array has room for; an escape is  *)
(* remembered only inside a packet; no byte is parsed into a response that *)
(* was not discarded; and a packet handed to the caller has the length its *)
(* header announced.                                                       *)
Consistent ==
    /\ pos > API_ID_INDEX => Len(response.frameData) = pos - 4
    /\ Len(response.frameData) <= MaxFrameDataSize - 3
    /\ escape => pos > 0
    /\ reading => ~IsAvailable /\ ~IsError
    /\ IsAvailable => /\ pos = 0 /\ checksumTotal = 0 /\ ~IsError
                      /\ Len(response.frameData) + 1 = PacketLength
=============================================================================
