----------------------------- MODULE XBeeProofs -----------------------------
(***************************************************************************)
(* The bookkeeping of readPacket holds for every array size and for any    *)
(* bytes in any order: TypeOK and Consistent are inductive together.       *)
(*                                                                         *)
(* And of send() and readPacket() together, for all packets that fit: on a *)
(* line that loses nothing they are a first-in first-out line of packets,  *)
(* and after bytes were lost, however many, at most three whole packets    *)
(* are missed.  One invariant carries both.  It gives each byte of the     *)
(* queue its place in a frame, a trail of places that follow each other up *)
(* to the sender's but for what was lost; and it bounds what the parser    *)
(* owes at the first of them, the packets it may still miss from there on. *)
(*                                                                         *)
(* Last, no packet is made up after a single loss.  The places are counted *)
(* again, with the one the loss came after, and the parser beyond it is    *)
(* harmless: it counts on more bytes than are left, or its sum is wrong.   *)
(***************************************************************************)
EXTENDS XBeeLink, SequenceTheorems, WellFoundedInduction, TLAPS

IInv == TypeOK /\ Consistent

\* Toggling bit 5 of a byte gives a byte.
LEMMA ToggleType == \A b \in Byte : Toggle20(b) \in Byte
  <1> SUFFICES ASSUME NEW b \in Byte PROVE Toggle20(b) \in Byte
    OBVIOUS
  <1>1. CASE (b \div 32) % 2 = 1
    <2>1. b >= 32
      BY <1>1 DEF Byte
    <2>2. QED
      BY <1>1, <2>1 DEF Byte, Toggle20
  <1>2. CASE (b \div 32) % 2 # 1
    <2>1. b < 224
      BY <1>2 DEF Byte
    <2>2. QED
      BY <1>2, <2>1 DEF Byte, Toggle20
  <1>3. QED
    BY <1>1, <1>2

\* What a turn of the loop takes from the buffer.
LEMMA TakesByteType ==
    ASSUME TypeOK, TakesByte
    PROVE  /\ Unescaped \in Byte
           /\ Summed \in Byte
           /\ queue' \in Seq(Byte)
           /\ escape' = FALSE
           /\ reading
  <1>1. queue # << >> /\ queue \in Seq(Byte)
    BY DEF TypeOK, TakesByte, Turn
  <1>2. Len(queue) \in Nat /\ Len(queue) >= 1 /\ Head(queue) \in Byte
    BY <1>1, EmptySeq, HeadTailProperties
  <1>3. Escapes => queue[2] \in Byte
    <2>1. Escapes => 2 \in 1 .. Len(queue)
      BY <1>2 DEF TakesByte, Taken
    <2>2. QED
      BY <1>1, <2>1, ElementOfSeq
  <1>4. Unescaped \in Byte
    BY <1>2, <1>3, ToggleType DEF Unescaped
  <1>5. Summed \in Byte
    BY <1>4 DEF Summed, TypeOK, Byte
  <1>6. queue' \in Seq(Byte)
    <2>1. \A i \in Taken + 1 .. Len(queue) : queue[i] \in Byte
      BY <1>1, <1>2, ElementOfSeq DEF Taken
    <2>2. Taken + 1 \in Int
      BY DEF Taken
    <2>3. QED
      BY <1>2, <2>1, <2>2, SubSeqProperties DEF TakesByte
  <1>7. QED
    BY <1>4, <1>5, <1>6 DEF TakesByte, Turn

\* A high byte leaves the low byte of a sum alone.
LEMMA Shifted == \A n \in Nat : (n * 256) % 256 = 0
  OBVIOUS

\* The high byte of the length never counts.
LEMMA PacketLengthIsLsb ==
    ASSUME NEW m \in Byte, NEW l \in Byte
    PROVE  ((m * 256) % 256) + l = l
  <1>1. m \in Nat /\ l \in Nat
    BY DEF Byte
  <1>2. (m * 256) % 256 = 0
    BY <1>1, Shifted
  <1> DEFINE z == (m * 256) % 256
  <1> HIDE DEF z
  <1>3. z = 0 => z + l = l
    BY <1>1
  <1>4. QED
    BY <1>2, <1>3 DEF z

\* The fields a turn may change keep a response a response.
LEMMA UpdateLength ==
    \A r \in Responses, x \in Byte :
        /\ [r EXCEPT !.msbLength = x] \in Responses
        /\ [r EXCEPT !.lsbLength = x] \in Responses
  BY DEF Responses

LEMMA UpdateApiId ==
    \A r \in Responses, x \in Byte, f \in Seq(Byte) :
        [r EXCEPT !.apiId = x, !.frameData = f] \in Responses
  BY DEF Responses

LEMMA UpdateData ==
    \A r \in Responses, f \in Seq(Byte) : [r EXCEPT !.frameData = f] \in Responses
  BY DEF Responses

LEMMA UpdateError ==
    \A r \in Responses, e \in NO_ERROR .. UNEXPECTED_START_BYTE :
        [r EXCEPT !.errorCode = e] \in Responses
  BY DEF Responses

LEMMA UpdateChecksum ==
    \A r \in Responses, x \in Byte :
        [r EXCEPT !.checksum = x, !.available = TRUE] \in Responses
  BY DEF Responses

-----------------------------------------------------------------------------
\* The invariant holds at the start.
LEMMA InitInv == Init => IInv
  <1> SUFFICES ASSUME Init PROVE IInv
    OBVIOUS
  <1>1. 0 \in Byte /\ 0 \in 0 .. 3 /\ 0 \in 0 .. MaxFrameDataSize + 1
        /\ 0 <= MaxFrameDataSize - 3
    BY ReceiverAssumption DEF Byte
  <1>2. << >> \in Seq(Byte) /\ Len(<< >>) = 0
    BY EmptySeq
  <1>3. ResetResponse \in Responses
    BY <1>1, <1>2 DEF ResetResponse, Responses, NO_ERROR, UNEXPECTED_START_BYTE
  <1>4. TypeOK
    BY <1>1, <1>2, <1>3 DEF Init, TypeOK
  <1>5. Consistent
    BY <1>1, <1>2 DEF Init, Consistent, ResetResponse, IsAvailable, API_ID_INDEX
  <1>6. QED
    BY <1>4, <1>5 DEF IInv

\* The parser and its queue, whatever byte arrives.
AnyStep == ReadPacket \/ (\E b \in Byte : ByteArrives(b)) \/ UNCHANGED vars

\* Each step keeps the types.
LEMMA NextType == IInv /\ AnyStep => TypeOK'
  <1> SUFFICES ASSUME IInv, AnyStep PROVE TypeOK'
    OBVIOUS
  <1> USE DEF IInv, TypeOK
  <1>0. /\ MaxFrameDataSize \in 4 .. 251 /\ Alphabet \subseteq Byte
        /\ 0 \in Byte
        /\ {0, 1, 2, 3, 4} \subseteq 0 .. MaxFrameDataSize + 1
        /\ \A p \in 0 .. MaxFrameDataSize : p + 1 \in 0 .. MaxFrameDataSize + 1
        /\ << >> \in Seq(Byte)
        /\ \A e \in 0 .. 3 : e \in NO_ERROR .. UNEXPECTED_START_BYTE
    BY ReceiverAssumption, EmptySeq
       DEF Byte, NO_ERROR, UNEXPECTED_START_BYTE
  <1>1. CASE CallReadPacket
    <2>1. ResetResponse \in Responses
      BY <1>0 DEF ResetResponse, Responses, NO_ERROR
    <2>2. QED
      BY <1>0, <1>1, <2>1 DEF CallReadPacket
  <1>2. CASE OutOfBytes
    BY <1>2 DEF OutOfBytes
  <1>3. CASE UnexpectedStart
    <2>1. queue' \in Seq(Byte)
      BY <1>3, HeadTailProperties DEF UnexpectedStart, Turn
    <2>2. response' \in Responses
      <3>1. response' = [response EXCEPT !.errorCode = UNEXPECTED_START_BYTE]
        BY <1>3 DEF UnexpectedStart
      <3>2. UNEXPECTED_START_BYTE \in NO_ERROR .. UNEXPECTED_START_BYTE
        BY DEF NO_ERROR, UNEXPECTED_START_BYTE
      <3>3. QED
        BY <3>1, <3>2, UpdateError
    <2>3. QED
      BY <1>3, <2>1, <2>2 DEF UnexpectedStart
  <1>4. CASE EscapeAlone
    BY <1>0, <1>4 DEF EscapeAlone
  <1>5. CASE AwaitStart
    <2>1. pos' \in 0 .. MaxFrameDataSize + 1
      BY <1>0, <1>5 DEF AwaitStart
    <2>2. QED
      BY <1>5, <2>1, TakesByteType DEF AwaitStart
  <1>6. CASE LengthByte
    <2>1. pos' \in 0 .. MaxFrameDataSize + 1
      <3>1. pos' \in {2, 3}
        BY <1>6 DEF LengthByte
      <3>2. QED
        BY <1>0, <3>1
    <2>2. response' \in Responses
      BY <1>6, TakesByteType, UpdateLength DEF LengthByte
    <2>3. QED
      BY <1>6, <2>1, <2>2, TakesByteType DEF LengthByte
  <1>7. CASE ApiIdByte
    <2>1. pos' \in 0 .. MaxFrameDataSize + 1
      <3>1. pos' = 4
        BY <1>7 DEF ApiIdByte, API_ID_INDEX
      <3>2. QED
        BY <1>0, <3>1
    <2>2. response' \in Responses
      BY <1>0, <1>7, TakesByteType, UpdateApiId DEF ApiIdByte
    <2>3. QED
      BY <1>7, <2>1, <2>2, TakesByteType DEF ApiIdByte
  <1>8. CASE TooLong
    <2>1. response' \in Responses
      BY <1>0, <1>8, UpdateError
         DEF TooLong, PACKET_EXCEEDS_BYTE_ARRAY_LENGTH
    <2>2. QED
      BY <1>8, <2>1, TakesByteType DEF TooLong
  <1>9. CASE EndOfPacket
    <2>1. response' \in Responses
      <3>1. CASE Summed = 255
        <4>1. response' = [response EXCEPT !.checksum = Unescaped, !.available = TRUE]
          BY <1>9, <3>1 DEF EndOfPacket
        <4>2. Unescaped \in Byte
          BY <1>9, TakesByteType DEF EndOfPacket
        <4>3. QED
          BY <4>1, <4>2, UpdateChecksum
      <3>2. CASE Summed # 255
        BY <1>0, <1>9, <3>2, UpdateError DEF EndOfPacket, CHECKSUM_FAILURE
      <3>3. QED
        BY <3>1, <3>2
    <2>2. QED
      BY <1>0, <1>9, <2>1, TakesByteType DEF EndOfPacket
  <1>10. CASE DataByte
    <2>1. Append(response.frameData, Unescaped) \in Seq(Byte)
      BY <1>10, TakesByteType, AppendProperties DEF DataByte, Responses
    <2>2. response' = [response EXCEPT !.frameData = Append(response.frameData, Unescaped)]
      BY <1>10 DEF DataByte
    <2>3. response' \in Responses
      BY <2>1, <2>2, UpdateData
    <2>4. pos' \in 0 .. MaxFrameDataSize + 1
      <3>1. ~(pos > MaxFrameDataSize) /\ pos' = pos + 1
        BY <1>10 DEF DataByte, BeyondArray
      <3>2. QED
        BY <1>0, <3>1
    <2>5. QED
      BY <1>10, <2>3, <2>4, TakesByteType DEF DataByte
  <1>11. ASSUME NEW b \in Byte, ByteArrives(b) PROVE TypeOK'
    <2>1. queue' \in Seq(Byte)
      BY <1>0, <1>11, AppendProperties DEF ByteArrives
    <2>2. QED
      BY <1>11, <2>1 DEF ByteArrives, parser
  <1>12. CASE UNCHANGED vars
    BY <1>12 DEF vars, parser
  <1>13. QED
    BY <1>1, <1>2, <1>3, <1>4, <1>5, <1>6, <1>7, <1>8, <1>9, <1>10, <1>11,
       <1>12 DEF AnyStep, ReadPacket

\* Each step keeps the bookkeeping.
LEMMA NextConsistent == IInv /\ AnyStep => Consistent'
  <1> SUFFICES ASSUME IInv, AnyStep PROVE Consistent'
    OBVIOUS
  <1> USE DEF IInv, Consistent, IsAvailable, IsError
  <1>0. /\ MaxFrameDataSize \in 4 .. 251
        /\ pos \in 0 .. MaxFrameDataSize + 1
        /\ Len(<< >>) = 0
        /\ API_ID_INDEX = 3 /\ NO_ERROR = 0
        /\ response.frameData \in Seq(Byte) /\ Len(response.frameData) \in Nat
        /\ response \in Responses
    BY ReceiverAssumption, EmptySeq, LenProperties
       DEF TypeOK, Responses, API_ID_INDEX, NO_ERROR
  <1>1. CASE CallReadPacket
    <2>1. CASE response.available \/ response.errorCode # NO_ERROR
      <3>1. pos' = 0 /\ escape' = FALSE /\ response' = ResetResponse
        BY <1>1, <2>1 DEF CallReadPacket
      <3>2. QED
        BY <1>0, <3>1 DEF ResetResponse
    <2>2. CASE ~(response.available \/ response.errorCode # NO_ERROR)
      BY <1>1, <2>2 DEF CallReadPacket
    <2>3. QED
      BY <2>1, <2>2
  <1>2. CASE OutOfBytes
    BY <1>2 DEF OutOfBytes, PacketLength
  <1>3. CASE UnexpectedStart
    <2>1. /\ response'.frameData = response.frameData
          /\ response'.available = response.available
      BY <1>0, <1>3 DEF UnexpectedStart, Responses
    <2>2. ~response.available
      BY <1>3 DEF UnexpectedStart, Turn
    <2>3. QED
      BY <1>3, <2>1, <2>2 DEF UnexpectedStart
  <1>4. CASE EscapeAlone
    BY <1>4 DEF EscapeAlone, Turn, Escapes, PacketLength
  <1>5. CASE AwaitStart
    BY <1>0, <1>5, TakesByteType DEF AwaitStart
  <1>6. CASE LengthByte
    <2>1. /\ response'.frameData = response.frameData
          /\ response'.available = response.available
          /\ response'.errorCode = response.errorCode
      BY <1>0, <1>6 DEF LengthByte, Responses
    <2>2. pos' \in {2, 3} /\ escape' = FALSE /\ reading /\ reading' = reading
      BY <1>6, TakesByteType DEF LengthByte
    <2>3. QED
      BY <1>0, <2>1, <2>2
  <1>7. CASE ApiIdByte
    <2>1. /\ response'.frameData = << >>
          /\ response'.available = response.available
          /\ response'.errorCode = response.errorCode
      BY <1>0, <1>7 DEF ApiIdByte, Responses
    <2>2. pos' = 4 /\ escape' = FALSE /\ reading /\ reading' = reading
      BY <1>0, <1>7, TakesByteType DEF ApiIdByte
    <2>3. QED
      BY <1>0, <2>1, <2>2
  <1>8. CASE TooLong
    <2>1. /\ response'.frameData = response.frameData
          /\ response'.available = response.available
      BY <1>0, <1>8 DEF TooLong, Responses
    <2>2. escape' = FALSE /\ reading /\ reading' = FALSE /\ pos' = pos
      BY <1>8, TakesByteType DEF TooLong
    <2>3. QED
      BY <1>0, <2>1, <2>2
  <1>9. CASE EndOfPacket
    <2>1. /\ response'.frameData = response.frameData
          /\ response'.msbLength = response.msbLength
          /\ response'.lsbLength = response.lsbLength
      BY <1>0, <1>9 DEF EndOfPacket, Responses
    <2>2. PacketLength \in Nat
      <3>1. PacketLength = response.lsbLength
        BY <1>0, PacketLengthIsLsb DEF PacketLength, Responses
      <3>2. QED
        <4>1. response.lsbLength \in 0 .. 255
          BY <1>0 DEF Responses, Byte
        <4>2. PacketLength \in 0 .. 255
          BY ONLY <3>1, <4>1
        <4>3. QED
          BY ONLY <4>2
    <2>3. Len(response.frameData) + 1 = PacketLength
      BY <1>0, <1>9, <2>2 DEF EndOfPacket, AtChecksum, BeyondArray
    <2>4. PacketLength' = PacketLength
      BY <2>1 DEF PacketLength
    <2>5. reading /\ ~response.available /\ response.errorCode = NO_ERROR
      BY <1>9, TakesByteType DEF EndOfPacket
    <2>6. response'.available => response'.errorCode = NO_ERROR
      <3>1. CASE Summed = 255
        BY <1>0, <1>9, <2>5, <3>1 DEF EndOfPacket, Responses
      <3>2. CASE Summed # 255
        BY <1>0, <1>9, <2>5, <3>2 DEF EndOfPacket, Responses
      <3>3. QED
        BY <3>1, <3>2
    <2>7. pos' = 0 /\ checksumTotal' = 0 /\ reading' = FALSE /\ escape' = FALSE
      BY <1>9, TakesByteType DEF EndOfPacket
    <2>8. QED
      BY <1>0, <2>1, <2>3, <2>4, <2>6, <2>7
  <1>10. CASE DataByte
    <2> DEFINE d == response.frameData
    <2>1. Len(Append(d, Unescaped)) = Len(d) + 1
      BY <1>0, <1>10, TakesByteType, AppendProperties DEF DataByte
    <2>2. /\ response'.frameData = Append(d, Unescaped)
          /\ response'.available = response.available
          /\ response'.errorCode = response.errorCode
      BY <1>0, <1>10 DEF DataByte, Responses
    <2>3. /\ pos' = pos + 1 /\ pos > 3 /\ pos <= MaxFrameDataSize
          /\ escape' = FALSE /\ reading /\ reading' = reading
      <3>1. /\ pos' = pos + 1 /\ pos > API_ID_INDEX /\ ~(pos > MaxFrameDataSize)
            /\ reading' = reading
        BY <1>10 DEF DataByte, BeyondArray
      <3>2. escape' = FALSE /\ reading
        BY <1>0, <1>10, TakesByteType DEF DataByte
      <3>3. pos > 3 /\ pos <= MaxFrameDataSize
        BY <1>0, <3>1 DEF API_ID_INDEX
      <3>4. QED
        BY <3>1, <3>2, <3>3
    <2>4. Len(d) = pos - 4
      BY <1>0, <2>3
    <2>5. /\ Len(response'.frameData) = pos' - 4
          /\ Len(response'.frameData) <= MaxFrameDataSize - 3
      BY <1>0, <2>1, <2>2, <2>3, <2>4
    <2>6. ~response.available /\ response.errorCode = NO_ERROR
      BY <2>3
    <2>7. QED
      BY <1>0, <2>2, <2>3, <2>5, <2>6
  <1>11. ASSUME NEW b \in Byte, ByteArrives(b) PROVE Consistent'
    BY <1>11 DEF ByteArrives, parser, PacketLength
  <1>12. CASE UNCHANGED vars
    BY <1>12 DEF vars, parser, PacketLength
  <1>13. QED
    BY <1>1, <1>2, <1>3, <1>4, <1>5, <1>6, <1>7, <1>8, <1>9, <1>10, <1>11,
       <1>12 DEF AnyStep, ReadPacket

\* The inductive invariant of the parser: its types and its bookkeeping.
THEOREM Invariance == Spec => []IInv
  <1>1. IInv /\ [Next]_vars => IInv'
    <2>1. [Next]_vars => AnyStep
      BY ReceiverAssumption DEF Next, AnyStep
    <2>2. QED
      BY <2>1, NextType, NextConsistent DEF IInv
  <1>2. QED
    BY <1>1, InitInv, PTL DEF Spec

\* Every member keeps its type: _pos and the error code stay in range.
THEOREM TypeCorrect == Spec => []TypeOK
  <1>1. IInv => TypeOK
    BY DEF IInv
  <1>2. QED
    BY <1>1, Invariance, PTL

\* The parser's bookkeeping: the array is never overrun, an escape is only
\* remembered inside a packet, nothing is parsed into an undiscarded response,
\* and a packet delivered has the length its header announced.
THEOREM AlwaysConsistent == Spec => []Consistent
  <1>1. IInv => Consistent
    BY DEF IInv
  <1>2. QED
    BY <1>1, Invariance, PTL

-----------------------------------------------------------------------------
\* Induction over the naturals, for sets.
LEMMA NatSetInduction ==
    ASSUME NEW T, 0 \in T, \A n \in Nat : n \in T => n + 1 \in T
    PROVE  Nat \subseteq T
  <1> DEFINE R == OpToRel(<, Nat)
             S == Nat \ T
  <1>1. SUFFICES ASSUME S # {} PROVE FALSE
    OBVIOUS
  <1>2. PICK m \in S : \A y \in S : ~ (<<y, m>> \in R)
    <2>1. IsWellFoundedOn(R, Nat)
      BY NatLessThanWellFounded
    <2> HIDE DEF R
    <2>2. S \subseteq Nat
      OBVIOUS
    <2> HIDE DEF S
    <2>3. QED
      BY <1>1, <2>1, <2>2, WFMin
  <1>3. m # 0 /\ m - 1 \in Nat
    OBVIOUS
  <1>4. <<m - 1, m>> \in R
    BY <1>3 DEF OpToRel
  <1>5. m - 1 \in T
    BY <1>2, <1>3, <1>4
  <1>6. QED
    BY <1>3, <1>5

-----------------------------------------------------------------------------
(* The packets among the marks, in order.                                  *)

Collects(s, f) ==
    f = [i \in 0 .. Len(s) |->
           IF i = 0 THEN << >>
           ELSE IF s[i] \in Packets THEN Append(f[i - 1], s[i]) ELSE f[i - 1]]
Collected(s) == CHOOSE f : Collects(s, f)

\* The function that PacketsIn chooses exists.
LEMMA CollectedExists ==
    ASSUME NEW M, NEW s \in Seq(M)
    PROVE  \E f : Collects(s, f)
  <1> DEFINE N == Len(s)
             Upto(n, f) == f = [i \in 0 .. n |->
                 IF i = 0 THEN << >>
                 ELSE IF s[i] \in Packets THEN Append(f[i - 1], s[i]) ELSE f[i - 1]]
             T == {n \in Nat : \E f : Upto(n, f)}
  <1>1. N \in Nat
    BY LenProperties
  <1>2. 0 \in T
    <2>1. Upto(0, [i \in 0 .. 0 |-> << >>])
      OBVIOUS
    <2>2. QED
      BY <2>1
  <1>3. ASSUME NEW n \in Nat, n \in T PROVE n + 1 \in T
    <2>1. PICK f : Upto(n, f)
      BY <1>3
    <2> DEFINE x == IF s[n + 1] \in Packets THEN Append(f[n], s[n + 1]) ELSE f[n]
               g == [i \in 0 .. n + 1 |-> IF i = n + 1 THEN x ELSE f[i]]
    <2>2. \A i \in 0 .. n : f[i] = IF i = 0 THEN << >>
                 ELSE IF s[i] \in Packets THEN Append(f[i - 1], s[i]) ELSE f[i - 1]
      BY <2>1
    <2> HIDE DEF x
    <2>3. \A i \in 0 .. n : g[i] = f[i]
      OBVIOUS
    <2>4. g[n + 1] = x
      OBVIOUS
    <2> HIDE DEF g
    <2>5. ASSUME NEW i \in 0 .. n + 1
          PROVE  g[i] = IF i = 0 THEN << >>
                   ELSE IF s[i] \in Packets THEN Append(g[i - 1], s[i]) ELSE g[i - 1]
      <3>1. CASE i = 0
        BY <2>2, <2>3, <3>1
      <3>2. CASE i \in 1 .. n
        <4>1. g[i] = f[i] /\ g[i - 1] = f[i - 1]
          BY <2>3, <3>2
        <4>2. QED
          BY <2>2, <3>2, <4>1
      <3>3. CASE i = n + 1
        <4>1. g[i - 1] = f[n] /\ i # 0
          BY <2>3, <3>3
        <4>2. QED
          BY <2>4, <3>3, <4>1 DEF x
      <3>4. QED
        BY <3>1, <3>2, <3>3
    <2>6. Upto(n + 1, g)
      BY <2>5 DEF g
    <2>7. QED
      BY <2>6
  <1>4. N \in T
    <2> HIDE DEF T
    <2>1. QED
      BY <1>1, <1>2, <1>3, NatSetInduction
  <1>5. QED
    BY <1>4 DEF Collects

\* And it obeys its equation.
LEMMA CollectedRule ==
    ASSUME NEW M, NEW s \in Seq(M)
    PROVE  /\ Collected(s)[0] = << >>
           /\ \A i \in 0 .. Len(s) - 1 :
                Collected(s)[i + 1] =
                  IF s[i + 1] \in Packets THEN Append(Collected(s)[i], s[i + 1])
                                          ELSE Collected(s)[i]
  <1> DEFINE c == Collected(s)
  <1>1. \A i \in 0 .. Len(s) :
          c[i] = IF i = 0 THEN << >>
                 ELSE IF s[i] \in Packets THEN Append(c[i - 1], s[i]) ELSE c[i - 1]
    <2>1. Collects(s, c)
      BY CollectedExists DEF Collected
    <2> HIDE DEF c
    <2>2. QED
      BY <2>1 DEF Collects
  <1> HIDE DEF c
  <1>2. Len(s) \in Nat
    BY LenProperties
  <1>3. c[0] = << >>
    BY <1>1, <1>2
  <1>4. ASSUME NEW i \in 0 .. Len(s) - 1
        PROVE  c[i + 1] = IF s[i + 1] \in Packets THEN Append(c[i], s[i + 1]) ELSE c[i]
    <2>1. i + 1 \in 0 .. Len(s) /\ i + 1 # 0 /\ i + 1 - 1 = i
      BY <1>2
    <2> DEFINE j == i + 1
    <2>2. c[j] = IF s[j] \in Packets THEN Append(c[j - 1], s[j]) ELSE c[j - 1]
      <3> HIDE DEF j
      <3>1. QED
        BY <1>1, <2>1 DEF j
    <2>3. QED
      BY <2>1, <2>2
  <1>5. QED
    BY <1>3, <1>4 DEF c

\* It collects packets, at most one for each mark.
LEMMA CollectedType ==
    ASSUME NEW M, NEW s \in Seq(M)
    PROVE  \A i \in 0 .. Len(s) :
             Collected(s)[i] \in Seq(Packets) /\ Len(Collected(s)[i]) <= i
  <1> DEFINE c == Collected(s)
             T == {n \in Nat : n \in 0 .. Len(s) =>
                                 c[n] \in Seq(Packets) /\ Len(c[n]) <= n}
  <1>1. /\ c[0] = << >>
        /\ \A i \in 0 .. Len(s) - 1 :
             c[i + 1] = IF s[i + 1] \in Packets THEN Append(c[i], s[i + 1]) ELSE c[i]
    BY CollectedRule
  <1> HIDE DEF c
  <1>2. Len(s) \in Nat
    BY LenProperties
  <1>3. 0 \in T
    <2>1. c[0] \in Seq(Packets) /\ Len(c[0]) = 0
      BY <1>1, EmptySeq
    <2>2. QED
      BY <1>2, <2>1
  <1>4. ASSUME NEW n \in Nat, n \in T PROVE n + 1 \in T
    <2>1. SUFFICES ASSUME n + 1 \in 0 .. Len(s)
                   PROVE  c[n + 1] \in Seq(Packets) /\ Len(c[n + 1]) <= n + 1
      OBVIOUS
    <2>2. c[n] \in Seq(Packets) /\ Len(c[n]) <= n /\ Len(c[n]) \in Nat
      BY <1>2, <1>4, <2>1, LenProperties
    <2>3. CASE s[n + 1] \in Packets
      <3>1. c[n + 1] = Append(c[n], s[n + 1])
        <4>1. n \in 0 .. Len(s) - 1
          BY <1>2, <2>1
        <4>2. QED
          BY <1>1, <2>3, <4>1
      <3>2. c[n + 1] \in Seq(Packets) /\ Len(c[n + 1]) = Len(c[n]) + 1
        BY <2>2, <2>3, <3>1, AppendProperties
      <3>3. QED
        BY <2>2, <3>2
    <2>4. CASE s[n + 1] \notin Packets
      <3>1. c[n + 1] = c[n]
        BY <1>1, <1>2, <2>1, <2>4
      <3>2. QED
        BY <2>2, <3>1
    <2>5. QED
      BY <2>3, <2>4
  <1>5. Nat \subseteq T
    <2> HIDE DEF T
    <2>1. QED
      BY <1>3, <1>4, NatSetInduction
  <1>6. QED
    BY <1>2, <1>5 DEF c

\* What was collected up to a place depends only on what lies before it.
LEMMA CollectedPrefix ==
    ASSUME NEW M, NEW s \in Seq(M), NEW t \in Seq(M),
           NEW n \in Nat, n <= Len(s), n <= Len(t),
           \A i \in 1 .. n : s[i] = t[i]
    PROVE  Collected(s)[n] = Collected(t)[n]
  <1> DEFINE c == Collected(s)
             d == Collected(t)
             T == {k \in Nat : k <= n => c[k] = d[k]}
  <1>1. /\ c[0] = << >> /\ d[0] = << >>
        /\ \A i \in 0 .. Len(s) - 1 :
             c[i + 1] = IF s[i + 1] \in Packets THEN Append(c[i], s[i + 1]) ELSE c[i]
        /\ \A i \in 0 .. Len(t) - 1 :
             d[i + 1] = IF t[i + 1] \in Packets THEN Append(d[i], t[i + 1]) ELSE d[i]
    BY CollectedRule
  <1> HIDE DEF c, d
  <1>2. Len(s) \in Nat /\ Len(t) \in Nat
    BY LenProperties
  <1>3. 0 \in T
    BY <1>1, <1>2
  <1>4. ASSUME NEW k \in Nat, k \in T PROVE k + 1 \in T
    <2>1. SUFFICES ASSUME k + 1 <= n PROVE c[k + 1] = d[k + 1]
      OBVIOUS
    <2>2. c[k] = d[k] /\ k + 1 \in 1 .. n /\ s[k + 1] = t[k + 1]
      BY <1>4, <2>1
    <2>3. k \in 0 .. Len(s) - 1 /\ k \in 0 .. Len(t) - 1
      BY <1>2, <2>2
    <2>4. QED
      BY <1>1, <2>2, <2>3
  <1>5. Nat \subseteq T
    <2> HIDE DEF T
    <2>1. QED
      BY <1>3, <1>4, NatSetInduction
  <1>6. QED
    BY <1>5 DEF c, d

\* Collecting from the second place on leaves out the first.
LEMMA CollectedSuffix ==
    ASSUME NEW M, NEW s \in Seq(M), s # << >>, NEW n \in 0 .. Len(s) - 1
    PROVE  Collected(s)[n + 1] =
             (IF s[1] \in Packets THEN <<s[1]>> ELSE << >>) \o Collected(Tail(s))[n]
  <1> DEFINE t == Tail(s)
             c == Collected(s)
             d == Collected(t)
             h == IF s[1] \in Packets THEN <<s[1]>> ELSE << >>
             T == {k \in Nat : k <= Len(t) => c[k + 1] = h \o d[k]}
  <1>1. /\ Len(s) \in Nat \ {0} /\ t \in Seq(M) /\ Len(t) = Len(s) - 1
        /\ \A i \in 1 .. Len(t) : t[i] = s[i + 1]
    BY HeadTailProperties, EmptySeq, LenProperties
  <1> HIDE DEF t
  <1>2. /\ c[0] = << >> /\ d[0] = << >>
        /\ \A i \in 0 .. Len(s) - 1 :
             c[i + 1] = IF s[i + 1] \in Packets THEN Append(c[i], s[i + 1]) ELSE c[i]
        /\ \A i \in 0 .. Len(t) - 1 :
             d[i + 1] = IF t[i + 1] \in Packets THEN Append(d[i], t[i + 1]) ELSE d[i]
    BY <1>1, CollectedRule
  <1>3. h \in Seq(Packets) /\ \A i \in 0 .. Len(t) : d[i] \in Seq(Packets)
    <2>1. h \in Seq(Packets)
      OBVIOUS
    <2>2. \A i \in 0 .. Len(t) : d[i] \in Seq(Packets)
      BY <1>1, CollectedType
    <2>3. QED
      BY <2>1, <2>2
  <1> HIDE DEF c, d, h
  <1>4. 0 \in T
    <2>1. c[0] = << >> /\ d[0] = << >>
      BY <1>2
    <2>2. c[1] = h
      <3>1. 0 \in 0 .. Len(s) - 1 /\ 0 + 1 = 1
        BY <1>1
      <3>2. c[1] = IF s[1] \in Packets THEN Append(<< >>, s[1]) ELSE << >>
        BY <1>2, <2>1, <3>1
      <3>3. QED
        BY <3>2 DEF h
    <2>3. QED
      BY <1>3, <2>1, <2>2, ConcatEmptySeq
  <1>5. ASSUME NEW k \in Nat, k \in T PROVE k + 1 \in T
    <2>1. SUFFICES ASSUME k + 1 <= Len(t) PROVE c[k + 1 + 1] = h \o d[k + 1]
      OBVIOUS
    <2>2. c[k + 1] = h \o d[k]
      BY <1>5, <2>1
    <2>3. /\ k + 1 \in 0 .. Len(s) - 1 /\ k \in 0 .. Len(t) - 1 /\ k \in 0 .. Len(t)
          /\ t[k + 1] = s[k + 1 + 1]
      BY <1>1, <2>1
    <2>4. CASE s[k + 1 + 1] \in Packets
      <3>1. c[k + 1 + 1] = Append(h \o d[k], s[k + 1 + 1]) /\ d[k + 1] = Append(d[k], s[k + 1 + 1])
        BY <1>2, <2>2, <2>3, <2>4
      <3>2. h \o d[k] \in Seq(Packets)
        BY <1>3, <2>3, ConcatProperties
      <3>3. /\ Append(h \o d[k], s[k + 1 + 1]) = (h \o d[k]) \o <<s[k + 1 + 1]>>
            /\ Append(d[k], s[k + 1 + 1]) = d[k] \o <<s[k + 1 + 1]>>
        BY <1>3, <2>3, <2>4, <3>2, AppendIsConcat
      <3>4. <<s[k + 1 + 1]>> \in Seq(Packets)
        BY <2>4
      <3>5. (h \o d[k]) \o <<s[k + 1 + 1]>> = h \o (d[k] \o <<s[k + 1 + 1]>>)
        <4>1. d[k] \in Seq(Packets)
          BY <1>3, <2>3
        <4> DEFINE g == d[k]
                   x == <<s[k + 1 + 1]>>
        <4>2. h \in Seq(Packets) /\ g \in Seq(Packets) /\ x \in Seq(Packets)
          BY <1>3, <3>4, <4>1
        <4> HIDE DEF g, x
        <4>3. (h \o g) \o x = h \o (g \o x)
          BY <4>2, ConcatAssociative
        <4>4. QED
          BY <4>3 DEF g, x
      <3>6. QED
        BY <3>1, <3>3, <3>5
    <2>5. CASE s[k + 1 + 1] \notin Packets
      BY <1>2, <2>2, <2>3, <2>5
    <2>6. QED
      BY <2>4, <2>5
  <1>6. Nat \subseteq T
    <2> HIDE DEF T
    <2>1. QED
      BY <1>4, <1>5, NatSetInduction
  <1>7. n \in Nat /\ n <= Len(t)
    BY <1>1
  <1>8. QED
    BY <1>6, <1>7 DEF c, d, h, t

\* The packets among some marks.
LEMMA PacketsInType ==
    ASSUME NEW M, NEW s \in Seq(M)
    PROVE  PacketsIn(s) \in Seq(Packets) /\ Len(PacketsIn(s)) <= Len(s)
  <1>1. Len(s) \in 0 .. Len(s)
    BY LenProperties
  <1>2. PacketsIn(s) = Collected(s)[Len(s)]
    BY DEF PacketsIn, Collected, Collects
  <1>3. QED
    BY <1>1, <1>2, CollectedType

\* A mark that comes last.
LEMMA PacketsInAppend ==
    ASSUME NEW M, NEW s \in Seq(M), NEW x \in M
    PROVE  PacketsIn(Append(s, x)) =
             IF x \in Packets THEN Append(PacketsIn(s), x) ELSE PacketsIn(s)
  <1> DEFINE t == Append(s, x)
  <1>1. /\ t \in Seq(M) /\ Len(t) = Len(s) + 1 /\ Len(s) \in Nat
        /\ t[Len(t)] = x /\ \A i \in 1 .. Len(s) : t[i] = s[i]
    BY AppendProperties, LenProperties
  <1>2. PacketsIn(s) = Collected(s)[Len(s)] /\ PacketsIn(t) = Collected(t)[Len(t)]
    BY DEF PacketsIn, Collected, Collects
  <1> HIDE DEF t
  <1>3. Collected(t)[Len(s)] = Collected(s)[Len(s)]
    BY <1>1, CollectedPrefix
  <1>4. Len(t) \in 0 .. Len(t) /\ Len(t) # 0 /\ Len(t) - 1 = Len(s)
    BY <1>1
  <1>5. Collected(t)[Len(t)] =
          IF x \in Packets THEN Append(Collected(t)[Len(s)], x) ELSE Collected(t)[Len(s)]
    BY <1>1, <1>4, CollectedRule
  <1>6. QED
    BY <1>2, <1>3, <1>5 DEF t

\* The first mark.
LEMMA PacketsInTail ==
    ASSUME NEW M, NEW s \in Seq(M), s # << >>
    PROVE  PacketsIn(s) =
             (IF s[1] \in Packets THEN <<s[1]>> ELSE << >>) \o PacketsIn(Tail(s))
  <1>1. /\ Len(s) \in Nat \ {0} /\ Tail(s) \in Seq(M) /\ Len(Tail(s)) = Len(s) - 1
    BY HeadTailProperties, EmptySeq, LenProperties
  <1>2. /\ PacketsIn(s) = Collected(s)[Len(s)]
        /\ PacketsIn(Tail(s)) = Collected(Tail(s))[Len(s) - 1]
    BY <1>1 DEF PacketsIn, Collected, Collects
  <1>3. Len(s) - 1 \in 0 .. Len(s) - 1 /\ Len(s) - 1 + 1 = Len(s)
    BY <1>1
  <1>4. QED
    BY <1>2, <1>3, CollectedSuffix

\* A mark among the first two that is no packet leaves room for one.
LEMMA PacketsInFewer ==
    ASSUME NEW M, NEW s \in Seq(M), NEW i \in 1 .. Len(s), i <= 2, s[i] \notin Packets
    PROVE  Len(PacketsIn(s)) < Len(s)
  <1> DEFINE t == Tail(s)
  <1>1. /\ Len(s) \in Nat \ {0} /\ s # << >> /\ t \in Seq(M) /\ Len(t) = Len(s) - 1
        /\ \A j \in 1 .. Len(t) : t[j] = s[j + 1]
    BY HeadTailProperties, EmptySeq, LenProperties
  <1> HIDE DEF t
  <1>2. ASSUME NEW u \in Seq(M), u # << >>
        PROVE  /\ PacketsIn(Tail(u)) \in Seq(Packets)
               /\ Len(PacketsIn(Tail(u))) \in Nat
               /\ Len(PacketsIn(Tail(u))) <= Len(u) - 1
               /\ Len(PacketsIn(u)) = (IF u[1] \in Packets THEN 1 ELSE 0)
                                        + Len(PacketsIn(Tail(u)))
    <2>1. Tail(u) \in Seq(M) /\ Len(Tail(u)) = Len(u) - 1
      BY <1>2, HeadTailProperties
    <2>2. /\ PacketsIn(Tail(u)) \in Seq(Packets)
          /\ Len(PacketsIn(Tail(u))) <= Len(u) - 1
      BY <2>1, PacketsInType
    <2>3. Len(PacketsIn(Tail(u))) \in Nat
      BY <2>2, LenProperties
    <2> DEFINE h == IF u[1] \in Packets THEN <<u[1]>> ELSE << >>
    <2>4. h \in Seq(Packets) /\ Len(h) = IF u[1] \in Packets THEN 1 ELSE 0
      OBVIOUS
    <2>5. PacketsIn(u) = h \o PacketsIn(Tail(u))
      BY <1>2, PacketsInTail
    <2> HIDE DEF h
    <2>6. Len(PacketsIn(u)) = Len(h) + Len(PacketsIn(Tail(u)))
      BY <2>2, <2>4, <2>5, ConcatProperties
    <2>7. QED
      BY <2>2, <2>3, <2>4, <2>6
  <1>3. CASE i = 1
    BY <1>1, <1>2, <1>3
  <1>4. CASE i = 2
    <2>1. t # << >> /\ t[1] = s[2]
      BY <1>1, <1>4, EmptySeq
    <2>2. Len(PacketsIn(t)) <= Len(t) - 1
      BY <1>1, <1>2, <1>4, <2>1
    <2>3. Len(PacketsIn(t)) \in Nat /\ Len(PacketsIn(s)) <= 1 + Len(PacketsIn(t))
      BY <1>1, <1>2 DEF t
    <2>4. Len(t) = Len(s) - 1
      BY <1>1
    <2>5. QED
      BY <1>1, <2>2, <2>3, <2>4
  <1>5. QED
    BY <1>3, <1>4

-----------------------------------------------------------------------------
\* The bytes that sendByte() escapes.
Special == {START_BYTE, ESCAPE, XON, XOFF}

\* The places of send().
Places ==
    {f \in [packet : Packets, at : Nat, half : BOOLEAN, sum : Byte] :
        /\ f.at <= ChecksumAt(f) + 1
        /\ f.half => ~Sent(f) /\ Escaped(f)
        /\ f.at <= API_ID_INDEX => f.sum = 0}

\* A packet that fits is short.
LEMMA Fits ==
    \A n \in Nat, m \in 4 .. 251 : n # 0 /\ n + 3 <= m => n \in 1 .. 248
  OBVIOUS

\* What the assumptions say of the packets.
LEMMA PacketFacts ==
    /\ \A p \in Packets : /\ p \in Seq(Byte) /\ Len(p) \in 1 .. 248
                          /\ Len(p) + 3 <= MaxFrameDataSize
                          /\ \A i \in 1 .. Len(p) : p[i] \in Byte
    /\ NoMark \notin Packets /\ Damaged \notin Packets /\ NoMark # Damaged
    /\ MaxFrameDataSize \in 4 .. 251
  <1>1. ASSUME NEW p \in Packets
        PROVE  /\ p \in Seq(Byte) /\ Len(p) \in 1 .. 248
               /\ Len(p) + 3 <= MaxFrameDataSize
               /\ \A i \in 1 .. Len(p) : p[i] \in Byte
    <2>1. p \in Seq(Byte) /\ p # << >> /\ Len(p) + 3 <= MaxFrameDataSize
      BY XBeeLinkAssumption
    <2>2. Len(p) \in Nat /\ Len(p) # 0
      BY <2>1, EmptySeq, LenProperties
    <2>3. \A i \in 1 .. Len(p) : p[i] \in Byte
      BY <2>1, ElementOfSeq
    <2>4. MaxFrameDataSize \in 4 .. 251
      BY ReceiverAssumption
    <2>5. Len(p) \in 1 .. 248
      BY <2>1, <2>2, <2>4, Fits
    <2>6. QED
      BY <2>1, <2>3, <2>5
  <1>2. NoMark \notin Packets /\ Damaged \notin Packets /\ NoMark # Damaged
    <2>1. NoMark \notin Packets
      BY XBeeLinkAssumption DEF NoMark
    <2>2. Len(Damaged) = 1 /\ Damaged[1] = -1
      BY DEF Damaged
    <2>3. NoMark # Damaged
      BY <2>2, EmptySeq DEF NoMark
    <2>4. ASSUME Damaged \in Packets PROVE FALSE
      <3> PICK p : p = Damaged
        OBVIOUS
      <3>1. p \in Packets /\ Len(p) = 1 /\ p[1] = -1 /\ 1 \in 1 .. 1
        BY <2>2, <2>4
      <3>2. p[1] \in Byte
        BY <1>1, <3>1
      <3>3. QED
        BY <3>1, <3>2 DEF Byte
    <2>5. QED
      BY <2>1, <2>3, <2>4
  <1>3. QED
    BY <1>1, <1>2, ReceiverAssumption

\* Toggling bit 5 hides a special byte, and twice gives it back.
LEMMA SpecialBytes ==
    \A b \in Special :
        /\ b \in Byte
        /\ Toggle20(b) \in Byte \ {START_BYTE, ESCAPE}
        /\ Toggle20(Toggle20(b)) = b
  BY DEF Special, START_BYTE, ESCAPE, XON, XOFF, Toggle20, Byte

\* The members of a place.
LEMMA PlaceFacts ==
    ASSUME NEW f \in Places
    PROVE  /\ f.packet \in Packets /\ f.at \in Nat /\ f.half \in BOOLEAN
           /\ f.sum \in Byte
           /\ Len(f.packet) \in 1 .. 248
           /\ ChecksumAt(f) = Len(f.packet) + 3 /\ ChecksumAt(f) \in 4 .. 251
           /\ f.at \in 0 .. ChecksumAt(f) + 1
           /\ Sent(f) <=> f.at = ChecksumAt(f) + 1
           /\ InPacket(f) <=> f.at \in 3 .. Len(f.packet) + 2
           /\ f.at \in 0 .. 3 => f.sum = 0
           /\ f.half => ~Sent(f) /\ Escaped(f)
  <1>1. /\ f.packet \in Packets /\ f.at \in Nat /\ f.half \in BOOLEAN
        /\ f.sum \in Byte
        /\ f.at <= ChecksumAt(f) + 1
        /\ f.half => ~Sent(f) /\ Escaped(f)
        /\ f.at <= API_ID_INDEX => f.sum = 0
    BY DEF Places
  <1>2. Len(f.packet) \in 1 .. 248
    BY <1>1, PacketFacts
  <1>3. ChecksumAt(f) = Len(f.packet) + 3
    BY DEF ChecksumAt
  <1>4. ChecksumAt(f) \in 4 .. 251 /\ f.at \in 0 .. ChecksumAt(f) + 1
    <2> DEFINE n == Len(f.packet)
               k == ChecksumAt(f)
               a == f.at
    <2>1. n \in 1 .. 248 /\ k = n + 3 /\ a \in Nat /\ a <= k + 1
      BY <1>1, <1>2, <1>3
    <2> HIDE DEF n, k, a
    <2>2. k \in 4 .. 251 /\ a \in 0 .. k + 1
      BY <2>1
    <2>3. QED
      BY <2>2 DEF k, a
  <1>5. Sent(f) <=> f.at = ChecksumAt(f) + 1
    BY <1>4 DEF Sent
  <1>6. InPacket(f) <=> f.at \in 3 .. Len(f.packet) + 2
    BY <1>1, <1>2, <1>3 DEF InPacket, API_ID_INDEX
  <1>7. f.at \in 0 .. 3 => f.sum = 0
    BY <1>1 DEF API_ID_INDEX
  <1>8. QED
    BY <1>1, <1>2, <1>3, <1>4, <1>5, <1>6, <1>7

\* The length of a packet fits in its low byte.
LEMMA LowByte == \A n \in 0 .. 255 : n \div 256 = 0 /\ n % 256 = n
  OBVIOUS

\* The sum of bytes is a byte.
LEMMA ByteSum == \A a, b \in Byte : (a + b) % 256 \in Byte
  BY DEF Byte

\* What send() passes to sendByte at each place.
LEMMA FrameByteAt ==
    ASSUME NEW f \in Places
    PROVE  /\ f.at = 0 => FrameByte(f) = START_BYTE
           /\ f.at = 1 => FrameByte(f) = 0
           /\ f.at = 2 => FrameByte(f) = Len(f.packet)
           /\ InPacket(f) => FrameByte(f) = f.packet[f.at - 2]
           /\ f.at = ChecksumAt(f) => FrameByte(f) = 255 - f.sum
           /\ ~Sent(f) => FrameByte(f) \in Byte
  <1>1. f.at = 0 => FrameByte(f) = START_BYTE
    BY PlaceFacts DEF FrameByte
  <1>2. f.at = 1 => FrameByte(f) = 0
    <2>1. Len(f.packet) \div 256 = 0
      <3>1. Len(f.packet) \in 0 .. 255
        <4> DEFINE n == Len(f.packet)
        <4>1. n \in 1 .. 248
          BY PlaceFacts
        <4> HIDE DEF n
        <4>2. n \in 0 .. 255
          BY <4>1
        <4>3. QED
          BY <4>2 DEF n
      <3>2. QED
        BY <3>1, LowByte
    <2>2. ASSUME f.at = 1 PROVE FrameByte(f) = Len(f.packet) \div 256
      <3>1. ~InPacket(f) /\ f.at # ChecksumAt(f) /\ f.at # 0
        BY <2>2, PlaceFacts
      <3>2. QED
        BY <2>2, <3>1 DEF FrameByte
    <2>3. QED
      BY <2>1, <2>2
  <1>3. f.at = 2 => FrameByte(f) = Len(f.packet)
    <2>1. Len(f.packet) % 256 = Len(f.packet)
      <3>1. Len(f.packet) \in 0 .. 255
        <4> DEFINE n == Len(f.packet)
        <4>1. n \in 1 .. 248
          BY PlaceFacts
        <4> HIDE DEF n
        <4>2. n \in 0 .. 255
          BY <4>1
        <4>3. QED
          BY <4>2 DEF n
      <3>2. QED
        BY <3>1, LowByte
    <2>2. ASSUME f.at = 2 PROVE FrameByte(f) = Len(f.packet) % 256
      <3>1. ~InPacket(f) /\ f.at # ChecksumAt(f) /\ f.at # 0
        BY <2>2, PlaceFacts
      <3>2. QED
        BY <2>2, <3>1 DEF FrameByte
    <2>3. QED
      BY <2>1, <2>2
  <1>4. InPacket(f) => FrameByte(f) = f.packet[f.at - 2]
    BY PlaceFacts DEF FrameByte
  <1>5. f.at = ChecksumAt(f) => FrameByte(f) = 255 - f.sum
    BY PlaceFacts DEF FrameByte
  <1>6. ASSUME ~Sent(f) PROVE FrameByte(f) \in Byte
    <2>1. CASE f.at \in 0 .. 2
      <3>1. FrameByte(f) \in {START_BYTE, 0, Len(f.packet)}
        BY <1>1, <1>2, <1>3, <2>1
      <3>2. START_BYTE \in Byte /\ 0 \in Byte /\ Len(f.packet) \in Byte
        BY PlaceFacts DEF Byte, START_BYTE
      <3>3. QED
        BY <3>1, <3>2
    <2>2. CASE InPacket(f)
      <3>1. f.at - 2 \in 1 .. Len(f.packet)
        BY <2>2, PlaceFacts
      <3>2. QED
        BY <1>4, <2>2, <3>1, PacketFacts, PlaceFacts
    <2>3. CASE f.at = ChecksumAt(f)
      <3>1. f.sum \in 0 .. 255
        BY PlaceFacts DEF Byte
      <3>2. QED
        BY <1>5, <2>3, <3>1 DEF Byte
    <2>4. QED
      BY <1>6, <2>1, <2>2, <2>3, PlaceFacts
  <1>7. QED
    BY <1>1, <1>2, <1>3, <1>4, <1>5, <1>6

\* What sendByte writes: after the start byte, no start byte, and an escape
\* only before the second half of an escaped byte.
LEMMA OnWireIs ==
    ASSUME NEW f \in Places, ~Sent(f)
    PROVE  /\ OnWire(f) \in Byte
           /\ f.at > 0 => OnWire(f) # START_BYTE
           /\ f.at > 0 => (OnWire(f) = ESCAPE <=> ~EndsByte(f))
           /\ f.half => OnWire(f) = Toggle20(FrameByte(f))
           /\ f.half => Toggle20(OnWire(f)) = FrameByte(f)
           /\ ~f.half /\ EndsByte(f) => OnWire(f) = FrameByte(f)
           /\ f.at = 0 => OnWire(f) = START_BYTE /\ EndsByte(f) /\ ~f.half
  <1>1. FrameByte(f) \in Byte /\ f.half \in BOOLEAN /\ f.at \in Nat
    BY FrameByteAt, PlaceFacts
  <1>2. CASE ~Escaped(f)
    <2>1. OnWire(f) = FrameByte(f) /\ EndsByte(f) /\ ~f.half
      BY <1>2, PlaceFacts DEF OnWire, EndsByte
    <2>2. f.at > 0 => FrameByte(f) \notin Special
      BY <1>2 DEF Escaped, Special
    <2>3. QED
      BY <1>1, <2>1, <2>2, FrameByteAt DEF Special
  <1>3. CASE Escaped(f)
    <2>1. FrameByte(f) \in Special /\ f.at > 0
      BY <1>3 DEF Escaped, Special
    <2>2. CASE f.half
      <3>1. OnWire(f) = Toggle20(FrameByte(f)) /\ EndsByte(f)
        BY <1>3, <2>2 DEF OnWire, EndsByte
      <3>2. QED
        BY <1>1, <2>1, <2>2, <3>1, SpecialBytes
    <2>3. CASE ~f.half
      <3>1. OnWire(f) = ESCAPE /\ ~EndsByte(f)
        BY <1>3, <2>3 DEF OnWire, EndsByte
      <3>2. ESCAPE \in Byte /\ ESCAPE # START_BYTE
        BY DEF ESCAPE, START_BYTE, Byte
      <3>3. QED
        BY <1>1, <2>1, <2>3, <3>1, <3>2
    <2>4. QED
      BY <1>1, <2>2, <2>3
  <1>4. QED
    BY <1>2, <1>3

\* A frame begins at its start byte.
LEMMA BeginType ==
    ASSUME NEW p \in Packets
    PROVE  Begin(p) \in Places /\ Begin(p).packet = p /\ Begin(p).at = 0
  <1>1. /\ Begin(p) \in [packet : Packets, at : Nat, half : BOOLEAN, sum : Byte]
        /\ Begin(p).packet = p /\ Begin(p).at = 0 /\ Begin(p).sum = 0
        /\ Begin(p).half = FALSE
    BY DEF Begin, Byte
  <1>2. QED
    BY <1>1, PacketFacts DEF Places, ChecksumAt

\* The next place of send().
LEMMA AfterType ==
    ASSUME NEW f \in Places, ~Sent(f)
    PROVE  /\ After(f) \in Places
           /\ After(f).packet = f.packet
           /\ ~EndsByte(f) => /\ After(f).at = f.at /\ After(f).half /\ After(f).sum = f.sum
                              /\ f.at > 0 /\ FrameByte(After(f)) = FrameByte(f)
                              /\ Escaped(After(f)) /\ EndsByte(After(f)) /\ ~Sent(After(f))
           /\ EndsByte(f) => /\ After(f).at = f.at + 1 /\ ~After(f).half
                             /\ After(f).sum = IF InPacket(f)
                                                 THEN (f.sum + FrameByte(f)) % 256
                                                 ELSE f.sum
           /\ IsLast(f) <=> Sent(After(f))
  <1> DEFINE g == After(f)
  <1>0. f \in [packet : Packets, at : Nat, half : BOOLEAN, sum : Byte]
    BY DEF Places
  <1>1. CASE EndsByte(f)
    <2> DEFINE s == IF InPacket(f) THEN (f.sum + FrameByte(f)) % 256 ELSE f.sum
    <2>1. g = [f EXCEPT !.at = f.at + 1, !.half = FALSE, !.sum = s]
      BY <1>1 DEF After, Advance
    <2>2. s \in Byte
      BY FrameByteAt, PlaceFacts, ByteSum
    <2>3. f.at + 1 <= 3 => s = 0
      BY PlaceFacts
    <2> HIDE DEF s
    <2>4. /\ g \in [packet : Packets, at : Nat, half : BOOLEAN, sum : Byte]
          /\ g.packet = f.packet /\ g.at = f.at + 1 /\ g.half = FALSE /\ g.sum = s
      <3>1. f.at + 1 \in Nat
        BY PlaceFacts
      <3> HIDE DEF g
      <3>2. QED
        BY <1>0, <2>1, <2>2, <3>1
    <2> HIDE DEF g
    <2>5. g.at <= ChecksumAt(g) + 1 /\ ChecksumAt(g) = ChecksumAt(f)
      BY <2>4, PlaceFacts DEF ChecksumAt
    <2>6. g \in Places
      BY <2>3, <2>4, <2>5 DEF Places, API_ID_INDEX
    <2>7. IsLast(f) <=> Sent(g)
      BY <1>1, <2>4, <2>5, PlaceFacts DEF IsLast, Sent
    <2>8. QED
      BY <1>1, <2>4, <2>6, <2>7 DEF g, s
  <1>2. CASE ~EndsByte(f)
    <2>1. g = [f EXCEPT !.half = TRUE] /\ Escaped(f) /\ ~f.half
      BY <1>2 DEF After, EndsByte
    <2>2. /\ g \in [packet : Packets, at : Nat, half : BOOLEAN, sum : Byte]
          /\ g.packet = f.packet /\ g.at = f.at /\ g.half = TRUE /\ g.sum = f.sum
      BY <1>0, <2>1
    <2> HIDE DEF g
    <2>3. /\ ChecksumAt(g) = ChecksumAt(f) /\ Sent(g) = Sent(f)
          /\ FrameByte(g) = FrameByte(f) /\ Escaped(g) = Escaped(f)
      BY <2>2 DEF ChecksumAt, Sent, InPacket, FrameByte, Escaped
    <2>4. g \in Places
      BY <2>1, <2>2, <2>3, PlaceFacts DEF Places, API_ID_INDEX
    <2>5. ~IsLast(f)
      BY <1>2 DEF IsLast
    <2>6. EndsByte(g) /\ f.at > 0
      BY <2>1, <2>2 DEF EndsByte, Escaped
    <2>7. QED
      BY <1>2, <2>1, <2>2, <2>3, <2>4, <2>5, <2>6 DEF g
  <1>3. QED
    BY <1>1, <1>2

-----------------------------------------------------------------------------
\* The parser is at the place of f and has stored what send() wrote before it;
\* its sum may be wrong, since it is not cleared when a packet is given up.
InPlace(f) ==
    /\ pos = IF Sent(f) THEN 0 ELSE f.at
    /\ escape = f.half
    /\ ~IsError
    /\ pos > 2 => response.lsbLength = Len(f.packet)
    /\ pos > 3 => /\ response.apiId = f.packet[1]
                  /\ \A i \in 1 .. pos - 4 : response.frameData[i] = f.packet[i + 1]

RightSum(f) == checksumTotal = IF Sent(f) THEN 0 ELSE f.sum

\* Where the byte of a place ends, and the place of the next byte.
Whole(f) == IF EndsByte(f) THEN f ELSE After(f)
NextPlace(f) == After(Whole(f))

\* The place of the next byte.
LEMMA NextPlaceType ==
    ASSUME NEW f \in Places, ~Sent(f)
    PROVE  /\ NextPlace(f) \in Places
           /\ NextPlace(f).packet = f.packet
           /\ NextPlace(f).at = f.at + 1
           /\ NextPlace(f).half = FALSE
           /\ NextPlace(f).sum = IF InPacket(f) THEN (f.sum + FrameByte(f)) % 256
                                                ELSE f.sum
           /\ Sent(NextPlace(f)) <=> f.at = ChecksumAt(f)
           /\ Whole(f) \in Places /\ ~Sent(Whole(f)) /\ Whole(f).packet = f.packet
           /\ IsLast(Whole(f)) <=> f.at = ChecksumAt(f)
  <1> DEFINE w == Whole(f)
             g == NextPlace(f)
  <1>1. /\ w \in Places /\ ~Sent(w) /\ w.packet = f.packet /\ w.at = f.at
        /\ w.sum = f.sum /\ EndsByte(w) /\ FrameByte(w) = FrameByte(f)
    BY AfterType DEF Whole
  <1> HIDE DEF w
  <1>2. ChecksumAt(w) = ChecksumAt(f) /\ InPacket(w) = InPacket(f)
    BY <1>1 DEF ChecksumAt, InPacket
  <1>3. g = After(w)
    BY DEF NextPlace, w
  <1> HIDE DEF g
  <1>4. /\ g \in Places /\ g.packet = f.packet /\ g.at = f.at + 1 /\ ~g.half
        /\ g.sum = (IF InPacket(f) THEN (f.sum + FrameByte(f)) % 256 ELSE f.sum)
    BY <1>1, <1>2, <1>3, AfterType
  <1>5. g.half = FALSE
    BY <1>4, PlaceFacts
  <1>6. Sent(g) <=> f.at = ChecksumAt(f)
    BY <1>1, <1>2, <1>3, AfterType DEF IsLast
  <1>7. IsLast(w) <=> f.at = ChecksumAt(f)
    BY <1>1, <1>2 DEF IsLast
  <1>8. QED
    BY <1>1, <1>4, <1>5, <1>6, <1>7 DEF w, g

\* The bytes of a frame are taken for what they were.
LEMMA TurnReads ==
    ASSUME TypeOK, NEW f \in Places, ~Sent(f), InPlace(f), queue # << >>,
           Head(queue) = OnWire(f),
           Len(queue) > 1 /\ ~EndsByte(f) => queue[2] = OnWire(After(f))
    PROVE  /\ ~Restarts
           /\ Escapes <=> ~EndsByte(f)
           /\ Taken <= Len(queue) => Unescaped = FrameByte(f)
  <1>1. pos = f.at /\ escape = f.half /\ f.at \in Nat /\ f.half \in BOOLEAN
    BY PlaceFacts DEF InPlace
  <1>2. ~Restarts
    BY <1>1, OnWireIs DEF Restarts
  <1>3. Escapes <=> ~EndsByte(f)
    <2>1. CASE f.at > 0
      BY <1>1, <2>1, OnWireIs DEF Escapes
    <2>2. CASE f.at = 0
      BY <1>1, <2>2, OnWireIs DEF Escapes
    <2>3. QED
      BY <1>1, <2>1, <2>2
  <1>4. ASSUME Taken <= Len(queue) PROVE Unescaped = FrameByte(f)
    <2>1. CASE EndsByte(f)
      <3>1. Unescaped = IF f.half THEN Toggle20(OnWire(f)) ELSE OnWire(f)
        BY <1>1, <1>3, <2>1 DEF Unescaped
      <3>2. QED
        BY <2>1, <3>1, OnWireIs
    <2>2. CASE ~EndsByte(f)
      <3>1. Len(queue) > 1
        <4>1. Taken = 2
          BY <1>3, <2>2 DEF Taken
        <4>2. Len(queue) \in Nat
          BY LenProperties DEF TypeOK
        <4>3. QED
          BY <1>4, <4>1, <4>2
      <3>2. ~f.half
        BY <2>2 DEF EndsByte
      <3>3. Unescaped = Toggle20(OnWire(After(f)))
        BY <1>1, <1>3, <2>2, <3>1, <3>2 DEF Unescaped
      <3>4. /\ After(f) \in Places /\ ~Sent(After(f)) /\ After(f).half
            /\ FrameByte(After(f)) = FrameByte(f)
        BY <2>2, AfterType
      <3>5. Toggle20(OnWire(After(f))) = FrameByte(After(f))
        BY <3>4, OnWireIs
      <3>6. QED
        BY <3>3, <3>4, <3>5
    <2>3. QED
      BY <2>1, <2>2
  <1>5. QED
    BY <1>2, <1>3, <1>4

-----------------------------------------------------------------------------
\* The parser's members after a step, in place.
LEMMA InPlaceNext ==
    ASSUME NEW g \in Places,
           pos' = IF Sent(g) THEN 0 ELSE g.at,
           escape' = g.half,
           response'.errorCode = NO_ERROR,
           pos' > 2 => response'.lsbLength = Len(g.packet),
           pos' > 3 => /\ response'.apiId = g.packet[1]
                       /\ \A i \in 1 .. pos' - 4 :
                            response'.frameData[i] = g.packet[i + 1]
    PROVE  InPlace(g)'
  BY DEF InPlace, IsError

\* A byte read in place: the parser stays in place, and its sum right if it
\* was; the last byte clears the sum, and with a right sum gives the packet.
LEMMA ByteRead ==
    ASSUME IInv, NEW f \in Places, ~Sent(f), InPlace(f), Unescaped = FrameByte(f),
           \/ AwaitStart \/ LengthByte \/ ApiIdByte
           \/ TooLong \/ EndOfPacket \/ DataByte,
           NEW g, g = NextPlace(f)
    PROVE  /\ ~IsAvailable
           /\ f.at # ChecksumAt(f) => /\ InPlace(g)' /\ ~IsAvailable'
                                      /\ RightSum(f) => RightSum(g)'
           /\ f.at = ChecksumAt(f) => /\ pos' = 0 /\ checksumTotal' = 0
                                      /\ RightSum(f) => IsAvailable' /\ ~IsError'
                                      /\ IsAvailable' => Packet' = f.packet
  <1> DEFINE p == f.packet
             N == Len(f.packet)
  <1>1. /\ p \in Packets /\ N \in Nat /\ N >= 1 /\ N <= 248
        /\ N + 3 <= MaxFrameDataSize
        /\ p \in Seq(Byte)
    <2>1. p \in Packets /\ p \in Seq(Byte) /\ N \in 1 .. 248 /\ N + 3 <= MaxFrameDataSize
      BY PlaceFacts, PacketFacts
    <2> HIDE DEF p, N
    <2>2. QED
      BY <2>1
  <1>2. /\ ChecksumAt(f) = N + 3 /\ f.at \in Nat /\ f.at <= N + 3
        /\ f.sum \in 0 .. 255
        /\ InPacket(f) <=> f.at >= 3 /\ f.at <= N + 2
        /\ f.at <= 3 => f.sum = 0
    <2>1. /\ ChecksumAt(f) = N + 3 /\ f.at \in Nat /\ f.sum \in 0 .. 255
          /\ InPacket(f) <=> f.at \in 3 .. N + 2
          /\ f.at \in 0 .. 3 => f.sum = 0
          /\ f.at \in 0 .. ChecksumAt(f) + 1
          /\ Sent(f) <=> f.at = ChecksumAt(f) + 1
      BY PlaceFacts DEF Byte
    <2> HIDE DEF N
    <2>2. QED
      BY <1>1, <2>1
  <1>3. /\ g \in Places /\ g.packet = p /\ g.at = f.at + 1 /\ g.half = FALSE
        /\ g.sum = (IF InPacket(f) THEN (f.sum + FrameByte(f)) % 256 ELSE f.sum)
        /\ Sent(g) <=> f.at = N + 3
    BY <1>2, NextPlaceType
  <1>4. /\ pos = f.at
        /\ RightSum(f) <=> checksumTotal = f.sum
        /\ pos > 2 => response.lsbLength = N
        /\ pos > 3 => /\ response.apiId = p[1]
                      /\ \A i \in 1 .. pos - 4 : response.frameData[i] = p[i + 1]
        /\ response.errorCode = NO_ERROR
    BY DEF InPlace, RightSum, IsError
  <1>5. TakesByte /\ reading /\ escape' = FALSE /\ ~response.available /\ ~IsAvailable
    <2>1. TakesByte
      BY DEF AwaitStart, LengthByte, ApiIdByte, TooLong, EndOfPacket, DataByte
    <2>2. QED
      BY <2>1 DEF TakesByte, Turn, IInv, Consistent, IsAvailable
  <1>6. RightSum(f) => Summed = (f.sum + FrameByte(f)) % 256
    BY <1>4 DEF Summed
  <1>7. /\ response \in Responses /\ response.frameData \in Seq(Byte)
        /\ pos > 3 => Len(response.frameData) = pos - 4
    BY DEF IInv, TypeOK, Consistent, Responses, API_ID_INDEX
  <1> HIDE DEF p, N
  <1>8. CASE AwaitStart
    <2>1. f.at = 0 /\ FrameByte(f) = START_BYTE
      BY <1>4, <1>8, FrameByteAt DEF AwaitStart
    <2>2. pos' = 1 /\ UNCHANGED <<reading, checksumTotal, response>>
      BY <1>8, <2>1 DEF AwaitStart
    <2>3. ~Sent(g) /\ g.at = 1 /\ g.sum = f.sum
      BY <1>1, <1>2, <1>3, <2>1
    <2>4. InPlace(g)'
      <3>1. response'.errorCode = NO_ERROR /\ ~(pos' > 2) /\ ~(pos' > 3)
        BY <1>4, <2>2
      <3>2. pos' = g.at /\ escape' = g.half
        BY <1>3, <1>4, <1>5, <2>2, <2>3
      <3>3. QED
        BY <1>3, <2>3, <3>1, <3>2, InPlaceNext
    <2>5. RightSum(f) => RightSum(g)'
      BY <1>4, <2>2, <2>3 DEF RightSum
    <2>6. QED
      BY <1>1, <1>2, <1>5, <2>1, <2>2, <2>4, <2>5 DEF IsAvailable
  <1>9. CASE LengthByte
    <2>1. /\ f.at \in {1, 2} /\ pos' = f.at + 1
          /\ UNCHANGED <<reading, checksumTotal>>
          /\ f.at = 1 => response' = [response EXCEPT !.msbLength = FrameByte(f)]
          /\ f.at = 2 => response' = [response EXCEPT !.lsbLength = FrameByte(f)]
      BY <1>4, <1>9 DEF LengthByte
    <2>2. /\ response'.errorCode = response.errorCode
          /\ response'.available = response.available
          /\ f.at = 2 => response'.lsbLength = N
      BY <1>7, <2>1, FrameByteAt DEF Responses, N
    <2>3. ~Sent(g) /\ g.at = f.at + 1 /\ g.sum = f.sum
      BY <1>1, <1>2, <1>3, <2>1
    <2>4. InPlace(g)'
      <3>1. pos' \in {2, 3} /\ (pos' > 2 => f.at = 2)
        BY <2>1
      <3>2. g.packet = p /\ N = Len(p)
        BY <1>3 DEF N, p
      <3>3. /\ response'.errorCode = NO_ERROR /\ ~(pos' > 3)
            /\ pos' > 2 => response'.lsbLength = Len(g.packet)
        BY <1>4, <2>2, <3>1, <3>2
      <3>4. pos' = g.at /\ escape' = g.half
        BY <1>3, <1>4, <1>5, <2>1, <2>3
      <3>5. QED
        BY <1>3, <2>3, <3>3, <3>4, InPlaceNext
    <2>5. RightSum(f) => RightSum(g)'
      BY <1>4, <2>1, <2>3 DEF RightSum
    <2>6. QED
      BY <1>1, <1>2, <1>5, <2>1, <2>2, <2>4, <2>5 DEF IsAvailable
  <1>10. CASE ApiIdByte
    <2>1. /\ f.at = 3 /\ pos' = 4 /\ checksumTotal' = Summed
          /\ response' = [response EXCEPT !.apiId = FrameByte(f), !.frameData = << >>]
      BY <1>4, <1>10 DEF ApiIdByte, API_ID_INDEX
    <2>2. InPacket(f) /\ FrameByte(f) = p[1]
      BY <1>1, <1>2, <2>1, FrameByteAt DEF p
    <2>3. /\ response'.errorCode = response.errorCode
          /\ response'.available = response.available
          /\ response'.lsbLength = response.lsbLength
          /\ response'.apiId = p[1]
      BY <1>7, <2>1, <2>2 DEF Responses
    <2>4. ~Sent(g) /\ g.at = 4 /\ (RightSum(f) => g.sum = Summed)
      BY <1>1, <1>2, <1>3, <1>6, <2>1, <2>2
    <2>5. InPlace(g)'
      <3>1. g.packet = p /\ N = Len(p) /\ pos > 2
        BY <1>3, <1>4, <2>1 DEF N, p
      <3>2. \A i \in 1 .. pos' - 4 : response'.frameData[i] = g.packet[i + 1]
        BY <2>1
      <3>3. QED
        BY <1>3, <1>4, <1>5, <2>1, <2>3, <2>4, <3>1, <3>2, InPlaceNext
    <2>6. RightSum(f) => RightSum(g)'
      BY <2>1, <2>4 DEF RightSum
    <2>7. QED
      BY <1>1, <1>2, <1>5, <2>1, <2>3, <2>5, <2>6 DEF IsAvailable
  <1>11. CASE TooLong
    <2>1. pos > MaxFrameDataSize
      BY <1>11 DEF TooLong, BeyondArray
    <2>2. MaxFrameDataSize \in Nat
      BY ReceiverAssumption
    <2>3. QED
      BY <1>1, <1>2, <1>4, <2>1, <2>2
  <1>12. PacketLength = response.lsbLength
    BY <1>7, PacketLengthIsLsb DEF PacketLength, Responses
  <1>13. CASE EndOfPacket
    <2>1. f.at = N + 3 /\ pos > 3
      <3>1. pos > 3 /\ pos = PacketLength + 3
        BY <1>13 DEF EndOfPacket, AtChecksum, API_ID_INDEX
      <3>2. response.lsbLength = N
        BY <1>2, <1>4, <3>1
      <3>3. QED
        BY <1>4, <1>12, <3>1, <3>2
    <2>2. FrameByte(f) = 255 - f.sum
      BY <1>2, <2>1, FrameByteAt
    <2>3. RightSum(f) => Summed = 255
      BY <1>2, <1>6, <2>2
    <2>4. /\ Summed = 255 => response' = [response EXCEPT !.checksum = Unescaped, !.available = TRUE]
          /\ Summed # 255 => response' = [response EXCEPT !.errorCode = CHECKSUM_FAILURE]
          /\ pos' = 0 /\ checksumTotal' = 0
      BY <1>13 DEF EndOfPacket
    <2>5. /\ Summed = 255 => /\ response'.errorCode = response.errorCode
                             /\ response'.available = TRUE
          /\ response'.apiId = response.apiId
          /\ response'.frameData = response.frameData
      <3>1. CASE Summed = 255
        BY <1>7, <2>4, <3>1 DEF Responses
      <3>2. CASE Summed # 255
        BY <1>7, <2>4, <3>2 DEF Responses
      <3>3. QED
        BY <3>1, <3>2
    <2>6. RightSum(f) => IsAvailable' /\ ~IsError'
      BY <1>4, <2>3, <2>5 DEF IsAvailable, IsError
    <2>8. Packet' = p
      <3> DEFINE d == response.frameData
      <3>1. Packet' = <<p[1]>> \o d
        BY <1>4, <2>1, <2>5 DEF Packet
      <3>2. d \in Seq(Byte) /\ Len(d) = N - 1 /\ \A i \in 1 .. N - 1 : d[i] = p[i + 1]
        BY <1>1, <1>4, <1>7, <2>1
      <3> HIDE DEF d
      <3>3. p[1] \in Byte /\ N = Len(p)
        BY <1>1, ElementOfSeq DEF N, p
      <3>4. <<p[1]>> \in Seq(Byte) /\ Len(<<p[1]>>) = 1 /\ <<p[1]>>[1] = p[1]
        BY <3>3
      <3> DEFINE h == <<p[1]>>
                 q == h \o d
      <3>5. h \in Seq(Byte) /\ Len(h) = 1 /\ h[1] = p[1]
        BY <3>4
      <3> HIDE DEF h
      <3>6. /\ q \in Seq(Byte) /\ Len(q) = N
            /\ \A i \in 1 .. N : q[i] = IF i <= 1 THEN h[i] ELSE d[i - 1]
        <4>1. h \in Seq(Byte) /\ d \in Seq(Byte)
          BY <3>2, <3>5
        <4>2. /\ h \o d \in Seq(Byte) /\ Len(h \o d) = Len(h) + Len(d)
              /\ \A i \in 1 .. Len(h) + Len(d) :
                   (h \o d)[i] = IF i <= Len(h) THEN h[i] ELSE d[i - Len(h)]
          BY <4>1, ConcatProperties
        <4>3. Len(h) + Len(d) = N
          BY <1>1, <3>2, <3>5
        <4> HIDE DEF q
        <4>4. QED
          BY <3>5, <4>2, <4>3 DEF q
      <3> HIDE DEF q
      <3>7. ASSUME NEW i \in 1 .. N PROVE q[i] = p[i]
        <4>1. CASE i = 1
          BY <3>5, <3>6, <4>1
        <4>2. CASE i > 1
          <5>1. i - 1 \in 1 .. N - 1 /\ i - 1 + 1 = i /\ ~(i <= 1)
            BY <1>1, <4>2
          <5>2. QED
            BY <3>2, <3>6, <5>1
        <4>3. QED
          BY <4>1, <4>2
      <3>8. q = p
        BY <1>1, <3>3, <3>6, <3>7, SeqEqual
      <3>9. QED
        BY <3>1, <3>8 DEF q, h
    <2>9. QED
      BY <1>2, <1>5, <2>1, <2>4, <2>6, <2>8 DEF p
  <1>14. CASE DataByte
    <2>1. /\ pos > 3 /\ ~AtChecksum /\ ~BeyondArray
          /\ checksumTotal' = Summed /\ pos' = pos + 1
          /\ response' = [response EXCEPT !.frameData = Append(@, FrameByte(f))]
      BY <1>14 DEF DataByte, API_ID_INDEX
    <2>2. f.at # N + 3
      <3>1. pos # PacketLength + 3
        BY <2>1 DEF AtChecksum, API_ID_INDEX
      <3>2. response.lsbLength = N
        BY <1>2, <1>4, <2>1
      <3>3. QED
        BY <1>4, <1>12, <3>1, <3>2
    <2>3. InPacket(f) /\ FrameByte(f) = p[f.at - 2] /\ f.at > 3
      <3>1. f.at > 3 /\ InPacket(f)
        BY <1>1, <1>2, <1>4, <2>1, <2>2
      <3>2. QED
        BY <3>1, FrameByteAt DEF p
    <2>4. FrameByte(f) \in Byte
      BY FrameByteAt
    <2>5. /\ response'.errorCode = response.errorCode
          /\ response'.available = response.available
          /\ response'.lsbLength = response.lsbLength
          /\ response'.apiId = response.apiId
          /\ response'.frameData = Append(response.frameData, FrameByte(f))
      BY <1>7, <2>1 DEF Responses
    <2>6. ~Sent(g) /\ g.at = f.at + 1 /\ (RightSum(f) => g.sum = Summed)
      BY <1>2, <1>3, <1>6, <2>2, <2>3
    <2>7. \A i \in 1 .. pos' - 4 : response'.frameData[i] = p[i + 1]
      <3> DEFINE d == response.frameData
                 x == FrameByte(f)
                 k == f.at - 4
      <3>1. /\ d \in Seq(Byte) /\ x \in Byte /\ Len(d) = k /\ k \in Nat
            /\ \A i \in 1 .. k : d[i] = p[i + 1]
            /\ x = p[k + 1 + 1] /\ pos' - 4 = k + 1
        <4>1. d \in Seq(Byte) /\ Len(d) = f.at - 4 /\ x \in Byte
          BY <1>4, <1>7, <2>1, <2>4
        <4>2. f.at - 4 \in Nat /\ f.at - 2 = f.at - 4 + 1 + 1 /\ pos' - 4 = f.at - 4 + 1
          BY <1>2, <1>4, <2>1, <2>3
        <4>3. \A i \in 1 .. f.at - 4 : d[i] = p[i + 1]
          BY <1>4, <2>1
        <4>4. QED
          BY <2>3, <4>1, <4>2, <4>3
      <3>2. response'.frameData = Append(d, x)
        BY <2>5
      <3> HIDE DEF d, x, k
      <3>3. /\ \A i \in 1 .. k : Append(d, x)[i] = d[i]
            /\ Append(d, x)[k + 1] = x
        BY <3>1, AppendProperties
      <3>4. QED
        BY <3>1, <3>2, <3>3
    <2>8. InPlace(g)'
      <3>1. g.packet = p /\ N = Len(p) /\ pos' > 2
        BY <1>2, <1>3, <1>4, <2>1 DEF N, p
      <3>2. pos > 2 /\ pos' = g.at
        BY <1>2, <1>4, <2>1, <2>6
      <3>3. QED
        BY <1>3, <1>4, <1>5, <2>1, <2>5, <2>6, <2>7, <3>1, <3>2, InPlaceNext
    <2>9. RightSum(f) => RightSum(g)'
      BY <2>1, <2>6 DEF RightSum
    <2>10. QED
      BY <1>2, <1>5, <2>2, <2>5, <2>8, <2>9 DEF IsAvailable
  <1>15. QED
    BY <1>8, <1>9, <1>10, <1>11, <1>13, <1>14

-----------------------------------------------------------------------------
(* How many packets from place f on the parser may still miss: none        *)
(* when it is in step with the sender, one when only the sum is wrong, and *)
(* so on up to three when it has lost its place inside a frame.            *)
AtStart(f) == f.at = 0 \/ Sent(f)
Idle == pos = 0 \/ IsError      \* waiting for a start byte
Stale == IF checksumTotal = 0 THEN 0 ELSE 1

Debt(f) ==
    IF AtStart(f) THEN (IF Idle THEN Stale ELSE 2)
    ELSE IF Idle THEN 1 + Stale
    ELSE IF InPlace(f) THEN (IF checksumTotal = f.sum THEN 0 ELSE 1)
    ELSE 3

\* At most three packets are owed, and two at the start of a frame.
LEMMA DebtType ==
    ASSUME NEW f
    PROVE  /\ Debt(f) \in 0 .. 3 /\ Debt(f)' \in 0 .. 3
           /\ AtStart(f) => Debt(f)' <= 2
  <1>1. Stale \in 0 .. 1 /\ Stale' \in 0 .. 1
    BY DEF Stale
  <1>2. Debt(f) \in 0 .. 3
    BY <1>1 DEF Debt
  <1>3. Debt(f)' \in 0 .. 3
    <2>1. Debt(f)' \in {Stale', 2, 1 + Stale', 0, 1, 3}
      BY Zenon DEF Debt
    <2>2. 1 + Stale' \in 0 .. 3
      <3>1. \A n \in 0 .. 1 : 1 + n \in 0 .. 3
        OBVIOUS
      <3>2. QED
        BY <1>1, <3>1, Zenon
    <2>3. QED
      BY <1>1, <2>1, <2>2
  <1>4. AtStart(f) => Debt(f)' <= 2
    BY <1>1 DEF Debt
  <1>5. QED
    BY <1>2, <1>3, <1>4

\* A turn of the loop, and the bytes it takes.
ReadsByte == \/ AwaitStart \/ LengthByte \/ ApiIdByte
             \/ TooLong \/ EndOfPacket \/ DataByte
AnyTurn == UnexpectedStart \/ EscapeAlone \/ ReadsByte
Read == IF Escapes /\ Len(queue) > 1 THEN 2 ELSE 1

\* What a turn of the loop finds, and takes.
LEMMA TurnFacts ==
    ASSUME IInv, AnyTurn
    PROVE  /\ queue \in Seq(Byte) /\ Len(queue) \in Nat \ {0} /\ queue # << >>
           /\ Head(queue) = queue[1]
           /\ reading /\ ~IsError /\ ~IsAvailable
           /\ pos \in Nat /\ (pos = 0 => escape = FALSE)
           /\ Read \in {1, 2} /\ Read <= Len(queue)
           /\ Read = 2 <=> Escapes /\ Len(queue) > 1
           /\ queue' = SubSeq(queue, Read + 1, Len(queue))
  <1>1. Turn
    BY DEF AnyTurn, ReadsByte, UnexpectedStart, EscapeAlone, TakesByte,
           AwaitStart, LengthByte, ApiIdByte, TooLong, EndOfPacket, DataByte
  <1>2. /\ queue \in Seq(Byte) /\ Len(queue) \in Nat \ {0} /\ queue # << >>
        /\ Head(queue) = queue[1]
    BY <1>1, EmptySeq, LenProperties DEF IInv, TypeOK, Turn
  <1>3. /\ reading /\ ~IsError /\ ~IsAvailable
        /\ pos \in Nat /\ (pos = 0 => escape = FALSE)
    BY <1>1, ReceiverAssumption DEF IInv, TypeOK, Consistent, Turn
  <1>4. /\ Read \in {1, 2} /\ Read <= Len(queue)
        /\ Read = 2 <=> Escapes /\ Len(queue) > 1
    BY <1>2 DEF Read
  <1>5. queue' = SubSeq(queue, Read + 1, Len(queue))
    <2>1. CASE UnexpectedStart
      <3>1. ~Escapes /\ queue' = Tail(queue)
        BY <2>1 DEF UnexpectedStart, Restarts, Escapes, START_BYTE, ESCAPE
      <3>2. Read + 1 = 2 /\ Tail(queue) = SubSeq(queue, 2, Len(queue))
        BY <1>2, <3>1, TailIsSubSeq DEF Read
      <3>3. QED
        BY <3>1, <3>2
    <2>2. CASE EscapeAlone
      <3>1. Len(queue) = 1 /\ queue' = << >>
        BY <2>2 DEF EscapeAlone
      <3>2. Read + 1 = 2 /\ SubSeq(queue, 2, 1) = << >>
        BY <3>1, SubSeqEmpty DEF Read
      <3>3. QED
        BY <3>1, <3>2
    <2>3. CASE ReadsByte
      <3>1. Taken <= Len(queue) /\ queue' = SubSeq(queue, Taken + 1, Len(queue))
        BY <2>3 DEF ReadsByte, TakesByte,
                    AwaitStart, LengthByte, ApiIdByte, TooLong, EndOfPacket, DataByte
      <3>2. Taken = Read
        BY <1>2, <3>1 DEF Taken, Read
      <3>3. QED
        BY <3>1, <3>2
    <2>4. QED
      BY <2>1, <2>2, <2>3 DEF AnyTurn
  <1>6. QED
    BY <1>2, <1>3, <1>4, <1>5

\* A turn reads the byte of place f, or its two halves.  A packet that it ends
\* without delivering pays for what was owed, and nothing else is ever added.
LEMMA TurnPays ==
    ASSUME IInv, AnyTurn, NEW f \in Places, ~Sent(f), queue[1] = OnWire(f),
           Read = 2 => queue[2] = OnWire(After(f)),
           NEW w, w = IF Read = 2 THEN After(f) ELSE f,
           NEW g, g = After(w)
    PROVE  /\ w \in Places /\ ~Sent(w) /\ w.packet = f.packet /\ g \in Places
           /\ Debt(g)' <= Debt(f)
           /\ IsLast(w) /\ ~(IsAvailable' /\ Packet' = f.packet)
                => Debt(g)' + 1 <= Debt(f)
           /\ Debt(f) = 0 => ~IsError' /\ (IsAvailable' => IsLast(w))
  <1>1. /\ queue \in Seq(Byte) /\ Len(queue) \in Nat \ {0} /\ queue # << >>
        /\ Head(queue) = queue[1]
        /\ reading /\ ~IsError /\ ~IsAvailable
        /\ pos \in Nat /\ (pos = 0 => escape = FALSE)
        /\ Read \in {1, 2} /\ Read <= Len(queue)
        /\ Read = 2 <=> Escapes /\ Len(queue) > 1
    BY TurnFacts
  <1>2. /\ f.at \in Nat /\ f.half \in BOOLEAN
        /\ f.at > 0 => queue[1] # START_BYTE /\ (queue[1] = ESCAPE <=> ~EndsByte(f))
        /\ f.at = 0 => queue[1] = START_BYTE /\ EndsByte(f)
        /\ START_BYTE # ESCAPE
    BY OnWireIs, PlaceFacts DEF START_BYTE, ESCAPE
  <1>3. Read = 2 => ~EndsByte(f) /\ f.at > 0
    BY <1>1, <1>2 DEF Escapes
  <1>4. /\ w \in Places /\ ~Sent(w) /\ w.packet = f.packet /\ g \in Places
        /\ IsLast(w) <=> Sent(g)
        /\ w.at = f.at
    BY <1>1, <1>3, AfterType
  <1>5. /\ Debt(f) \in 0 .. 3 /\ Debt(g)' \in 0 .. 3
        /\ AtStart(g) => Debt(g)' <= 2
    BY DebtType
  <1>6. CASE UnexpectedStart
    <2>1. /\ pos > 0 /\ queue[1] = START_BYTE /\ ~Escapes
          /\ response' = [response EXCEPT !.errorCode = UNEXPECTED_START_BYTE]
      BY <1>1, <1>2, <1>6 DEF UnexpectedStart, Restarts, Escapes
    <2>2. f.at = 0 /\ w = f /\ EndsByte(f)
      BY <1>1, <1>2, <2>1
    <2>3. g.at = 1
      BY <2>2, AfterType
    <2>4. ~IsLast(w) /\ ~Sent(g)
      BY <1>4, <2>2, PlaceFacts DEF IsLast
    <2>5. Debt(f) = 2
      BY <1>1, <2>1, <2>2 DEF Debt, AtStart, Idle
    <2>6. IsError'
      BY <2>1 DEF IsError, IInv, TypeOK, Responses, UNEXPECTED_START_BYTE, NO_ERROR
    <2>7. Debt(g)' <= 2
      BY <2>3, <2>4, <2>6 DEF Debt, AtStart, Idle, Stale
    <2>8. QED
      BY <1>4, <2>4, <2>5, <2>7
  <1>7. CASE EscapeAlone
    <2>1. /\ pos > 0 /\ queue[1] = ESCAPE /\ Len(queue) = 1
          /\ escape' = TRUE /\ UNCHANGED <<pos, checksumTotal, response>>
      BY <1>1, <1>7 DEF EscapeAlone, Escapes
    <2>2. f.at > 0 /\ ~EndsByte(f) /\ w = f
      BY <1>1, <1>2, <2>1
    <2>3. /\ g.packet = f.packet /\ g.at = f.at /\ g.half = TRUE /\ g.sum = f.sum
          /\ ~Sent(g)
      BY <1>4, <2>2, AfterType, PlaceFacts
    <2>4. ~IsLast(w) /\ ~IsError' /\ ~IsAvailable'
      BY <1>1, <1>4, <2>1, <2>3 DEF IsError, IsAvailable
    <2>5. CASE InPlace(f)
      <3>1. InPlace(g)'
        BY <2>1, <2>3, <2>5 DEF InPlace, IsError
      <3>2. Debt(g)' = Debt(f)
        BY <1>1, <1>2, <2>1, <2>2, <2>3, <2>4, <2>5, <3>1 DEF Debt, AtStart, Idle
      <3>3. QED
        BY <1>4, <1>5, <2>4, <3>2
    <2>6. CASE ~InPlace(f)
      <3>1. Debt(f) = 3
        BY <1>1, <1>2, <2>1, <2>2, <2>6 DEF Debt, AtStart, Idle
      <3>2. QED
        BY <1>4, <1>5, <2>4, <3>1
    <2>7. QED
      BY <2>5, <2>6
  <1>8. ASSUME ReadsByte PROVE TakesByte
    BY <1>8 DEF ReadsByte, AwaitStart, LengthByte, ApiIdByte, TooLong, EndOfPacket, DataByte
  <1>9. CASE ReadsByte /\ pos = 0
    <2>1. AwaitStart
      BY <1>9 DEF ReadsByte, LengthByte, ApiIdByte, TooLong, EndOfPacket, DataByte,
                  AtChecksum, API_ID_INDEX
    <2>2. /\ ~Escapes /\ Read = 1 /\ w = f /\ Unescaped = queue[1]
      BY <1>1, <1>9 DEF Escapes, Unescaped
    <2>3. /\ pos' = (IF queue[1] = START_BYTE THEN 1 ELSE 0)
          /\ escape' = FALSE /\ UNCHANGED <<checksumTotal, response>>
      BY <2>1, <2>2 DEF AwaitStart, TakesByte
    <2>4. ~IsError' /\ ~IsAvailable'
      BY <1>1, <2>3 DEF IsError, IsAvailable
    <2>5. CASE f.at = 0
      <3>1. /\ pos' = 1 /\ g.at = 1 /\ g.half = FALSE /\ g.sum = 0
        <4>1. EndsByte(f) /\ f.sum = 0 /\ ~InPacket(f)
          BY <1>2, <2>5, PlaceFacts
        <4>2. QED
          BY <1>2, <2>2, <2>3, <2>5, <4>1, AfterType, PlaceFacts
      <3>2. ~IsLast(w) /\ ~Sent(g)
        BY <1>4, <2>5, PlaceFacts DEF IsLast
      <3>3. InPlace(g)'
        <4>1. /\ pos' = (IF Sent(g) THEN 0 ELSE g.at) /\ escape' = g.half
              /\ ~(pos' > 2) /\ ~(pos' > 3)
          <5>1. pos' = 1
            BY <3>1
          <5>2. ~(pos' > 2) /\ ~(pos' > 3)
            BY ONLY <5>1
          <5>3. QED
            BY <2>3, <3>1, <3>2, <5>2, Zenon
        <4>2. response'.errorCode = NO_ERROR
          BY <2>4 DEF IsError
        <4>3. QED
          BY <1>4, <4>1, <4>2, InPlaceNext
      <3>4. Debt(f) = Stale
        BY <1>9, <2>5 DEF Debt, AtStart, Idle
      <3>5. Debt(g)' = Stale
        BY <2>3, <2>4, <3>1, <3>2, <3>3 DEF Debt, AtStart, Idle, Stale
      <3>6. QED
        BY <1>4, <1>5, <2>4, <3>2, <3>4, <3>5
    <2>6. CASE f.at > 0
      <3>1. pos' = 0
        BY <1>2, <2>3, <2>6
      <3>2. Debt(f) = 1 + Stale
        BY <1>9, <2>6, <1>2 DEF Debt, AtStart, Idle
      <3>3. Stale \in 0 .. 1 /\ Stale' = Stale
        BY <2>3 DEF Stale
      <3>4. Debt(g)' = IF Sent(g) THEN Stale ELSE 1 + Stale
        <4>1. g.at > 0
          BY <1>2, <2>2, <2>6, AfterType, PlaceFacts
        <4>2. ~(g.at = 0)
          BY <4>1
        <4>3. QED
          BY <3>1, <3>3, <4>2 DEF Debt, AtStart, Idle
      <3>5. QED
        BY <1>4, <2>4, <3>2, <3>3, <3>4
    <2>7. QED
      BY <1>2, <2>5, <2>6
  <1>10. CASE ReadsByte /\ pos # 0 /\ InPlace(f)
    <2>1. /\ Restarts <=> FALSE
          /\ Escapes <=> ~EndsByte(f)
          /\ Taken <= Len(queue) => Unescaped = FrameByte(f)
      <3>1. Len(queue) > 1 /\ ~EndsByte(f) => queue[2] = OnWire(After(f))
        BY <1>1, <1>2, <1>10 DEF Escapes
      <3>2. QED
        BY <1>1, <1>10, <3>1, TurnReads DEF IInv
    <2>2. Taken <= Len(queue)
      BY <1>8, <1>10 DEF TakesByte
    <2>3. w = Whole(f) /\ g = NextPlace(f)
      <3>1. Read = 2 <=> ~EndsByte(f)
        BY <1>1, <2>1, <2>2 DEF Taken
      <3>2. QED
        BY <3>1 DEF Whole, NextPlace
    <2>4. /\ ~IsAvailable
          /\ f.at # ChecksumAt(f) => /\ InPlace(g)' /\ ~IsAvailable'
                                     /\ RightSum(f) => RightSum(g)'
          /\ f.at = ChecksumAt(f) => /\ pos' = 0 /\ checksumTotal' = 0
                                     /\ RightSum(f) => IsAvailable' /\ ~IsError'
                                     /\ IsAvailable' => Packet' = f.packet
      BY <1>10, <2>1, <2>2, <2>3, ByteRead DEF ReadsByte
    <2>5. /\ IsLast(w) <=> f.at = ChecksumAt(f)
          /\ Sent(g) <=> f.at = ChecksumAt(f)
          /\ g.at = f.at + 1
      BY <2>3, NextPlaceType
    <2>6. pos = f.at /\ f.at > 0
      BY <1>1, <1>2, <1>10 DEF InPlace
    <2>7. Debt(f) = IF RightSum(f) THEN 0 ELSE 1
      BY <1>1, <1>10, <2>6 DEF Debt, AtStart, Idle, RightSum
    <2>8. CASE f.at # ChecksumAt(f)
      <3>1. InPlace(g)' /\ ~IsAvailable' /\ (RightSum(f) => RightSum(g)')
        BY <2>4, <2>8
      <3>2. ~Sent(g) /\ g.at > 0 /\ ~IsLast(w)
        BY <1>2, <2>5, <2>8
      <3>3. pos' = g.at /\ ~IsError'
        BY <3>1, <3>2 DEF InPlace
      <3>4. Debt(g)' = IF checksumTotal' = g.sum THEN 0 ELSE 1
        BY <3>1, <3>2, <3>3 DEF Debt, AtStart, Idle
      <3>5. RightSum(g)' <=> checksumTotal' = g.sum
        BY <3>2 DEF RightSum
      <3>6. QED
        BY <1>4, <2>7, <3>1, <3>2, <3>3, <3>4, <3>5
    <2>9. CASE f.at = ChecksumAt(f)
      <3>1. Sent(g) /\ pos' = 0 /\ checksumTotal' = 0
        BY <2>4, <2>5, <2>9
      <3>2. Debt(g)' = 0
        BY <3>1 DEF Debt, AtStart, Idle, Stale
      <3>3. QED
        BY <1>4, <2>4, <2>5, <2>7, <2>9, <3>2
    <2>10. QED
      BY <2>8, <2>9
  <1>11. CASE ReadsByte /\ pos # 0 /\ ~InPlace(f)
    <2>1. f.at > 0
      <3>1. ~Restarts
        BY <1>8, <1>11 DEF TakesByte
      <3>2. QED
        BY <1>1, <1>2, <1>11, <3>1 DEF Restarts
    <2>2. Debt(f) = 3
      BY <1>1, <1>11, <2>1 DEF Debt, AtStart, Idle
    <2>3. IsLast(w) => Debt(g)' <= 2
      BY <1>4, <1>5 DEF AtStart
    <2>4. QED
      BY <1>4, <1>5, <2>2, <2>3
  <1>12. QED
    BY <1>6, <1>7, <1>9, <1>10, <1>11 DEF AnyTurn

-----------------------------------------------------------------------------
(* Each byte of the queue is the one that send() wrote at a place.  The    *)
(* places follow each other up to the sender's, except where bytes were    *)
(* lost; torn says that a byte of the frame, or of the one before, was     *)
(* lost before this one.                                                   *)
Points == [place : Places, torn : BOOLEAN]

\* g comes after f, in the frame or as the start of the next.
Follows(f, g) == g = After(f) \/ (Sent(After(f)) /\ g = Begin(g.packet))

\* Unless a byte was lost between them.
Joins(d, e) ==
    e.torn \/ (Follows(d.place, e.place) /\ (d.torn => Mark(d.place, d.torn) = Damaged))

\* The points of the queue's bytes, and last the sender's.
Trail(c) ==
    /\ Len(c) = Len(queue) + 1
    /\ c[Len(c)] = [place |-> sender, torn |-> hurt]
    /\ \A i \in 1 .. Len(queue) :
         /\ ~Sent(c[i].place)
         /\ queue[i] = OnWire(c[i].place)
         /\ marks[i] = Mark(c[i].place, c[i].torn)
         /\ Joins(c[i], c[i + 1])
    /\ losses = 0 => \A j \in 1 .. Len(c) : ~c[j].torn

\* What the parser owes from the first byte on.
Tracks(e) ==
    /\ missed <= 3
    /\ ~e.torn => missed + Debt(e.place) <= 3
    /\ losses = 0 => Debt(e.place) = 0 /\ ~IsError

Marks == Packets \cup {NoMark, Damaged}

LinkType ==
    /\ sender \in Places /\ hurt \in BOOLEAN
    /\ losses \in Nat /\ missed \in Nat
    /\ marks \in Seq(Marks) /\ Len(marks) = Len(queue)
    /\ Len(queue) <= QueueMax

LinkInv ==
    /\ IInv
    /\ LinkType
    /\ \E c \in Seq(Points) : Trail(c) /\ Tracks(c[1])

\* A frame is longer than its start byte.
LEMMA BeginNotLast ==
    ASSUME NEW p \in Packets
    PROVE  ~Sent(Begin(p)) /\ ~IsLast(Begin(p))
  <1>1. Begin(p) \in Places /\ Begin(p).at = 0
    BY BeginType
  <1>2. ChecksumAt(Begin(p)) \in 4 .. 251
    BY <1>1, PlaceFacts
  <1>3. QED
    BY <1>1, <1>2 DEF Sent, IsLast

\* The mark of a byte: a packet only for the last byte of a whole one.
LEMMA MarkIs ==
    ASSUME NEW f \in Places, ~Sent(f), NEW t \in BOOLEAN
    PROVE  /\ Mark(f, t) \in Marks
           /\ ~t => Mark(f, t) = IF IsLast(f) THEN f.packet ELSE NoMark
           /\ t => Mark(f, t) \in {NoMark, Damaged}
           /\ OnWire(f) = ESCAPE => Mark(f, t) = NoMark
  <1>1. f.packet \in Packets /\ NoMark # Damaged
    BY PlaceFacts, PacketFacts
  <1>2. ~t => Mark(f, t) = IF IsLast(f) THEN f.packet ELSE NoMark
    BY DEF Mark
  <1>3. t => Mark(f, t) \in {NoMark, Damaged}
    BY DEF Mark
  <1>4. ASSUME OnWire(f) = ESCAPE PROVE Mark(f, t) = NoMark
    <2>1. f.at # 0 /\ ~EndsByte(f)
      <3>1. f.at = 0 => OnWire(f) # ESCAPE
        BY OnWireIs DEF START_BYTE, ESCAPE
      <3>2. f.at \in Nat
        BY PlaceFacts
      <3>3. QED
        BY <1>4, <3>1, <3>2, OnWireIs
    <2>2. QED
      BY <2>1 DEF Mark, IsLast
  <1>5. QED
    BY <1>1, <1>2, <1>3, <1>4 DEF Marks

\* The parser owes as much to a frame begun as to the one sent before it.
LEMMA DebtOfNext ==
    ASSUME NEW f \in Places, NEW g \in Places, Follows(f, g)
    PROVE  /\ Debt(g) = Debt(After(f))
           /\ Debt(g)' = Debt(After(f))'
  <1>1. CASE g = After(f)
    BY <1>1
  <1>2. CASE Sent(After(f)) /\ g = Begin(g.packet)
    <2>1. g.at = 0
      BY <1>2, BeginType, PlaceFacts
    <2>2. AtStart(g) /\ AtStart(After(f))
      BY <1>2, <2>1 DEF AtStart
    <2>3. QED
      BY <2>2 DEF Debt
  <1>3. QED
    BY <1>1, <1>2 DEF Follows

\* At the start of a frame it does not matter of which.
LEMMA DebtAtStart ==
    ASSUME NEW f, NEW g, AtStart(f), AtStart(g)
    PROVE  Debt(f) = Debt(g)
  BY DEF Debt

\* The types of a trail.
LEMMA TrailFacts ==
    ASSUME LinkInv, NEW c \in Seq(Points), Trail(c)
    PROVE  /\ queue \in Seq(Byte) /\ Len(queue) \in Nat
           /\ Len(c) = Len(queue) + 1 /\ Len(marks) = Len(queue)
           /\ \A i \in 1 .. Len(queue) + 1 : /\ c[i] \in Points
                                             /\ c[i].place \in Places
                                             /\ c[i].torn \in BOOLEAN
           /\ c[Len(queue) + 1].place = sender /\ c[Len(queue) + 1].torn = hurt
  <1>1. /\ queue \in Seq(Byte) /\ Len(queue) \in Nat
        /\ Len(c) = Len(queue) + 1 /\ Len(marks) = Len(queue)
    BY LenProperties DEF LinkInv, LinkType, IInv, TypeOK, Trail
  <1>2. \A i \in 1 .. Len(c) : c[i] \in Points
    BY ElementOfSeq
  <1>3. c[Len(queue) + 1].place = sender /\ c[Len(queue) + 1].torn = hurt
    BY <1>1 DEF Trail
  <1>4. QED
    BY <1>1, <1>2, <1>3 DEF Points

\* A byte arrives, at the sender's place.
LEMMA TrailArrive ==
    ASSUME LinkInv, Arrive
    PROVE  LinkType' /\ \E d \in Seq(Points) : Trail(d)' /\ Tracks(d[1])'
  <1>1. PICK c \in Seq(Points) : Trail(c) /\ Tracks(c[1])
    BY DEF LinkInv
  <1>2. /\ sender \in Places /\ hurt \in BOOLEAN /\ marks \in Seq(Marks)
        /\ losses \in Nat /\ missed \in Nat
    BY DEF LinkInv, LinkType
  <1>3. /\ ~Sent(sender) /\ Len(queue) < QueueMax
        /\ queue' = Append(queue, OnWire(sender)) /\ sender' = After(sender)
        /\ UNCHANGED <<parser, losses, missed>>
        /\ hurt' = (hurt /\ Mark(sender, hurt) # Damaged)
        /\ marks' = Append(marks, Mark(sender, hurt))
    BY DEF Arrive
  <1> PICK x : x = [place |-> After(sender), torn |-> hurt']
    OBVIOUS
  <1> PICK d : d = Append(c, x)
    OBVIOUS
  <1> DEFINE n == Len(queue)
  <1>4. /\ Mark(sender, hurt) \in Marks /\ OnWire(sender) \in Byte
        /\ After(sender) \in Places /\ hurt' \in BOOLEAN /\ x \in Points
    BY <1>2, <1>3, MarkIs, OnWireIs, AfterType DEF Points
  <1>5. /\ n \in Nat /\ Len(c) = n + 1 /\ Len(marks) = n /\ queue \in Seq(Byte)
        /\ c[n + 1].place = sender /\ c[n + 1].torn = hurt
    BY <1>1, TrailFacts
  <1>6. /\ Len(queue') = n + 1 /\ queue'[n + 1] = OnWire(sender)
        /\ \A i \in 1 .. n : queue'[i] = queue[i]
    BY <1>3, <1>4, <1>5, AppendProperties
  <1>7. /\ marks' \in Seq(Marks) /\ Len(marks') = n + 1
        /\ marks'[n + 1] = Mark(sender, hurt)
        /\ \A i \in 1 .. n : marks'[i] = marks[i]
    BY <1>2, <1>3, <1>4, <1>5, AppendProperties
  <1>8. /\ d \in Seq(Points) /\ Len(d) = n + 1 + 1 /\ d[n + 1 + 1] = x
        /\ \A i \in 1 .. n + 1 : d[i] = c[i]
    BY <1>4, <1>5, AppendProperties
  <1>9. \A i \in 1 .. n : /\ ~Sent(c[i].place)
                          /\ queue[i] = OnWire(c[i].place)
                          /\ marks[i] = Mark(c[i].place, c[i].torn)
                          /\ Joins(c[i], c[i + 1])
    BY <1>1 DEF Trail
  <1>10. losses = 0 => \A j \in 1 .. n + 1 : ~c[j].torn
    BY <1>1, <1>5 DEF Trail
  <1>11. n < QueueMax
    BY <1>3
  <1> HIDE DEF n
  <1>12. Joins(c[n + 1], x)
    <2>1. x.place = After(sender) /\ x.torn = hurt'
      OBVIOUS
    <2>2. Follows(sender, After(sender))
      BY DEF Follows
    <2>3. ~hurt' => (hurt => Mark(sender, hurt) = Damaged)
      BY <1>3
    <2>4. QED
      BY <1>5, <2>1, <2>2, <2>3 DEF Joins
  <1>13. ASSUME NEW i \in 1 .. n + 1
         PROVE  /\ ~Sent(d[i].place)
                /\ queue'[i] = OnWire(d[i].place)
                /\ marks'[i] = Mark(d[i].place, d[i].torn)
                /\ Joins(d[i], d[i + 1])
    <2>1. CASE i \in 1 .. n
      <3>1. i + 1 \in 1 .. n + 1
        BY <1>5, <2>1
      <3>2. d[i] = c[i] /\ d[i + 1] = c[i + 1]
        BY <1>8, <3>1
      <3>3. QED
        BY <1>6, <1>7, <1>9, <2>1, <3>2
    <2>2. CASE i = n + 1
      <3>1. d[i] = c[n + 1] /\ d[i + 1] = x
        BY <1>5, <1>8, <2>2
      <3>2. QED
        BY <1>3, <1>5, <1>6, <1>7, <1>12, <2>2, <3>1
    <2>3. QED
      BY <1>5, <2>1, <2>2
  <1>14. losses' = 0 => \A j \in 1 .. n + 1 + 1 : ~d[j].torn
    <2> SUFFICES ASSUME losses' = 0, NEW j \in 1 .. n + 1 + 1 PROVE ~d[j].torn
      OBVIOUS
    <2>1. \A i \in 1 .. n + 1 : ~c[i].torn
      BY <1>3, <1>10
    <2>2. CASE j \in 1 .. n + 1
      BY <1>8, <2>1, <2>2
    <2>3. CASE j = n + 1 + 1
      <3>1. n + 1 \in 1 .. n + 1
        BY <1>5
      <3>2. ~hurt
        BY <1>5, <2>1, <3>1
      <3>3. ~x.torn
        BY <1>3, <3>2
      <3>4. QED
        BY <1>8, <2>3, <3>3
    <2>4. QED
      BY <1>5, <2>2, <2>3
  <1>15. Trail(d)'
    <2>1. Len(d) = Len(queue') + 1 /\ d[Len(d)] = [place |-> sender', torn |-> hurt']
      BY <1>3, <1>6, <1>8
    <2>2. QED
      BY <1>6, <1>8, <1>13, <1>14, <2>1 DEF Trail
  <1>16. Tracks(d[1])'
    <2>1. d[1] = c[1]
      BY <1>5, <1>8
    <2>2. Tracks(d[1])
      BY <1>1, <2>1
    <2>3. QED
      BY <1>3, <2>2 DEF Tracks, Debt, AtStart, Idle, Stale, InPlace, IsError, parser
  <1>17. LinkType'
    <2>1. QueueMax \in Nat
      BY ReceiverAssumption
    <2>2. Len(queue') <= QueueMax
      BY <1>5, <1>6, <1>11, <2>1
    <2>3. QED
      BY <1>2, <1>3, <1>4, <1>6, <1>7, <2>2 DEF LinkType
  <1>18. QED
    BY <1>8, <1>15, <1>16, <1>17

-----------------------------------------------------------------------------
\* The sender moves without a byte arriving: it loses one, or begins a frame.
LEMMA TrailMoves ==
    ASSUME LinkInv, UNCHANGED <<queue, parser, marks, missed>>,
           sender' \in Places, hurt' \in BOOLEAN, losses' \in Nat,
           \/ hurt' /\ losses' # 0
           \/ /\ hurt' = hurt /\ losses' = losses
              /\ Sent(sender) /\ sender' = Begin(sender'.packet)
    PROVE  LinkType' /\ \E d \in Seq(Points) : Trail(d)' /\ Tracks(d[1])'
  <1>1. PICK c \in Seq(Points) : Trail(c) /\ Tracks(c[1])
    BY DEF LinkInv
  <1> PICK s : s = sender'
    OBVIOUS
  <1> PICK x : x = [place |-> s, torn |-> hurt']
    OBVIOUS
  <1> PICK d : d = [c EXCEPT ![Len(c)] = x]
    OBVIOUS
  <1> DEFINE n == Len(queue)
  <1>2. s \in Places /\ x \in Points /\ x.place = s /\ x.torn = hurt'
    BY DEF Points
  <1>3. /\ n \in Nat /\ Len(c) = n + 1 /\ Len(c) \in 1 .. Len(c)
        /\ c[n + 1].place = sender /\ c[n + 1].torn = hurt
        /\ \A i \in 1 .. n + 1 : c[i] \in Points /\ c[i].place \in Places
                                 /\ c[i].torn \in BOOLEAN
    <2>1. /\ n \in Nat /\ Len(c) = n + 1
          /\ c[n + 1].place = sender /\ c[n + 1].torn = hurt
          /\ \A i \in 1 .. n + 1 : c[i] \in Points /\ c[i].place \in Places
                                   /\ c[i].torn \in BOOLEAN
      BY <1>1, TrailFacts
    <2> HIDE DEF n
    <2>2. n + 1 \in 1 .. n + 1
      BY <2>1
    <2>3. QED
      BY <2>1, <2>2
  <1>4. /\ d \in Seq(Points) /\ Len(d) = n + 1 /\ d[n + 1] = x
        /\ \A i \in 1 .. n : d[i] = c[i]
    <2> HIDE DEF n
    <2>1. d \in Seq(Points) /\ Len(d) = Len(c)
      BY <1>2, <1>3, ExceptSeq
    <2>2. d[Len(c)] = x /\ \A i \in 1 .. Len(c) : i # Len(c) => d[i] = c[i]
      BY <1>3, LenProperties
    <2>3. QED
      BY <1>3, <2>1, <2>2
  <1>5. \A i \in 1 .. n : /\ ~Sent(c[i].place)
                          /\ queue[i] = OnWire(c[i].place)
                          /\ marks[i] = Mark(c[i].place, c[i].torn)
                          /\ Joins(c[i], c[i + 1])
    BY <1>1 DEF Trail
  <1>6. losses = 0 => \A j \in 1 .. n + 1 : ~c[j].torn
    BY <1>1, <1>3 DEF Trail
  <1>7. queue' = queue /\ marks' = marks /\ Len(queue') = n
    OBVIOUS
  <1> HIDE DEF n
  <1>8. ASSUME NEW i \in 1 .. n PROVE Joins(d[i], d[i + 1])
    <2>1. CASE i # n
      <3>1. i + 1 \in 1 .. n
        BY <1>3, <2>1
      <3>2. QED
        BY <1>4, <1>5, <3>1
    <2>2. CASE i = n
      <3> PICK e : e = c[i]
        OBVIOUS
      <3>1. d[i] = e /\ d[i + 1] = x /\ Joins(e, c[n + 1])
        BY <1>4, <1>5, <2>2
      <3>2. e.place \in Places
        BY <1>3
      <3>3. CASE hurt'
        BY <1>2, <3>1, <3>3 DEF Joins
      <3>4. CASE ~hurt'
        <4>1. ~hurt /\ Sent(sender) /\ s = Begin(s.packet)
          BY <3>4
        <4>2. Follows(e.place, sender) /\ (e.torn => Mark(e.place, e.torn) = Damaged)
          BY <1>3, <3>1, <4>1 DEF Joins
        <4>3. sender = After(e.place)
          <5>1. sender # Begin(sender.packet)
            BY <4>1, BeginNotLast, PlaceFacts DEF LinkInv, LinkType
          <5>2. QED
            BY <4>2, <5>1 DEF Follows
        <4>4. Follows(e.place, s)
          BY <4>1, <4>3 DEF Follows
        <4>5. QED
          BY <1>2, <3>1, <4>2, <4>4 DEF Joins
      <3>5. QED
        BY <3>3, <3>4
    <2>3. QED
      BY <2>1, <2>2
  <1>9. ASSUME losses' = 0, NEW j \in 1 .. n + 1 PROVE ~d[j].torn
    <2>1. losses = 0 /\ hurt' = hurt
      BY <1>9
    <2>2. ~c[n + 1].torn /\ ~c[j].torn
      BY <1>3, <1>6, <2>1
    <2>3. CASE j = n + 1
      BY <1>2, <1>3, <1>4, <2>1, <2>2, <2>3
    <2>4. CASE j # n + 1
      <3>1. j \in 1 .. n
        BY <1>3, <2>4
      <3>2. QED
        BY <1>4, <2>2, <3>1
    <2>5. QED
      BY <2>3, <2>4
  <1>10. Trail(d)'
    <2>1. Len(d) = Len(queue') + 1 /\ d[Len(d)] = [place |-> sender', torn |-> hurt']
      BY <1>4, <1>7
    <2>2. losses' = 0 => \A j \in 1 .. Len(d) : ~d[j].torn
      BY <1>4, <1>9
    <2>3. QED
      BY <1>4, <1>5, <1>7, <1>8, <2>1, <2>2 DEF Trail
  <1>11. missed <= 3 /\ (~d[1].torn => missed + Debt(d[1].place) <= 3)
         /\ (losses' = 0 => Debt(d[1].place) = 0 /\ ~IsError)
    <2>1. CASE n = 0
      <3>1. d[1] = x /\ c[1].place = sender /\ c[1].torn = hurt
        BY <1>3, <1>4, <2>1
      <3>2. CASE hurt' /\ losses' # 0
        BY <1>1, <1>2, <3>1, <3>2 DEF Tracks
      <3>3. CASE /\ hurt' = hurt /\ losses' = losses
                 /\ Sent(sender) /\ sender' = Begin(sender'.packet)
        <4>1. s.at = 0
          BY <1>2, <3>3, BeginType, PlaceFacts
        <4>2. AtStart(s) /\ AtStart(c[1].place)
          BY <3>1, <3>3, <4>1 DEF AtStart
        <4>3. Debt(s) = Debt(c[1].place)
          BY <4>2, DebtAtStart
        <4>4. QED
          BY <1>1, <1>2, <3>1, <3>3, <4>3 DEF Tracks
      <3>4. QED
        BY <3>2, <3>3
    <2>2. CASE n # 0
      <3>1. 1 \in 1 .. n
        BY <1>3, <2>2
      <3>2. d[1] = c[1]
        BY <1>4, <3>1
      <3>3. losses' = 0 => losses = 0
        OBVIOUS
      <3>4. QED
        BY <1>1, <3>2, <3>3 DEF Tracks
    <2>3. QED
      BY <2>1, <2>2
  <1>12. Tracks(d[1])'
    BY <1>11 DEF Tracks, Debt, AtStart, Idle, Stale, InPlace, IsError, parser
  <1>13. LinkType'
    BY DEF LinkInv, LinkType
  <1>14. QED
    BY <1>4, <1>10, <1>12, <1>13

\* The sender begins a frame.
LEMMA TrailStart ==
    ASSUME LinkInv, NEW p \in Packets, StartFrame(p)
    PROVE  LinkType' /\ \E d \in Seq(Points) : Trail(d)' /\ Tracks(d[1])'
  <1>1. /\ UNCHANGED <<queue, parser, marks, missed>>
        /\ hurt' = hurt /\ losses' = losses /\ Sent(sender) /\ sender' = Begin(p)
    BY DEF StartFrame, vars
  <1>2. hurt \in BOOLEAN /\ losses \in Nat
    BY DEF LinkInv, LinkType
  <1>3. sender' \in Places /\ sender' = Begin(sender'.packet)
    BY <1>1, BeginType
  <1>4. QED
    BY <1>1, <1>2, <1>3, TrailMoves

\* The line loses a byte.
LEMMA TrailLose ==
    ASSUME LinkInv, LoseByte
    PROVE  LinkType' /\ \E d \in Seq(Points) : Trail(d)' /\ Tracks(d[1])'
  <1>1. /\ UNCHANGED <<queue, parser, marks, missed>>
        /\ hurt' = TRUE /\ losses' = losses + 1 /\ ~Sent(sender)
        /\ sender' = After(sender)
    BY DEF LoseByte, vars
  <1>2. losses \in Nat /\ sender \in Places
    BY DEF LinkInv, LinkType
  <1>3. sender' \in Places /\ losses' \in Nat /\ losses' # 0
    BY <1>1, <1>2, AfterType
  <1>4. QED
    BY <1>1, <1>3, TrailMoves

-----------------------------------------------------------------------------
\* A sequence without its first k elements.
LEMMA Dropped ==
    ASSUME NEW S, NEW s \in Seq(S), NEW k \in 0 .. Len(s)
    PROVE  /\ SubSeq(s, k + 1, Len(s)) \in Seq(S)
           /\ Len(SubSeq(s, k + 1, Len(s))) = Len(s) - k
           /\ \A i \in 1 .. Len(s) - k : SubSeq(s, k + 1, Len(s))[i] = s[i + k]
  <1> DEFINE n == Len(s)
             t == SubSeq(s, k + 1, n)
  <1>1. n \in Nat /\ k \in Nat /\ k <= n /\ k + 1 \in Int /\ n \in Int
    BY LenProperties
  <1>2. \A i \in k + 1 .. n : s[i] \in S
    BY ElementOfSeq
  <1> HIDE DEF n
  <1>3. /\ t \in Seq(S) /\ Len(t) = IF k + 1 <= n THEN n - (k + 1) + 1 ELSE 0
        /\ \A i \in 1 .. n - (k + 1) + 1 : t[i] = s[k + 1 + i - 1]
    BY <1>1, <1>2, SubSeqProperties
  <1> HIDE DEF t
  <1>4. Len(t) = n - k
    BY <1>1, <1>3
  <1>5. ASSUME NEW i \in 1 .. n - k PROVE t[i] = s[i + k]
    <2>1. i \in 1 .. n - (k + 1) + 1 /\ k + 1 + i - 1 = i + k
      BY <1>1
    <2> DEFINE j == k + 1 + i - 1
    <2>2. t[i] = s[j]
      BY <1>3, <2>1
    <2>3. j = i + k
      BY <2>1
    <2> HIDE DEF j
    <2>4. QED
      BY <2>2, <2>3
  <1>6. QED
    BY <1>3, <1>4, <1>5 DEF t, n

\* One mark taken off, or two of which the first is none.
LEMMA PacketsInDropped ==
    ASSUME NEW s \in Seq(Marks), NEW k \in {1, 2}, k <= Len(s),
           k = 2 => s[1] \notin Packets
    PROVE  PacketsIn(s) = (IF s[k] \in Packets THEN <<s[k]>> ELSE << >>)
                            \o PacketsIn(SubSeq(s, k + 1, Len(s)))
  <1>1. s # << >> /\ Len(s) \in Nat
    BY EmptySeq, LenProperties
  <1>2. /\ Tail(s) \in Seq(Marks) /\ Len(Tail(s)) = Len(s) - 1
        /\ \A i \in 1 .. Len(Tail(s)) : Tail(s)[i] = s[i + 1]
        /\ Tail(s) = SubSeq(s, 2, Len(s))
    BY <1>1, HeadTailProperties, TailIsSubSeq
  <1>3. PacketsIn(s) =
          (IF s[1] \in Packets THEN <<s[1]>> ELSE << >>) \o PacketsIn(Tail(s))
    BY <1>1, PacketsInTail
  <1>4. CASE k = 1
    <2>1. s[k] = s[1] /\ SubSeq(s, k + 1, Len(s)) = Tail(s)
      <3>1. k + 1 = 2
        BY <1>4
      <3>2. SubSeq(s, k + 1, Len(s)) = SubSeq(s, 2, Len(s))
        BY ONLY <3>1
      <3>3. QED
        BY <1>2, <1>4, <3>2
    <2>2. QED
      BY <1>3, <2>1
  <1>5. CASE k = 2
    <2>1. PacketsIn(Tail(s)) \in Seq(Packets)
      BY <1>2, PacketsInType
    <2>2. PacketsIn(s) = PacketsIn(Tail(s))
      BY <1>3, <1>5, <2>1, ConcatEmptySeq
    <2>3. Tail(s) # << >> /\ Tail(s)[1] = s[2]
      <3>1. 1 \in 1 .. Len(Tail(s))
        BY <1>1, <1>2, <1>5
      <3>2. Tail(s)[1] = s[1 + 1]
        BY <1>2, <3>1
      <3>3. Tail(s) # << >>
        <4>1. Len(Tail(s)) # 0
          BY <1>1, <1>2, <1>5
        <4>2. QED
          BY <4>1, EmptySeq
      <3>4. 1 + 1 = 2
        OBVIOUS
      <3>5. QED
        BY <3>2, <3>3, <3>4
    <2>4. Tail(Tail(s)) = SubSeq(s, 3, Len(s))
      <3>1. 2 \in 1 .. Len(s) /\ Len(s) \in 2 .. Len(s)
        BY <1>1, <1>5
      <3>2. QED
        BY <1>2, <3>1, HeadTailOfSubSeq
    <2>5. PacketsIn(Tail(s)) =
            (IF s[2] \in Packets THEN <<s[2]>> ELSE << >>) \o PacketsIn(Tail(Tail(s)))
      BY <1>2, <2>3, PacketsInTail
    <2>6. s[k] = s[2] /\ SubSeq(s, k + 1, Len(s)) = Tail(Tail(s))
      <3>1. k + 1 = 3
        BY <1>5
      <3>2. SubSeq(s, k + 1, Len(s)) = SubSeq(s, 3, Len(s))
        BY ONLY <3>1
      <3>3. QED
        BY <1>5, <2>4, <3>2
    <2>7. QED
      BY <2>2, <2>5, <2>6
  <1>6. QED
    BY <1>4, <1>5

\* The parser takes k bytes of the queue, and the trail goes on with the next.
LEMMA TrailDrop ==
    ASSUME LinkInv, Receive, NEW c \in Seq(Points), Trail(c),
           NEW k \in {0, 1, 2}, k <= Len(queue),
           queue' = SubSeq(queue, k + 1, Len(queue)), missed' \in Nat
    PROVE  /\ LinkType'
           /\ marks' = SubSeq(marks, k + 1, Len(marks))
           /\ \E d \in Seq(Points) : Trail(d)' /\ d[1] = c[k + 1]
  <1> DEFINE n == Len(queue)
  <1>1. /\ queue \in Seq(Byte) /\ n \in Nat /\ k \in 0 .. n
        /\ n <= QueueMax
        /\ marks \in Seq(Marks) /\ Len(marks) = n
        /\ Len(c) = n + 1
        /\ c[n + 1].place = sender /\ c[n + 1].torn = hurt
    <2>1. /\ queue \in Seq(Byte) /\ n \in Nat /\ n <= QueueMax
          /\ marks \in Seq(Marks) /\ Len(marks) = n
          /\ Len(c) = n + 1
          /\ c[n + 1].place = sender /\ c[n + 1].torn = hurt
      BY TrailFacts DEF LinkInv, LinkType
    <2> HIDE DEF n
    <2>2. k \in 0 .. n
      BY <2>1 DEF n
    <2>3. QED
      BY <2>1, <2>2
  <1>2. /\ Len(queue') = n - k
        /\ \A i \in 1 .. n - k : queue'[i] = queue[i + k]
    BY <1>1, Dropped
  <1>3. marks' = SubSeq(marks, k + 1, Len(marks))
    <2>1. Len(queue) - Len(queue') = k
      BY <1>1, <1>2
    <2>2. QED
      BY <2>1 DEF Receive
  <1>4. /\ marks' \in Seq(Marks) /\ Len(marks') = n - k
        /\ \A i \in 1 .. n - k : marks'[i] = marks[i + k]
    BY <1>1, <1>3, Dropped
  <1> PICK d : d = SubSeq(c, k + 1, Len(c))
    OBVIOUS
  <1>5. /\ \A i \in 1 .. n : /\ ~Sent(c[i].place)
                             /\ queue[i] = OnWire(c[i].place)
                             /\ marks[i] = Mark(c[i].place, c[i].torn)
                             /\ Joins(c[i], c[i + 1])
        /\ losses = 0 => \A j \in 1 .. n + 1 : ~c[j].torn
        /\ c[n + 1] = [place |-> sender, torn |-> hurt]
    BY <1>1 DEF Trail
  <1> HIDE DEF n
  <1>6. /\ d \in Seq(Points) /\ Len(d) = n - k + 1
        /\ \A i \in 1 .. n - k + 1 : d[i] = c[i + k]
    <2>1. k \in 0 .. Len(c) /\ Len(c) - k = n - k + 1
      BY <1>1
    <2>2. QED
      BY <2>1, Dropped
  <1>7. ASSUME NEW i \in 1 .. n - k
        PROVE  /\ ~Sent(d[i].place)
               /\ queue'[i] = OnWire(d[i].place)
               /\ marks'[i] = Mark(d[i].place, d[i].torn)
               /\ Joins(d[i], d[i + 1])
    <2>1. /\ i + k \in 1 .. n /\ i \in 1 .. n - k + 1 /\ i + 1 \in 1 .. n - k + 1
          /\ (i + k) + 1 = (i + 1) + k
      BY <1>1
    <2>2. d[i] = c[i + k] /\ d[i + 1] = c[(i + k) + 1]
      <3>1. d[i] = c[i + k] /\ d[i + 1] = c[(i + 1) + k]
        BY <1>6, <2>1
      <3>2. QED
        BY <2>1, <3>1
    <2>3. queue'[i] = queue[i + k] /\ marks'[i] = marks[i + k]
      BY <1>2, <1>4
    <2>4. QED
      BY <1>5, <2>1, <2>2, <2>3
  <1>8. ASSUME losses = 0, NEW j \in 1 .. n - k + 1 PROVE ~d[j].torn
    <2>1. j + k \in 1 .. n + 1
      BY <1>1
    <2>2. QED
      BY <1>5, <1>6, <1>8, <2>1
  <1>9. d[n - k + 1] = [place |-> sender, torn |-> hurt]
    <2> PICK j \in 1 .. n - k + 1 : j = n - k + 1
      BY <1>1
    <2>1. d[j] = c[j + k]
      BY <1>6
    <2>2. j + k = n + 1
      BY <1>1
    <2>3. d[j] = [place |-> sender, torn |-> hurt]
      BY <1>5, <2>1, <2>2
    <2>4. QED
      BY <2>3
  <1>10. sender' = sender /\ hurt' = hurt /\ losses' = losses
    BY DEF Receive
  <1>11. Trail(d)'
    <2>1. Len(d) = Len(queue') + 1
          /\ d[Len(d)] = [place |-> sender', torn |-> hurt']
      BY <1>2, <1>6, <1>9, <1>10
    <2>2. QED
      BY <1>2, <1>6, <1>7, <1>8, <1>10, <2>1 DEF Trail
  <1>12. d[1] = c[k + 1]
    <2>1. 1 \in 1 .. n - k + 1 /\ 1 + k = k + 1
      BY <1>1
    <2>2. d[1] = c[1 + k]
      BY <1>6, <2>1
    <2>3. QED
      BY <2>1, <2>2
  <1>13. LinkType'
    <2>1. Len(queue') <= QueueMax
      <3>1. QueueMax \in Nat
        BY ReceiverAssumption
      <3>2. QED
        BY <1>1, <1>2, <3>1
    <2>2. QED
      BY <1>2, <1>4, <1>10, <2>1 DEF LinkInv, LinkType
  <1>14. QED
    BY <1>3, <1>6, <1>11, <1>12, <1>13

\* The lesser of two numbers.
LEMMA MinIs ==
    \A a, b \in Nat : Min({a, b}) \in Nat /\ Min({a, b}) <= a
  <1> SUFFICES ASSUME NEW a \in Nat, NEW b \in Nat
               PROVE  Min({a, b}) \in Nat /\ Min({a, b}) <= a
    OBVIOUS
  <1>1. \E x \in {a, b} : \A y \in {a, b} : x <= y
    <2>1. CASE a <= b
      BY <2>1
    <2>2. CASE b <= a
      BY <2>2
    <2>3. QED
      BY <2>1, <2>2
  <1>2. Min({a, b}) \in {a, b} /\ \A y \in {a, b} : Min({a, b}) <= y
    BY <1>1 DEF Min
  <1>3. QED
    BY <1>2

\* How a step of the parser that takes k bytes, of which only the last can
\* end a packet, counts the packets missed.
LEMMA MissedIs ==
    ASSUME LinkInv, Receive,
           NEW k \in {0, 1, 2}, k <= Len(queue),
           queue' = SubSeq(queue, k + 1, Len(queue)),
           k = 2 => marks[1] = NoMark
    PROVE  /\ missed' \in Nat
           /\ k = 0 => missed' = missed
           /\ k > 0 => /\ marks[k] = NoMark => missed' = missed
                       /\ marks[k] = Damaged => missed' = 0
                       /\ marks[k] # NoMark => missed' <= missed + 1
                       /\ marks[k] # NoMark /\ ~IsAvailable /\ IsAvailable'
                            /\ Packet' = marks[k] => missed' = 0
  <1> DEFINE ended == {marks[i] : i \in 1 .. k} \ {NoMark}
  <1>1. /\ missed \in Nat /\ NoMark # Damaged
        /\ Len(queue) - Len(queue') = k
    <2>1. queue \in Seq(Byte) /\ Len(queue) \in Nat /\ missed \in Nat
      BY LenProperties DEF LinkInv, LinkType, IInv, TypeOK
    <2> DEFINE n == Len(queue)
    <2> HIDE DEF n
    <2>2. k \in 0 .. n
      BY <2>1 DEF n
    <2>3. Len(queue') = n - k
      BY <2>1, <2>2, Dropped DEF n
    <2>4. QED
      BY <2>1, <2>2, <2>3, PacketFacts DEF n
  <1> DEFINE completes == ~IsAvailable /\ IsAvailable'
  <1>2. missed' = IF ended = {} THEN missed
                  ELSE IF ended = {Damaged} \/ (completes /\ Packet' \in ended)
                         THEN 0 ELSE Min({missed + 1, MissedCap})
    BY <1>1 DEF Receive
  <1>3. Min({missed + 1, MissedCap}) \in Nat /\ Min({missed + 1, MissedCap}) <= missed + 1
    BY <1>1, MinIs DEF MissedCap
  <1>4. k = 0 => ended = {}
    OBVIOUS
  <1>5. k > 0 => ended = {marks[k]} \ {NoMark}
    <2>1. CASE k = 1
      BY <2>1
    <2>2. CASE k = 2
      <3>1. {marks[i] : i \in 1 .. 2} = {marks[1], marks[2]}
        <4>1. 1 .. 2 = {1, 2}
          OBVIOUS
        <4>2. QED
          BY <4>1
      <3>2. QED
        BY <2>2, <3>1
    <2>3. QED
      BY <2>1, <2>2
  <1> HIDE DEF ended
  <1>6. CASE k = 0
    BY <1>1, <1>2, <1>4, <1>6
  <1>7. CASE k > 0
    <2>1. CASE marks[k] = NoMark
      <3>1. ended = {}
        BY <1>5, <1>7, <2>1
      <3>2. missed' = missed
        BY <1>2, <3>1
      <3>3. ~(k = 0)
        BY <1>7
      <3>4. QED
        BY <1>1, <2>1, <3>2, <3>3
    <2>2. CASE marks[k] # NoMark
      <3>1. ended = {marks[k]} /\ ended # {}
        BY <1>5, <1>7, <2>2
      <3>2. missed' = IF marks[k] = Damaged \/ (completes /\ Packet' = marks[k])
                        THEN 0 ELSE Min({missed + 1, MissedCap})
        BY <1>2, <3>1
      <3> DEFINE m == Min({missed + 1, MissedCap})
      <3> HIDE DEF m
      <3>3. QED
        BY <1>1, <1>3, <1>7, <2>2, <3>2 DEF m
    <2>3. QED
      BY <2>1, <2>2
  <1>8. QED
    BY <1>6, <1>7

-----------------------------------------------------------------------------
\* The first byte of the queue, or the first two when the first is an escape.
LEMMA FirstPoints ==
    ASSUME LinkInv, NEW c \in Seq(Points), Trail(c),
           NEW k \in {1, 2}, k <= Len(queue), k = 2 => queue[1] = ESCAPE
    PROVE  /\ c[1].place \in Places /\ c[k].place \in Places
           /\ c[k + 1].place \in Places
           /\ c[1].torn \in BOOLEAN /\ c[k].torn \in BOOLEAN /\ c[k + 1].torn \in BOOLEAN
           /\ ~Sent(c[1].place) /\ queue[1] = OnWire(c[1].place)
           /\ ~Sent(c[k].place)
           /\ marks[k] = Mark(c[k].place, c[k].torn)
           /\ Joins(c[k], c[k + 1])
           /\ losses = 0 => ~c[1].torn /\ ~c[k].torn /\ ~c[k + 1].torn
           /\ k = 2 => /\ marks[1] = NoMark
                       /\ queue[2] = OnWire(c[2].place)
                       /\ ~c[2].torn => ~c[1].torn /\ c[2].place = After(c[1].place)
  <1>1. /\ Len(queue) \in Nat /\ Len(c) = Len(queue) + 1
        /\ \A i \in 1 .. Len(queue) + 1 : /\ c[i] \in Points
                                          /\ c[i].place \in Places
                                          /\ c[i].torn \in BOOLEAN
    BY TrailFacts
  <1>2. /\ \A i \in 1 .. Len(queue) : /\ ~Sent(c[i].place)
                                      /\ queue[i] = OnWire(c[i].place)
                                      /\ marks[i] = Mark(c[i].place, c[i].torn)
                                      /\ Joins(c[i], c[i + 1])
        /\ losses = 0 => \A j \in 1 .. Len(c) : ~c[j].torn
    BY DEF Trail
  <1>3. /\ 1 \in 1 .. Len(queue) /\ k \in 1 .. Len(queue)
        /\ 1 \in 1 .. Len(queue) + 1 /\ k \in 1 .. Len(queue) + 1
        /\ k + 1 \in 1 .. Len(queue) + 1
    <2> DEFINE n == Len(queue)
    <2>1. n \in Nat /\ k <= n
      BY <1>1
    <2> HIDE DEF n
    <2>2. 1 \in 1 .. n /\ k \in 1 .. n /\ 1 \in 1 .. n + 1 /\ k \in 1 .. n + 1
          /\ k + 1 \in 1 .. n + 1
      BY <2>1
    <2>3. QED
      BY <2>2 DEF n
  <1>4. ASSUME k = 2
        PROVE  /\ marks[1] = NoMark
               /\ queue[2] = OnWire(c[2].place)
               /\ ~c[2].torn => ~c[1].torn /\ c[2].place = After(c[1].place)
    <2>1. 2 \in 1 .. Len(queue) /\ 1 + 1 = 2
      BY <1>3, <1>4
    <2> PICK f : f = c[1].place
      OBVIOUS
    <2> PICK t : t = c[1].torn
      OBVIOUS
    <2>2. /\ f \in Places /\ ~Sent(f) /\ OnWire(f) = ESCAPE /\ t \in BOOLEAN
          /\ marks[1] = Mark(f, t)
      BY <1>1, <1>2, <1>3, <1>4
    <2>3. marks[1] = NoMark
      BY <2>2, MarkIs
    <2>4. Joins(c[1], c[2])
      <3>1. Joins(c[1], c[1 + 1])
        BY <1>2, <1>3
      <3>2. QED
        BY <2>1, <3>1
    <2>5. ASSUME ~c[2].torn PROVE ~c[1].torn /\ c[2].place = After(c[1].place)
      <3>1. Follows(f, c[2].place) /\ (t => Mark(f, t) = Damaged)
        BY <2>4, <2>5 DEF Joins
      <3>2. ~t
        BY <2>2, <2>3, <3>1, PacketFacts
      <3>3. ~Sent(After(f))
        <4>1. f.at > 0 /\ ~EndsByte(f)
          <5>1. f.at = 0 => OnWire(f) # ESCAPE
            BY <2>2, OnWireIs DEF START_BYTE, ESCAPE
          <5>2. f.at \in Nat
            BY <2>2, PlaceFacts
          <5>3. QED
            BY <2>2, <5>1, <5>2, OnWireIs
        <4>2. QED
          BY <2>2, <4>1, AfterType
      <3>4. QED
        BY <3>1, <3>2, <3>3 DEF Follows
    <2>6. queue[2] = OnWire(c[2].place)
      BY <1>2, <2>1
    <2>7. QED
      BY <2>3, <2>5, <2>6
  <1>5. losses = 0 => ~c[1].torn /\ ~c[k].torn /\ ~c[k + 1].torn
    BY <1>1, <1>2, <1>3
  <1>6. QED
    BY <1>1, <1>2, <1>3, <1>4, <1>5

\* A turn of the loop keeps track of the next byte; on a line that has lost
\* nothing it completes a packet just when it reads the mark of it.
LEMMA TurnTracks ==
    ASSUME LinkInv, Receive, AnyTurn,
           NEW c \in Seq(Points), Trail(c), Tracks(c[1]),
           NEW k \in {1, 2}, k = Read
    PROVE  /\ k <= Len(queue) /\ queue' = SubSeq(queue, k + 1, Len(queue))
           /\ k = 2 => marks[1] = NoMark
           /\ missed' \in Nat
           /\ Tracks(c[k + 1])'
           /\ losses = 0 => /\ ~IsAvailable
                            /\ IsAvailable' <=> marks[k] \in Packets
                            /\ IsAvailable' => Packet' = marks[k]
  <1>1. /\ k <= Len(queue) /\ queue' = SubSeq(queue, k + 1, Len(queue))
        /\ k = 2 => queue[1] = ESCAPE
        /\ ~IsAvailable
    BY TurnFacts DEF LinkInv, Escapes
  <1> PICK f : f = c[1].place
    OBVIOUS
  <1> PICK w : w = c[k].place
    OBVIOUS
  <1> PICK h : h = c[k + 1].place
    OBVIOUS
  <1> PICK t \in BOOLEAN : t = c[k].torn
    BY <1>1, FirstPoints
  <1> PICK u \in BOOLEAN : u = c[k + 1].torn
    BY <1>1, FirstPoints
  <1>2. /\ f \in Places /\ w \in Places /\ h \in Places
        /\ ~Sent(f) /\ queue[1] = OnWire(f) /\ ~Sent(w)
        /\ marks[k] = Mark(w, t)
        /\ u \/ (Follows(w, h) /\ (t => Mark(w, t) = Damaged))
        /\ losses = 0 => ~t /\ ~u
        /\ k = 2 => marks[1] = NoMark
        /\ k = 1 => w = f /\ c[1].torn = t
        /\ k = 2 /\ ~t => ~c[1].torn /\ w = After(f) /\ queue[2] = OnWire(w)
    BY <1>1, FirstPoints DEF Joins
  <1>3. /\ missed' \in Nat
        /\ marks[k] = NoMark => missed' = missed
        /\ marks[k] = Damaged => missed' = 0
        /\ marks[k] # NoMark => missed' <= missed + 1
        /\ marks[k] # NoMark /\ IsAvailable' /\ Packet' = marks[k] => missed' = 0
    <2>1. k \in {0, 1, 2} /\ k > 0
      OBVIOUS
    <2>2. QED
      BY <1>1, <1>2, <2>1, MissedIs
  <1>4. missed \in Nat /\ missed <= 3 /\ losses' = losses
    BY DEF LinkInv, LinkType, Tracks, Receive
  <1>5. Debt(h)' \in 0 .. 3
    BY DebtType
  <1>6. CASE t
    <2>1. marks[k] \in {NoMark, Damaged} /\ losses # 0
      BY <1>2, <1>6, MarkIs
    <2>2. missed' <= 3
      BY <1>3, <1>4, <2>1
    <2>3. ~u => missed' = 0
      BY <1>2, <1>3, <1>6
    <2>4. ~u => missed' + Debt(h)' <= 3
      <3> DEFINE x == Debt(h)'
      <3>1. x \in 0 .. 3
        BY <1>5
      <3> HIDE DEF x
      <3>2. ~u => missed' + x <= 3
        BY <2>3, <3>1
      <3>3. QED
        BY <3>2 DEF x
    <2>5. Tracks(c[k + 1])'
      BY <1>4, <2>1, <2>2, <2>4 DEF Tracks
    <2>6. QED
      BY <1>1, <1>2, <1>3, <2>1, <2>5
  <1>7. CASE ~t
    <2>1. /\ ~c[1].torn
          /\ w = IF Read = 2 THEN After(f) ELSE f
          /\ Read = 2 => queue[2] = OnWire(After(f))
      BY <1>2, <1>7
    <2>2. missed + Debt(f) <= 3 /\ (losses = 0 => Debt(f) = 0)
      BY <2>1 DEF Tracks
    <2> PICK g : g = After(w)
      OBVIOUS
    <2>3. /\ w.packet = f.packet /\ g \in Places
          /\ Debt(g)' <= Debt(f)
          /\ IsLast(w) /\ ~(IsAvailable' /\ Packet' = f.packet)
               => Debt(g)' + 1 <= Debt(f)
          /\ Debt(f) = 0 => ~IsError' /\ (IsAvailable' => IsLast(w))
      BY <1>2, <2>1, TurnPays DEF LinkInv
    <2>4. /\ marks[k] = IF IsLast(w) THEN f.packet ELSE NoMark
          /\ f.packet \in Packets /\ f.packet # NoMark
      <3>1. f.packet \in Packets /\ f.packet # NoMark
        BY <1>2, PlaceFacts, PacketFacts
      <3>2. Mark(w, t) = IF IsLast(w) THEN w.packet ELSE NoMark
        BY <1>2, <1>7, MarkIs
      <3>3. QED
        BY <1>2, <2>3, <3>1, <3>2
    <2> PICK x \in 0 .. 3 : x = Debt(g)'
      BY DebtType
    <2> PICK y \in 0 .. 3 : y = Debt(f)
      BY DebtType
    <2> PICK m \in Nat : m = missed'
      BY <1>3
    <2>5. missed \in Nat
      BY <1>4
    <2>6. m + x <= 3
      <3>1. CASE ~IsLast(w)
        <4>1. m = missed /\ x <= y /\ missed + y <= 3
          BY <1>3, <2>2, <2>3, <2>4, <3>1
        <4>2. QED
          BY <2>5, <4>1
      <3>2. CASE IsLast(w) /\ IsAvailable' /\ Packet' = f.packet
        <4>1. m = 0
          BY <1>3, <2>4, <3>2
        <4>2. QED
          BY <2>5, <4>1
      <3>3. CASE IsLast(w) /\ ~(IsAvailable' /\ Packet' = f.packet)
        <4>1. m <= missed + 1 /\ x + 1 <= y /\ missed + y <= 3
          BY <1>3, <2>2, <2>3, <2>4, <3>3
        <4>2. QED
          BY <2>5, <4>1
      <3>4. QED
        BY <3>1, <3>2, <3>3
    <2>7. losses = 0 => x = 0 /\ ~IsError' /\ (IsLast(w) <=> IsAvailable')
                        /\ (IsLast(w) => Packet' = f.packet)
      <3> SUFFICES ASSUME losses = 0
                   PROVE  x = 0 /\ ~IsError' /\ (IsLast(w) <=> IsAvailable')
                          /\ (IsLast(w) => Packet' = f.packet)
        OBVIOUS
      <3>1. /\ y = 0 /\ x <= y
            /\ IsLast(w) /\ ~(IsAvailable' /\ Packet' = f.packet) => x + 1 <= y
        BY <2>2, <2>3
      <3>2. ~IsError' /\ (IsAvailable' => IsLast(w))
        BY <2>3, <3>1
      <3>3. x = 0 /\ ~(x + 1 <= y)
        BY <2>5, <3>1
      <3>4. QED
        BY <3>1, <3>2, <3>3
    <2>8. ~u => Debt(h)' = x
      <3>1. ~u => Follows(w, h)
        BY <1>2
      <3>2. QED
        BY <1>2, <3>1, DebtOfNext
    <2>9. Tracks(c[k + 1])'
      <3>1. missed' <= 3
        BY <2>6
      <3>2. ~u => missed' + Debt(h)' <= 3
        BY <2>6, <2>8
      <3>3. losses' = 0 => Debt(h)' = 0 /\ ~IsError'
        BY <1>2, <1>4, <2>7, <2>8
      <3>4. QED
        BY <3>1, <3>2, <3>3 DEF Tracks
    <2>10. losses = 0 => /\ IsAvailable' <=> marks[k] \in Packets
                         /\ IsAvailable' => Packet' = marks[k]
      BY <2>4, <2>7, PacketFacts
    <2>11. QED
      BY <1>1, <1>2, <1>3, <2>9, <2>10
  <1>8. QED
    BY <1>6, <1>7

-----------------------------------------------------------------------------
\* Entering readPacket, and leaving it because the buffer is empty.
LEMMA CallTracks ==
    ASSUME LinkInv, Receive, CallReadPacket \/ OutOfBytes,
           NEW c \in Seq(Points), Trail(c), Tracks(c[1])
    PROVE  /\ queue' = queue /\ missed' = missed
           /\ Tracks(c[1])'
           /\ ~(~IsAvailable /\ IsAvailable')
  <1> PICK f : f = c[1].place
    OBVIOUS
  <1>1. queue' = queue /\ checksumTotal' = checksumTotal /\ losses' = losses
    BY DEF CallReadPacket, OutOfBytes, Receive
  <1>2. missed' = missed
    <2>1. Len(queue) \in Nat /\ 0 \in {0, 1, 2} /\ SubSeq(queue, 1, Len(queue)) = queue
      BY LenProperties, SubSeqFull DEF LinkInv, IInv, TypeOK
    <2> PICK k \in {0, 1, 2} : k = 0
      OBVIOUS
    <2>2. k <= Len(queue) /\ k + 1 = 1
      BY <2>1
    <2>3. queue' = SubSeq(queue, k + 1, Len(queue))
      BY <1>1, <2>1, <2>2
    <2>4. k # 2
      OBVIOUS
    <2>5. QED
      BY <2>2, <2>3, <2>4, MissedIs
  <1>3. CASE OutOfBytes \/ (CallReadPacket /\ ~(IsAvailable \/ IsError))
    <2>1. pos' = pos /\ escape' = escape /\ response' = response
      BY <1>3 DEF OutOfBytes, CallReadPacket
    <2>2. ~(~IsAvailable /\ IsAvailable')
      BY <2>1 DEF IsAvailable
    <2>3. Tracks(c[1])'
      BY <1>1, <1>2, <2>1 DEF Tracks, Debt, AtStart, Idle, Stale, InPlace, IsError
    <2>4. QED
      BY <1>1, <1>2, <2>2, <2>3
  <1>4. CASE CallReadPacket /\ (IsAvailable \/ IsError)
    <2>1. pos' = 0 /\ response' = ResetResponse
      BY <1>4 DEF CallReadPacket
    <2>2. Idle
      BY <1>4 DEF Idle, LinkInv, IInv, Consistent
    <2>3. Idle' /\ Stale' = Stale /\ ~IsError' /\ ~IsAvailable'
      BY <1>1, <2>1 DEF Idle, Stale, IsError, IsAvailable, ResetResponse
    <2>4. Debt(f)' = Debt(f)
      BY <2>2, <2>3 DEF Debt, AtStart
    <2>5. Tracks(c[1])'
      BY <1>1, <1>2, <2>3, <2>4 DEF Tracks
    <2>6. QED
      BY <1>1, <1>2, <2>3, <2>5
  <1>5. QED
    BY <1>3, <1>4

-----------------------------------------------------------------------------
\* Not every mark can be a packet.
LEMMA RoomOnTheWay ==
    ASSUME LinkInv, losses = 0
    PROVE  Len(PacketsIn(marks)) < QueueMax \/ ~Sent(sender)
  <1>1. /\ Len(queue) <= QueueMax
        /\ marks \in Seq(Marks) /\ Len(marks) = Len(queue)
    BY DEF LinkInv, LinkType
  <1>2. /\ Len(PacketsIn(marks)) <= Len(marks) /\ Len(PacketsIn(marks)) \in Nat
        /\ Len(marks) \in Nat /\ QueueMax \in Nat /\ QueueMax > 1
    <2>1. PacketsIn(marks) \in Seq(Packets) /\ Len(PacketsIn(marks)) <= Len(marks)
      BY <1>1, PacketsInType
    <2>2. Len(PacketsIn(marks)) \in Nat /\ Len(marks) \in Nat
      BY <1>1, <2>1, LenProperties
    <2>3. QED
      BY <2>1, <2>2, ReceiverAssumption, XBeeLinkAssumption
  <1>3. CASE Len(marks) < QueueMax
    BY <1>2, <1>3
  <1>4. CASE Len(marks) >= 2
    <2>1. PICK c \in Seq(Points) : Trail(c)
      BY DEF LinkInv
    <2>2. 1 \in 1 .. Len(queue) /\ 2 \in 1 .. Len(queue)
          /\ 1 \in 1 .. Len(queue) + 1 /\ 2 \in 1 .. Len(queue) + 1
          /\ 1 \in 1 .. Len(c) /\ 2 \in 1 .. Len(c)
      <3>1. Len(c) = Len(queue) + 1
        BY <2>1 DEF Trail
      <3> DEFINE n == Len(queue)
      <3>2. n \in Nat /\ n >= 2
        BY <1>1, <1>2, <1>4
      <3> HIDE DEF n
      <3>3. 1 \in 1 .. n /\ 2 \in 1 .. n /\ 1 \in 1 .. n + 1 /\ 2 \in 1 .. n + 1
        BY <3>2
      <3>4. QED
        BY <3>1, <3>3 DEF n
    <2> PICK f : f = c[1].place
      OBVIOUS
    <2> PICK g : g = c[2].place
      OBVIOUS
    <2>3. /\ f \in Places /\ ~Sent(f) /\ marks[1] = Mark(f, FALSE)
          /\ g \in Places /\ ~Sent(g) /\ marks[2] = Mark(g, FALSE)
          /\ Follows(f, g)
      <3>1. /\ ~Sent(c[1].place) /\ marks[1] = Mark(c[1].place, c[1].torn)
            /\ ~Sent(c[2].place) /\ marks[2] = Mark(c[2].place, c[2].torn)
            /\ Joins(c[1], c[1 + 1])
            /\ ~c[1].torn /\ ~c[2].torn
        BY <2>1, <2>2 DEF Trail
      <3>2. f \in Places /\ g \in Places /\ c[1].torn = FALSE /\ c[2].torn = FALSE
        BY <2>1, <2>2, <3>1, TrailFacts
      <3>3. Follows(f, g)
        BY <3>1 DEF Joins
      <3>4. QED
        BY <3>1, <3>2, <3>3
    <2>4. marks[1] \notin Packets \/ marks[2] \notin Packets
      <3>1. CASE ~IsLast(f)
        BY <2>3, <3>1, MarkIs, PacketFacts
      <3>2. CASE IsLast(f)
        <4>1. Sent(After(f))
          BY <2>3, <3>2, AfterType
        <4>2. g = Begin(g.packet)
          BY <2>3, <4>1 DEF Follows
        <4>3. ~IsLast(g)
          BY <2>3, <4>2, BeginNotLast, PlaceFacts
        <4>4. QED
          BY <2>3, <4>3, MarkIs, PacketFacts
      <3>3. QED
        BY <3>1, <3>2
    <2>5. Len(PacketsIn(marks)) < Len(marks)
      <3>1. 1 \in 1 .. Len(marks) /\ 2 \in 1 .. Len(marks)
        BY <1>1, <2>2
      <3>2. QED
        BY <1>1, <2>4, <3>1, PacketsInFewer
    <2>6. QED
      BY <1>1, <1>2, <2>5
  <1>5. QED
    BY <1>1, <1>2, <1>3, <1>4

\* The packets on the way are sequences of packets.
LEMMA OnTheWayType ==
    ASSUME LinkInv
    PROVE  /\ PacketsIn(marks) \in Seq(Packets)
           /\ Sent(sender) => OnTheWay = PacketsIn(marks)
           /\ ~Sent(sender) => OnTheWay = Append(PacketsIn(marks), sender.packet)
           /\ OnTheWay \in Seq(Packets)
  <1>1. PacketsIn(marks) \in Seq(Packets)
    BY PacketsInType DEF LinkInv, LinkType
  <1>2. sender.packet \in Packets
    BY PlaceFacts DEF LinkInv, LinkType
  <1>3. ASSUME Sent(sender) PROVE OnTheWay = PacketsIn(marks)
    <2>1. OnTheWay = PacketsIn(marks) \o << >>
      BY <1>3 DEF OnTheWay
    <2>2. QED
      BY <1>1, <2>1, ConcatEmptySeq
  <1>4. ASSUME ~Sent(sender) PROVE OnTheWay = Append(PacketsIn(marks), sender.packet)
    <2>1. OnTheWay = PacketsIn(marks) \o <<sender.packet>>
      BY <1>4 DEF OnTheWay
    <2>2. QED
      BY <1>1, <1>2, <2>1, AppendIsConcat
  <1>5. QED
    BY <1>1, <1>2, <1>3, <1>4, AppendProperties

\* A frame begun is a packet accepted.
LEMMA StartAccepts ==
    ASSUME LinkInv, losses = 0, NEW p \in Packets, StartFrame(p)
    PROVE  Abstract!Accept(p)
  <1>1. /\ Sent(sender) /\ sender' = Begin(p) /\ marks' = marks
        /\ delivered' = delivered
    BY DEF StartFrame
  <1>2. /\ PacketsIn(marks) \in Seq(Packets) /\ OnTheWay = PacketsIn(marks)
    BY <1>1, OnTheWayType
  <1>3. ~Sent(Begin(p)) /\ Begin(p).packet = p
    BY BeginNotLast, BeginType
  <1>4. OnTheWay' = PacketsIn(marks) \o <<p>>
    BY <1>1, <1>3 DEF OnTheWay
  <1>5. OnTheWay' = Append(OnTheWay, p)
    BY <1>2, <1>4, AppendIsConcat
  <1>6. Len(OnTheWay) < QueueMax
    BY <1>1, <1>2, RoomOnTheWay
  <1>7. QED
    BY <1>1, <1>5, <1>6 DEF Abstract!Accept

\* A byte that arrives changes nothing of what is on the way.
LEMMA ArriveKeeps ==
    ASSUME LinkInv, losses = 0, Arrive
    PROVE  UNCHANGED <<OnTheWay, delivered>>
  <1>1. /\ hurt = FALSE /\ marks \in Seq(Marks) /\ sender \in Places
    <2>1. PICK c \in Seq(Points) : Trail(c)
      BY DEF LinkInv
    <2>2. /\ Len(c) = Len(queue) + 1 /\ Len(queue) \in Nat
          /\ c[Len(queue) + 1].torn = hurt
      BY <2>1, TrailFacts
    <2>3. Len(queue) + 1 \in 1 .. Len(queue) + 1
      BY <2>2
    <2>4. ~hurt
      BY <2>1, <2>2, <2>3 DEF Trail
    <2>5. QED
      BY <2>4 DEF LinkInv, LinkType
  <1>2. /\ ~Sent(sender) /\ sender' = After(sender)
        /\ marks' = Append(marks, Mark(sender, hurt)) /\ delivered' = delivered
    BY DEF Arrive
  <1>3. /\ Mark(sender, hurt) = IF IsLast(sender) THEN sender.packet ELSE NoMark
        /\ sender.packet \in Packets /\ NoMark \notin Packets
        /\ Mark(sender, hurt) \in Marks
    BY <1>1, <1>2, MarkIs, PlaceFacts, PacketFacts
  <1>4. /\ PacketsIn(marks) \in Seq(Packets)
        /\ OnTheWay = Append(PacketsIn(marks), sender.packet)
    BY <1>2, OnTheWayType
  <1>5. PacketsIn(marks') = IF IsLast(sender) THEN Append(PacketsIn(marks), sender.packet)
                                              ELSE PacketsIn(marks)
    BY <1>1, <1>2, <1>3, PacketsInAppend
  <1>6. Sent(sender') <=> IsLast(sender)
    BY <1>1, <1>2, AfterType
  <1>7. sender'.packet = sender.packet
    BY <1>1, <1>2, AfterType
  <1>8. OnTheWay' = PacketsIn(marks') \o (IF Sent(sender') THEN << >> ELSE <<sender'.packet>>)
    BY DEF OnTheWay
  <1>9. CASE IsLast(sender)
    <2>1. OnTheWay' = OnTheWay \o << >>
      BY <1>4, <1>5, <1>6, <1>8, <1>9
    <2>2. OnTheWay \in Seq(Packets)
      BY OnTheWayType
    <2>3. QED
      BY <1>2, <2>1, <2>2, ConcatEmptySeq
  <1>10. CASE ~IsLast(sender)
    <2>1. OnTheWay' = PacketsIn(marks) \o <<sender.packet>>
      BY <1>5, <1>6, <1>7, <1>8, <1>10
    <2>2. QED
      BY <1>2, <1>3, <1>4, <2>1, AppendIsConcat
  <1>11. QED
    BY <1>9, <1>10

\* Without a packet completed nothing is delivered.
LEMMA NotDelivered ==
    ASSUME Receive, ~(~IsAvailable /\ IsAvailable')
    PROVE  delivered' = delivered
  BY DEF Receive

\* Without a packet among the marks taken, the same are on the way.
LEMMA OnTheWayKept ==
    ASSUME Receive, PacketsIn(marks') = PacketsIn(marks)
    PROVE  OnTheWay' = OnTheWay
  BY DEF Receive, OnTheWay

\* The oldest packet on the way is taken off.
LEMMA HeadOff ==
    ASSUME NEW p \in Packets, NEW s \in Seq(Packets), NEW t \in Seq(Packets),
           NEW q, q = (<<p>> \o s) \o t
    PROVE  q # << >> /\ Head(q) = p /\ Tail(q) = s \o t
  <1>1. <<p>> \in Seq(Packets) /\ s \o t \in Seq(Packets)
    BY ConcatProperties
  <1>2. q = <<p>> \o (s \o t)
    BY <1>1, ConcatAssociative
  <1>3. QED
    BY <1>1, <1>2

-----------------------------------------------------------------------------
\* A turn of the loop takes off the packets on the way the one it completes.
LEMMA TurnDelivers ==
    ASSUME LinkInv, losses = 0, Receive, NEW k \in {1, 2}, k <= Len(marks),
           marks' = SubSeq(marks, k + 1, Len(marks)), marks' \in Seq(Marks),
           k = 2 => marks[1] = NoMark,
           ~IsAvailable, IsAvailable' <=> marks[k] \in Packets,
           IsAvailable' => Packet' = marks[k]
    PROVE  Abstract!Deliver \/ UNCHANGED <<OnTheWay, delivered>>
  <1>1. marks \in Seq(Marks) /\ PacketsIn(marks') \in Seq(Packets)
    BY PacketsInType DEF LinkInv, LinkType
  <1>2. k = 2 => marks[1] \notin Packets
    BY PacketFacts
  <1>3. PacketsIn(marks) = (IF marks[k] \in Packets THEN <<marks[k]>> ELSE << >>)
                             \o PacketsIn(marks')
    BY <1>1, <1>2, PacketsInDropped
  <1>4. CASE marks[k] \in Packets
    <2> PICK p \in Packets : p = marks[k]
      BY <1>4
    <2>1. delivered' = p
      BY <1>4 DEF Receive
    <2> DEFINE t == IF Sent(sender) THEN << >> ELSE <<sender.packet>>
    <2>2. t \in Seq(Packets)
      BY PlaceFacts DEF LinkInv, LinkType
    <2>3. OnTheWay = (<<p>> \o PacketsIn(marks')) \o t
      BY <1>3 DEF OnTheWay
    <2>4. OnTheWay' = PacketsIn(marks') \o t
      BY DEF Receive, OnTheWay
    <2> HIDE DEF t
    <2> PICK r \in Seq(Packets) : r = t
      BY <2>2
    <2> PICK s \in Seq(Packets) : s = PacketsIn(marks')
      BY <1>1
    <2> PICK q : q = OnTheWay
      OBVIOUS
    <2>5. q = (<<p>> \o s) \o r
      BY <2>3
    <2>6. q # << >> /\ Head(q) = p /\ Tail(q) = s \o r
      <3>1. q = (<<p>> \o s) \o r
        BY <2>5
      <3>2. q # << >>
        BY ONLY <3>1, HeadOff
      <3>3. Head(q) = p
        BY ONLY <3>1, HeadOff
      <3>4. Tail(q) = s \o r
        BY ONLY <3>1, HeadOff
      <3>5. QED
        BY <3>2, <3>3, <3>4
    <2>7. QED
      BY <2>1, <2>4, <2>6 DEF Abstract!Deliver
  <1>5. CASE marks[k] \notin Packets
    <2>1. PacketsIn(marks') = PacketsIn(marks)
      BY <1>1, <1>3, <1>5, ConcatEmptySeq
    <2>2. QED
      BY <1>5, <2>1, NotDelivered, OnTheWayKept
  <1>6. QED
    BY <1>4, <1>5

\* A step of the parser: the trail goes on at the next byte, and on a line
\* that has lost nothing a packet is completed when it is the oldest.
LEMMA ReceiveStep ==
    ASSUME LinkInv, Receive
    PROVE  /\ LinkType'
           /\ \E d \in Seq(Points) : Trail(d)' /\ Tracks(d[1])'
           /\ losses = 0 => Abstract!Deliver \/ UNCHANGED <<OnTheWay, delivered>>
  <1>1. PICK c \in Seq(Points) : Trail(c) /\ Tracks(c[1])
    BY DEF LinkInv
  <1>2. /\ Len(queue) \in Nat /\ Len(marks) = Len(queue)
        /\ SubSeq(queue, 1, Len(queue)) = queue
        /\ SubSeq(marks, 1, Len(marks)) = marks
        /\ missed \in Nat
    BY LenProperties, SubSeqFull DEF LinkInv, LinkType, IInv, TypeOK
  <1>3. CASE CallReadPacket \/ OutOfBytes
    <2>1. /\ queue' = queue /\ missed' = missed /\ Tracks(c[1])'
          /\ ~(~IsAvailable /\ IsAvailable')
      BY <1>1, <1>3, CallTracks
    <2> PICK k \in {0, 1, 2} : k = 0
      OBVIOUS
    <2>2. k <= Len(queue) /\ k + 1 = 1
      BY <1>2
    <2>3. queue' = SubSeq(queue, k + 1, Len(queue))
      BY <1>2, <2>1, <2>2
    <2>4. /\ LinkType' /\ marks' = SubSeq(marks, k + 1, Len(marks))
          /\ \E d \in Seq(Points) : Trail(d)' /\ d[1] = c[k + 1]
      BY <1>1, <1>2, <2>1, <2>2, <2>3, TrailDrop
    <2>5. PICK d \in Seq(Points) : Trail(d)' /\ d[1] = c[1]
      BY <2>2, <2>4
    <2>6. Tracks(d[1])'
      BY <2>1, <2>5 DEF Tracks, Debt, AtStart, InPlace
    <2>7. marks' = marks
      BY <1>2, <2>2, <2>4
    <2>8. UNCHANGED <<OnTheWay, delivered>>
      BY <2>1, <2>7, OnTheWayKept, NotDelivered
    <2>9. QED
      BY <2>4, <2>5, <2>6, <2>8
  <1>4. CASE AnyTurn
    <2>1. PICK k \in {1, 2} : k = Read
      BY <1>4, TurnFacts DEF LinkInv
    <2>2. /\ k <= Len(queue) /\ queue' = SubSeq(queue, k + 1, Len(queue))
          /\ k = 2 => marks[1] = NoMark
          /\ missed' \in Nat
          /\ Tracks(c[k + 1])'
          /\ losses = 0 => /\ ~IsAvailable
                           /\ IsAvailable' <=> marks[k] \in Packets
                           /\ IsAvailable' => Packet' = marks[k]
      BY <1>1, <1>4, <2>1, TurnTracks
    <2>3. k \in {0, 1, 2}
      OBVIOUS
    <2>4. /\ LinkType' /\ marks' = SubSeq(marks, k + 1, Len(marks))
          /\ \E d \in Seq(Points) : Trail(d)' /\ d[1] = c[k + 1]
      BY <1>1, <2>2, <2>3, TrailDrop
    <2>5. PICK d \in Seq(Points) : Trail(d)' /\ d[1] = c[k + 1]
      BY <2>4
    <2>6. Tracks(d[1])'
      BY <2>2, <2>5 DEF Tracks, Debt, AtStart, InPlace
    <2>7. losses = 0 => Abstract!Deliver \/ UNCHANGED <<OnTheWay, delivered>>
      <3> SUFFICES ASSUME losses = 0
                   PROVE  Abstract!Deliver \/ UNCHANGED <<OnTheWay, delivered>>
        OBVIOUS
      <3>1. /\ ~IsAvailable
            /\ IsAvailable' <=> marks[k] \in Packets
            /\ IsAvailable' => Packet' = marks[k]
        BY <2>2
      <3>2. k <= Len(marks) /\ marks' \in Seq(Marks)
        BY <1>2, <2>2, <2>4 DEF LinkType
      <3>3. QED
        BY <2>2, <2>4, <3>1, <3>2, TurnDelivers
    <2>8. QED
      BY <2>4, <2>5, <2>6, <2>7
  <1>5. (CallReadPacket \/ OutOfBytes) \/ AnyTurn
    BY DEF Receive, ReadPacket, AnyTurn, ReadsByte
  <1>6. QED
    BY <1>3, <1>4, <1>5

-----------------------------------------------------------------------------
\* The line starts with nothing on the way, and the parser in step.
LEMMA LinkInitInv == LinkInit => LinkInv
  <1> SUFFICES ASSUME LinkInit PROVE LinkInv
    OBVIOUS
  <1>1. IInv
    BY InitInv DEF LinkInit
  <1>2. PICK p \in Packets : sender = [Begin(p) EXCEPT !.at = Len(p) + 4]
    BY DEF LinkInit
  <1>3. Len(p) \in Nat /\ Len(p) >= 1 /\ Len(p) + 4 \in Nat
    <2> DEFINE n == Len(p)
    <2>1. n \in 1 .. 248
      BY PacketFacts
    <2> HIDE DEF n
    <2>2. n \in Nat /\ n >= 1 /\ n + 4 \in Nat
      BY <2>1
    <2>3. QED
      BY <2>2 DEF n
  <1>4. sender = [packet |-> p, at |-> Len(p) + 4, half |-> FALSE, sum |-> 0]
    BY <1>2 DEF Begin
  <1>5. /\ sender \in [packet : Packets, at : Nat, half : BOOLEAN, sum : Byte]
        /\ sender.packet = p /\ sender.at = Len(p) + 4 /\ sender.half = FALSE
        /\ sender.sum = 0
    BY <1>3, <1>4 DEF Byte
  <1>6. ChecksumAt(sender) = Len(p) + 3 /\ Sent(sender)
    <2>1. ChecksumAt(sender) = Len(p) + 3
      BY <1>5 DEF ChecksumAt
    <2>2. QED
      BY <1>3, <1>5, <2>1 DEF Sent
  <1>7. sender \in Places
    BY <1>3, <1>5, <1>6 DEF Places
  <1>8. /\ queue = << >> /\ marks = << >> /\ hurt = FALSE /\ losses = 0
        /\ missed = 0
        /\ pos = 0 /\ escape = FALSE /\ checksumTotal = 0 /\ response = ResetResponse
    BY DEF LinkInit, Init
  <1>9. Debt(sender) = 0 /\ ~IsError
    BY <1>6, <1>8 DEF Debt, AtStart, Idle, Stale, IsError, ResetResponse
  <1> PICK x : x = [place |-> sender, torn |-> FALSE]
    OBVIOUS
  <1> PICK c : c = <<x>>
    OBVIOUS
  <1>10. x \in Points /\ x.place = sender /\ x.torn = FALSE
    BY <1>7 DEF Points
  <1>11. c \in Seq(Points) /\ Len(c) = 1 /\ c[1] = x
    BY <1>10
  <1>12. Len(queue) = 0 /\ Len(marks) = 0
    BY <1>8, EmptySeq
  <1>13. Trail(c)
    <2>1. 1 .. 0 = {}
      OBVIOUS
    <2>2. \A j \in 1 .. 1 : j = 1
      OBVIOUS
    <2>3. /\ Len(c) = Len(queue) + 1
          /\ c[Len(c)] = [place |-> sender, torn |-> hurt]
      <3>1. x = [place |-> sender, torn |-> hurt]
        BY <1>8
      <3>2. Len(c) = Len(queue) + 1
        BY <1>11, <1>12
      <3>3. c[Len(c)] = x
        BY <1>11
      <3>4. QED
        BY <3>1, <3>2, <3>3
    <2>4. \A j \in 1 .. Len(c) : ~c[j].torn
      BY <1>10, <1>11, <2>2, Zenon
    <2>5. 1 .. Len(queue) = {}
      BY <1>12, <2>1
    <2>6. QED
      BY <2>3, <2>4, <2>5, Zenon DEF Trail
  <1>14. Tracks(c[1])
    BY <1>8, <1>9, <1>10, <1>11 DEF Tracks
  <1>15. LinkType
    <2>1. marks \in Seq(Marks)
      BY <1>8
    <2>2. Len(queue) <= QueueMax
      BY <1>12, ReceiverAssumption
    <2>3. losses \in Nat /\ missed \in Nat /\ hurt \in BOOLEAN
      BY <1>8
    <2>4. QED
      BY <1>7, <1>12, <2>1, <2>2, <2>3 DEF LinkType
  <1>16. QED
    BY <1>1, <1>11, <1>13, <1>14, <1>15 DEF LinkInv

\* Whatever is lost, the parser keeps its types.
LEMMA ParserInv ==
    ASSUME LinkInv, [LinkNext]_allVars
    PROVE  IInv'
  <1>1. IInv /\ sender \in Places
    BY DEF LinkInv, LinkType
  <1>2. CASE Arrive
    <2>1. OnWire(sender) \in Byte /\ ByteArrives(OnWire(sender))
      BY <1>1, <1>2, OnWireIs DEF Arrive, ByteArrives
    <2>2. AnyStep
      BY <2>1 DEF AnyStep
    <2>3. QED
      BY <1>1, <2>2, NextType, NextConsistent DEF IInv
  <1>3. AnyStep => IInv'
    BY <1>1, NextType, NextConsistent DEF IInv
  <1>4. CASE LoseByte
    BY <1>3, <1>4 DEF AnyStep, LoseByte
  <1>5. CASE Receive
    BY <1>3, <1>5 DEF AnyStep, Receive
  <1>6. ASSUME NEW p \in Packets, StartFrame(p) PROVE IInv'
    BY <1>3, <1>6 DEF AnyStep, StartFrame
  <1>7. CASE UNCHANGED allVars
    BY <1>3, <1>7 DEF AnyStep, allVars
  <1>8. QED
    BY <1>2, <1>4, <1>5, <1>6, <1>7 DEF LinkNext

\* Each step keeps the trail.
LEMMA LinkStep ==
    ASSUME LinkInv, [LinkNext]_allVars
    PROVE  LinkInv'
  <1>1. IInv'
    BY ParserInv
  <1>2. CASE Arrive
    BY <1>1, <1>2, TrailArrive DEF LinkInv
  <1>3. CASE LoseByte
    BY <1>1, <1>3, TrailLose DEF LinkInv
  <1>4. CASE Receive
    BY <1>1, <1>4, ReceiveStep DEF LinkInv
  <1>5. ASSUME NEW p \in Packets, StartFrame(p) PROVE LinkInv'
    BY <1>1, <1>5, TrailStart DEF LinkInv
  <1>6. CASE UNCHANGED allVars
    <2>1. PICK c \in Seq(Points) : Trail(c) /\ Tracks(c[1])
      BY DEF LinkInv
    <2>2. Trail(c)'
      BY <1>6, <2>1 DEF Trail, allVars, vars, linkVars
    <2>3. Tracks(c[1])'
      BY <1>6, <2>1 DEF Tracks, Debt, AtStart, Idle, Stale, InPlace, IsError,
                        allVars, vars, parser, linkVars
    <2>4. LinkType'
      BY <1>6 DEF LinkInv, LinkType, allVars, vars, linkVars
    <2>5. QED
      BY <1>1, <2>2, <2>3, <2>4 DEF LinkInv
  <1>7. Arrive \/ LoseByte \/ Receive \/ (\E p \in Packets : StartFrame(p))
        \/ UNCHANGED allVars
    BY DEF LinkNext
  <1>8. QED
    BY ONLY <1>2, <1>3, <1>4, <1>5, <1>6, <1>7

\* Each step of a line that has lost nothing.
LEMMA CleanStep ==
    ASSUME LinkInv, [LinkNext]_allVars, losses' = 0
    PROVE  Abstract!Next \/ UNCHANGED <<OnTheWay, delivered>>
  <1>1. losses = 0 /\ ~LoseByte
    BY DEF LinkInv, LinkType, LinkNext, Arrive, LoseByte, Receive, StartFrame,
           allVars, linkVars
  <1>2. CASE Arrive
    BY <1>1, <1>2, ArriveKeeps
  <1>3. CASE Receive
    BY <1>1, <1>3, ReceiveStep DEF Abstract!Next
  <1>4. ASSUME NEW p \in Packets, StartFrame(p)
        PROVE  Abstract!Next
    BY <1>1, <1>4, StartAccepts DEF Abstract!Next
  <1>5. CASE UNCHANGED allVars
    BY <1>5 DEF OnTheWay, allVars, linkVars
  <1>6. Arrive \/ Receive \/ (\E p \in Packets : StartFrame(p)) \/ UNCHANGED allVars
    BY <1>1 DEF LinkNext
  <1>7. QED
    BY ONLY <1>2, <1>3, <1>4, <1>5, <1>6

\* The trail and the debt are an inductive invariant.
LEMMA LinkInvariance == LinkSpec => []LinkInv
  <1>1. LinkInv /\ [LinkNext]_allVars => LinkInv'
    BY LinkStep
  <1>2. QED
    BY <1>1, LinkInitInv, PTL DEF LinkSpec

\* While the line loses nothing, framing and parsing are a first-in first-out
\* line of packets, for all packets that fit in the parser's array.
THEOREM DeliversInOrder == LinkSpec => CleanIsFifo
  <1>1. LinkInv /\ [LinkNext]_allVars
          => [losses' = 0 => (Abstract!Next \/ UNCHANGED Abstract!vars)]_allVars
    BY CleanStep DEF Abstract!vars
  <1>2. QED
    BY <1>1, LinkInvariance, PTL DEF LinkSpec, CleanIsFifo

\* Whatever bytes the line loses, and however many, the parser misses at most
\* three whole packets before it is in step again: it never owes more.
THEOREM BackInStep == LinkSpec => []Resynchronises
  <1>1. LinkInv => Resynchronises
    BY DEF LinkInv, Tracks, Resynchronises
  <1>2. QED
    BY <1>1, LinkInvariance, PTL

-----------------------------------------------------------------------------
\* How sums go on.
Plus(a, b) == (a + b) % 256

(* The parser after a single loss.  How many bytes of the frame are left   *)
(* from f on; what the parser is, that has missed one of them, and counts  *)
(* on more than are left before the next start byte; or that is in place   *)
(* but for its sum; or that sees the second half of an escaped byte bare.  *)
Left(f) == IF AtStart(f) THEN 0 ELSE ChecksumAt(f) + 1 - f.at

Short(f) ==
    \/ pos \in {1, 2} /\ ~AtStart(f) /\ pos + 1 = f.at
    \/ pos > 2 /\ pos + Left(f) < response.lsbLength + 4

Spoilt(f) ==
    /\ ~Sent(f) /\ pos > 3 /\ pos = f.at /\ escape = f.half
    /\ response.lsbLength = Len(f.packet)
    /\ checksumTotal # f.sum

Bare(f) ==
    /\ ~Sent(f) /\ pos = f.at /\ f.half /\ ~escape
    /\ \/ pos = 2
       \/ /\ pos > 3 /\ response.lsbLength = Len(f.packet)
          /\ Plus(checksumTotal, Toggle20(FrameByte(f))) # Plus(f.sum, FrameByte(f))

Harmless(f) ==
    pos = 0 \/ IsError \/ InPlace(f) \/ Spoilt(f) \/ Bare(f) \/ Short(f)

-----------------------------------------------------------------------------
\* Different sums stay different.
LEMMA SumsDiffer ==
    \A a, b, c \in 0 .. 255 : a # b => Plus(a, c) # Plus(b, c)
  <1> SUFFICES ASSUME NEW a \in 0 .. 255, NEW b \in 0 .. 255, NEW c \in 0 .. 255, a # b
               PROVE  Plus(a, c) # Plus(b, c)
    OBVIOUS
  <1>1. \A n \in 0 .. 510 : n % 256 = IF n < 256 THEN n ELSE n - 256
    OBVIOUS
  <1>2. a + c \in 0 .. 510 /\ b + c \in 0 .. 510
    OBVIOUS
  <1>3. /\ (a + c) % 256 = IF a + c < 256 THEN a + c ELSE a + c - 256
        /\ (b + c) % 256 = IF b + c < 256 THEN b + c ELSE b + c - 256
    <2> PICK m \in 0 .. 510, n \in 0 .. 510 : m = a + c /\ n = b + c
      BY <1>2
    <2>1. /\ m % 256 = IF m < 256 THEN m ELSE m - 256
          /\ n % 256 = IF n < 256 THEN n ELSE n - 256
      BY <1>1
    <2>2. QED
      BY <2>1
  <1>4. (a + c) % 256 # (b + c) % 256
    BY <1>3
  <1>5. QED
    BY <1>4 DEF Plus

\* Bytes add up to a byte, in any order.
LEMMA PlusType ==
    \A a, b \in 0 .. 255 : Plus(a, b) \in 0 .. 255 /\ Plus(a, b) = Plus(b, a)
  BY DEF Plus

\* Only the right checksum completes a sum to 0xff.
LEMMA WrongChecksum ==
    \A a, s \in 0 .. 255 : a # s => Plus(a, 255 - s) # 255
  <1> SUFFICES ASSUME NEW a \in 0 .. 255, NEW s \in 0 .. 255, a # s
               PROVE  Plus(a, 255 - s) # 255
    OBVIOUS
  <1>1. 255 - s \in 0 .. 255 /\ s + (255 - s) = 255 /\ 255 % 256 = 255
    OBVIOUS
  <1>2. Plus(s, 255 - s) = 255
    BY <1>1 DEF Plus
  <1> PICK c \in 0 .. 255 : c = 255 - s
    BY <1>1
  <1>3. Plus(a, c) # Plus(s, c)
    <2>1. a \in 0 .. 255 /\ s \in 0 .. 255 /\ c \in 0 .. 255 /\ a # s
      OBVIOUS
    <2>2. QED
      BY ONLY <2>1, SumsDiffer, Zenon
  <1>4. QED
    BY <1>2, <1>3

\* The two halves of an escaped byte.
LEMMA SpecialToggled ==
    /\ START_BYTE = 126 /\ ESCAPE = 125 /\ XON = 17 /\ XOFF = 19
    /\ Toggle20(126) = 94 /\ Toggle20(125) = 93
    /\ Toggle20(17) = 49 /\ Toggle20(19) = 51
    /\ Special = {126, 125, 17, 19}
  BY DEF START_BYTE, ESCAPE, XON, XOFF, Toggle20, Special

\* The highest bit stays.
LEMMA ToggleHigh ==
    \A b \in 128 .. 255 : Toggle20(b) \in Byte /\ Toggle20(b) >= 128
  <1> SUFFICES ASSUME NEW b \in 128 .. 255
               PROVE  Toggle20(b) \in Byte /\ Toggle20(b) >= 128
    OBVIOUS
  <1>0. b \in Byte
    BY DEF Byte
  <1>1. Toggle20(b) \in Byte
    BY ONLY <1>0, ToggleType, Zenon
  <1>2. CASE (b \div 32) % 2 = 1
    <2>1. b >= 160
      BY <1>2
    <2>2. QED
      BY <1>1, <1>2, <2>1 DEF Toggle20
  <1>3. CASE (b \div 32) % 2 # 1
    BY <1>1, <1>3 DEF Toggle20
  <1>4. QED
    BY <1>2, <1>3

\* An escaped byte without its escape spoils a sum that was right.
LEMMA BareSum ==
    \A s \in 0 .. 255, b \in Special : Plus(s, Toggle20(b)) # Plus(s, b)
  <1> SUFFICES ASSUME NEW s \in 0 .. 255, NEW b \in Special
               PROVE  Plus(s, Toggle20(b)) # Plus(s, b)
    OBVIOUS
  <1>1. Toggle20(b) \in 0 .. 255 /\ b \in 0 .. 255 /\ Toggle20(b) # b
    BY SpecialToggled
  <1>2. Plus(Toggle20(b), s) # Plus(b, s)
    BY <1>1, SumsDiffer
  <1>3. QED
    BY <1>1, <1>2, PlusType

\* Sums associate.
LEMMA PlusAssociates ==
    \A a, b, c \in 0 .. 255 : Plus(Plus(a, b), c) = Plus(a, Plus(b, c))
  <1> SUFFICES ASSUME NEW a \in 0 .. 255, NEW b \in 0 .. 255, NEW c \in 0 .. 255
               PROVE  Plus(Plus(a, b), c) = Plus(a, Plus(b, c))
    OBVIOUS
  <1>1. /\ Plus(a, b) = IF a + b < 256 THEN a + b ELSE a + b - 256
        /\ Plus(b, c) = IF b + c < 256 THEN b + c ELSE b + c - 256
    BY DEF Plus
  <1>2. CASE a + b < 256 /\ b + c < 256
    BY <1>1, <1>2 DEF Plus
  <1>3. CASE a + b < 256 /\ b + c >= 256
    BY <1>1, <1>3 DEF Plus
  <1>4. CASE a + b >= 256 /\ b + c < 256
    BY <1>1, <1>4 DEF Plus
  <1>5. CASE a + b >= 256 /\ b + c >= 256
    BY <1>1, <1>5 DEF Plus
  <1>6. QED
    BY <1>2, <1>3, <1>4, <1>5

\* Two escaped bytes that lose the second half of the first and so the escape
\* of the second: the sum tells, but for one pair of them.
LEMMA MergedSum ==
    ASSUME NEW s \in 0 .. 255, NEW x \in Special, NEW y \in Special,
           ~(x = ESCAPE /\ y \in {XON, XOFF})
    PROVE  Plus(Plus(s, Toggle20(ESCAPE)), Toggle20(y)) # Plus(Plus(s, x), y)
  <1>1. /\ Toggle20(ESCAPE) = 93 /\ Toggle20(y) \in 0 .. 255
        /\ x \in 0 .. 255 /\ y \in 0 .. 255
    BY SpecialToggled
  <1>2. x \in {126, 125, 17, 19} /\ y \in {126, 125, 17, 19}
        /\ ~(x = 125 /\ y \in {17, 19})
    BY SpecialToggled
  <1> PICK t \in 0 .. 255 : t = Toggle20(y)
    BY <1>1
  <1> DEFINE u == Plus(93, t)
             v == Plus(x, y)
  <1>3. Plus(Plus(s, 93), t) = Plus(s, u) /\ Plus(Plus(s, x), y) = Plus(s, v)
    <2>1. 93 \in 0 .. 255 /\ s \in 0 .. 255 /\ t \in 0 .. 255
      OBVIOUS
    <2>2. Plus(Plus(s, 93), t) = Plus(s, Plus(93, t))
      BY ONLY <2>1, PlusAssociates, Zenon
    <2>3. s \in 0 .. 255 /\ x \in 0 .. 255 /\ y \in 0 .. 255
      BY <1>1
    <2>4. Plus(Plus(s, x), y) = Plus(s, Plus(x, y))
      BY ONLY <2>3, PlusAssociates, Zenon
    <2>5. QED
      BY <2>2, <2>4
  <1>4. u \in 0 .. 255 /\ v \in 0 .. 255 /\ u # v
    <2>1. \/ y = 126 /\ t = 94
          \/ y = 125 /\ t = 93
          \/ y = 17 /\ t = 49
          \/ y = 19 /\ t = 51
      BY <1>2, SpecialToggled
    <2>2. u \in 0 .. 255 /\ v \in 0 .. 255
      <3>1. 93 \in 0 .. 255
        OBVIOUS
      <3>2. QED
        BY <1>1, <3>1, PlusType, Zenon
    <2>3. u = (93 + t) % 256 /\ v = (x + y) % 256
      BY DEF Plus
    <2>4. u # v
      BY <1>2, <2>1, <2>3
    <2>5. QED
      BY <2>2, <2>4
  <1> HIDE DEF u, v
  <1>5. Plus(u, s) # Plus(v, s)
    BY <1>4, SumsDiffer
  <1>6. Plus(u, s) = Plus(s, u) /\ Plus(v, s) = Plus(s, v)
    BY ONLY <1>4, s \in 0 .. 255, PlusType, Zenon
  <1>7. Toggle20(ESCAPE) = 93 /\ t = Toggle20(y)
    BY <1>1
  <1>8. QED
    BY ONLY <1>3, <1>5, <1>6, <1>7, Zenon

\* What is left after a byte.
LEMMA LeftIs ==
    ASSUME NEW f \in Places
    PROVE  /\ Left(f) = IF f.at = 0 THEN 0 ELSE Len(f.packet) + 4 - f.at
           /\ Left(f) \in Nat
           /\ AtStart(f) => Left(f) = 0
  <1> DEFINE n == Len(f.packet)
             a == f.at
             c == ChecksumAt(f)
  <1>1. /\ n \in 1 .. 248 /\ c = n + 3 /\ a \in 0 .. c + 1
        /\ Sent(f) <=> a = c + 1
    BY PlaceFacts
  <1>2. Left(f) = IF a = 0 \/ Sent(f) THEN 0 ELSE c + 1 - a
    BY DEF Left, AtStart
  <1> HIDE DEF n, a, c
  <1>3. /\ Left(f) = IF a = 0 THEN 0 ELSE n + 4 - a
        /\ Left(f) \in Nat
        /\ a = 0 \/ Sent(f) => Left(f) = 0
    BY <1>1, <1>2
  <1>4. QED
    BY <1>3 DEF n, a, AtStart

\* What the bytes of such packets look like.
LEMMA PlainPlaces ==
    ASSUME Unmistakable, NEW f \in Places
    PROVE  /\ Len(f.packet) < 125
           /\ f.at = 1 => ~Escaped(f)
           /\ f.at = 3 => FrameByte(f) \in 128 .. 255 /\ ~Escaped(f)
  <1>1. Len(f.packet) < 125
    <2> PICK n \in 1 .. 248 : n = Len(f.packet)
      BY PlaceFacts
    <2>1. n + 3 <= MaxFrameDataSize /\ MaxFrameDataSize \in Int /\ MaxFrameDataSize < 128
      BY PlaceFacts, PacketFacts, ReceiverAssumption DEF Unmistakable
    <2>2. n < 125
      BY <2>1
    <2>3. QED
      BY <2>2
  <1>2. Escaped(f) => FrameByte(f) \in Special
    BY DEF Escaped, Special
  <1>3. f.at = 1 => ~Escaped(f)
    <2>1. 0 \notin Special
      BY SpecialToggled
    <2>2. QED
      BY <1>2, <2>1, FrameByteAt
  <1>4. ASSUME f.at = 3 PROVE FrameByte(f) \in 128 .. 255 /\ ~Escaped(f)
    <2> PICK n \in 1 .. 248 : n = Len(f.packet)
      BY PlaceFacts
    <2>1. 3 \in 3 .. n + 2 /\ 1 \in 1 .. n
      <3>1. n \in 1 .. 248
        OBVIOUS
      <3>2. QED
        BY ONLY <3>1
    <2>2. InPacket(f)
      BY <1>4, <2>1, PlaceFacts
    <2>3. FrameByte(f) = f.packet[1]
      BY <1>4, <2>2, FrameByteAt
    <2>4. f.packet[1] \in Byte /\ f.packet[1] >= 128
      BY <2>1, PlaceFacts, PacketFacts DEF Unmistakable
    <2> PICK b \in Byte : b = FrameByte(f)
      BY <2>3, <2>4
    <2>5. b \in 128 .. 255
      <3>1. b \in 0 .. 255 /\ b >= 128
        BY <2>3, <2>4 DEF Byte
      <3>2. QED
        BY ONLY <3>1
    <2>6. b \notin Special
      <3>1. b \notin {126, 125, 17, 19}
        BY ONLY <2>5
      <3>2. QED
        BY <3>1, SpecialToggled
    <2>7. QED
      BY <1>2, <2>5, <2>6
  <1>5. QED
    BY <1>1, <1>3, <1>4

\* What a byte that is taken does, by position.
Moves ==
    /\ pos = 0 => /\ pos' = IF Unescaped = START_BYTE THEN 1 ELSE 0
                  /\ ~IsAvailable' /\ ~IsError'
    /\ pos = 1 => pos' = 2 /\ ~IsAvailable'
    /\ pos = 2 => /\ pos' = 3 /\ response'.lsbLength = Unescaped
                  /\ ~IsAvailable'
    /\ pos = 3 => /\ pos' = 4 /\ response'.lsbLength = response.lsbLength
                  /\ ~IsAvailable'
    /\ pos > 3 =>
         \/ IsError' /\ ~IsAvailable'
         \/ /\ pos = response.lsbLength + 3 /\ pos' = 0
            /\ Plus(checksumTotal, Unescaped) # 255 => ~IsAvailable'
         \/ /\ pos # response.lsbLength + 3
            /\ pos' = pos + 1 /\ ~IsAvailable'
            /\ response'.lsbLength = response.lsbLength
            /\ checksumTotal' = Plus(checksumTotal, Unescaped)

\* And what is known of it.
LEMMA ByteTaken ==
    ASSUME IInv, ReadsByte
    PROVE  /\ Unescaped \in Byte /\ checksumTotal \in Byte
           /\ response.lsbLength \in Byte
           /\ escape' = FALSE /\ ~Restarts /\ Taken <= Len(queue)
           /\ pos \in Nat
           /\ Moves
  <1>1. TakesByte
    BY DEF ReadsByte, AwaitStart, LengthByte, ApiIdByte, TooLong, EndOfPacket, DataByte
  <1>2. /\ Unescaped \in Byte /\ escape' = FALSE /\ ~Restarts /\ Taken <= Len(queue)
        /\ checksumTotal \in Byte /\ response \in Responses
        /\ reading /\ ~IsAvailable /\ ~IsError
    BY <1>1, TakesByteType DEF IInv, TypeOK, Consistent, TakesByte
  <1>3. /\ pos \in 0 .. MaxFrameDataSize + 1 /\ MaxFrameDataSize \in Nat
        /\ response.lsbLength \in Byte /\ response.msbLength \in Byte
        /\ response.available \in BOOLEAN
        /\ response.available = FALSE /\ response.errorCode = 0
    BY <1>2, ReceiverAssumption
       DEF IInv, TypeOK, Responses, IsAvailable, IsError, NO_ERROR
  <1>4. pos \in Nat
    BY <1>3
  <1>5. PacketLength = response.lsbLength
    BY <1>3, PacketLengthIsLsb DEF PacketLength
  <1>6. Summed = Plus(checksumTotal, Unescaped)
    BY DEF Summed, Plus
  <1>7. ASSUME AwaitStart PROVE Moves
    <2>1. /\ pos = 0 /\ pos' = (IF Unescaped = START_BYTE THEN 1 ELSE 0)
          /\ response' = response
      BY <1>7 DEF AwaitStart
    <2>2. QED
      BY <1>2, <2>1 DEF IsAvailable, Moves, IsError
  <1>8. ASSUME LengthByte PROVE Moves
    <2>1. /\ pos \in {1, 2} /\ pos' = pos + 1
          /\ pos = 1 => response' = [response EXCEPT !.msbLength = Unescaped]
          /\ pos = 2 => response' = [response EXCEPT !.lsbLength = Unescaped]
      BY <1>8 DEF LengthByte
    <2>2. /\ response'.available = response.available
          /\ pos = 2 => response'.lsbLength = Unescaped
      BY <1>2, <2>1 DEF Responses
    <2>3. QED
      BY <1>3, <2>1, <2>2 DEF IsAvailable, Moves
  <1>9. ASSUME ApiIdByte PROVE Moves
    <2>1. /\ pos = 3 /\ pos' = pos + 1
          /\ response' = [response EXCEPT !.apiId = Unescaped, !.frameData = << >>]
      BY <1>9 DEF ApiIdByte, API_ID_INDEX
    <2>2. /\ response'.available = response.available
          /\ response'.lsbLength = response.lsbLength
      BY <1>2, <2>1 DEF Responses
    <2>3. QED
      BY <1>3, <2>1, <2>2 DEF IsAvailable, Moves
  <1>10. ASSUME TooLong PROVE Moves
    <2>1. pos > 3 /\ response' = [response EXCEPT !.errorCode = PACKET_EXCEEDS_BYTE_ARRAY_LENGTH]
      BY <1>10 DEF TooLong, API_ID_INDEX
    <2>2. /\ response'.available = response.available
          /\ response'.errorCode = 2
      BY <1>2, <2>1 DEF Responses, PACKET_EXCEEDS_BYTE_ARRAY_LENGTH
    <2>3. QED
      BY <1>3, <2>1, <2>2 DEF IsAvailable, Moves, IsError, NO_ERROR
  <1>11. ASSUME EndOfPacket PROVE Moves
    <2>1. /\ pos > 3 /\ pos = response.lsbLength + 3 /\ pos' = 0
          /\ Summed # 255 => response' = [response EXCEPT !.errorCode = CHECKSUM_FAILURE]
      BY <1>5, <1>11 DEF EndOfPacket, AtChecksum, API_ID_INDEX
    <2>2. Summed # 255 => response'.available = response.available
      BY <1>2, <2>1 DEF Responses
    <2>3. QED
      BY <1>3, <1>6, <2>1, <2>2 DEF IsAvailable, Moves
  <1>12. ASSUME DataByte PROVE Moves
    <2>1. /\ pos > 3 /\ pos' = pos + 1 /\ checksumTotal' = Summed
          /\ response' = [response EXCEPT !.frameData = Append(@, Unescaped)]
          /\ pos # response.lsbLength + 3
      BY <1>5, <1>12 DEF DataByte, AtChecksum, API_ID_INDEX
    <2>2. /\ response'.available = response.available
          /\ response'.lsbLength = response.lsbLength
      BY <1>2, <2>1 DEF Responses
    <2>3. QED
      BY <1>3, <1>6, <2>1, <2>2 DEF IsAvailable, Moves
  <1>13. Moves
    BY <1>7, <1>8, <1>9, <1>10, <1>11, <1>12 DEF ReadsByte
  <1>14. QED
    BY <1>2, <1>3, <1>4, <1>13

\* How a parser at the place of f takes the byte of f, whatever it has stored.
LEMMA InPhase ==
    ASSUME IInv, AnyTurn, NEW f \in Places, ~Sent(f), f.at > 0,
           pos = f.at, escape = f.half, queue[1] = OnWire(f),
           Read = 2 => queue[2] = OnWire(After(f))
    PROVE  /\ ~Restarts
           /\ Escapes <=> ~EndsByte(f)
           /\ ReadsByte => Unescaped = FrameByte(f)
  <1>1. /\ queue \in Seq(Byte) /\ Len(queue) \in Nat \ {0}
        /\ Head(queue) = queue[1]
        /\ Read = 2 <=> Escapes /\ Len(queue) > 1
    BY TurnFacts
  <1>2. f.half \in BOOLEAN /\ f.at \in Nat
    BY PlaceFacts
  <1>3. ~Restarts
    BY <1>1, <1>2, OnWireIs DEF Restarts
  <1>4. Escapes <=> ~EndsByte(f)
    BY <1>1, <1>2, OnWireIs DEF Escapes
  <1>5. ASSUME ReadsByte PROVE Unescaped = FrameByte(f)
    <2>1. CASE EndsByte(f)
      <3>1. Unescaped = IF f.half THEN Toggle20(OnWire(f)) ELSE OnWire(f)
        BY <1>1, <1>4, <2>1 DEF Unescaped
      <3>2. QED
        BY <1>2, <2>1, <3>1, OnWireIs
    <2>2. CASE ~EndsByte(f)
      <3>1. Read = 2
        <4>1. Taken = 2 /\ Taken <= Len(queue)
          BY <1>4, <1>5, <2>2, ByteTaken DEF Taken
        <4>2. QED
          BY <1>1, <1>4, <2>2, <4>1
      <3>2. ~f.half
        BY <2>2 DEF EndsByte
      <3>3. Unescaped = Toggle20(OnWire(After(f)))
        BY <1>1, <1>2, <1>4, <2>2, <3>1, <3>2 DEF Unescaped
      <3>4. /\ After(f) \in Places /\ ~Sent(After(f)) /\ After(f).half
            /\ FrameByte(After(f)) = FrameByte(f)
        BY <2>2, AfterType
      <3>5. QED
        BY <3>3, <3>4, OnWireIs
    <2>3. QED
      BY <2>1, <2>2
  <1>6. QED
    BY <1>3, <1>4, <1>5

\* Ways for the parser to do no harm after a step.
LEMMA HarmlessNext ==
    ASSUME NEW g \in Places
    PROVE  /\ pos' = 0 \/ IsError' \/ InPlace(g)' => Harmless(g)'
           /\    /\ ~Sent(g) /\ pos' > 3 /\ pos' = g.at /\ escape' = g.half
                 /\ response'.lsbLength = Len(g.packet) /\ checksumTotal' # g.sum
              => Harmless(g)'
           /\    /\ ~Sent(g) /\ pos' = g.at /\ g.half /\ ~escape' /\ pos' > 3
                 /\ response'.lsbLength = Len(g.packet)
                 /\ Plus(checksumTotal', Toggle20(FrameByte(g)))
                      # Plus(g.sum, FrameByte(g))
              => Harmless(g)'
           /\ pos' > 2 /\ pos' + Left(g) < response'.lsbLength + 4 => Harmless(g)'
           /\ pos' \in {1, 2} /\ ~AtStart(g) /\ pos' + 1 = g.at => Harmless(g)'
  <1>1. pos' = 0 \/ IsError' \/ InPlace(g)' => Harmless(g)'
    BY DEF Harmless
  <1>2. ASSUME ~Sent(g), pos' > 3, pos' = g.at, escape' = g.half,
               response'.lsbLength = Len(g.packet), checksumTotal' # g.sum
        PROVE  Harmless(g)'
    BY <1>2 DEF Harmless, Spoilt, Sent, ChecksumAt
  <1>3. ASSUME ~Sent(g), pos' = g.at, g.half, ~escape', pos' > 3,
               response'.lsbLength = Len(g.packet),
               Plus(checksumTotal', Toggle20(FrameByte(g))) # Plus(g.sum, FrameByte(g))
        PROVE  Harmless(g)'
    <2>1. (~Sent(g))' <=> ~Sent(g)
      BY DEF Sent, ChecksumAt
    <2>2. FrameByte(g)' = FrameByte(g)
      BY DEF FrameByte, InPacket, ChecksumAt
    <2>3. (Plus(checksumTotal, Toggle20(FrameByte(g))) # Plus(g.sum, FrameByte(g)))'
      BY <1>3, <2>2 DEF Plus, Toggle20
    <2>4. QED
      BY <1>3, <2>1, <2>3 DEF Harmless, Bare
  <1>4. pos' > 2 /\ pos' + Left(g) < response'.lsbLength + 4 => Harmless(g)'
    BY DEF Harmless, Short, Left, AtStart, Sent, ChecksumAt
  <1>5. pos' \in {1, 2} /\ ~AtStart(g) /\ pos' + 1 = g.at => Harmless(g)'
    BY DEF Harmless, Short, AtStart, Sent, ChecksumAt
  <1>6. QED
    BY <1>1, <1>2, <1>3, <1>4, <1>5

\* The place after a byte that was taken inside a packet.
LEMMA WholeTaken ==
    ASSUME IInv, ReadsByte, pos > 0, NEW f \in Places, ~Sent(f),
           queue[1] = OnWire(f),
           NEW w, w = IF Read = 2 THEN After(f) ELSE f,
           NEW g, g = After(w)
    PROVE  f.at # 0 /\ w = Whole(f) /\ g = NextPlace(f)
  <1>1. /\ Head(queue) = queue[1] /\ Len(queue) \in Nat
        /\ Read = 2 <=> Escapes /\ Len(queue) > 1
    BY TurnFacts DEF AnyTurn
  <1>2. ~Restarts /\ Taken <= Len(queue)
    BY ByteTaken
  <1>3. f.at # 0
    BY <1>1, <1>2, OnWireIs DEF Restarts
  <1>4. f.at > 0
    BY <1>3, PlaceFacts
  <1>5. Escapes <=> ~EndsByte(f)
    BY <1>1, <1>4, OnWireIs DEF Escapes
  <1>6. Read = 2 <=> ~EndsByte(f)
    BY <1>1, <1>2, <1>5 DEF Taken
  <1>7. QED
    BY <1>3, <1>6 DEF Whole, NextPlace

\* g is the place of the byte after that of f.
ByteLater(f, g) ==
    /\ Len(f.packet) \in 1 .. 248
    /\ f.at \in 1 .. Len(f.packet) + 3
    /\ g \in Places /\ g.packet = f.packet /\ g.at = f.at + 1 /\ g.half = FALSE
    /\ g.sum = IF f.at \in 3 .. Len(f.packet) + 2
                 THEN Plus(f.sum, FrameByte(f)) ELSE f.sum
    /\ Sent(g) <=> f.at = Len(f.packet) + 3
    /\ Left(f) = Len(f.packet) + 4 - f.at
    /\ Left(g) = Len(f.packet) + 3 - f.at
    /\ f.sum \in Byte /\ FrameByte(f) \in Byte
    /\ f.at = Len(f.packet) + 3 => FrameByte(f) = 255 - f.sum
    /\ f.at = 2 => FrameByte(f) = Len(f.packet)

LEMMA AfterTaken ==
    ASSUME NEW f \in Places, ~Sent(f), f.at # 0, NEW g, g = NextPlace(f)
    PROVE  ByteLater(f, g)
  <1> PICK n \in 1 .. 248 : n = Len(f.packet)
    BY PlaceFacts
  <1>3. /\ ChecksumAt(f) = n + 3
        /\ f.at \in 0 .. n + 3 + 1 /\ (Sent(f) <=> f.at = n + 3 + 1)
        /\ InPacket(f) <=> f.at \in 3 .. n + 2
        /\ f.sum \in Byte
    BY PlaceFacts
  <1>5. f.at \in 1 .. n + 3 /\ f.at > 0
    BY <1>3
  <1>9. /\ g \in Places /\ g.packet = f.packet /\ g.at = f.at + 1 /\ g.half = FALSE
        /\ g.sum = IF f.at \in 3 .. n + 2 THEN Plus(f.sum, FrameByte(f)) ELSE f.sum
        /\ Sent(g) <=> f.at = n + 3
    BY <1>3, NextPlaceType DEF Plus
  <1>10. Left(f) = n + 4 - f.at
    BY <1>5, LeftIs
  <1>11. Left(g) = n + 3 - f.at
    <2>1. Left(g) = n + 4 - g.at
      BY <1>5, <1>9, LeftIs
    <2>2. QED
      BY <1>3, <1>5, <1>9, <2>1
  <1>12. /\ FrameByte(f) \in Byte
         /\ f.at = n + 3 => FrameByte(f) = 255 - f.sum
         /\ f.at = 2 => FrameByte(f) = n
    BY <1>3, FrameByteAt
  <1>13. QED
    BY <1>3, <1>5, <1>9, <1>10, <1>11, <1>12 DEF ByteLater

\* What a byte changes of what is expected and what is left.
LEMMA StillShort ==
    \A p, l, n, a \in Int :
        p + (n + 4 - a) < l + 4 /\ a <= n + 3 =>
            p # l + 3 /\ p + 1 + (n + 3 - a) < l + 4
  OBVIOUS

-----------------------------------------------------------------------------
\* An escape that comes alone.
LEMMA HarmlessEscape ==
    ASSUME IInv, EscapeAlone, NEW f \in Places, ~Sent(f), queue[1] = OnWire(f),
           Harmless(f), NEW g, g = After(f)
    PROVE  Harmless(g)'
  <1>1. /\ pos \in Nat /\ ~IsError /\ Head(queue) = queue[1]
    BY TurnFacts DEF AnyTurn
  <1>2. /\ pos > 0 /\ queue[1] = ESCAPE
        /\ escape' = TRUE /\ UNCHANGED <<pos, checksumTotal, response>>
    BY <1>1 DEF EscapeAlone, Escapes
  <1>3. f.at > 0 /\ ~EndsByte(f) /\ ~f.half
    <2>1. f.at \in Nat
      BY PlaceFacts
    <2>2. f.at = 0 => OnWire(f) # ESCAPE
      BY OnWireIs DEF ESCAPE, START_BYTE
    <2>3. f.at > 0
      BY <1>2, <2>1, <2>2
    <2>4. ~EndsByte(f)
      BY <1>2, <2>3, OnWireIs
    <2>5. QED
      BY <2>3, <2>4 DEF EndsByte
  <1>4. /\ g \in Places /\ ~Sent(g)
        /\ g.packet = f.packet /\ g.at = f.at /\ g.half = TRUE /\ g.sum = f.sum
    BY <1>3, AfterType, PlaceFacts
  <1>5. CASE InPlace(f)
    <2>1. InPlace(g)'
      BY <1>2, <1>4, <1>5 DEF InPlace, IsError
    <2>2. QED
      BY <1>4, <2>1, HarmlessNext
  <1>6. CASE Spoilt(f)
    BY <1>2, <1>4, <1>6, HarmlessNext DEF Spoilt
  <1>7. CASE Short(f)
    <2>1. Left(g) = Left(f) /\ AtStart(g) = AtStart(f)
      BY <1>4, LeftIs DEF AtStart
    <2>2. QED
      BY <1>2, <1>4, <1>7, <2>1, HarmlessNext DEF Short
  <1>8. QED
    BY <1>1, <1>2, <1>3, <1>5, <1>6, <1>7 DEF Harmless, Bare

\* A parser that counts on more than is left takes a byte.
LEMMA ShortTakes ==
    ASSUME Unmistakable, IInv, ReadsByte, NEW f \in Places, ~Sent(f),
           queue[1] = OnWire(f), Short(f),
           NEW w, w = IF Read = 2 THEN After(f) ELSE f,
           NEW g, g = After(w)
    PROVE  Harmless(g)' /\ ~IsAvailable'
  <1> PICK n : n = Len(f.packet)
    OBVIOUS
  <1>1. /\ pos \in Nat /\ pos > 0 /\ response.lsbLength \in Byte
        /\ Unescaped \in Byte
    BY ByteTaken DEF Short
  <1>2. /\ n \in 1 .. 248 /\ f.at \in 1 .. n + 3
        /\ g \in Places /\ g.at = f.at + 1
        /\ Sent(g) <=> f.at = n + 3
        /\ Left(f) = n + 4 - f.at /\ Left(g) = n + 3 - f.at
    <2>1. f.at # 0 /\ g = NextPlace(f)
      BY <1>1, WholeTaken
    <2>2. ByteLater(f, g)
      BY <2>1, AfterTaken
    <2>3. QED
      BY <2>2 DEF ByteLater
  <1>3. Moves
    BY ByteTaken
  <1>4. CASE pos = 1
    <2>1. f.at = 2 /\ pos' = 2 /\ ~IsAvailable'
      BY <1>2, <1>3, <1>4 DEF Short, Moves
    <2>2. ~AtStart(g) /\ pos' + 1 = g.at
      BY <1>2, <2>1 DEF AtStart
    <2>3. QED
      BY <1>2, <2>1, <2>2, HarmlessNext
  <1>5. CASE pos = 2
    <2>1. f.at = 3 /\ pos' = 3 /\ response'.lsbLength = Unescaped /\ ~IsAvailable'
      BY <1>2, <1>3, <1>5 DEF Short, Moves
    <2>2. n < 125 /\ FrameByte(f) \in 128 .. 255 /\ ~Escaped(f)
      BY <2>1, PlainPlaces
    <2>3. Unescaped \in {FrameByte(f), Toggle20(FrameByte(f))}
      <3>1. queue[1] = FrameByte(f) /\ ~Escapes /\ Head(queue) = queue[1]
        <4>1. ~f.half /\ EndsByte(f) /\ f.at > 0
          BY <2>1, <2>2, PlaceFacts DEF EndsByte
        <4>2. Head(queue) = queue[1]
          BY TurnFacts DEF AnyTurn
        <4>3. QED
          BY <4>1, <4>2, OnWireIs DEF Escapes
      <3>2. QED
        BY <3>1 DEF Unescaped
    <2>4. response'.lsbLength \in Nat /\ response'.lsbLength >= 128
      <3> PICK b \in 128 .. 255 : b = FrameByte(f)
        BY <2>2
      <3>1. Toggle20(b) \in Byte /\ Toggle20(b) >= 128
        BY ToggleHigh
      <3>2. response'.lsbLength = b \/ response'.lsbLength = Toggle20(b)
        BY <2>1, <2>3
      <3>3. \A x \in 128 .. 255 : x \in Nat /\ x >= 128
        OBVIOUS
      <3>4. \A x \in Byte : x \in Nat
        BY DEF Byte
      <3>5. /\ b \in Nat /\ b >= 128
            /\ Toggle20(b) \in Nat /\ Toggle20(b) >= 128
        BY <3>1, <3>3, <3>4, Zenon
      <3>6. QED
        BY <3>2, <3>5, Zenon
    <2>5. pos' + Left(g) < response'.lsbLength + 4 /\ pos' > 2
      BY <1>2, <2>1, <2>2, <2>4
    <2>6. QED
      BY <1>2, <2>1, <2>5, HarmlessNext
  <1>6. CASE pos > 2
    <2> PICK l \in 0 .. 255 : l = response.lsbLength
      BY <1>1 DEF Byte
    <2>1. pos + (n + 4 - f.at) < l + 4
      BY <1>2, <1>6 DEF Short
    <2>2. pos # l + 3 /\ pos + 1 + (n + 3 - f.at) < l + 4
      <3>1. pos \in Int /\ l \in Int /\ n \in Int /\ f.at \in Int /\ f.at <= n + 3
        BY <1>1, <1>2
      <3>2. QED
        BY ONLY <2>1, <3>1, StillShort, Zenon
    <2>3. CASE pos = 3
      <3>1. pos' = 4 /\ response'.lsbLength = l /\ ~IsAvailable'
        BY <1>3, <2>3 DEF Moves
      <3>2. pos' + Left(g) < response'.lsbLength + 4 /\ pos' > 2
        BY <1>2, <2>2, <2>3, <3>1
      <3>3. QED
        BY <1>2, <3>1, <3>2, HarmlessNext
    <2>4. CASE pos > 3
      <3>1. \/ IsError' /\ ~IsAvailable'
            \/ pos' = pos + 1 /\ ~IsAvailable' /\ response'.lsbLength = l
        BY <1>3, <2>2, <2>4 DEF Moves
      <3>2. CASE IsError' /\ ~IsAvailable'
        BY <1>2, <3>2, HarmlessNext
      <3>3. CASE pos' = pos + 1 /\ ~IsAvailable' /\ response'.lsbLength = l
        <4>1. pos' + Left(g) < response'.lsbLength + 4 /\ pos' > 2
          BY <1>1, <1>2, <2>2, <2>4, <3>3
        <4>2. QED
          BY <1>2, <3>3, <4>1, HarmlessNext
      <3>4. QED
        BY <3>1, <3>2, <3>3
    <2>5. QED
      BY <1>1, <1>6, <2>3, <2>4
  <1>7. QED
    BY <1>1, <1>4, <1>5, <1>6

\* A parser in place whose sum is wrong.
LEMMA SpoiltTakes ==
    ASSUME IInv, ReadsByte, NEW f \in Places, ~Sent(f),
           queue[1] = OnWire(f), Read = 2 => queue[2] = OnWire(After(f)),
           Spoilt(f),
           NEW w, w = IF Read = 2 THEN After(f) ELSE f,
           NEW g, g = After(w)
    PROVE  Harmless(g)' /\ ~IsAvailable'
  <1> DEFINE n == Len(f.packet)
  <1>1. /\ pos > 3 /\ pos = f.at /\ escape = f.half
        /\ response.lsbLength = n /\ checksumTotal # f.sum
    BY DEF Spoilt
  <1>2. /\ n \in 1 .. 248 /\ f.at \in 1 .. n + 3
        /\ g \in Places /\ g.packet = f.packet /\ g.at = f.at + 1 /\ g.half = FALSE
        /\ g.sum = IF f.at \in 3 .. n + 2 THEN Plus(f.sum, FrameByte(f)) ELSE f.sum
        /\ Sent(g) <=> f.at = n + 3
        /\ f.sum \in Byte /\ FrameByte(f) \in Byte
        /\ f.at = n + 3 => FrameByte(f) = 255 - f.sum
    <2>1. pos > 0
      BY <1>1, ByteTaken
    <2>2. f.at # 0 /\ g = NextPlace(f)
      BY <2>1, WholeTaken
    <2>3. ByteLater(f, g)
      BY <2>2, AfterTaken
    <2>4. QED
      BY <2>3 DEF ByteLater
  <1> HIDE DEF n
  <1>3. Moves /\ checksumTotal \in Byte /\ escape' = FALSE /\ pos \in Nat
    BY ByteTaken
  <1>4. Unescaped = FrameByte(f)
    <2>1. AnyTurn /\ f.at > 0
      BY <1>1, <1>3 DEF AnyTurn
    <2>2. QED
      BY <1>1, <2>1, InPhase
  <1>5. CASE IsError' /\ ~IsAvailable'
    BY <1>2, <1>5, HarmlessNext
  <1>6. CASE /\ pos = n + 3 /\ pos' = 0
             /\ Plus(checksumTotal, Unescaped) # 255 => ~IsAvailable'
    <2>1. Plus(checksumTotal, 255 - f.sum) # 255
      <3> PICK a \in 0 .. 255, s \in 0 .. 255 : a = checksumTotal /\ s = f.sum
        BY <1>2, <1>3 DEF Byte
      <3>1. a \in 0 .. 255 /\ s \in 0 .. 255 /\ a # s
        BY <1>1
      <3>2. Plus(a, 255 - s) # 255
        BY ONLY <3>1, WrongChecksum, Zenon
      <3>3. QED
        BY <3>2
    <2>2. ~IsAvailable'
      BY <1>1, <1>2, <1>4, <1>6, <2>1
    <2>3. QED
      BY <1>2, <1>6, <2>2, HarmlessNext
  <1>7. CASE /\ pos # n + 3 /\ pos' = pos + 1 /\ ~IsAvailable'
             /\ response'.lsbLength = n
             /\ checksumTotal' = Plus(checksumTotal, Unescaped)
    <2>1. ~Sent(g) /\ g.sum = Plus(f.sum, FrameByte(f)) /\ pos' > 3 /\ pos' = g.at
      BY <1>1, <1>2, <1>7
    <2>2. checksumTotal' # g.sum
      <3>1. /\ checksumTotal \in 0 .. 255 /\ f.sum \in 0 .. 255
            /\ FrameByte(f) \in 0 .. 255
        BY <1>2, <1>3 DEF Byte
      <3>2. Plus(checksumTotal, FrameByte(f)) # Plus(f.sum, FrameByte(f))
        BY <1>1, <3>1, SumsDiffer
      <3>3. QED
        BY <1>4, <1>7, <2>1, <3>2
    <2>3. QED
      BY <1>2, <1>3, <1>7, <2>1, <2>2, HarmlessNext DEF n
  <1>8. QED
    BY <1>1, <1>3, <1>5, <1>6, <1>7 DEF Moves

\* A parser in place that meets the second half of an escaped byte bare.
LEMMA BareTakes ==
    ASSUME Unmistakable, IInv, ReadsByte, NEW f \in Places, ~Sent(f),
           queue[1] = OnWire(f), Bare(f),
           NEW w, w = IF Read = 2 THEN After(f) ELSE f,
           NEW g, g = After(w)
    PROVE  Harmless(g)' /\ ~IsAvailable'
  <1> DEFINE n == Len(f.packet)
  <1>1. /\ pos = f.at /\ f.half /\ ~escape
        /\ \/ pos = 2
           \/ /\ pos > 3 /\ response.lsbLength = n
              /\ Plus(checksumTotal, Toggle20(FrameByte(f))) # Plus(f.sum, FrameByte(f))
    BY DEF Bare
  <1>2. /\ n \in 1 .. 248 /\ f.at \in 1 .. n + 3
        /\ g \in Places /\ g.packet = f.packet /\ g.at = f.at + 1 /\ g.half = FALSE
        /\ g.sum = IF f.at \in 3 .. n + 2 THEN Plus(f.sum, FrameByte(f)) ELSE f.sum
        /\ Sent(g) <=> f.at = n + 3
        /\ Left(g) = n + 3 - f.at
        /\ f.sum \in Byte /\ FrameByte(f) \in Byte
        /\ f.at = n + 3 => FrameByte(f) = 255 - f.sum
        /\ f.at = 2 => FrameByte(f) = n
    <2>1. pos > 0
      BY <1>1, ByteTaken
    <2>2. f.at # 0 /\ g = NextPlace(f)
      BY <2>1, WholeTaken
    <2>3. ByteLater(f, g)
      BY <2>2, AfterTaken
    <2>4. QED
      BY <2>3 DEF ByteLater
  <1> HIDE DEF n
  <1>3. Moves /\ checksumTotal \in Byte /\ escape' = FALSE /\ pos \in Nat
    BY ByteTaken
  <1>4. Unescaped = Toggle20(FrameByte(f))
    <2>1. Head(queue) = queue[1]
      BY TurnFacts DEF AnyTurn
    <2>2. queue[1] = Toggle20(FrameByte(f)) /\ queue[1] # ESCAPE
      <3>1. EndsByte(f) /\ f.at > 0
        BY <1>1, <1>2 DEF EndsByte
      <3>2. QED
        BY <1>1, <3>1, OnWireIs
    <2>3. QED
      BY <1>1, <2>1, <2>2 DEF Unescaped, Escapes
  <1>5. CASE pos = 2
    <2>1. /\ f.at = 2 /\ pos' = 3 /\ response'.lsbLength = Toggle20(n) /\ ~IsAvailable'
      BY <1>1, <1>2, <1>3, <1>4, <1>5 DEF Moves
    <2>2. n \in {17, 19}
      <3>1. n < 125
        BY PlainPlaces DEF n
      <3>2. n \in Special
        <4>1. Escaped(f)
          BY <1>1, PlaceFacts
        <4>2. QED
          BY <1>2, <2>1, <4>1 DEF Escaped, Special
      <3>3. n \in {126, 125, 17, 19}
        BY <3>2, SpecialToggled
      <3>4. n \in 1 .. 248
        BY <1>2
      <3>5. QED
        BY ONLY <3>1, <3>3, <3>4
    <2>3. Toggle20(n) \in {49, 51}
      BY <2>2, SpecialToggled
    <2>4. pos' + Left(g) < response'.lsbLength + 4 /\ pos' > 2
      <3>1. Left(g) = n + 1
        BY <1>2, <2>1, <2>2
      <3>2. CASE n = 17
        BY <2>1, <3>1, <3>2, SpecialToggled
      <3>3. CASE n = 19
        BY <2>1, <3>1, <3>3, SpecialToggled
      <3>4. QED
        BY <2>2, <3>2, <3>3
    <2>5. QED
      BY <1>2, <2>1, <2>4, HarmlessNext
  <1>6. CASE pos > 3
    <2>1. /\ response.lsbLength = n
          /\ Plus(checksumTotal, Unescaped) # Plus(f.sum, FrameByte(f))
      BY <1>1, <1>4, <1>6
    <2>2. CASE IsError' /\ ~IsAvailable'
      BY <1>2, <2>2, HarmlessNext
    <2>3. CASE /\ pos = n + 3 /\ pos' = 0
               /\ Plus(checksumTotal, Unescaped) # 255 => ~IsAvailable'
      <3>1. Plus(f.sum, 255 - f.sum) = 255
        <4> PICK s \in 0 .. 255 : s = f.sum
          BY <1>2 DEF Byte
        <4>1. (s + (255 - s)) % 256 = 255
          OBVIOUS
        <4>2. QED
          BY <4>1 DEF Plus
      <3>2. ~IsAvailable'
        BY <1>1, <1>2, <2>1, <2>3, <3>1
      <3>3. QED
        BY <1>2, <2>3, <3>2, HarmlessNext
    <2>4. CASE /\ pos # n + 3 /\ pos' = pos + 1 /\ ~IsAvailable'
               /\ response'.lsbLength = n
               /\ checksumTotal' = Plus(checksumTotal, Unescaped)
      <3>1. ~Sent(g) /\ g.sum = Plus(f.sum, FrameByte(f)) /\ pos' > 3 /\ pos' = g.at
        BY <1>1, <1>2, <1>6, <2>4
      <3>2. QED
        BY <1>2, <1>3, <2>1, <2>4, <3>1, HarmlessNext DEF n
    <2>5. QED
      BY <1>3, <1>6, <2>1, <2>2, <2>3, <2>4 DEF Moves
  <1>7. QED
    BY <1>1, <1>5, <1>6

\* Each turn of such a parser leaves it such, and makes no packet up.
LEMMA HarmlessTurn ==
    ASSUME Unmistakable, IInv, AnyTurn, NEW f \in Places, ~Sent(f),
           queue[1] = OnWire(f), Read = 2 => queue[2] = OnWire(After(f)),
           Harmless(f),
           NEW w, w = IF Read = 2 THEN After(f) ELSE f,
           NEW g, g = After(w)
    PROVE  Harmless(g)' /\ (IsAvailable' => Packet' \in Packets)
  <1>1. /\ ~IsError /\ ~IsAvailable /\ pos \in Nat /\ (pos = 0 => escape = FALSE)
        /\ Head(queue) = queue[1] /\ Len(queue) \in Nat
        /\ Read = 2 <=> Escapes /\ Len(queue) > 1
    BY TurnFacts
  <1>2. g \in Places /\ w \in Places
    BY TurnPays
  <1>3. CASE UnexpectedStart
    <2>1. response' = [response EXCEPT !.errorCode = UNEXPECTED_START_BYTE]
      BY <1>3 DEF UnexpectedStart
    <2>2. IsError' /\ ~IsAvailable'
      BY <1>1, <2>1 DEF IsError, IsAvailable, IInv, TypeOK, Responses,
                        UNEXPECTED_START_BYTE, NO_ERROR
    <2>3. QED
      BY <1>2, <2>2, HarmlessNext
  <1>4. CASE EscapeAlone
    <2>1. w = f
      BY <1>1, <1>4 DEF EscapeAlone
    <2>2. Harmless(g)'
      BY <1>4, <2>1, HarmlessEscape
    <2>3. ~IsAvailable'
      BY <1>1, <1>4 DEF EscapeAlone, IsAvailable
    <2>4. QED
      BY <2>2, <2>3
  <1>5. CASE ReadsByte /\ pos = 0
    <2>1. /\ pos' = IF Unescaped = START_BYTE THEN 1 ELSE 0
          /\ ~IsAvailable' /\ ~IsError' /\ escape' = FALSE
      BY <1>5, ByteTaken DEF Moves
    <2>2. ~Escapes /\ w = f /\ Unescaped = queue[1]
      BY <1>1, <1>5 DEF Escapes, Unescaped
    <2>3. CASE f.at = 0
      <3>1. queue[1] = START_BYTE /\ EndsByte(f)
        BY <2>3, OnWireIs
      <3>2. pos' = 1
        BY <2>1, <2>2, <3>1
      <3>3. g.at = 1 /\ g.half = FALSE /\ ~Sent(g)
        BY <1>2, <2>2, <2>3, <3>1, AfterType, PlaceFacts
      <3>4. InPlace(g)'
        <4>1. /\ pos' = (IF Sent(g) THEN 0 ELSE g.at) /\ escape' = g.half
              /\ ~(pos' > 2) /\ ~(pos' > 3)
          <5>1. ~(pos' > 2) /\ ~(pos' > 3)
            BY ONLY <3>2
          <5>2. QED
            BY <2>1, <3>2, <3>3, <5>1, Zenon
        <4>2. response'.errorCode = NO_ERROR
          BY <2>1 DEF IsError
        <4>3. QED
          BY <1>2, <4>1, <4>2, InPlaceNext
      <3>5. QED
        BY <1>2, <2>1, <3>4, HarmlessNext
    <2>4. CASE f.at # 0
      <3>1. f.at > 0
        BY <2>4, PlaceFacts
      <3>2. queue[1] # START_BYTE
        BY <3>1, OnWireIs
      <3>3. pos' = 0
        BY <2>1, <2>2, <3>2
      <3>4. QED
        BY <1>2, <2>1, <3>3, HarmlessNext
    <2>5. QED
      BY <2>3, <2>4
  <1>6. CASE ReadsByte /\ pos # 0 /\ InPlace(f)
    <2>1. pos > 0
      BY <1>1, <1>6
    <2>2. f.at > 0 /\ pos = f.at /\ escape = f.half
      BY <2>1, <1>6 DEF InPlace
    <2>3. Unescaped = FrameByte(f)
      BY <1>6, <2>2, InPhase
    <2>4. g = NextPlace(f)
      BY <1>6, <2>1, WholeTaken
    <2>5. /\ f.at # ChecksumAt(f) => InPlace(g)' /\ ~IsAvailable'
          /\ f.at = ChecksumAt(f) => /\ pos' = 0
                                     /\ IsAvailable' => Packet' = f.packet
      BY <1>6, <2>3, <2>4, ByteRead DEF ReadsByte
    <2>6. f.packet \in Packets
      BY PlaceFacts
    <2>7. QED
      BY <1>2, <2>5, <2>6, HarmlessNext
  <1>7. CASE ReadsByte /\ pos # 0 /\ Spoilt(f)
    BY <1>7, SpoiltTakes
  <1>8. CASE ReadsByte /\ pos # 0 /\ Bare(f)
    BY <1>8, BareTakes
  <1>9. CASE ReadsByte /\ pos # 0 /\ Short(f)
    BY <1>9, ShortTakes
  <1>10. QED
    BY <1>1, <1>3, <1>4, <1>5, <1>6, <1>7, <1>8, <1>9 DEF AnyTurn, Harmless

-----------------------------------------------------------------------------
\* In step with the line: as long as nothing was lost.
InStep(f) == Debt(f) = 0 /\ ~IsError

\* What that means at a place.
LEMMA InStepMeans ==
    ASSUME IInv, NEW f \in Places, InStep(f)
    PROVE  /\ ~IsError /\ pos \in Nat
           /\ pos = (IF AtStart(f) THEN 0 ELSE f.at)
           /\ AtStart(f) => escape = FALSE
           /\ ~AtStart(f) => InPlace(f) /\ checksumTotal = f.sum /\ escape = f.half
  <1>1. Debt(f) = 0 /\ ~IsError
    BY DEF InStep
  <1>2. pos \in Nat /\ (pos = 0 => escape = FALSE)
    BY ReceiverAssumption DEF IInv, TypeOK, Consistent
  <1>3. Stale \in {0, 1}
    BY DEF Stale
  <1>4. CASE AtStart(f)
    BY <1>1, <1>2, <1>4 DEF Debt, Idle
  <1>5. CASE ~AtStart(f)
    <2>1. ~Idle /\ InPlace(f) /\ checksumTotal = f.sum
      BY <1>1, <1>3, <1>5 DEF Debt
    <2>2. QED
      BY <1>1, <1>2, <1>5, <2>1 DEF InPlace, AtStart
  <1>6. QED
    BY <1>4, <1>5

\* Being in step does no harm.
LEMMA InStepHarmless ==
    ASSUME IInv, NEW f \in Places, InStep(f)
    PROVE  Harmless(f)
  BY InStepMeans DEF Harmless

\* Whether a new frame has begun or not makes no difference between frames.
LEMMA HarmlessBegin ==
    ASSUME IInv, NEW f \in Places, NEW p \in Packets, Sent(f), Harmless(f)
    PROVE  Harmless(Begin(p))
  <1>1. CASE pos = 0 \/ IsError
    BY <1>1 DEF Harmless
  <1>2. CASE InPlace(f)
    BY <1>2 DEF Harmless, InPlace
  <1>3. CASE Short(f)
    <2>1. /\ AtStart(f) /\ AtStart(Begin(p))
          /\ Left(f) = 0 /\ Left(Begin(p)) = 0
      BY BeginType DEF AtStart, Left
    <2>2. QED
      BY <1>3, <2>1 DEF Harmless, Short
  <1>4. QED
    BY <1>1, <1>2, <1>3 DEF Harmless, Spoilt, Bare

\* The first loss: the parser that was in step misses the byte of h.
LEMMA LoseHarmless ==
    ASSUME Unmistakable, IInv, NEW h \in Places, ~Sent(h), InStep(h)
    PROVE  Harmless(After(h))
  <1> DEFINE g == After(h)
             n == Len(h.packet)
  <1>1. /\ ~IsError /\ pos = (IF AtStart(h) THEN 0 ELSE h.at)
        /\ ~AtStart(h) => InPlace(h) /\ checksumTotal = h.sum /\ escape = h.half
    BY InStepMeans
  <1>2. /\ n \in 1 .. 248 /\ h.at \in 0 .. n + 3 + 1 /\ h.half \in BOOLEAN
        /\ Sent(h) <=> h.at = n + 3 + 1
        /\ h.sum \in Byte
    BY PlaceFacts
  <1>3. g \in Places /\ g.packet = h.packet
    BY AfterType
  <1>4. CASE h.at = 0
    <2>1. pos = 0
      BY <1>1, <1>4 DEF AtStart
    <2>2. QED
      BY <2>1 DEF Harmless
  <1>5. CASE h.at # 0 /\ EndsByte(h)
    <2>1. g.at = h.at + 1
      BY <1>5, AfterType
    <2>2. pos = h.at /\ (pos > 2 => response.lsbLength = n)
      BY <1>1, <1>5 DEF AtStart, InPlace
    <2> HIDE DEF g, n
    <2>3. h.at \in 1 .. n + 3
      BY <1>2, <1>5
    <2>4. CASE h.at \in {1, 2}
      <3>1. g.at # 0 /\ ~Sent(g)
        <4>1. g.at # Len(g.packet) + 3 + 1
          BY <1>2, <1>3, <2>1, <2>4 DEF n
        <4>2. ChecksumAt(g) = Len(g.packet) + 3 /\ (Sent(g) <=> g.at = ChecksumAt(g) + 1)
          BY <1>3, PlaceFacts
        <4>3. QED
          BY <2>1, <2>4, <4>1, <4>2
      <3>2. Short(g)
        BY <2>1, <2>2, <2>4, <3>1 DEF Short, AtStart
      <3>3. QED
        BY <3>2 DEF Harmless, g
    <2>5. CASE h.at > 2
      <3>1. g.at # 0
        BY <2>1, <2>3
      <3>2. Left(g) = n + 4 - g.at
        BY <1>3, <3>1, LeftIs DEF n
      <3>3. pos > 2 /\ pos + Left(g) < response.lsbLength + 4
        BY <1>2, <2>1, <2>2, <2>3, <2>5, <3>2
      <3>4. Short(g)
        BY <3>3 DEF Short
      <3>5. QED
        BY <3>4 DEF Harmless, g
    <2>6. QED
      BY <2>3, <2>4, <2>5
  <1>6. CASE h.at # 0 /\ ~EndsByte(h)
    <2>1. /\ g.at = h.at /\ g.half /\ g.sum = h.sum /\ ~Sent(g)
          /\ FrameByte(g) = FrameByte(h)
      BY <1>6, AfterType
    <2>2. Escaped(h) /\ ~h.half
      BY <1>6 DEF EndsByte
    <2>3. pos = h.at /\ escape = FALSE /\ checksumTotal = h.sum /\ InPlace(h)
      BY <1>1, <1>2, <1>6, <2>2 DEF AtStart
    <2>4. h.at # 1 /\ h.at # 3
      BY <2>2, PlainPlaces
    <2>5. FrameByte(h) \in Special
      BY <2>2 DEF Escaped, Special
    <2>6. Plus(h.sum, Toggle20(FrameByte(h))) # Plus(h.sum, FrameByte(h))
      <3>1. h.sum \in 0 .. 255
        BY <1>2 DEF Byte
      <3>2. QED
        BY ONLY <2>5, <3>1, BareSum, Zenon
    <2>7. pos = 2 \/ (pos > 3 /\ response.lsbLength = n)
      <3>1. h.at = 2 \/ h.at > 3
        BY <1>2, <1>6, <2>4
      <3>2. h.at > 3 => response.lsbLength = n
        <4>1. h.at > 3 => h.at > 2
          BY <1>2
        <4>2. QED
          BY <2>3, <4>1 DEF InPlace
      <3>3. QED
        BY <2>3, <3>1, <3>2
    <2>8. Bare(g)
      BY <1>3, <2>1, <2>3, <2>6, <2>7 DEF Bare
    <2>9. QED
      BY <2>8 DEF Harmless
  <1>7. QED
    BY <1>4, <1>5, <1>6

-----------------------------------------------------------------------------
\* The escape of f is taken with a byte that is not its other half: that was
\* lost.
LEMMA MergeTurn ==
    ASSUME Unmistakable, IInv, AnyTurn, Read = 2,
           NEW f \in Places, ~Sent(f), queue[1] = OnWire(f), InStep(f),
           NEW h \in Places, Follows(f, h),
           NEW g \in Places, ~Sent(g), Follows(h, g), queue[2] = OnWire(g),
           NEW e, e = After(g)
    PROVE  Harmless(e)' /\ ~IsAvailable'
  <1> DEFINE n == Len(f.packet)
  <1>1. /\ pos > 0 /\ queue[1] = ESCAPE /\ Len(queue) \in Nat /\ Len(queue) > 1
        /\ Escapes /\ Head(queue) = queue[1] /\ pos \in Nat
    BY TurnFacts DEF Escapes
  <1>2. ReadsByte
    <2>1. ~UnexpectedStart
      BY <1>1 DEF UnexpectedStart, Restarts, START_BYTE, ESCAPE
    <2>2. ~EscapeAlone
      BY <1>1 DEF EscapeAlone
    <2>3. QED
      BY <2>1, <2>2 DEF AnyTurn
  <1>3. /\ Moves /\ escape' = FALSE /\ Unescaped \in Byte
    BY <1>2, ByteTaken
  <1>4. f.at > 0 /\ ~EndsByte(f)
    <2>1. f.at \in Nat
      BY PlaceFacts
    <2>2. f.at = 0 => OnWire(f) # ESCAPE
      BY OnWireIs DEF ESCAPE, START_BYTE
    <2>3. f.at > 0
      BY <1>1, <2>1, <2>2
    <2>4. QED
      BY <1>1, <2>3, OnWireIs
  <1>5. Escaped(f) /\ ~f.half /\ FrameByte(f) \in Special
    BY <1>4 DEF EndsByte, Escaped, Special
  <1>6. /\ h = After(f) /\ ~Sent(h) /\ h.at = f.at /\ h.packet = f.packet
        /\ h.sum = f.sum /\ EndsByte(h) /\ FrameByte(h) = FrameByte(f)
    BY <1>4, AfterType DEF Follows
  <1>7. /\ n \in 1 .. 248 /\ f.at \in 1 .. n + 3 /\ f.sum \in Byte
        /\ f.half \in BOOLEAN /\ ChecksumAt(f) = n + 3
        /\ InPacket(f) <=> f.at \in 3 .. n + 2
    <2>1. /\ n \in 1 .. 248 /\ f.sum \in Byte /\ f.at \in 0 .. n + 3 + 1
          /\ (Sent(f) <=> f.at = n + 3 + 1) /\ f.half \in BOOLEAN
          /\ ChecksumAt(f) = n + 3
          /\ InPacket(f) <=> f.at \in 3 .. n + 2
      BY PlaceFacts
    <2>2. QED
      BY <1>4, <2>1
  <1>8. /\ pos = f.at /\ checksumTotal = f.sum /\ escape = FALSE
        /\ pos > 2 => response.lsbLength = n
    <2>1. ~AtStart(f)
      BY <1>4 DEF AtStart
    <2>2. QED
      BY <1>5, <1>7, <2>1, InStepMeans DEF InPlace
  <1>9. Unescaped = Toggle20(OnWire(g))
    BY <1>1, <1>8 DEF Unescaped
  <1>10. f.at # 1 /\ f.at # 3
    BY <1>5, PlainPlaces
  <1>11. e \in Places
    BY AfterType
  <1> HIDE DEF n
  <1>12. CASE Sent(After(h))
    <2>1. g = Begin(g.packet)
      <3>1. g # After(h)
        BY <1>12
      <3>2. QED
        BY <3>1 DEF Follows
    <2>2. g.at = 0
      BY <2>1 DEF Begin
    <2>3. Unescaped = 94
      BY <1>9, <2>2, OnWireIs, SpecialToggled
    <2>4. f.at = n + 3
      <3>1. IsLast(h)
        BY <1>6, <1>12, AfterType
      <3>2. QED
        BY <1>6, <1>7, <3>1 DEF IsLast, ChecksumAt, n
    <2>5. Plus(checksumTotal, Unescaped) # 255
      <3>1. FrameByte(f) = 255 - f.sum
        BY <1>7, <2>4, FrameByteAt
      <3> PICK a \in 0 .. 255 : a = f.sum
        BY <1>7 DEF Byte
      <3>2. 255 - a \in {126, 125, 17, 19}
        BY <1>5, <3>1, SpecialToggled
      <3> PICK s \in 0 .. 255 : s = 161
        OBVIOUS
      <3>3. a # s /\ a \in 0 .. 255 /\ s \in 0 .. 255
        BY <3>2
      <3>4. Plus(a, 255 - s) # 255
        BY ONLY <3>3, WrongChecksum, Zenon
      <3>5. 255 - s = 94
        OBVIOUS
      <3>6. QED
        BY <1>8, <2>3, <3>4, <3>5
    <2>6. pos > 3 /\ pos = response.lsbLength + 3
      BY <1>7, <1>8, <2>4
    <2>7. (IsError' \/ pos' = 0) /\ ~IsAvailable'
      BY <1>3, <2>5, <2>6 DEF Moves
    <2>8. QED
      BY <1>11, <2>7, HarmlessNext
  <1>13. CASE ~Sent(After(h))
    <2>1. /\ g = After(h) /\ g.at = f.at + 1 /\ g.half = FALSE /\ g.packet = f.packet
          /\ g.sum = IF InPacket(h) THEN (f.sum + FrameByte(f)) % 256 ELSE f.sum
      BY <1>6, <1>13, AfterType DEF Follows
    <2>2. f.at \in 1 .. n + 2
      <3>1. Sent(g) <=> g.at = Len(g.packet) + 3 + 1
        BY PlaceFacts
      <3>2. g.at # n + 3 + 1
        BY <2>1, <3>1 DEF n
      <3>3. QED
        BY <1>7, <2>1, <3>2
    <2>3. EndsByte(g) => e.at = g.at + 1 /\ e.packet = f.packet
      BY <2>1, AfterType
    <2>4. EndsByte(g) => Left(e) = n + 2 - f.at
      <3>1. e.at # 0 => Left(e) = Len(e.packet) + 4 - e.at
        BY <1>11, LeftIs
      <3>2. EndsByte(g) => e.at = f.at + 2 /\ e.at # 0
        BY <2>1, <2>2, <2>3
      <3>3. EndsByte(g) => Left(e) = n + 4 - (f.at + 2)
        BY <2>3, <3>1, <3>2 DEF n
      <3>4. QED
        BY <1>7, <2>2, <3>3
    <2>5. CASE pos = 2
      <3>1. g.at = 3
        BY <1>8, <2>1, <2>5
      <3> PICK b \in 128 .. 255 : b = FrameByte(g)
        BY <3>1, PlainPlaces
      <3>2. EndsByte(g) /\ OnWire(g) = b
        BY <2>1, <3>1, OnWireIs, PlainPlaces DEF EndsByte
      <3>3. Toggle20(b) \in Byte /\ Toggle20(b) >= 128
        BY ToggleHigh
      <3>4. pos' = 3 /\ response'.lsbLength = Toggle20(b) /\ ~IsAvailable'
        BY <1>3, <1>9, <2>5, <3>2 DEF Moves
      <3>5. Left(e) = n /\ n < 125
        <4>1. Left(e) = n + 2 - 2
          BY <1>8, <2>4, <2>5, <3>2
        <4>2. n < 125
          BY PlainPlaces DEF n
        <4>3. QED
          BY <1>7, <4>1, <4>2
      <3>6. pos' > 2 /\ pos' + Left(e) < response'.lsbLength + 4
        <4> PICK x \in 0 .. 255 : x = Toggle20(b)
          BY <3>3 DEF Byte
        <4>1. n \in 1 .. 248 /\ n < 125 /\ x >= 128
          BY <1>7, <3>3, <3>5
        <4>2. 3 + n < x + 4
          BY <4>1
        <4>3. QED
          BY <3>4, <3>5, <4>2
      <3>7. QED
        BY <1>11, <3>4, <3>6, HarmlessNext
    <2>6. CASE pos > 3
      <3>1. f.at \in 4 .. n + 2 /\ response.lsbLength = n /\ InPacket(f) /\ InPacket(h)
        <4>1. f.at \in 4 .. n + 2
          BY <1>8, <2>2, <2>6
        <4>2. pos > 2
          BY <1>1, <2>6
        <4>3. f.at \in 3 .. n + 2
          BY <4>1
        <4>4. InPacket(h) <=> h.at \in 3 .. Len(h.packet) + 2
          BY PlaceFacts
        <4>5. QED
          BY <1>6, <1>7, <1>8, <4>1, <4>2, <4>3, <4>4 DEF n
      <3>2. pos # response.lsbLength + 3
        BY <1>7, <1>8, <3>1
      <3>3. \/ IsError' /\ ~IsAvailable'
            \/ /\ pos' = pos + 1 /\ ~IsAvailable' /\ response'.lsbLength = n
               /\ checksumTotal' = Plus(f.sum, Unescaped)
        BY <1>3, <1>8, <2>6, <3>1, <3>2 DEF Moves
      <3>4. CASE IsError' /\ ~IsAvailable'
        BY <1>11, <3>4, HarmlessNext
      <3>5. CASE /\ pos' = pos + 1 /\ ~IsAvailable' /\ response'.lsbLength = n
                 /\ checksumTotal' = Plus(f.sum, Unescaped)
        <4>1. CASE EndsByte(g)
          <5>1. pos' > 2 /\ pos' + Left(e) < response'.lsbLength + 4
            BY <1>7, <1>8, <2>4, <3>1, <3>5, <4>1
          <5>2. QED
            BY <1>11, <3>5, <5>1, HarmlessNext
        <4>2. CASE ~EndsByte(g)
          <5> DEFINE x == FrameByte(f)
                     y == FrameByte(g)
          <5>1. /\ e.at = g.at /\ e.half /\ e.sum = g.sum /\ e.packet = g.packet
                /\ ~Sent(e) /\ FrameByte(e) = y /\ g.at > 0
            BY <4>2, AfterType
          <5>2. Unescaped = 93
            BY <1>9, <4>2, <5>1, OnWireIs, SpecialToggled
          <5>3. y \in Special
            BY <4>2 DEF EndsByte, Escaped, Special
          <5>4. ~(x = ESCAPE /\ y \in {XON, XOFF})
            <6>1. x = f.packet[f.at - 2]
              BY <3>1, FrameByteAt
            <6>2. f.packet \in Packets
              BY PlaceFacts
            <6>3. f.packet[n] # ESCAPE
              BY <6>2 DEF Unmistakable, n
            <6>4. \A i \in 1 .. n - 1 :
                    f.packet[i] = ESCAPE => f.packet[i + 1] \notin {XON, XOFF}
              BY <6>2 DEF Unmistakable, n
            <6>5. CASE f.at = n + 2
              <7>1. f.at - 2 = n
                BY <1>7, <6>5
              <7>2. QED
                BY <6>1, <6>3, <7>1
            <6>6. CASE f.at # n + 2
              <7>1. /\ f.at - 2 \in 1 .. n - 1 /\ g.at - 2 = (f.at - 2) + 1
                    /\ g.at \in 3 .. n + 2
                BY <1>7, <2>1, <3>1, <6>6
              <7>2. InPacket(g)
                <8>1. InPacket(g) <=> g.at \in 3 .. Len(g.packet) + 2
                  BY PlaceFacts
                <8>2. QED
                  BY <2>1, <7>1, <8>1 DEF n
              <7>3. y = f.packet[(f.at - 2) + 1]
                BY <2>1, <7>1, <7>2, FrameByteAt
              <7>4. QED
                BY <6>1, <6>4, <7>1, <7>3
            <6>7. QED
              BY <6>5, <6>6
          <5>5. g.sum = Plus(f.sum, x)
            BY <2>1, <3>1 DEF Plus
          <5> HIDE DEF x, y
          <5>6. Plus(Plus(f.sum, Toggle20(ESCAPE)), Toggle20(y)) # Plus(Plus(f.sum, x), y)
            <6>1. f.sum \in 0 .. 255 /\ x \in Special
              BY <1>5, <1>7 DEF Byte, x
            <6>2. QED
              BY <5>3, <5>4, <6>1, MergedSum
          <5>7. checksumTotal' = Plus(f.sum, Toggle20(ESCAPE))
            BY <3>5, <5>2, SpecialToggled
          <5>8. pos' = e.at /\ pos' > 3 /\ response'.lsbLength = Len(e.packet)
            BY <1>7, <1>8, <2>1, <2>6, <3>5, <5>1 DEF n
          <5>9. Plus(checksumTotal', Toggle20(FrameByte(e))) # Plus(e.sum, FrameByte(e))
            BY <5>1, <5>5, <5>6, <5>7
          <5>10. QED
            BY <1>3, <1>11, <3>5, <5>1, <5>8, <5>9, HarmlessNext
        <4>3. QED
          BY <4>1, <4>2
      <3>6. QED
        BY <3>3, <3>4, <3>5
    <2>7. QED
      BY <1>7, <1>8, <1>10, <2>5, <2>6
  <1>14. QED
    BY <1>12, <1>13

(* The route of the bytes of the queue, when at most one byte was lost: d  *)
(* has the place of each byte, up to the sender's, and the one that was    *)
(* lost came after the byte at k, or before the first of them if k is 0.   *)
Skips(f, g) == \E h \in Places : ~Sent(h) /\ Follows(f, h) /\ Follows(h, g)

Leads(i, k, f, g) ==
    IF losses # 0 /\ i = k THEN Skips(f, g) ELSE Follows(f, g)

Route(d, k) ==
    /\ Len(d) = Len(queue) + 1 /\ d[Len(d)] = sender
    /\ k \in 0 .. Len(queue)
    /\ \A i \in 1 .. Len(queue) : /\ ~Sent(d[i]) /\ queue[i] = OnWire(d[i])
                                  /\ Leads(i, k, d[i], d[i + 1])

Grip(f, k) == IF losses # 0 /\ k = 0 THEN Harmless(f) ELSE InStep(f)

Mild == Unmistakable /\ losses <= 1

GenuineInv ==
    Mild => /\ delivered \in Packets
            /\ \E d \in Seq(Places), k \in Nat : Route(d, k) /\ Grip(d[1], k)

-----------------------------------------------------------------------------
\* What holds of the place after f holds of the next one.
LEMMA NextAlike ==
    ASSUME NEW f \in Places, ~Sent(f), NEW g \in Places, Follows(f, g),
           NEW x, x = After(f)
    PROVE  /\ Harmless(x) => Harmless(g)
           /\ Harmless(x)' => Harmless(g)'
           /\ InStep(x) => InStep(g)
           /\ InStep(x)' => InStep(g)'
  <1>1. x \in Places
    BY AfterType
  <1>2. g = x \/ (Sent(x) /\ g = Begin(g.packet))
    BY DEF Follows
  <1>3. CASE g = x
    BY <1>3
  <1>4. CASE Sent(x) /\ g = Begin(g.packet)
    <2>1. g.at = 0 /\ g.half = FALSE
      BY <1>4 DEF Begin
    <2>2. AtStart(g) /\ AtStart(x) /\ ~Sent(g)
      BY <1>4, <2>1, PlaceFacts DEF AtStart
    <2>3. Left(g) = 0 /\ Left(x) = 0
      BY <2>2 DEF Left
    <2>4. x.half = FALSE
      BY <1>1, <1>4, PlaceFacts
    <2>5. (AtStart(g) /\ AtStart(x))' /\ (Left(g) = 0 /\ Left(x) = 0)' /\ Sent(x)'
      BY <1>4, <2>2, <2>3 DEF AtStart, Sent, ChecksumAt, Left
    <2>6. Harmless(x) => Harmless(g)
      <3>1. InPlace(x) => pos = 0
        BY <1>4 DEF InPlace
      <3>2. ~Spoilt(x) /\ ~Bare(x)
        BY <1>4 DEF Spoilt, Bare
      <3>3. Short(x) => Short(g)
        BY <2>2, <2>3 DEF Short
      <3>4. QED
        BY <3>1, <3>2, <3>3 DEF Harmless
    <2>7. Harmless(x)' => Harmless(g)'
      <3>1. InPlace(x)' => pos' = 0
        BY <2>5 DEF InPlace
      <3>2. (~Spoilt(x) /\ ~Bare(x))'
        BY <2>5 DEF Spoilt, Bare
      <3>3. Short(x)' => Short(g)'
        BY <2>5 DEF Short
      <3>4. QED
        BY <3>1, <3>2, <3>3 DEF Harmless
    <2>8. InStep(x) => InStep(g)
      BY <2>2 DEF InStep, Debt
    <2>9. InStep(x)' => InStep(g)'
      BY <2>5 DEF InStep, Debt
    <2>10. QED
      BY <2>6, <2>7, <2>8, <2>9
  <1>5. QED
    BY <1>2, <1>3, <1>4

\* The first loss, in the words of a formula.
LoseStays == \A h \in Places : ~Sent(h) /\ InStep(h) => Harmless(After(h))

LEMMA LoseStaysHolds == Unmistakable /\ IInv => LoseStays
  BY LoseHarmless DEF LoseStays

\* A frame that ended is followed by the next to begin.
LEMMA FollowsBegin ==
    ASSUME NEW f, NEW s \in Places, Sent(s), Follows(f, s), NEW p \in Packets
    PROVE  Follows(f, Begin(p))
  <1>1. s.packet \in Packets
    BY PlaceFacts
  <1>2. s # Begin(s.packet)
    BY <1>1, BeginNotLast
  <1>3. Sent(After(f))
    BY <1>2 DEF Follows
  <1>4. Begin(p).packet = p
    BY DEF Begin
  <1>5. QED
    BY <1>3, <1>4 DEF Follows

LEMMA LeadsBegin ==
    ASSUME NEW f, NEW s \in Places, Sent(s), NEW i, NEW k, Leads(i, k, f, s),
           NEW p \in Packets
    PROVE  Leads(i, k, f, Begin(p))
  <1>1. CASE losses # 0 /\ i = k
    <2>1. PICK h \in Places : ~Sent(h) /\ Follows(f, h) /\ Follows(h, s)
      BY <1>1 DEF Leads, Skips
    <2>2. Follows(h, Begin(p))
      BY <2>1, FollowsBegin
    <2>3. QED
      BY <1>1, <2>1, <2>2 DEF Leads, Skips
  <1>2. CASE ~(losses # 0 /\ i = k)
    BY <1>2, FollowsBegin DEF Leads
  <1>3. QED
    BY <1>1, <1>2

\* What a route says, place by place.
LEMMA RouteFacts ==
    ASSUME LinkInv, NEW d \in Seq(Places), NEW k \in Nat, Route(d, k)
    PROVE  /\ queue \in Seq(Byte) /\ Len(queue) \in Nat
           /\ Len(d) = Len(queue) + 1 /\ d[Len(queue) + 1] = sender
           /\ sender \in Places /\ losses \in Nat
           /\ k \in 0 .. Len(queue)
           /\ \A i \in 1 .. Len(queue) + 1 : d[i] \in Places
           /\ \A i \in 1 .. Len(queue) : /\ ~Sent(d[i]) /\ queue[i] = OnWire(d[i])
                                         /\ Leads(i, k, d[i], d[i + 1])
  <1>1. /\ queue \in Seq(Byte) /\ Len(queue) \in Nat
        /\ sender \in Places /\ losses \in Nat
    BY LenProperties DEF LinkInv, LinkType, IInv, TypeOK
  <1>2. \A i \in 1 .. Len(d) : d[i] \in Places
    BY ElementOfSeq
  <1>3. QED
    BY <1>1, <1>2 DEF Route

\* A byte arrives.
LEMMA RouteArrive ==
    ASSUME LinkInv, Arrive, NEW c \in Seq(Places), NEW k \in Nat,
           Route(c, k), Grip(c[1], k)
    PROVE  \E d \in Seq(Places) : (Route(d, k) /\ Grip(d[1], k))'
  <1> DEFINE n == Len(queue)
  <1> PICK x : x = After(sender)
    OBVIOUS
  <1> PICK d : d = Append(c, x)
    OBVIOUS
  <1>1. /\ ~Sent(sender)
        /\ queue' = Append(queue, OnWire(sender)) /\ sender' = x
        /\ UNCHANGED <<parser, losses>>
    BY DEF Arrive
  <1>2. /\ n \in Nat /\ Len(c) = n + 1 /\ queue \in Seq(Byte)
        /\ c[n + 1] = sender /\ sender \in Places /\ k \in 0 .. n
        /\ \A i \in 1 .. n : /\ ~Sent(c[i]) /\ queue[i] = OnWire(c[i])
                             /\ Leads(i, k, c[i], c[i + 1])
    BY RouteFacts
  <1>3. OnWire(sender) \in Byte /\ x \in Places
    BY <1>1, <1>2, OnWireIs, AfterType
  <1>4. /\ Len(queue') = n + 1 /\ queue'[n + 1] = OnWire(sender)
        /\ \A i \in 1 .. n : queue'[i] = queue[i]
    BY <1>1, <1>2, <1>3, AppendProperties
  <1>5. /\ d \in Seq(Places) /\ Len(d) = n + 1 + 1 /\ d[n + 1 + 1] = x
        /\ \A i \in 1 .. n + 1 : d[i] = c[i]
    BY <1>2, <1>3, AppendProperties
  <1> HIDE DEF n
  <1>6. ASSUME NEW i \in 1 .. n + 1
        PROVE  /\ ~Sent(d[i]) /\ queue'[i] = OnWire(d[i])
               /\ Leads(i, k, d[i], d[i + 1])
    <2>1. CASE i \in 1 .. n
      <3>1. i + 1 \in 1 .. n + 1
        BY <1>2, <2>1
      <3>2. d[i] = c[i] /\ d[i + 1] = c[i + 1]
        BY <1>5, <3>1
      <3>3. QED
        BY <1>2, <1>4, <2>1, <3>2
    <2>2. CASE i = n + 1
      <3>1. d[i] = sender /\ d[i + 1] = x
        BY <1>2, <1>5, <2>2
      <3>2. i # k /\ Follows(sender, x)
        BY <1>2, <2>2 DEF Follows
      <3>3. QED
        BY <1>1, <1>4, <2>2, <3>1, <3>2 DEF Leads
    <2>3. QED
      BY <1>2, <2>1, <2>2
  <1>7. Route(d, k)'
    <2>1. \A i \in 1 .. n + 1 : Leads(i, k, d[i], d[i + 1])'
      BY <1>1, <1>6 DEF Leads, Skips, Follows
    <2>2. k \in 0 .. n + 1
      BY <1>2
    <2>3. QED
      BY <1>1, <1>4, <1>5, <1>6, <2>1, <2>2 DEF Route
  <1>8. Grip(d[1], k)'
    <2>1. d[1] = c[1]
      BY <1>2, <1>5
    <2>2. Grip(d[1], k)
      BY <2>1
    <2>3. (Harmless(d[1]) => Harmless(d[1])') /\ (InStep(d[1]) => InStep(d[1])')
      BY <1>1 DEF parser, Harmless, Spoilt, Bare, Short, InStep, Debt, AtStart, Idle,
                  Stale, InPlace, IsError
    <2>4. QED
      BY <1>1, <2>2, <2>3 DEF Grip
  <1>9. QED
    BY <1>5, <1>7, <1>8

\* The sender moves to s, and the place of the loss to m, without a byte
\* arriving.
LEMMA RouteMoves ==
    ASSUME LinkInv, UNCHANGED <<queue, parser>>,
           NEW c \in Seq(Places), NEW k \in Nat, Route(c, k),
           NEW s \in Places, sender' = s,
           NEW n, n = Len(queue), NEW m \in 0 .. n,
           \A i \in 1 .. n : i # n => Leads(i, m, c[i], c[i + 1])',
           n # 0 => Leads(n, m, c[n], s)'
    PROVE  \E d \in Seq(Places) :
             Route(d, m)' /\ d[1] = IF n = 0 THEN s ELSE c[1]
  <1> PICK d : d = [c EXCEPT ![Len(c)] = s]
    OBVIOUS
  <1>1. /\ n \in Nat /\ Len(c) = n + 1
        /\ \A i \in 1 .. n : ~Sent(c[i]) /\ queue[i] = OnWire(c[i])
    BY RouteFacts
  <1>2. queue' = queue /\ Len(queue') = n
    OBVIOUS
  <1>3. /\ \A i \in 1 .. n : i # n => Leads(i, m, c[i], c[i + 1])'
        /\ n # 0 => Leads(n, m, c[n], s)'
        /\ m \in 0 .. n
    OBVIOUS
  <1>4. /\ d \in Seq(Places) /\ Len(d) = n + 1 /\ d[n + 1] = s
        /\ \A i \in 1 .. n : d[i] = c[i]
    <2>1. Len(c) \in 1 .. Len(c)
      BY <1>1
    <2>2. d \in Seq(Places) /\ Len(d) = Len(c)
      BY <2>1, ExceptSeq
    <2>3. d[Len(c)] = s /\ \A i \in 1 .. Len(c) : i # Len(c) => d[i] = c[i]
      BY <2>1, LenProperties
    <2>4. QED
      BY <1>1, <2>2, <2>3
  <1>5. ASSUME NEW i \in 1 .. n PROVE Leads(i, m, d[i], d[i + 1])'
    <2>1. CASE i # n
      <3>1. i + 1 \in 1 .. n
        BY <1>1, <2>1
      <3>2. d[i] = c[i] /\ d[i + 1] = c[i + 1]
        BY <1>4, <3>1
      <3>3. QED
        BY <1>3, <2>1, <3>2
    <2>2. CASE i = n
      <3>1. d[i] = c[n] /\ d[i + 1] = s /\ n # 0
        BY <1>1, <1>4, <2>2
      <3>2. QED
        BY <1>3, <2>2, <3>1
    <2>3. QED
      BY <2>1, <2>2
  <1>6. Route(d, m)'
    BY <1>1, <1>2, <1>3, <1>4, <1>5 DEF Route
  <1>7. d[1] = IF n = 0 THEN s ELSE c[1]
    <2>1. CASE n = 0
      BY <1>4, <2>1
    <2>2. CASE n # 0
      <3>1. 1 \in 1 .. n
        BY <1>1, <2>2
      <3>2. QED
        BY <1>4, <2>2, <3>1
    <2>3. QED
      BY <2>1, <2>2
  <1>8. QED
    BY <1>4, <1>6, <1>7

\* The grip on a place is a matter of the parser.
LEMMA GripKept ==
    ASSUME UNCHANGED parser, NEW f
    PROVE  (Harmless(f) => Harmless(f)') /\ (InStep(f) => InStep(f)')
  BY DEF parser, Harmless, Spoilt, Bare, Short, InStep, Debt, AtStart, Idle,
         Stale, InPlace, IsError

\* The sender begins a frame.
LEMMA RouteStart ==
    ASSUME LinkInv, NEW p \in Packets, StartFrame(p),
           NEW c \in Seq(Places), NEW k \in Nat, Route(c, k), Grip(c[1], k)
    PROVE  \E d \in Seq(Places) : (Route(d, k) /\ Grip(d[1], k))'
  <1> PICK s : s = Begin(p)
    OBVIOUS
  <1>1. /\ UNCHANGED <<queue, parser, losses>> /\ Sent(sender) /\ sender' = s
    BY DEF StartFrame, vars
  <1>2. s \in Places /\ s.at = 0
    BY BeginType
  <1> PICK n : n = Len(queue)
    OBVIOUS
  <1>3. /\ n \in Nat /\ sender \in Places /\ k \in 0 .. n
        /\ c[n + 1] = sender
        /\ \A i \in 1 .. n : Leads(i, k, c[i], c[i + 1])
    BY RouteFacts
  <1>4. \A i \in 1 .. n : i # n => Leads(i, k, c[i], c[i + 1])'
    BY <1>1, <1>3 DEF Leads, Skips, Follows
  <1>5. ASSUME n # 0 PROVE Leads(n, k, c[n], s)'
    <2>1. Leads(n, k, c[n], sender)
      BY <1>3, <1>5
    <2>2. Leads(n, k, c[n], s)
      BY <1>1, <1>3, <2>1, LeadsBegin
    <2>3. QED
      BY <1>1, <2>2 DEF Leads, Skips, Follows
  <1>6. PICK d \in Seq(Places) :
          Route(d, k)' /\ d[1] = IF n = 0 THEN s ELSE c[1]
    BY <1>1, <1>2, <1>3, <1>4, <1>5, RouteMoves
  <1>7. Grip(d[1], k)
    <2>1. CASE n = 0
      <3>1. c[1] = sender /\ d[1] = s
        BY <1>3, <1>6, <2>1
      <3>2. Harmless(sender) => Harmless(s)
        BY <1>1, <1>3, HarmlessBegin DEF LinkInv
      <3>3. InStep(sender) => InStep(s)
        BY <1>1, <1>2, DebtAtStart DEF InStep, AtStart
      <3>4. QED
        BY <3>1, <3>2, <3>3 DEF Grip
    <2>2. CASE n # 0
      BY <1>6, <2>2
    <2>3. QED
      BY <2>1, <2>2
  <1>8. Grip(d[1], k)'
    BY <1>1, <1>7, GripKept DEF Grip
  <1>9. QED
    BY <1>6, <1>8

\* The line loses its only byte.
LEMMA RouteLose ==
    ASSUME LinkInv, LoseByte, Unmistakable, losses' <= 1,
           NEW c \in Seq(Places), NEW k \in Nat, Route(c, k), Grip(c[1], k)
    PROVE  \E d \in Seq(Places), m \in Nat : (Route(d, m) /\ Grip(d[1], m))'
  <1> PICK s : s = After(sender)
    OBVIOUS
  <1> PICK m : m = Len(queue)
    OBVIOUS
  <1>1. /\ UNCHANGED <<queue, parser>> /\ ~Sent(sender) /\ sender' = s
        /\ losses' = losses + 1
    BY DEF LoseByte, vars
  <1>2. /\ m \in Nat /\ sender \in Places /\ losses \in Nat
        /\ c[m + 1] = sender
        /\ \A i \in 1 .. m : Leads(i, k, c[i], c[i + 1])
    BY RouteFacts
  <1>3. losses = 0 /\ losses' # 0
    BY <1>1, <1>2
  <1>4. s \in Places /\ m \in 0 .. Len(queue)
    BY <1>1, <1>2, AfterType
  <1>5. \A i \in 1 .. m : i # m => Leads(i, m, c[i], c[i + 1])'
    BY <1>2, <1>3 DEF Leads, Follows
  <1>6. ASSUME m # 0 PROVE Leads(m, m, c[m], s)'
    <2>1. Follows(c[m], sender)
      BY <1>2, <1>3, <1>6 DEF Leads
    <2>2. Follows(sender, s)
      BY DEF Follows
    <2> PICK h \in Places : h = sender
      BY <1>2
    <2>3. ~Sent(h) /\ Follows(c[m], h) /\ Follows(h, s)
      BY <1>1, <2>1, <2>2
    <2>4. Skips(c[m], s)
      BY <2>3 DEF Skips
    <2>5. Skips(c[m], s)'
      BY <2>4 DEF Skips, Follows
    <2>6. QED
      BY <1>3, <2>5 DEF Leads
  <1>7. PICK d \in Seq(Places) :
          Route(d, m)' /\ d[1] = IF Len(queue) = 0 THEN s ELSE c[1]
    BY <1>1, <1>4, <1>5, <1>6, RouteMoves
  <1>8. InStep(c[1])
    BY <1>3 DEF Grip
  <1>9. CASE m = 0
    <2>1. c[1] = sender /\ d[1] = s
      BY <1>2, <1>7, <1>9
    <2>2. Harmless(s)
      BY <1>1, <1>2, <1>8, <2>1, LoseHarmless DEF LinkInv
    <2>3. Grip(d[1], m)'
      BY <1>1, <1>3, <1>9, <2>1, <2>2, GripKept DEF Grip
    <2>4. QED
      BY <1>2, <1>7, <2>3
  <1>10. CASE m # 0
    <2>1. InStep(d[1])
      BY <1>7, <1>8, <1>10
    <2>2. Grip(d[1], m)'
      BY <1>1, <1>10, <2>1, GripKept DEF Grip
    <2>3. QED
      BY <1>2, <1>7, <2>2
  <1>11. QED
    BY <1>9, <1>10

\* The parser takes r bytes off the queue.
LEMMA RouteDrop ==
    ASSUME LinkInv, NEW c \in Seq(Places), NEW k \in Nat, Route(c, k),
           NEW r \in {0, 1, 2}, r <= Len(queue),
           queue' = SubSeq(queue, r + 1, Len(queue)),
           sender' = sender, losses' = losses,
           NEW m, m = IF k < r THEN 0 ELSE k - r
    PROVE  m \in Nat /\ \E d \in Seq(Places) : Route(d, m)' /\ d[1] = c[r + 1]
  <1> DEFINE n == Len(queue)
  <1>1. /\ queue \in Seq(Byte) /\ n \in Nat
        /\ Len(c) = n + 1 /\ c[n + 1] = sender /\ k \in 0 .. n
        /\ \A i \in 1 .. n : /\ ~Sent(c[i]) /\ queue[i] = OnWire(c[i])
                             /\ Leads(i, k, c[i], c[i + 1])
    BY RouteFacts
  <1>2. r <= n /\ queue' = SubSeq(queue, r + 1, Len(queue))
    OBVIOUS
  <1> PICK d : d = SubSeq(c, r + 1, Len(c))
    OBVIOUS
  <1>3. r \in 0 .. Len(queue)
    <2> HIDE DEF n
    <2>1. r \in 0 .. n
      BY <1>1, <1>2
    <2>2. QED
      BY <2>1 DEF n
  <1>4. /\ Len(queue') = n - r
        /\ \A i \in 1 .. n - r : queue'[i] = queue[i + r]
    BY <1>1, <1>2, <1>3, Dropped
  <1> HIDE DEF n
  <1>5. /\ d \in Seq(Places) /\ Len(d) = n - r + 1
        /\ \A i \in 1 .. n - r + 1 : d[i] = c[i + r]
    <2>1. r \in 0 .. Len(c) /\ Len(c) - r = n - r + 1
      BY <1>1, <1>2
    <2>2. QED
      BY <2>1, Dropped
  <1>6. /\ m \in 0 .. n - r
        /\ \A i \in 1 .. n - r : i = m <=> i + r = k
    BY <1>1, <1>2
  <1>7. ASSUME NEW i \in 1 .. n - r
        PROVE  /\ ~Sent(d[i]) /\ queue'[i] = OnWire(d[i])
               /\ Leads(i, m, d[i], d[i + 1])
    <2>1. /\ i + r \in 1 .. n /\ i \in 1 .. n - r + 1 /\ i + 1 \in 1 .. n - r + 1
          /\ (i + r) + 1 = (i + 1) + r
      BY <1>1
    <2>2. d[i] = c[i + r] /\ d[i + 1] = c[(i + r) + 1]
      <3>1. d[i] = c[i + r] /\ d[i + 1] = c[(i + 1) + r]
        BY <1>5, <2>1
      <3>2. QED
        BY <2>1, <3>1
    <2>3. Leads(i + r, k, d[i], d[i + 1])
      BY <1>1, <2>1, <2>2
    <2>4. Leads(i, m, d[i], d[i + 1])
      BY <1>6, <2>3 DEF Leads
    <2>5. QED
      BY <1>1, <1>4, <2>1, <2>2, <2>4
  <1>8. d[n - r + 1] = sender
    <2> PICK j \in 1 .. n - r + 1 : j = n - r + 1
      BY <1>1, <1>2
    <2>1. d[j] = c[j + r]
      BY <1>5
    <2>2. j + r = n + 1
      BY <1>1
    <2>3. QED
      BY <1>1, <2>1, <2>2
  <1>9. Route(d, m)'
    <2>1. Len(d) = Len(queue') + 1 /\ d[Len(d)] = sender'
      BY <1>4, <1>5, <1>8
    <2>2. \A i \in 1 .. n - r : Leads(i, m, d[i], d[i + 1])'
      BY <1>7 DEF Leads, Skips, Follows
    <2>3. QED
      BY <1>4, <1>6, <1>7, <2>1, <2>2 DEF Route
  <1>10. d[1] = c[r + 1]
    <2>1. 1 \in 1 .. n - r + 1 /\ 1 + r = r + 1
      BY <1>1, <1>2
    <2>2. d[1] = c[1 + r]
      BY <1>5, <2>1
    <2>3. QED
      BY <2>1, <2>2
  <1>11. m \in Nat
    BY <1>1, <1>2
  <1>12. QED
    BY <1>5, <1>9, <1>10, <1>11

\* A turn of the loop on a route.
LEMMA TurnGrip ==
    ASSUME LinkInv, IInv', AnyTurn, Unmistakable, losses' = losses,
           NEW c \in Seq(Places), NEW k \in Nat, Route(c, k), Grip(c[1], k),
           NEW r, r = Read, NEW m, m = IF k < r THEN 0 ELSE k - r
    PROVE  /\ Grip(c[r + 1], m)'
           /\ IsAvailable' => Packet' \in Packets
  <1>1. /\ IInv /\ r \in {1, 2} /\ r <= Len(queue)
        /\ r = 2 => Escapes /\ Head(queue) = queue[1]
    BY TurnFacts DEF LinkInv
  <1>2. /\ Len(queue) \in Nat /\ k \in 0 .. Len(queue)
        /\ \A i \in 1 .. Len(queue) + 1 : c[i] \in Places
        /\ \A i \in 1 .. Len(queue) : /\ ~Sent(c[i]) /\ queue[i] = OnWire(c[i])
                                      /\ Leads(i, k, c[i], c[i + 1])
    BY RouteFacts
  <1>3. /\ 1 \in 1 .. Len(queue) /\ r \in 1 .. Len(queue)
        /\ 1 \in 1 .. Len(queue) + 1 /\ r \in 1 .. Len(queue) + 1
        /\ r + 1 \in 1 .. Len(queue) + 1
    <2> PICK n : n = Len(queue)
      OBVIOUS
    <2>1. n \in Nat /\ r <= n /\ r \in {1, 2}
      BY <1>1, <1>2
    <2>2. /\ 1 \in 1 .. n /\ r \in 1 .. n /\ 1 \in 1 .. n + 1 /\ r \in 1 .. n + 1
          /\ r + 1 \in 1 .. n + 1
      BY ONLY <2>1
    <2>3. QED
      BY <2>2
  <1> PICK f \in Places : f = c[1]
    BY <1>2, <1>3
  <1> PICK w \in Places : w = c[r]
    BY <1>2, <1>3
  <1> PICK h \in Places : h = c[r + 1]
    BY <1>2, <1>3
  <1> PICK g : g = After(w)
    OBVIOUS
  <1>4. /\ ~Sent(f) /\ queue[1] = OnWire(f)
        /\ ~Sent(w) /\ queue[r] = OnWire(w)
        /\ Leads(1, k, f, c[2]) /\ Leads(r, k, w, h)
        /\ r = 1 => w = f
        /\ r = 2 => w = c[2]
    <2>1. 1 + 1 = 2
      OBVIOUS
    <2>2. QED
      BY <1>2, <1>3, <2>1
  <1>5. r = 2 => f.at > 0 /\ ~EndsByte(f) /\ ~Sent(After(f))
    <2> SUFFICES ASSUME r = 2 PROVE f.at > 0 /\ ~EndsByte(f) /\ ~Sent(After(f))
      OBVIOUS
    <2>1. OnWire(f) = ESCAPE
      BY <1>1, <1>4 DEF Escapes
    <2>2. f.at \in Nat
      BY PlaceFacts
    <2>3. f.at = 0 => OnWire(f) # ESCAPE
      BY <1>4, OnWireIs DEF ESCAPE, START_BYTE
    <2>4. f.at > 0
      BY <2>1, <2>2, <2>3
    <2>5. ~EndsByte(f)
      BY <1>4, <2>1, <2>4, OnWireIs
    <2>6. QED
      BY <1>4, <2>4, <2>5, AfterType
  <1>6. ASSUME ~(losses # 0 /\ k = 1 /\ r = 2)
        PROVE  /\ w = IF Read = 2 THEN After(f) ELSE f
               /\ Read = 2 => queue[2] = OnWire(After(f))
    <2>1. CASE r = 1
      BY <1>4, <2>1
    <2>2. CASE r = 2
      <3>1. Follows(f, w)
        BY <1>4, <1>6, <2>2 DEF Leads
      <3>2. w = After(f)
        BY <1>5, <2>2, <3>1 DEF Follows
      <3>3. QED
        BY <1>4, <2>2, <3>2
    <2>3. QED
      BY <1>1, <2>1, <2>2
  <1>7. CASE losses # 0 /\ k = 0
    <2>1. Harmless(f) /\ Follows(w, h)
      BY <1>1, <1>4, <1>7 DEF Grip, Leads
    <2>2. /\ w = IF Read = 2 THEN After(f) ELSE f
          /\ Read = 2 => queue[2] = OnWire(After(f))
      BY <1>6, <1>7
    <2>3. Harmless(g)' /\ (IsAvailable' => Packet' \in Packets)
      BY <1>1, <1>4, <2>1, <2>2, HarmlessTurn
    <2>4. Harmless(h)'
      BY <1>4, <2>1, <2>3, NextAlike
    <2>5. m = 0
      BY <1>1, <1>7
    <2>6. QED
      BY <1>7, <2>3, <2>4, <2>5 DEF Grip
  <1>8. CASE ~(losses # 0 /\ k = 0) /\ ~(losses # 0 /\ k = 1 /\ r = 2)
    <2>1. InStep(f)
      BY <1>8 DEF Grip
    <2>2. /\ w = IF Read = 2 THEN After(f) ELSE f
          /\ Read = 2 => queue[2] = OnWire(After(f))
      BY <1>6, <1>8
    <2>3. /\ w.packet = f.packet
          /\ Debt(g)' <= Debt(f)
          /\ IsLast(w) /\ ~(IsAvailable' /\ Packet' = f.packet)
               => Debt(g)' + 1 <= Debt(f)
          /\ Debt(f) = 0 => ~IsError' /\ (IsAvailable' => IsLast(w))
      BY <1>1, <1>4, <2>2, TurnPays
    <2>4. InStep(g)' /\ (IsAvailable' => Packet' = f.packet)
      <3> PICK x \in 0 .. 3 : x = Debt(g)'
        BY DebtType
      <3>1. /\ x <= 0
            /\ IsLast(w) /\ ~(IsAvailable' /\ Packet' = f.packet) => x + 1 <= 0
            /\ ~IsError' /\ (IsAvailable' => IsLast(w))
        BY <2>1, <2>3 DEF InStep
      <3>2. x = 0 /\ ~(x + 1 <= 0)
        BY <3>1
      <3>3. QED
        BY <3>1, <3>2 DEF InStep
    <2>5. IsAvailable' => Packet' \in Packets
      BY <2>4, PlaceFacts
    <2>6. CASE losses # 0 /\ k = r
      <3>1. PICK l \in Places : ~Sent(l) /\ Follows(w, l) /\ Follows(l, h)
        BY <1>4, <2>6 DEF Leads, Skips
      <3>2. InStep(l)'
        BY <1>4, <2>4, <3>1, NextAlike
      <3>3. LoseStays'
        <4>1. (Unmistakable /\ IInv => LoseStays)'
          BY LoseStaysHolds, PTL
        <4>2. QED
          BY <4>1 DEF Unmistakable
      <3>4. Harmless(After(l))'
        BY <3>1, <3>2, <3>3 DEF LoseStays, Sent, ChecksumAt
      <3>5. Harmless(h)'
        BY <3>1, <3>4, NextAlike
      <3>6. m = 0
        BY <1>1, <2>6
      <3>7. QED
        BY <2>5, <2>6, <3>5, <3>6 DEF Grip
    <2>7. CASE ~(losses # 0 /\ k = r)
      <3>1. Follows(w, h)
        BY <1>4, <2>7 DEF Leads
      <3>2. InStep(h)'
        BY <1>4, <2>4, <3>1, NextAlike
      <3>3. losses = 0 \/ m # 0
        <4> SUFFICES ASSUME losses # 0 PROVE m # 0
          OBVIOUS
        <4>1. k # 0 /\ k # r /\ ~(k = 1 /\ r = 2) /\ k \in Nat
          BY <1>8, <2>7
        <4>2. k > r
          BY <1>1, <4>1
        <4>3. QED
          BY <1>1, <4>1, <4>2
      <3>4. QED
        BY <2>5, <3>2, <3>3 DEF Grip
    <2>8. QED
      BY <2>6, <2>7
  <1>9. CASE losses # 0 /\ k = 1 /\ r = 2
    <2>1. InStep(f)
      BY <1>9 DEF Grip
    <2>2. PICK l \in Places : ~Sent(l) /\ Follows(f, l) /\ Follows(l, w)
      BY <1>4, <1>9 DEF Leads, Skips
    <2>3. Follows(w, h)
      BY <1>4, <1>9 DEF Leads
    <2>4. Harmless(g)' /\ ~IsAvailable'
      BY <1>1, <1>4, <1>9, <2>1, <2>2, MergeTurn
    <2>5. Harmless(h)'
      BY <1>4, <2>3, <2>4, NextAlike
    <2>6. m = 0
      BY <1>9
    <2>7. QED
      BY <1>9, <2>4, <2>5, <2>6 DEF Grip
  <1>10. QED
    BY <1>7, <1>8, <1>9

\* Entering readPacket, and leaving it.
LEMMA CallGrip ==
    ASSUME LinkInv, CallReadPacket \/ OutOfBytes, losses' = losses,
           NEW f, NEW k, Grip(f, k)
    PROVE  queue' = queue /\ Grip(f, k)' /\ ~(~IsAvailable /\ IsAvailable')
  <1>1. queue' = queue /\ checksumTotal' = checksumTotal
    BY DEF CallReadPacket, OutOfBytes
  <1>2. CASE OutOfBytes \/ (CallReadPacket /\ ~(IsAvailable \/ IsError))
    <2>1. pos' = pos /\ escape' = escape /\ response' = response
      BY <1>2 DEF OutOfBytes, CallReadPacket
    <2>2. ~(~IsAvailable /\ IsAvailable')
      BY <2>1 DEF IsAvailable
    <2>3. (Harmless(f) => Harmless(f)') /\ (InStep(f) => InStep(f)')
      BY <1>1, <2>1 DEF Harmless, Spoilt, Bare, Short, InStep, Debt, AtStart, Idle,
                        Stale, InPlace, IsError
    <2>4. QED
      BY <1>1, <2>2, <2>3 DEF Grip
  <1>3. CASE CallReadPacket /\ (IsAvailable \/ IsError)
    <2>1. pos' = 0 /\ response' = ResetResponse
      BY <1>3 DEF CallReadPacket
    <2>2. Idle
      BY <1>3 DEF Idle, LinkInv, IInv, Consistent
    <2>3. Idle' /\ Stale' = Stale /\ ~IsError' /\ ~IsAvailable'
      BY <1>1, <2>1 DEF Idle, Stale, IsError, IsAvailable, ResetResponse
    <2>4. Debt(f)' = Debt(f)
      BY <2>2, <2>3 DEF Debt, AtStart
    <2>5. InStep(f) => InStep(f)'
      BY <2>3, <2>4 DEF InStep
    <2>6. Harmless(f)'
      BY <2>1 DEF Harmless
    <2>7. QED
      BY <1>1, <2>3, <2>5, <2>6 DEF Grip
  <1>4. QED
    BY <1>2, <1>3

\* The parser's part of a step.
LEMMA ReceiveRoute ==
    ASSUME LinkInv, IInv', Receive, Unmistakable, delivered \in Packets,
           NEW c \in Seq(Places), NEW k \in Nat, Route(c, k), Grip(c[1], k)
    PROVE  /\ delivered' \in Packets
           /\ \E d \in Seq(Places), m \in Nat : (Route(d, m) /\ Grip(d[1], m))'
  <1>1. /\ sender' = sender /\ losses' = losses
        /\ delivered' = IF ~IsAvailable /\ IsAvailable' THEN Packet' ELSE delivered
    BY DEF Receive
  <1>2. CASE CallReadPacket \/ OutOfBytes
    <2>1. queue' = queue /\ Grip(c[1], k)' /\ ~(~IsAvailable /\ IsAvailable')
      BY <1>1, <1>2, CallGrip
    <2>2. Route(c, k)'
      BY <1>1, <2>1 DEF Route, Leads, Skips, Follows
    <2>3. QED
      BY <1>1, <2>1, <2>2
  <1>3. CASE AnyTurn
    <2> PICK r \in {1, 2} : r = Read
      BY <1>3, TurnFacts DEF LinkInv
    <2> PICK m : m = IF k < r THEN 0 ELSE k - r
      OBVIOUS
    <2>1. r <= Len(queue) /\ queue' = SubSeq(queue, r + 1, Len(queue))
      BY <1>3, TurnFacts DEF LinkInv
    <2>2. /\ Grip(c[r + 1], m)'
          /\ IsAvailable' => Packet' \in Packets
      BY <1>1, <1>3, TurnGrip
    <2>3. r \in {0, 1, 2}
      OBVIOUS
    <2>4. m \in Nat /\ \E d \in Seq(Places) : Route(d, m)' /\ d[1] = c[r + 1]
      BY <1>1, <2>1, <2>3, RouteDrop
    <2>5. PICK d \in Seq(Places) : Route(d, m)' /\ d[1] = c[r + 1]
      BY <2>4
    <2>6. Grip(d[1], m)'
      BY <2>2, <2>5 DEF Grip, Harmless, Spoilt, Bare, Short, InStep, Debt, AtStart,
                        InPlace
    <2>7. QED
      BY <1>1, <2>2, <2>4, <2>5, <2>6
  <1>4. (CallReadPacket \/ OutOfBytes) \/ AnyTurn
    BY DEF Receive, ReadPacket, AnyTurn, ReadsByte
  <1>5. QED
    BY <1>2, <1>3, <1>4

-----------------------------------------------------------------------------
\* The line starts on a route.
LEMMA GenuineInit == LinkInit => GenuineInv
  <1> SUFFICES ASSUME LinkInit PROVE GenuineInv
    OBVIOUS
  <1>1. LinkInv /\ delivered \in Packets /\ losses = 0
    BY LinkInitInv DEF LinkInit
  <1>2. queue = << >> /\ Len(queue) = 0
    BY EmptySeq DEF LinkInit, Init
  <1>3. PICK c \in Seq(Points) : Trail(c) /\ Tracks(c[1])
    BY <1>1 DEF LinkInv
  <1>4. c[1].place = sender /\ Debt(c[1].place) = 0 /\ ~IsError
    <2>1. c[Len(queue) + 1].place = sender
      BY <1>1, <1>3, TrailFacts
    <2>2. QED
      BY <1>1, <1>2, <1>3, <2>1 DEF Tracks
  <1>5. InStep(sender)
    BY <1>4 DEF InStep
  <1> PICK s \in Places : s = sender
    BY <1>1 DEF LinkInv, LinkType
  <1> PICK d : d = <<s>>
    OBVIOUS
  <1>6. d \in Seq(Places) /\ Len(d) = 1 /\ d[1] = s
    OBVIOUS
  <1>7. Route(d, 0)
    <2>1. 1 .. Len(queue) = {} /\ 0 \in 0 .. Len(queue)
      BY <1>2
    <2>2. Len(d) = Len(queue) + 1 /\ d[Len(d)] = sender
      BY <1>2, <1>6
    <2>3. QED
      BY <2>1, <2>2, Zenon DEF Route
  <1>8. Grip(d[1], 0)
    BY <1>1, <1>5, <1>6 DEF Grip
  <1>9. 0 \in Nat
    OBVIOUS
  <1>10. QED
    BY <1>1, <1>6, <1>7, <1>8, <1>9 DEF GenuineInv

\* Each step keeps the route.
LEMMA GenuineStep ==
    ASSUME LinkInv, LinkInv', GenuineInv, [LinkNext]_allVars
    PROVE  GenuineInv'
  <1> SUFFICES ASSUME Mild'
               PROVE  /\ delivered' \in Packets
                      /\ \E d \in Seq(Places), m \in Nat :
                           (Route(d, m) /\ Grip(d[1], m))'
    BY DEF GenuineInv, Places, Sent, ChecksumAt, Escaped, FrameByte, InPacket
  <1>1. Unmistakable /\ losses' <= 1
    BY DEF Mild, Unmistakable
  <1>2. losses \in Nat /\ IInv'
    BY DEF LinkInv, LinkType
  <1>3. losses <= losses'
    BY <1>2 DEF LinkNext, Arrive, LoseByte, Receive, StartFrame, allVars, linkVars
  <1>4. losses <= 1
    <2>1. losses' \in Nat
      BY DEF LinkInv, LinkType
    <2>2. QED
      BY <1>1, <1>2, <1>3, <2>1
  <1>5. delivered \in Packets
    BY <1>1, <1>4 DEF GenuineInv, Mild
  <1>6. PICK c \in Seq(Places), k \in Nat : Route(c, k) /\ Grip(c[1], k)
    BY <1>1, <1>4 DEF GenuineInv, Mild
  <1>7. CASE Arrive
    <2>1. \E d \in Seq(Places) : (Route(d, k) /\ Grip(d[1], k))'
      BY <1>6, <1>7, RouteArrive
    <2>2. QED
      BY <1>5, <1>7, <2>1 DEF Arrive
  <1>8. CASE LoseByte
    <2>1. \E d \in Seq(Places), m \in Nat : (Route(d, m) /\ Grip(d[1], m))'
      BY <1>1, <1>6, <1>8, RouteLose
    <2>2. QED
      BY <1>5, <1>8, <2>1 DEF LoseByte
  <1>9. CASE Receive
    BY <1>1, <1>2, <1>5, <1>6, <1>9, ReceiveRoute
  <1>10. ASSUME NEW p \in Packets, StartFrame(p)
         PROVE  /\ delivered' \in Packets
                /\ \E d \in Seq(Places), m \in Nat : (Route(d, m) /\ Grip(d[1], m))'
    <2>1. \E d \in Seq(Places) : (Route(d, k) /\ Grip(d[1], k))'
      BY <1>6, <1>10, RouteStart
    <2>2. QED
      BY <1>5, <1>10, <2>1 DEF StartFrame
  <1>11. CASE UNCHANGED allVars
    <2>1. Route(c, k)' /\ delivered' \in Packets
      BY <1>5, <1>6, <1>11 DEF Route, Leads, Skips, Follows, allVars, vars, linkVars
    <2>2. Grip(c[1], k)'
      <3>1. UNCHANGED parser /\ losses' = losses
        BY <1>11 DEF allVars, vars, linkVars
      <3>2. QED
        BY <1>6, <3>1, GripKept DEF Grip
    <2>3. QED
      BY <2>1, <2>2
  <1>12. QED
    BY <1>7, <1>8, <1>9, <1>10, <1>11 DEF LinkNext

\* A packet is delivered only if it was sent, as long as the line has lost no
\* more than one byte of packets that this cannot disguise.
THEOREM OnlyGenuine == LinkSpec => []Genuine
  <1>1. LinkInv /\ LinkInv' /\ GenuineInv /\ [LinkNext]_allVars => GenuineInv'
    BY GenuineStep
  <1>2. GenuineInv => Genuine
    BY DEF GenuineInv, Genuine, Mild
  <1>3. QED
    BY <1>1, <1>2, GenuineInit, LinkInvariance, PTL DEF LinkSpec
=============================================================================
