----------------------------- MODULE UartProofs -----------------------------
(***************************************************************************)
(* Theorems about the ring buffer and the two halves of the uart class,    *)
(* for every capacity, alphabet and set of strings: first the ring, then   *)
(* the transmitter, then the receiver, whose names begin with Rx.          *)
(***************************************************************************)
EXTENDS UartTx, UartRx, SequenceTheorems, TLAPS

-----------------------------------------------------------------------------
(* The ring of circular_buffer.h is a queue as long as it stays within its *)
(* capacity, for every capacity and element type.                          *)

\* A counter below its modulus does not wrap.
LEMMA NoWrap ==
    ASSUME NEW n \in Nat, NEW m \in Nat, n < m
    PROVE  n % m = n
  OBVIOUS

\* What the masking of an index by `& (capacity - 1)` does to the indices
\* that occur: it wraps once.
LEMMA WrapOnce ==
    ASSUME NEW n \in Nat, n < 2 * Capacity
    PROVE  /\ n % Capacity = IF n < Capacity THEN n ELSE n - Capacity
           /\ n % Capacity \in 0 .. Capacity - 1
  <1>1. Capacity \in Nat /\ Capacity > 0
    BY CapacityAssumption
  <1>2. CASE n < Capacity
    BY <1>1, <1>2
  <1>3. CASE n >= Capacity
    BY <1>1, <1>3
  <1>4. QED
    BY <1>1, <1>2, <1>3

\* Every position of a buffer within its capacity is an index of data.
LEMMA SlotInRange ==
    ASSUME NEW b \in Buffer, NEW i \in 0 .. Capacity
    PROVE  /\ (b.tail + i) % Capacity \in 0 .. Capacity - 1
           /\ i < Capacity => (b.tail + i) % Capacity =
                   IF b.tail + i < Capacity THEN b.tail + i
                                            ELSE b.tail + i - Capacity
  <1>1. Capacity \in Nat /\ Capacity > 0
    BY CapacityAssumption
  <1>2. b.tail \in 0 .. Capacity - 1
    BY DEF Buffer
  <1>3. /\ b.tail + i \in Nat
        /\ b.tail + i < 2 * Capacity
    BY <1>1, <1>2
  <1>4. QED
    BY <1>1, <1>2, <1>3, WrapOnce

\* The contents of a buffer within its capacity are a sequence of items.
LEMMA ContentsType ==
    ASSUME NEW b \in Buffer, b.count <= Capacity
    PROVE  /\ Contents(b) \in Seq(Byte)
           /\ Len(Contents(b)) = b.count
  <1>1. b.count \in Nat /\ Capacity \in Nat
    BY CapacityAssumption DEF Buffer
  <1>2. ASSUME NEW i \in 1 .. b.count
        PROVE  b.data[(b.tail + i - 1) % Capacity] \in Byte
    <2>1. i - 1 \in 0 .. Capacity
      BY <1>1
    <2>2. (b.tail + (i - 1)) % Capacity \in 0 .. Capacity - 1
      BY <2>1, SlotInRange
    <2>3. b.tail + (i - 1) = b.tail + i - 1
      BY <1>1, CapacityAssumption DEF Buffer
    <2>4. QED
      BY <2>2, <2>3 DEF Buffer
  <1>3. QED
    BY <1>1, <1>2, IsASeq DEF Contents

\* A write to a buffer that is not full appends to its contents.
LEMMA WriteAppends ==
    ASSUME NEW b \in Buffer, b.count < Capacity, NEW c \in Byte
    PROVE  /\ Write(b, c) \in Buffer
           /\ Write(b, c).count = b.count + 1
           /\ Contents(Write(b, c)) = Append(Contents(b), c)
  <1> DEFINE w == Write(b, c)
             h == HeadIndex(b)
  <1>1. /\ Capacity \in Nat /\ Capacity > 0
        /\ CountMod \in Nat /\ 2 * Capacity <= CountMod
    BY CapacityAssumption
  <1>2. /\ b.tail \in 0 .. Capacity - 1
        /\ b.count \in 0 .. CountMod - 1
        /\ b.data \in [0 .. Capacity - 1 -> Byte]
    BY DEF Buffer
  <1>3. /\ (b.tail + b.count) % CountMod = b.tail + b.count
        /\ (b.count + 1) % CountMod = b.count + 1
    <2>1. /\ b.tail + b.count \in Nat /\ b.tail + b.count < CountMod
          /\ b.count + 1 \in Nat /\ b.count + 1 < CountMod
      BY <1>1, <1>2
    <2>2. QED
      BY <1>1, <2>1, NoWrap
  <1>4. h = (b.tail + b.count) % Capacity
    BY <1>3 DEF HeadIndex
  <1>5. h \in 0 .. Capacity - 1
    BY <1>1, <1>2, <1>4, SlotInRange
  <1>6. /\ w.tail = b.tail
        /\ w.count = b.count + 1
        /\ w.data = [b.data EXCEPT ![h] = c]
        /\ w \in Buffer
    <2>1. w = [tail |-> b.tail, count |-> b.count + 1,
               data |-> [b.data EXCEPT ![h] = c]]
      BY <1>3 DEF Write
    <2>2. b.count + 1 \in 0 .. CountMod - 1
      BY <1>1, <1>2
    <2>3. [b.data EXCEPT ![h] = c] \in [0 .. Capacity - 1 -> Byte]
      BY <1>2, <1>5
    <2>4. QED
      BY <1>2, <2>1, <2>2, <2>3 DEF Buffer
  <1>7. /\ Contents(w) \in Seq(Byte) /\ Len(Contents(w)) = b.count + 1
        /\ Contents(b) \in Seq(Byte) /\ Len(Contents(b)) = b.count
    BY <1>1, <1>2, <1>6, ContentsType
  <1>8. ASSUME NEW i \in 1 .. b.count + 1
        PROVE  Contents(w)[i] = Append(Contents(b), c)[i]
    <2>1. i - 1 \in 0 .. Capacity /\ i - 1 < Capacity
      BY <1>1, <1>2
    <2>2. Contents(w)[i] = w.data[(b.tail + (i - 1)) % Capacity]
      <3>1. b.tail + i - 1 = b.tail + (i - 1)
        BY <1>1, <1>2
      <3>2. QED
        BY <1>2, <1>6, <3>1 DEF Contents
    <2>3. CASE i = b.count + 1
      <3>1. (b.tail + (i - 1)) % Capacity = h
        BY <1>2, <1>4, <2>3
      <3>2. w.data[h] = c
        BY <1>2, <1>5, <1>6
      <3>3. Append(Contents(b), c)[Len(Contents(b)) + 1] = c
        BY <1>7, AppendProperties
      <3>4. QED
        BY <1>7, <2>2, <2>3, <3>1, <3>2, <3>3
    <2>4. CASE i \in 1 .. b.count
      <3>1. (b.tail + (i - 1)) % Capacity # h
        <4> DEFINE p == b.tail + (i - 1)
                   q == b.tail + b.count
        <4>1. /\ p \in Nat /\ q \in Nat /\ p < q /\ q < p + Capacity
              /\ p < 2 * Capacity /\ q < 2 * Capacity
          BY <1>1, <1>2, <2>1, <2>4
        <4> HIDE DEF p, q
        <4>2. p % Capacity = IF p < Capacity THEN p ELSE p - Capacity
          BY <1>1, <4>1, WrapOnce
        <4>3. q % Capacity = IF q < Capacity THEN q ELSE q - Capacity
          BY <1>1, <4>1, WrapOnce
        <4>4. p % Capacity # q % Capacity
          BY <1>1, <4>1, <4>2, <4>3
        <4>5. QED
          BY <1>4, <4>4 DEF p, q
      <3>2. (b.tail + (i - 1)) % Capacity \in 0 .. Capacity - 1
        BY <2>1, SlotInRange
      <3>3. w.data[(b.tail + (i - 1)) % Capacity]
              = b.data[(b.tail + (i - 1)) % Capacity]
        BY <1>2, <1>6, <3>1, <3>2
      <3>4. b.tail + i - 1 = b.tail + (i - 1)
        BY <1>1, <1>2
      <3>5. Contents(b)[i] = b.data[(b.tail + (i - 1)) % Capacity]
        BY <2>4, <3>4 DEF Contents
      <3>6. QED
        BY <1>7, <2>2, <2>4, <3>3, <3>5, AppendProperties
    <2>5. i = b.count + 1 \/ i \in 1 .. b.count
      BY <1>1, <1>2
    <2>6. QED
      BY <2>3, <2>4, <2>5
  <1>9. /\ Append(Contents(b), c) \in Seq(Byte)
        /\ Len(Append(Contents(b), c)) = b.count + 1
    BY <1>7, AppendProperties
  <1>10. Contents(w) = Append(Contents(b), c)
    BY <1>7, <1>8, <1>9, SeqEqual
  <1>11. QED
    BY <1>6, <1>10

\* A read of a buffer that is not empty takes away its oldest item.
LEMMA ReadTakesHead ==
    ASSUME NEW b \in Buffer, b.count <= Capacity, b.count # 0
    PROVE  /\ Read(b) \in Buffer
           /\ Read(b).count = b.count - 1
           /\ Peak(b) \in Byte
           /\ Contents(b) # << >>
           /\ Peak(b) = Head(Contents(b))
           /\ Contents(Read(b)) = Tail(Contents(b))
  <1> DEFINE r == Read(b)
  <1>1. /\ Capacity \in Nat /\ Capacity > 0
        /\ CountMod \in Nat /\ 2 * Capacity <= CountMod
    BY CapacityAssumption
  <1>2. /\ b.tail \in 0 .. Capacity - 1
        /\ b.count \in 1 .. Capacity
        /\ b.data \in [0 .. Capacity - 1 -> Byte]
    BY <1>1 DEF Buffer
  <1>3. /\ (b.count - 1) % CountMod = b.count - 1
        /\ (b.tail + 1) % Capacity = IF b.tail + 1 < Capacity
                                       THEN b.tail + 1 ELSE 0
        /\ (b.tail + 1) % Capacity \in 0 .. Capacity - 1
    <2> DEFINE n == b.tail + 1
               m == b.count - 1
    <2>1. /\ n \in Nat /\ n < 2 * Capacity /\ n <= Capacity
          /\ m \in Nat /\ m < CountMod
      BY <1>1, <1>2
    <2> HIDE DEF n, m
    <2>2. /\ n % Capacity = IF n < Capacity THEN n ELSE n - Capacity
          /\ n % Capacity \in 0 .. Capacity - 1
      BY <1>1, <2>1, WrapOnce
    <2>3. m % CountMod = m
      BY <1>1, <2>1, NoWrap
    <2>4. n % Capacity = IF n < Capacity THEN n ELSE 0
      BY <1>1, <2>1, <2>2
    <2>5. QED
      BY <2>2, <2>3, <2>4 DEF n, m
  <1>4. /\ r.tail = (b.tail + 1) % Capacity
        /\ r.count = b.count - 1
        /\ r.data = b.data
        /\ r \in Buffer
    <2>1. r = [tail |-> (b.tail + 1) % Capacity, count |-> b.count - 1,
               data |-> b.data]
      BY <1>3 DEF Read
    <2>2. /\ (b.tail + 1) % Capacity \in 0 .. Capacity - 1
          /\ b.count - 1 \in 0 .. CountMod - 1
      <3>1. b.count - 1 \in 0 .. CountMod - 1
        BY <1>1, <1>2
      <3>2. QED
        BY <1>3, <3>1
    <2>3. QED
      BY <1>2, <2>1, <2>2 DEF Buffer
  <1>5. /\ Contents(r) \in Seq(Byte) /\ Len(Contents(r)) = b.count - 1
        /\ Contents(b) \in Seq(Byte) /\ Len(Contents(b)) = b.count
    BY <1>1, <1>2, <1>4, ContentsType
  <1>6. Contents(b) # << >>
    BY <1>2, <1>5, LenProperties
  <1>7. Peak(b) = Head(Contents(b)) /\ Peak(b) \in Byte
    <2>1. b.tail % Capacity = b.tail /\ b.tail + 1 - 1 = b.tail
      BY <1>1, <1>2, NoWrap
    <2>2. Contents(b)[1] = b.data[b.tail]
      BY <1>1, <1>2, <2>1 DEF Contents
    <2>3. QED
      BY <1>2, <1>5, <1>6, <2>2, HeadTailProperties DEF Peak
  <1>8. ASSUME NEW i \in 1 .. b.count - 1
        PROVE  Contents(r)[i] = Tail(Contents(b))[i]
    <2>1. /\ i \in 0 .. Capacity /\ i < Capacity
          /\ i - 1 \in 0 .. Capacity /\ i - 1 < Capacity
          /\ i + 1 \in 1 .. b.count
      BY <1>1, <1>2
    <2>2. (r.tail + (i - 1)) % Capacity = (b.tail + i) % Capacity
      <3>1. CASE b.tail + 1 < Capacity
        <4>1. r.tail + (i - 1) = b.tail + i
          <5>1. r.tail = b.tail + 1
            BY <1>3, <1>4, <3>1
          <5>2. QED
            BY <1>1, <1>2, <2>1, <5>1
        <4>2. QED
          BY <4>1
      <3>2. CASE b.tail + 1 >= Capacity
        <4> b.tail = Capacity - 1 /\ r.tail = 0
          BY <1>1, <1>2, <1>3, <1>4, <3>2
        <4>1. /\ r.tail + (i - 1) = i - 1
              /\ b.tail + i = i - 1 + Capacity
              /\ i - 1 \in Nat /\ i - 1 < Capacity
          BY <1>1, <2>1
        <4>2. (i - 1) % Capacity = i - 1
          BY <1>1, <4>1, NoWrap
        <4>3. (b.tail + i) % Capacity = b.tail + i - Capacity
          <5>1. ~(b.tail + i < Capacity)
            BY <1>1, <1>2, <2>1, <3>2
          <5>2. QED
            BY <1>1, <1>2, <2>1, <5>1, SlotInRange
        <4>4. QED
          BY <1>1, <2>1, <4>1, <4>2, <4>3
      <3>3. QED
        BY <1>1, <1>2, <3>1, <3>2
    <2>3. Contents(r)[i] = r.data[(r.tail + (i - 1)) % Capacity]
      <3>1. r.tail + i - 1 = r.tail + (i - 1)
        BY <1>1, <1>2, <1>3, <1>4
      <3>2. QED
        BY <1>4, <3>1 DEF Contents
    <2>4. Contents(b)[i + 1] = b.data[(b.tail + i) % Capacity]
      <3>1. b.tail + (i + 1) - 1 = b.tail + i
        BY <1>1, <1>2
      <3>2. QED
        BY <2>1, <3>1 DEF Contents
    <2>5. QED
      BY <1>2, <1>4, <1>5, <1>6, <2>2, <2>3, <2>4, HeadTailProperties
  <1>9. /\ Tail(Contents(b)) \in Seq(Byte)
        /\ Len(Tail(Contents(b))) = b.count - 1
    BY <1>5, <1>6, HeadTailProperties
  <1>10. Contents(r) = Tail(Contents(b))
    BY <1>5, <1>8, <1>9, SeqEqual
  <1>11. QED
    BY <1>4, <1>6, <1>7, <1>10

-----------------------------------------------------------------------------
(* The transmitter.  TypeOK, NoOverrun and NoStall together are inductive: *)
(* NoOverrun needs TypeOK for the counter not to wrap, and the refinement  *)
(* needs all three.                                                        *)

IInv == TypeOK /\ NoOverrun /\ NoStall

\* A byte in front of a sequence is its head, and the sequence the tail.
LEMMA Cons ==
    ASSUME NEW x \in Byte, NEW s \in Seq(Byte)
    PROVE  /\ <<x>> \o s \in Seq(Byte)
           /\ <<x>> \o s # << >>
           /\ Len(<<x>> \o s) = Len(s) + 1
           /\ Head(<<x>> \o s) = x
           /\ Tail(<<x>> \o s) = s
  <1> DEFINE t == <<x>> \o s
  <1>1. <<x>> \in Seq(Byte) /\ Len(<<x>>) = 1 /\ <<x>>[1] = x
    OBVIOUS
  <1>2. Len(s) \in Nat
    BY LenProperties
  <1>3. /\ t \in Seq(Byte)
        /\ Len(t) = Len(s) + 1
        /\ \A i \in 1 .. 1 + Len(s) : t[i] = IF i <= 1 THEN <<x>>[i] ELSE s[i - 1]
    BY <1>1, <1>2, ConcatProperties
  <1>4. t # << >>
    BY <1>2, <1>3, EmptySeq
  <1>5. t[1] = x
    BY <1>1, <1>2, <1>3
  <1>6. Head(t) = x
    BY <1>3, <1>4, <1>5, HeadTailProperties
  <1>7. /\ Tail(t) \in Seq(Byte)
        /\ Len(Tail(t)) = Len(s)
        /\ \A i \in 1 .. Len(Tail(t)) : Tail(t)[i] = t[i + 1]
    BY <1>2, <1>3, <1>4, HeadTailProperties
  <1>8. ASSUME NEW i \in 1 .. Len(s)
        PROVE  Tail(t)[i] = s[i]
    <2>1. i + 1 \in 1 .. 1 + Len(s) /\ ~(i + 1 <= 1) /\ (i + 1) - 1 = i
      BY <1>2
    <2>2. QED
      BY <1>3, <1>7, <2>1
  <1>9. Tail(t) = s
    BY <1>7, <1>8, SeqEqual
  <1>10. QED
    BY <1>3, <1>4, <1>6, <1>9

\* The queue a state stands for, whatever the data register holds.
LEMMA PendingType ==
    ASSUME TypeOK, NoOverrun
    PROVE  /\ Contents(tx) \in Seq(Byte)
           /\ Len(Contents(tx)) = tx.count
           /\ tx.count \in Nat /\ Capacity \in Nat
           /\ Pending \in Seq(Byte)
           /\ reg = Empty => Pending = Contents(tx)
           /\ Len(Pending) <= tx.count + 1
  <1>1. /\ Contents(tx) \in Seq(Byte) /\ Len(Contents(tx)) = tx.count
        /\ tx.count \in Nat /\ Capacity \in Nat
    BY ContentsType, CapacityAssumption DEF TypeOK, NoOverrun, Buffer
  <1>2. CASE reg = Empty
    <2>1. Pending = Contents(tx)
      BY <1>1, <1>2, ConcatEmptySeq DEF Pending
    <2>2. QED
      BY <1>1, <2>1
  <1>3. CASE reg # Empty
    <2>1. reg \in Byte /\ Pending = <<reg>> \o Contents(tx)
      BY <1>3 DEF TypeOK, Pending
    <2>2. QED
      BY <1>1, <1>3, <2>1, Cons
  <1>4. QED
    BY <1>2, <1>3

-----------------------------------------------------------------------------
LEMMA InitInv == Init => IInv
  <1> SUFFICES ASSUME Init PROVE IInv
    OBVIOUS
  <1>1. CountMod \in Nat /\ CountMod > 0 /\ Capacity \in Nat /\ Capacity > 0
    BY CapacityAssumption
  <1>2. /\ 0 \in 0 .. CountMod - 1 /\ 0 <= Capacity
        /\ << >> \in Seq(Byte)
    BY <1>1, EmptySeq
  <1>3. QED
    BY <1>2
       DEF Init, IInv, TypeOK, NoOverrun, NoStall, IsNew, IsEmpty, Pcs

LEMMA NextInv == IInv /\ [Next]_vars => IInv'
  <1> SUFFICES ASSUME IInv, [Next]_vars PROVE IInv'
    OBVIOUS
  <1> USE DEF IInv, TypeOK, NoOverrun, NoStall, Pcs, IsEmpty, IsFull
  <1>1. /\ Capacity \in Nat /\ Capacity > 0 /\ CountMod \in Nat
        /\ 2 * Capacity <= CountMod
        /\ tx.count \in Nat /\ 0 \in 0 .. CountMod - 1
    BY CapacityAssumption DEF Buffer
  <1>2. ASSUME NEW s \in Strings, CallSendString(s) PROVE IInv'
    BY <1>1, <1>2, UartAssumption DEF CallSendString
  <1>3. ASSUME NEW s \in Strings, CallSendStringNonBlocking(s) PROVE IInv'
    BY <1>1, <1>3, UartAssumption DEF CallSendStringNonBlocking
  <1>4. CASE EndOfString
    BY <1>4 DEF EndOfString
  <1>5. CASE GiveUp
    BY <1>5 DEF GiveUp
  <1>6. CASE SeeRoom
    BY <1>1, <1>6 DEF SeeRoom
  <1>7. CASE WriteByte
    <2>1. Head(str) \in Byte /\ Tail(str) \in Seq(Byte)
      BY <1>7, HeadTailProperties DEF WriteByte
    <2>2. tx' \in Buffer /\ tx'.count = tx.count + 1
      BY <1>7, <2>1, WriteAppends DEF WriteByte
    <2>3. (charsSent + 1) % CountMod \in 0 .. CountMod - 1
      BY <1>1
    <2>4. QED
      BY <1>1, <1>7, <2>1, <2>2, <2>3 DEF WriteByte
  <1>8. CASE EnableDre
    BY <1>8 DEF EnableDre
  <1>9. CASE CallFlush
    BY <1>9 DEF CallFlush
  <1>10. CASE FlushReturns
    BY <1>10 DEF FlushReturns
  <1>11. CASE TxInterrupt
    <2>1. CASE IsEmpty(tx)
      BY <1>11, <2>1 DEF TxInterrupt, mainVars
    <2>2. CASE ~IsEmpty(tx)
      <3>1. tx' = Read(tx) /\ reg' = Peak(tx) /\ UNCHANGED <<mainVars, dre, line>>
        BY <1>11, <2>2 DEF TxInterrupt
      <3>2. tx' \in Buffer /\ tx'.count = tx.count - 1 /\ reg' \in Byte
        BY <2>2, <3>1, ReadTakesHead
      <3>3. QED
        BY <1>1, <1>11, <2>2, <3>1, <3>2 DEF TxInterrupt, mainVars
    <2>3. QED
      BY <2>1, <2>2
  <1>12. CASE ShiftOut
    BY <1>12 DEF ShiftOut, mainVars
  <1>13. CASE UNCHANGED vars
    BY <1>13 DEF vars
  <1>14. QED
    BY <1>2, <1>3, <1>4, <1>5, <1>6, <1>7, <1>8, <1>9, <1>10, <1>11, <1>12,
       <1>13 DEF Next, Call, Main

THEOREM Invariance == Spec => []IInv
  <1>1. QED
    BY InitInv, NextInv, PTL DEF Spec

\* Every variable keeps its type: the counter of txBuffer never wraps.
THEOREM TypeCorrect == Spec => []TypeOK
  <1>1. IInv => TypeOK
    BY DEF IInv
  <1>2. QED
    BY <1>1, Invariance, PTL

\* sendChar never writes to a full txBuffer.
THEOREM NeverOverrun == Spec => []NoOverrun
  <1>1. IInv => NoOverrun
    BY DEF IInv
  <1>2. QED
    BY <1>1, Invariance, PTL

\* The DRE interrupt is on whenever a byte waits in txBuffer.
THEOREM NeverStalls == Spec => []NoStall
  <1>1. IInv => NoStall
    BY DEF IInv
  <1>2. QED
    BY <1>1, Invariance, PTL

-----------------------------------------------------------------------------
(* Refinement of the bounded line.                                         *)

LEMMA InitRefines == Init => Abstract!Init
  <1> SUFFICES ASSUME Init PROVE Abstract!Init
    OBVIOUS
  <1>1. IInv
    BY InitInv
  <1>2. Pending = Contents(tx) /\ Contents(tx) \in Seq(Byte)
        /\ Len(Contents(tx)) = 0
    BY <1>1, PendingType DEF IInv, Init, IsNew
  <1>3. QED
    BY <1>2, EmptySeq DEF Init, Abstract!Init

LEMMA StepRefines == IInv /\ [Next]_vars => [Abstract!Next]_(Abstract!vars)
  <1> SUFFICES ASSUME IInv, [Next]_vars
               PROVE  [Abstract!Next]_(Abstract!vars)
    OBVIOUS
  <1> USE DEF IInv
  <1>1. CASE UNCHANGED <<tx, reg, line>>
    BY <1>1 DEF Abstract!vars, Pending, Contents
  <1>2. CASE WriteByte
    <2> DEFINE c == Head(str)
    <2>1. c \in Byte
      BY <1>2, HeadTailProperties DEF WriteByte, TypeOK
    <2>2. Contents(tx') = Append(Contents(tx), c)
      BY <1>2, <2>1, WriteAppends DEF WriteByte, TypeOK, NoOverrun
    <2>3. /\ Contents(tx) \in Seq(Byte) /\ Len(Pending) < Capacity + 1
      BY <1>2, PendingType DEF WriteByte, NoOverrun
    <2>4. Pending' = Append(Pending, c)
      <3>1. CASE reg = Empty
        <4>1. /\ Append(Contents(tx), c) \in Seq(Byte)
              /\ Pending' = << >> \o Append(Contents(tx), c)
              /\ Pending = << >> \o Contents(tx)
          BY <1>2, <2>1, <2>2, <2>3, <3>1, AppendProperties DEF WriteByte, Pending
        <4>2. QED
          BY <2>3, <4>1, ConcatEmptySeq
      <3>2. CASE reg # Empty
        <4> DEFINE C == Contents(tx)
        <4>1. reg \in Byte /\ <<reg>> \in Seq(Byte) /\ <<c>> \in Seq(Byte)
          BY <2>1, <3>2 DEF TypeOK
        <4>2. /\ Pending = <<reg>> \o C
              /\ Pending' = <<reg>> \o Append(C, c)
          BY <1>2, <2>2, <3>2 DEF WriteByte, Pending
        <4>3. /\ Append(C, c) = C \o <<c>>
              /\ <<reg>> \o C \in Seq(Byte)
          BY <2>1, <2>3, <4>1, AppendIsConcat, ConcatProperties
        <4>4. <<reg>> \o (C \o <<c>>) = (<<reg>> \o C) \o <<c>>
          BY <2>3, <4>1, ConcatAssociative
        <4>5. (<<reg>> \o C) \o <<c>> = Append(<<reg>> \o C, c)
          BY <2>1, <4>3, AppendIsConcat
        <4>6. QED
          BY <4>2, <4>3, <4>4, <4>5
      <3>3. QED
        BY <3>1, <3>2
    <2>5. Abstract!Accept(c)
      BY <1>2, <2>3, <2>4 DEF Abstract!Accept, WriteByte
    <2>6. QED
      BY <2>1, <2>5 DEF Abstract!Next
  <1>3. CASE TxInterrupt /\ tx.count # 0
    <2>1. /\ tx' = Read(tx) /\ reg = Empty /\ reg' = Peak(tx)
          /\ line' = line
      BY <1>3 DEF TxInterrupt, IsEmpty
    <2>2. /\ Peak(tx) \in Byte
          /\ Contents(tx) # << >>
          /\ Peak(tx) = Head(Contents(tx))
          /\ Contents(tx') = Tail(Contents(tx))
      BY <1>3, <2>1, ReadTakesHead DEF TypeOK, NoOverrun
    <2>3. Contents(tx) \in Seq(Byte) /\ Pending = Contents(tx)
      BY <2>1, PendingType
    <2>4. Pending' = <<Head(Contents(tx))>> \o Tail(Contents(tx))
      BY <2>1, <2>2, UartAssumption DEF Pending
    <2>5. Pending' = Pending
      <3> DEFINE C == Contents(tx)
      <3>1. /\ 1 \in 1 .. Len(C) /\ Len(C) \in Nat
        BY <2>2, <2>3, EmptySeq
      <3>2. SubSeq(C, 1, Len(C)) = <<C[1]>> \o SubSeq(C, 1 + 1, Len(C))
        BY <2>3, <3>1, SubSeqRecursiveFirst
      <3>3. SubSeq(C, 1, Len(C)) = C /\ SubSeq(C, 2, Len(C)) = Tail(C)
        BY <2>2, <2>3, SubSeqFull, TailIsSubSeq
      <3>4. C[1] = Head(C)
        BY <2>2, <2>3
      <3>5. QED
        BY <2>3, <2>4, <3>2, <3>3, <3>4
    <2>6. QED
      BY <2>1, <2>5 DEF Abstract!vars
  <1>4. CASE ShiftOut
    <2>1. /\ reg \in Byte /\ reg # Empty /\ reg' = Empty /\ line' = reg
          /\ tx' = tx
      BY <1>4 DEF ShiftOut, TypeOK
    <2>2. Contents(tx) \in Seq(Byte)
      BY PendingType
    <2>3. /\ Pending = <<reg>> \o Contents(tx)
          /\ Pending' = Contents(tx)
      BY <2>1, <2>2, ConcatEmptySeq DEF Pending
    <2>4. Pending # << >> /\ Head(Pending) = reg /\ Tail(Pending) = Contents(tx)
      BY <2>1, <2>2, <2>3, Cons
    <2>5. QED
      BY <2>1, <2>3, <2>4 DEF Abstract!Next, Abstract!Deliver
  <1>5. QED
    BY <1>1, <1>2, <1>3, <1>4
       DEF Next, Call, Main, CallSendString, CallSendStringNonBlocking,
           EndOfString, GiveUp, SeeRoom, EnableDre, CallFlush, FlushReturns,
           TxInterrupt, IsEmpty, vars

\* The transmitter implements the bounded first-in first-out line: nothing is
\* lost, doubled or reordered between sendChar and the wire.  That the line
\* also moves (the fairness of FifoLine) is left to TLC.
THEOREM Refinement == Spec => SafeFifoLine
  <1>1. QED
    BY InitRefines, StepRefines, Invariance, PTL DEF Spec, SafeFifoLine

-----------------------------------------------------------------------------
(* The receiver.  Outside an overrun the buffer stands for the bytes that  *)
(* came and were not read; a reader who is frequent enough never has an    *)
(* overrun; and what the reader has polled is still there when it reads.   *)
RxInv ==
    /\ RxTypeOK
    /\ ~overrun => rx.count <= Capacity /\ Contents(rx) = backlog
    /\ punctual => ~overrun
    /\ polled /\ ~overrun => rx.count # 0

\* Whatever its count has come to, a ring stays a ring.
LEMMA RingType ==
    ASSUME NEW b \in Buffer, NEW c \in Byte
    PROVE  /\ Peak(b) \in Byte
           /\ Read(b) \in Buffer
           /\ Write(b, c) \in Buffer
  <1>1. /\ Capacity \in Nat /\ Capacity > 0
        /\ CountMod \in Nat /\ CountMod > 0
    BY CapacityAssumption
  <1>2. /\ b.tail \in 0 .. Capacity - 1
        /\ b.count \in 0 .. CountMod - 1
        /\ b.data \in [0 .. Capacity - 1 -> Byte]
    BY DEF Buffer
  <1>3. \A x \in Int : x % Capacity \in 0 .. Capacity - 1 /\ x % CountMod \in 0 .. CountMod - 1
    BY <1>1
  <1>4. /\ b.tail + 1 \in Int /\ b.count - 1 \in Int /\ b.count + 1 \in Int
        /\ b.tail + b.count \in Int
    BY <1>1, <1>2
  <1>5. HeadIndex(b) \in 0 .. Capacity - 1
    <2>1. (b.tail + b.count) % CountMod \in Int
      BY <1>1, <1>3, <1>4
    <2>2. QED
      BY <1>3, <2>1 DEF HeadIndex
  <1>6. [b.data EXCEPT ![HeadIndex(b)] = c] \in [0 .. Capacity - 1 -> Byte]
    BY <1>2, <1>5
  <1>7. QED
    BY <1>2, <1>3, <1>4, <1>6 DEF Buffer, Peak, Read, Write

\* A ring that has been drained stands for nothing.
LEMMA DrainedRing ==
    ASSUME NEW b \in Buffer, b.count = 0
    PROVE  Contents(b) = << >> /\ b.count <= Capacity
  <1>1. Capacity \in Nat
    BY CapacityAssumption
  <1>2. Contents(b) \in Seq(Byte) /\ Len(Contents(b)) = 0
    BY <1>1, ContentsType
  <1>3. QED
    BY <1>1, <1>2, EmptySeq

\* A read in front of the last byte, or of none, drains the ring or wraps it.
LEMMA ReadCount ==
    ASSUME NEW b \in Buffer, b.count = 1
    PROVE  Read(b).count = 0
  <1>1. CountMod \in Nat /\ CountMod > 0
    BY CapacityAssumption
  <1>2. 0 % CountMod = 0
    BY <1>1
  <1>3. QED
    BY <1>2 DEF Read

LEMMA RxInitInv == RxInit => RxInv
  <1> SUFFICES ASSUME RxInit PROVE RxInv
    OBVIOUS
  <1>1. rx \in Buffer /\ rx.count = 0 /\ polled = FALSE /\ overrun = FALSE
        /\ backlog = << >> /\ char \in Byte /\ punctual \in BOOLEAN
    BY DEF RxInit, IsNew
  <1>2. << >> \in Seq(Byte)
    BY EmptySeq
  <1>3. QED
    BY <1>1, <1>2, DrainedRing DEF RxInv, RxTypeOK

\* What the receive interrupt does to the ring of a reader in time.
LEMMA RxAccepts ==
    ASSUME RxInv, NEW c \in Byte, RxInterrupt(c), ~overrun'
    PROVE  /\ ~overrun /\ rx.count < Capacity
           /\ rx'.count = rx.count + 1
           /\ Contents(rx') = Append(Contents(rx), c)
           /\ backlog' = Append(backlog, c)
  <1>1. rx \in Buffer /\ rx.count \in Nat /\ Capacity \in Nat
    BY CapacityAssumption DEF RxInv, RxTypeOK, Buffer
  <1>2. ~overrun /\ ~(rx.count >= Capacity) /\ rx' = Write(rx, c)
    BY DEF RxInterrupt
  <1>3. rx.count < Capacity /\ Contents(rx) = backlog
    BY <1>1, <1>2 DEF RxInv
  <1>4. Len(backlog) = rx.count
    BY <1>1, <1>3, ContentsType
  <1>5. Len(backlog) < Capacity
    BY <1>3, <1>4
  <1>6. backlog' = Append(backlog, c)
    BY <1>5 DEF RxInterrupt
  <1>7. QED
    BY <1>1, <1>2, <1>3, <1>6, WriteAppends

\* And what getChar does.
LEMMA RxDelivers ==
    ASSUME RxInv, GetChar, ~overrun
    PROVE  /\ rx'.count = rx.count - 1 /\ rx.count \in 1 .. Capacity
           /\ Contents(rx) # << >>
           /\ char' = Head(Contents(rx))
           /\ Contents(rx') = Tail(Contents(rx))
           /\ backlog' = Tail(backlog)
  <1>1. rx \in Buffer /\ rx.count \in Nat /\ Capacity \in Nat
    BY CapacityAssumption DEF RxInv, RxTypeOK, Buffer
  <1>2. rx.count # 0 /\ rx.count <= Capacity /\ Contents(rx) = backlog
    BY DEF RxInv, GetChar
  <1>3. rx' = Read(rx) /\ char' = Peak(rx)
    BY DEF GetChar
  <1>4. /\ rx'.count = rx.count - 1
        /\ Contents(rx) # << >>
        /\ char' = Head(Contents(rx))
        /\ Contents(rx') = Tail(Contents(rx))
    BY <1>1, <1>2, <1>3, ReadTakesHead
  <1>5. backlog' = Tail(backlog)
    <2>1. CASE rx.count = 1
      <3>1. rx' \in Buffer /\ rx'.count = 0
        BY <1>1, <1>3, <2>1, ReadCount, ReadTakesHead, <1>2
      <3>2. Contents(rx') = << >>
        BY <3>1, DrainedRing
      <3>3. QED
        BY <1>2, <1>4, <2>1, <3>2 DEF GetChar
    <2>2. CASE rx.count # 1
      BY <1>2, <1>4, <2>2 DEF GetChar
    <2>3. QED
      BY <2>1, <2>2
  <1>6. QED
    BY <1>1, <1>2, <1>4, <1>5

LEMMA RxNextType == RxInv /\ [RxNext]_rxVars => RxTypeOK'
  <1> SUFFICES ASSUME RxInv, [RxNext]_rxVars PROVE RxTypeOK'
    OBVIOUS
  <1>1. /\ rx \in Buffer /\ punctual \in BOOLEAN /\ polled \in BOOLEAN
        /\ char \in Byte /\ backlog \in Seq(Byte) /\ overrun \in BOOLEAN
    BY DEF RxInv, RxTypeOK
  <1>2. << >> \in Seq(Byte)
    BY EmptySeq
  <1> SUFFICES /\ rx' \in Buffer /\ punctual' \in BOOLEAN /\ polled' \in BOOLEAN
               /\ char' \in Byte /\ backlog' \in Seq(Byte) /\ overrun' \in BOOLEAN
    BY DEF RxTypeOK
  <1>3. CASE Poll
    BY <1>1, <1>2, <1>3 DEF Poll
  <1>4. CASE GetChar
    <2>1. Tail(backlog) \in Seq(Byte) \/ backlog = << >>
      BY <1>1, HeadTailProperties
    <2>2. rx' \in Buffer /\ char' \in Byte
      BY <1>1, <1>4, RingType DEF GetChar
    <2>3. QED
      BY <1>1, <1>2, <1>4, <2>1, <2>2 DEF GetChar
  <1>5. ASSUME NEW c \in Byte, RxInterrupt(c)
        PROVE  /\ rx' \in Buffer /\ punctual' \in BOOLEAN /\ polled' \in BOOLEAN
               /\ char' \in Byte /\ backlog' \in Seq(Byte) /\ overrun' \in BOOLEAN
    <2>1. Append(backlog, c) \in Seq(Byte)
      BY <1>1, AppendProperties
    <2>2. rx' \in Buffer
      BY <1>1, <1>5, RingType DEF RxInterrupt
    <2>3. QED
      BY <1>1, <1>5, <2>1, <2>2 DEF RxInterrupt
  <1>6. CASE UNCHANGED rxVars
    BY <1>1, <1>6 DEF rxVars
  <1>7. QED
    BY <1>3, <1>4, <1>5, <1>6 DEF RxNext

LEMMA RxNextInv == RxInv /\ [RxNext]_rxVars => RxInv'
  <1> SUFFICES ASSUME RxInv, [RxNext]_rxVars PROVE RxInv'
    OBVIOUS
  <1> DEFINE Rest == /\ ~overrun => rx.count <= Capacity /\ Contents(rx) = backlog
                     /\ punctual => ~overrun
                     /\ polled /\ ~overrun => rx.count # 0
  <1>1. RxTypeOK'
    BY RxNextType
  <1> SUFFICES Rest'
    BY <1>1 DEF RxInv
  <1>2. /\ rx \in Buffer /\ rx.count \in Nat /\ Capacity \in Nat
        /\ punctual \in BOOLEAN /\ overrun \in BOOLEAN /\ char \in Byte
    BY CapacityAssumption DEF RxInv, RxTypeOK, Buffer
  <1>3. CASE Poll
    BY <1>2, <1>3, DrainedRing DEF Poll, RxInv
  <1>4. CASE GetChar
    <2>1. punctual' = punctual /\ ~polled'
      BY <1>4 DEF GetChar
    <2>2. CASE overrun
      <3>1. ~punctual
        BY <2>2 DEF RxInv
      <3>2. CASE rx.count = 1
        <4>1. rx' \in Buffer /\ rx'.count = 0
          BY <1>2, <1>4, <3>2, ReadCount, RingType DEF GetChar
        <4>2. backlog' = << >>
          BY <1>4, <3>2 DEF GetChar
        <4>3. QED
          BY <2>1, <3>1, <4>1, <4>2, DrainedRing
      <3>3. CASE rx.count # 1
        <4>1. overrun'
          BY <1>4, <2>2, <3>3, Zenon DEF GetChar
        <4>2. QED
          BY <2>1, <3>1, <4>1
      <3>4. QED
        BY <3>2, <3>3
    <2>3. CASE ~overrun
      <3>1. /\ rx'.count = rx.count - 1 /\ rx.count \in 1 .. Capacity
            /\ Contents(rx') = Tail(Contents(rx)) /\ backlog' = Tail(backlog)
        BY <1>4, <2>3, RxDelivers
      <3>2. Contents(rx) = backlog
        BY <2>3 DEF RxInv
      <3>3. ~overrun'
        <4>1. rx.count # 0
          BY <3>1
        <4>2. QED
          BY <1>4, <2>3, <4>1, Zenon DEF GetChar
      <3>4. QED
        BY <1>2, <2>1, <3>1, <3>2, <3>3
    <2>4. QED
      BY <1>2, <2>2, <2>3
  <1>5. ASSUME NEW c \in Byte, RxInterrupt(c) PROVE Rest'
    <2>1. punctual' = punctual /\ polled' = polled
      BY <1>5 DEF RxInterrupt
    <2>2. CASE overrun'
      <3>1. ~punctual
        BY <1>2, <1>5, <2>2 DEF RxInterrupt, RxInv
      <3>2. QED
        BY <2>1, <2>2, <3>1
    <2>3. CASE ~overrun'
      <3>1. /\ ~overrun /\ rx.count < Capacity /\ rx'.count = rx.count + 1
            /\ Contents(rx') = Append(Contents(rx), c) /\ backlog' = Append(backlog, c)
        BY <1>5, <2>3, RxAccepts
      <3>2. Contents(rx) = backlog
        BY <3>1 DEF RxInv
      <3>3. QED
        BY <1>2, <2>3, <3>1, <3>2
    <2>4. QED
      BY <2>2, <2>3
  <1>6. CASE UNCHANGED rxVars
    BY <1>6 DEF rxVars, RxInv, Contents
  <1>7. QED
    BY <1>3, <1>4, <1>5, <1>6 DEF RxNext

(* The invariant of the receiver: the ring, the history and the two flags  *)
(* agree in every reachable state.                                         *)
THEOREM RxInvariance == RxSpec => []RxInv
  <1>1. QED
    BY RxInitInv, RxNextInv, PTL DEF RxSpec

(* rxBuffer keeps its type, although the receive interrupt never looks     *)
(* whether there is room: a count that wraps leaves every index in range.  *)
THEOREM RxTypeCorrect == RxSpec => []RxTypeOK
  <1>1. RxInv => RxTypeOK
    BY DEF RxInv
  <1>2. QED
    BY <1>1, RxInvariance, PTL

(* Outside an overrun the reader gets every byte once and in order, and    *)
(* draining the buffer is enough to end an overrun.                        *)
THEOREM RxInOrder == RxSpec => []FifoUnlessOverrun
  <1>1. RxInv => FifoUnlessOverrun
    BY DEF RxInv, FifoUnlessOverrun
  <1>2. QED
    BY <1>1, RxInvariance, PTL

LEMMA RxStepRefines ==
    ASSUME RxInv, [RxNext]_rxVars, punctual
    PROVE  RxLine!Next \/ UNCHANGED RxLine!vars
  <1>1. rx \in Buffer /\ ~overrun /\ rx.count <= Capacity
    BY DEF RxInv, RxTypeOK
  <1>2. CASE Poll
    BY <1>2 DEF Poll, RxLine!vars, Contents
  <1>3. CASE GetChar
    <2>1. /\ Contents(rx) # << >>
          /\ char' = Head(Contents(rx))
          /\ Contents(rx') = Tail(Contents(rx))
      BY <1>1, <1>3, RxDelivers
    <2>2. RxLine!Deliver
      BY <2>1 DEF RxLine!Deliver, Contents
    <2>3. QED
      BY <2>2 DEF RxLine!Next
  <1>4. ASSUME NEW c \in Byte, RxInterrupt(c) PROVE RxLine!Accept(c)
    <2>1. ~overrun'
      BY <1>1, <1>4, RxNextInv DEF RxInterrupt, RxInv
    <2>2. Contents(rx') = Append(Contents(rx), c) /\ rx.count < Capacity
      BY <1>4, <2>1, RxAccepts
    <2>3. Len(Contents(rx)) < Capacity
      BY <1>1, <2>2, ContentsType
    <2>4. char' = char
      BY <1>4 DEF RxInterrupt
    <2>5. QED
      BY <2>2, <2>3, <2>4 DEF RxLine!Accept, Contents
  <1>5. CASE UNCHANGED rxVars
    BY <1>5 DEF rxVars, RxLine!vars, Contents
  <1>6. QED
    BY <1>2, <1>3, <1>4, <1>5 DEF RxNext, RxLine!Next

(* With a reader who is frequent enough the receiver takes only steps of   *)
(* the bounded first-in first-out line: nothing is lost, doubled or        *)
(* reordered between the interrupt and getChar.                            *)
THEOREM RxRefinement == RxSpec => RxSafeFifoLine
  <1>1. RxInv /\ [RxNext]_rxVars
          => [punctual => (RxLine!Next \/ UNCHANGED RxLine!vars)]_rxVars
    BY RxStepRefines
  <1>2. QED
    BY <1>1, RxInvariance, PTL DEF RxSpec, RxSafeFifoLine
=============================================================================
