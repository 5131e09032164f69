------------------------------- MODULE UartRx -------------------------------
(***************************************************************************)
(* The receive half of class uart: the receive interrupt writes every byte *)
(* into rxBuffer without looking whether there is room, and the main       *)
(* program polls dataAvailable and then takes a byte with getChar.  The    *)
(* interrupt may fall between the poll and the read.                       *)
(* circular_buffer.h:8 leaves it to the user to read often enough.         *)
(* A behaviour either has a punctual reader, who does, or one whom the     *)
(* line may outrun for as long as it likes, and the uint8_t count wraps.   *)
(***************************************************************************)
EXTENDS CircularBuffer

VARIABLES punctual, \* the reader of this behaviour is frequent enough
          rx,       \* rxBuffer
          polled,   \* dataAvailable() was not zero, getChar() comes next
          char,     \* the byte getChar() returned last
          backlog,  \* history: what arrived and is not yet read; during an
                    \* overrun no more than the first Capacity of it
          overrun   \* history: the buffer was overrun and not drained since

rxVars == <<punctual, rx, polled, char, backlog, overrun>>

RxInit ==
    /\ punctual \in BOOLEAN
    /\ IsNew(rx)
    /\ polled = FALSE
    /\ char \in Byte
    /\ backlog = << >>
    /\ overrun = FALSE

\* The receive interrupt.  An arrival in a full buffer opens an overrun.
RxInterrupt(c) ==
    /\ punctual => rx.count < Capacity
    /\ rx' = Write(rx, c)
    /\ overrun' = (overrun \/ rx.count >= Capacity)
    /\ backlog' = IF Len(backlog) < Capacity THEN Append(backlog, c) ELSE backlog
    /\ UNCHANGED <<punctual, polled, char>>

\* Mutant: the last byte does not count as available.
Poll_NotLast ==
    /\ ~polled
    /\ polled' = (rx.count > 1)
    /\ overrun' = (overrun /\ rx.count # 0)
    /\ backlog' = IF rx.count = 0 THEN << >> ELSE backlog
    /\ UNCHANGED <<punctual, rx, char>>

\* `while (available())`.  A poll that finds nothing ends an overrun: the
\* reader has seen the buffer empty.
Poll ==
    /\ ~polled
    /\ polled' = (rx.count # 0)
    /\ overrun' = (overrun /\ rx.count # 0)
    /\ backlog' = IF rx.count = 0 THEN << >> ELSE backlog
    /\ UNCHANGED <<punctual, rx, char>>

\* getChar() does not check again.  A read of an empty buffer would wrap the
\* count below zero, which leaves the buffer overrun as well.
GetChar ==
    /\ polled
    /\ char' = Peak(rx)
    /\ rx' = Read(rx)
    /\ polled' = FALSE
    /\ overrun' = (rx.count = 0 \/ (overrun /\ rx.count # 1))
    /\ backlog' = IF rx.count = 1 \/ backlog = << >> THEN << >> ELSE Tail(backlog)
    /\ UNCHANGED punctual

RxNext == Poll \/ GetChar \/ \E c \in Byte : RxInterrupt(c)

(* The main loop never stops polling.                                      *)
RxSpec == RxInit /\ [][RxNext]_rxVars /\ WF_rxVars(Poll) /\ WF_rxVars(GetChar)

-----------------------------------------------------------------------------
(* Type invariant.                                                         *)
RxTypeOK ==
    /\ rx \in Buffer
    /\ punctual \in BOOLEAN
    /\ polled \in BOOLEAN
    /\ char \in Byte
    /\ backlog \in Seq(Byte)
    /\ overrun \in BOOLEAN

(* Outside an overrun the reader gets every byte once and in order, and    *)
(* draining the buffer is enough to end an overrun: the tail and the count *)
(* it leaves behind are as good as those of a new buffer.                  *)
FifoUnlessOverrun == ~overrun => Contents(rx) = backlog

(* With a punctual reader every step of the receiver is a step of the same *)
(* bounded line as the transmitter's: the interrupt accepts at one end and *)
(* getChar delivers at the other.                                          *)
RxLine == INSTANCE FifoLine
    WITH Item <- Byte, Depth <- Capacity, queue <- Contents(rx), line <- char
RxSafeFifoLine == [][punctual => (RxLine!Next \/ UNCHANGED RxLine!vars)]_rxVars

(* And the line keeps its promise of progress: a byte received is read in  *)
(* the end, however many more arrive between a poll and its read.          *)
EveryByteRead == punctual => RxLine!Progress
=============================================================================
