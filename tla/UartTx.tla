------------------------------- MODULE UartTx -------------------------------
(***************************************************************************)
(* The transmit half of class uart (serial.h, serial.cpp): the main        *)
(* program puts bytes into txBuffer and switches the data-register-empty   *)
(* (DRE) interrupt on; the interrupt handler moves one byte per interrupt  *)
(* to the data register and switches itself off when it finds nothing.     *)
(* The handler may run between any two steps of the main program, so the   *)
(* test, the write and the switching-on of sendChar are three steps.       *)
(* Only the main program sends: the one task that would is not registered  *)
(* (main.cpp:77).                                                          *)
(***************************************************************************)
EXTENDS CircularBuffer

CONSTANTS Strings,     \* the strings the main program sends
          Empty        \* the data register holds no byte

ASSUME UartAssumption ==
    /\ Strings \subseteq Seq(Byte)
    /\ Empty \notin Byte

VARIABLES tx,         \* txBuffer
          pc,         \* where the main program stands
          str,        \* the part of the string not yet written
          blocking,   \* sendString or sendStringNonBlocking
          charsSent,  \* the local of sendStringNonBlocking
          dre,        \* CTRLA: the DRE interrupt is enabled
          reg,        \* DATA: the byte waiting for the shift register
          line        \* the byte the shift register sent last

vars == <<tx, pc, str, blocking, charsSent, dre, reg, line>>
mainVars == <<pc, str, blocking, charsSent>>

Pcs == {"idle", "loop", "write", "enable", "flush"}

Init ==
    /\ IsNew(tx)
    /\ pc = "idle"
    /\ str = << >>
    /\ blocking = TRUE
    /\ charsSent = 0
    /\ dre = FALSE
    /\ reg = Empty
    /\ line \in Byte

-----------------------------------------------------------------------------
(* The main program.                                                       *)

\* sendString: one sendChar per character.  sendChar is a string of one.
CallSendString(s) ==
    /\ pc = "idle"
    /\ pc' = "loop" /\ str' = s /\ blocking' = TRUE /\ charsSent' = 0
    /\ UNCHANGED <<tx, dre, reg, line>>

CallSendStringNonBlocking(s) ==
    /\ pc = "idle"
    /\ pc' = "loop" /\ str' = s /\ blocking' = FALSE /\ charsSent' = 0
    /\ UNCHANGED <<tx, dre, reg, line>>

\* `while (*str)` ends.
EndOfString ==
    /\ pc = "loop" /\ str = << >>
    /\ pc' = "idle"
    /\ UNCHANGED <<tx, str, blocking, charsSent, dre, reg, line>>

\* The non-blocking form gives up at the first full buffer ...
GiveUp ==
    /\ pc = "loop" /\ str # << >> /\ ~blocking
    /\ IsFull(tx)
    /\ pc' = "idle"
    /\ UNCHANGED <<tx, str, blocking, charsSent, dre, reg, line>>

\* Mutant: sendChar does not wait for room.
SeeRoom_NoWait ==
    /\ pc = "loop" /\ str # << >>
    /\ pc' = "write"
    /\ UNCHANGED <<tx, str, blocking, charsSent, dre, reg, line>>

\* ... and the blocking one leaves its busy loop when it sees room.
SeeRoom ==
    /\ pc = "loop" /\ str # << >>
    /\ ~IsFull(tx)
    /\ pc' = "write"
    /\ UNCHANGED <<tx, str, blocking, charsSent, dre, reg, line>>

WriteByte ==
    /\ pc = "write"
    /\ tx' = Write(tx, Head(str))
    /\ str' = Tail(str)
    /\ charsSent' = (charsSent + 1) % CountMod
    /\ pc' = "enable"
    /\ UNCHANGED <<blocking, dre, reg, line>>

\* Mutant: the interrupt is not switched on.
EnableDre_Forgotten ==
    /\ pc = "enable"
    /\ pc' = "loop"
    /\ UNCHANGED <<tx, str, blocking, charsSent, dre, reg, line>>

EnableDre ==
    /\ pc = "enable"
    /\ dre' = TRUE
    /\ pc' = "loop"
    /\ UNCHANGED <<tx, str, blocking, charsSent, reg, line>>

CallFlush ==
    /\ pc = "idle"
    /\ pc' = "flush"
    /\ UNCHANGED <<tx, str, blocking, charsSent, dre, reg, line>>

FlushReturns ==
    /\ pc = "flush"
    /\ IsEmpty(tx)
    /\ pc' = "idle"
    /\ UNCHANGED <<tx, str, blocking, charsSent, dre, reg, line>>

Main == \/ EndOfString \/ GiveUp \/ SeeRoom \/ WriteByte \/ EnableDre
        \/ FlushReturns

Call == \/ CallFlush
        \/ \E s \in Strings : CallSendString(s) \/ CallSendStringNonBlocking(s)

-----------------------------------------------------------------------------
(* The interrupt handler and the hardware.                                 *)

\* Mutant: the handler switches itself off over the last byte.
TxInterrupt_OffTooSoon ==
    /\ dre /\ reg = Empty
    /\ \/ /\ tx.count <= 1
          /\ dre' = FALSE
          /\ UNCHANGED <<tx, reg>>
       \/ /\ tx.count > 1
          /\ reg' = Peak(tx)
          /\ tx' = Read(tx)
          /\ UNCHANGED dre
    /\ UNCHANGED <<mainVars, line>>

TxInterrupt ==
    /\ dre /\ reg = Empty
    /\ \/ /\ IsEmpty(tx)
          /\ dre' = FALSE
          /\ UNCHANGED <<tx, reg>>
       \/ /\ ~IsEmpty(tx)
          /\ reg' = Peak(tx)
          /\ tx' = Read(tx)
          /\ UNCHANGED dre
    /\ UNCHANGED <<mainVars, line>>

ShiftOut ==
    /\ reg # Empty
    /\ line' = reg
    /\ reg' = Empty
    /\ UNCHANGED <<tx, mainVars, dre>>

Next == Call \/ Main \/ TxInterrupt \/ ShiftOut

(* The CPU executes the next instruction of the main program, a pending    *)
(* interrupt is served, and the baud clock runs.  Nobody has to send.      *)
Fairness == WF_vars(Main) /\ WF_vars(TxInterrupt) /\ WF_vars(ShiftOut)

Spec == Init /\ [][Next]_vars /\ Fairness

-----------------------------------------------------------------------------
(* Type invariant.                                                         *)
TypeOK ==
    /\ tx \in Buffer
    /\ pc \in Pcs
    /\ str \in Seq(Byte)
    /\ pc = "write" => str # << >>
    /\ blocking \in BOOLEAN
    /\ charsSent \in 0 .. CountMod - 1
    /\ dre \in BOOLEAN
    /\ reg \in Byte \cup {Empty}
    /\ line \in Byte

(* circular_buffer.h:8 leaves overflow to the user.  Although the test of  *)
(* isFull and the write are apart, the transmit buffer never passes its    *)
(* capacity, and a caller about to write still has room.                   *)
NoOverrun ==
    /\ tx.count <= Capacity
    /\ pc = "write" => tx.count < Capacity

(* A byte in the buffer always has the interrupt on that will take it      *)
(* away, except between the write and the switching-on of its sender: the  *)
(* handler that switches itself off never does so over a byte.             *)
NoStall == ~IsEmpty(tx) /\ pc # "enable" => dre

(* The bytes accepted and not yet on the wire, oldest first.               *)
Pending == (IF reg = Empty THEN << >> ELSE <<reg>>) \o Contents(tx)

(* The transmitter is a bounded first-in first-out line, with its promise  *)
(* that every accepted byte is delivered: nothing is lost, doubled or      *)
(* reordered between sendChar and the wire, however the handler falls.     *)
Abstract == INSTANCE FifoLine
    WITH Item <- Byte, Depth <- Capacity + 1, queue <- Pending
ImplementsFifoLine == Abstract!Spec
SafeFifoLine == Abstract!Init /\ [][Abstract!Next]_(Abstract!vars)

(* Every call returns: the busy loops of sendChar and flush end, because   *)
(* the interrupt they wait for is on.                                      *)
CallsReturn == pc # "idle" ~> pc = "idle"
=============================================================================
