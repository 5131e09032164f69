-------------------------- MODULE AnimationMachine --------------------------
(***************************************************************************)
(* The machine of animation.cpp that runs uploaded programs, an action for *)
(* each group of its instructions, and the frame of main.cpp around it:    *)
(* the program runs until it gives control back or the watchdog runs out,  *)
(* then the LEDs are computed from the vectors.  Between frames another    *)
(* program may be swapped in, when the machine keeps all but its PC, and   *)
(* a command to the keyframe runner may put out the vectors.               *)
(* An instruction is a record of its mnemonic, the flag that sends the     *)
(* result to wreg, and the argument.                                       *)
(***************************************************************************)
EXTENDS Renderer

CONSTANTS CodeSize,     \* words in a program buffer: 256
          WatchDog,     \* instructions in a call: 64
          GpSize,       \* bytes of gp_ram: 128
          Programs,     \* the programs that come to be run
          Random,       \* what rand() may return (sample)
          Levels        \* what the battery may hold, in mV (sample)

Operations == {"LDC", "LDR", "STR", "ADD", "SUB", "AND", "OR", "XOR", "INC",
               "DEC", "SR", "SL", "UDW", "UDC", "SIWZ", "SIRZ", "SICZ", "JIWZ",
               "JICZ", "JMP", "RJMP", "RST", "SIWE", "SIWB", "SIWS", "RET",
               "DEBUG", "none"}

Instruction == [op : Operations, toWreg : BOOLEAN, data : Byte]

Address == 0 .. CodeSize - 1

ASSUME MachineAssumption ==
    /\ CodeSize \in 1 .. 256 /\ GpSize \in 1 .. 128
    /\ WatchDog \in Nat \ {0}
    /\ Programs \subseteq [Address -> Instruction]
    /\ Random \subseteq Byte /\ Random # {}
    /\ Levels \subseteq Nat /\ Levels # {} /\ \A mV \in Levels : mV < 65536

VARIABLES at,             \* where the main loop is: "loop", "code" or "leds"
          code,           \* the buffer that plays
          PC, wreg, carry,
          indirectAddress,
          returnAddress,
          gp_ram,
          wdc,            \* instructions left in this call
          pause           \* what the last call returned, in tens of ms

memory == <<vectors, indirectAddress, returnAddress, gp_ram>>
vars == <<at, code, PC, wreg, carry, memory, wdc, pause, leds>>

-----------------------------------------------------------------------------
(* The memory map of ramLoad() and ramStore().                             *)
Pointer == 40
PointerData == 41
RandomCell == 42
BatteryHigh == 43
BatteryLow == 44
ReturnCell == 45
GpFirst == 256 - GpSize

\* The cell an access is for.  An access to the pointer's data is one to the
\* pointer's address; if that is the pointer's data again, to no cell at all.
Target(address) == IF address = PointerData THEN indirectAddress ELSE address

\* What ramLoad() may return: the battery's task may run between any two
\* loads, and rand() is anything.
RamLoad(address) ==
    LET a == Target(address)
    IN  CASE a < VectorBytes -> {vectors[a]}
          [] a = Pointer -> {indirectAddress}
          [] a = RandomCell -> Random
          [] a = BatteryHigh -> {level \div 256 : level \in Levels}
          [] a = BatteryLow -> {level % 256 : level \in Levels}
          [] a = ReturnCell -> {returnAddress}
          [] a >= GpFirst -> {gp_ram[a]}
          [] OTHER -> {0}

\* Mutant: the pointer is followed in loads only.
RamStore_Direct(address, data) ==
    /\ vectors' = IF address < VectorBytes THEN [vectors EXCEPT ![address] = data]
                                           ELSE vectors
    /\ indirectAddress' = IF address = Pointer THEN data ELSE indirectAddress
    /\ returnAddress' = IF address = ReturnCell THEN data ELSE returnAddress
    /\ gp_ram' = IF address >= GpFirst THEN [gp_ram EXCEPT ![address] = data]
                                       ELSE gp_ram

RamStore(address, data) ==
    LET a == Target(address)
    IN  /\ vectors' = IF a < VectorBytes THEN [vectors EXCEPT ![a] = data]
                                         ELSE vectors
        /\ indirectAddress' = IF a = Pointer THEN data ELSE indirectAddress
        /\ returnAddress' = IF a = ReturnCell THEN data ELSE returnAddress
        /\ gp_ram' = IF a >= GpFirst THEN [gp_ram EXCEPT ![a] = data]
                                     ELSE gp_ram

-----------------------------------------------------------------------------
(* The instructions.                                                       *)
word == code[PC]
data == word.data

\* An instruction of these is executed, and the call goes on.
Executes(operations) ==
    /\ at = "code" /\ wdc > 0 /\ word.op \in operations
    /\ at' = "code" /\ wdc' = wdc - 1
    /\ UNCHANGED <<code, pause, leds>>

\* Mutant: the PC is wider than a byte.
GoesTo_Wide(address) == PC' = address

\* A uint8_t.
GoesTo(address) == PC' = address % CodeSize

Advance == GoesTo(PC + 1)

Load ==
    /\ Executes({"LDC", "LDR"}) /\ Advance
    /\ wreg' \in IF word.op = "LDC" THEN {data} ELSE RamLoad(data)
    /\ UNCHANGED <<carry, memory>>

Store ==
    /\ Executes({"STR"}) /\ Advance
    /\ RamStore(data, wreg)
    /\ UNCHANGED <<wreg, carry>>

BitByBit(Bit(_, _), x, y) ==
    LET bit(n) == n * Bit((x \div n) % 2, (y \div n) % 2)
    IN  bit(1) + bit(2) + bit(4) + bit(8) + bit(16) + bit(32) + bit(64) + bit(128)

And(x, y) == BitByBit(LAMBDA p, q : p * q, x, y)
Or(x, y) == BitByBit(LAMBDA p, q : p + q - p * q, x, y)
Xor(x, y) == BitByBit(LAMBDA p, q : (p + q) % 2, x, y)

\* tmp, a uint16_t.
Tmp(loaded) ==
    CASE word.op = "ADD" -> loaded + wreg
      [] word.op = "SUB" -> (wreg - loaded) % 65536
      [] word.op = "AND" -> And(loaded, wreg)
      [] word.op = "OR" -> Or(loaded, wreg)
      [] word.op = "XOR" -> Xor(loaded, wreg)

\* Mutant: the difference is cut to a byte before its high byte is taken.
CarryOf_Byte(tmp) ==
    CASE word.op = "SUB" -> (tmp % 256) \div 256
      [] word.op = "ADD" -> tmp \div 256
      [] OTHER -> carry

\* Only sums and differences touch it; after a borrow it is 255.
CarryOf(tmp) == IF word.op \in {"ADD", "SUB"} THEN tmp \div 256 ELSE carry

Compute ==
    /\ Executes({"ADD", "SUB", "AND", "OR", "XOR"}) /\ Advance
    /\ \E loaded \in RamLoad(data) :
         LET tmp == Tmp(loaded) IN
           /\ carry' = CarryOf(tmp)
           /\ IF word.toWreg
                THEN wreg' = tmp % 256 /\ UNCHANGED memory
                ELSE RamStore(data, tmp % 256) /\ UNCHANGED wreg

Count ==
    /\ Executes({"INC", "DEC"}) /\ Advance
    /\ \E loaded \in RamLoad(data) :
         IF word.op = "INC"
           THEN /\ carry' = IF loaded = 255 THEN 1 ELSE 0
                /\ RamStore(data, (loaded + 1) % 256)
           ELSE /\ carry' = IF loaded = 0 THEN 1 ELSE 0
                /\ RamStore(data, (loaded - 1) % 256)
    /\ UNCHANGED wreg

\* wreg is shifted, by the argument; the carry is the one bit next to the edge.
Shift ==
    /\ Executes({"SR", "SL"}) /\ Advance
    /\ LET factor == IF data < 8 THEN 2 ^ data ELSE 256 IN
         IF word.op = "SR"
           THEN carry' = wreg % 2 /\ wreg' = wreg \div factor
           ELSE carry' = wreg \div 128 /\ wreg' = (wreg * factor) % 256
    /\ UNCHANGED memory

Skips(loaded) ==
    CASE word.op = "SIWZ" -> wreg = 0
      [] word.op = "SICZ" -> carry = 0
      [] word.op = "SIRZ" -> loaded = 0
      [] word.op = "SIWE" -> loaded = wreg
      [] word.op = "SIWB" -> loaded < wreg
      [] word.op = "SIWS" -> loaded > wreg

Skip ==
    /\ Executes({"SIWZ", "SICZ", "SIRZ", "SIWE", "SIWB", "SIWS"})
    /\ \E loaded \in RamLoad(data) : GoesTo(PC + IF Skips(loaded) THEN 2 ELSE 1)
    /\ UNCHANGED <<wreg, carry, memory>>

JumpTarget ==
    CASE word.op = "JMP" -> data
      [] word.op = "JIWZ" -> IF wreg = 0 THEN data ELSE PC + 1
      [] word.op = "JICZ" -> IF carry = 0 THEN data ELSE PC + 1
      [] word.op = "RJMP" -> PC + 1 + data
      [] word.op = "RET" -> returnAddress

Jumps == {"JIWZ", "JICZ", "JMP", "RJMP", "RET"}

\* Mutant: the watchdog does not count jumps.
Jump_NotCounted ==
    /\ at = "code" /\ wdc > 0 /\ word.op \in Jumps
    /\ GoesTo(JumpTarget)
    /\ UNCHANGED <<at, code, wreg, carry, memory, wdc, pause, leds>>

Jump ==
    /\ Executes(Jumps)
    /\ GoesTo(JumpTarget)
    /\ UNCHANGED <<wreg, carry, memory>>

\* DEBUG prints a cell; an unknown opcode does nothing.
Pass ==
    /\ Executes({"DEBUG", "none"}) /\ Advance
    /\ UNCHANGED <<wreg, carry, memory>>

-----------------------------------------------------------------------------
(* The ways back to the main loop, and its frame.                          *)
Returns(value) ==
    /\ at' = "leds" /\ wdc' = 0 /\ pause' = value
    /\ UNCHANGED <<code, leds>>

Update ==
    /\ at = "code" /\ wdc > 0 /\ word.op \in {"UDW", "UDC"} /\ Advance
    /\ Returns(IF word.op = "UDW" THEN wreg ELSE data)
    /\ UNCHANGED <<wreg, carry, memory>>

\* RST goes on at its argument; ramReset() leaves the return address and the
\* general purpose memory as they are.
Restart ==
    /\ at = "code" /\ wdc > 0 /\ word.op = "RST" /\ GoesTo(data)
    /\ Returns(0)
    /\ wreg' = 0 /\ carry' = 0
    /\ vectors' = [a \in DOMAIN vectors |-> 0] /\ indirectAddress' = 0
    /\ UNCHANGED <<returnAddress, gp_ram>>

TimeOut ==
    /\ at = "code" /\ wdc = 0
    /\ Returns(0)
    /\ UNCHANGED <<PC, wreg, carry, memory>>

\* The next frame is due.
Call ==
    /\ at = "loop" /\ at' = "code" /\ wdc' = WatchDog
    /\ UNCHANGED <<code, PC, wreg, carry, memory, pause, leds>>

ShowFrame ==
    /\ at = "leds" /\ at' = "loop"
    /\ UpdateLeds
    /\ UNCHANGED <<code, PC, wreg, carry, indirectAddress, returnAddress, gp_ram,
                   wdc, pause>>

\* The buffers are swapped, by a command or by the button.
SwapProgram(p) ==
    /\ at = "loop"
    /\ code' = p /\ PC' = 0
    /\ UNCHANGED <<at, wreg, carry, memory, wdc, pause, leds>>

\* The keyframe runner is stopped, or loads an animation: leds_off() clears the
\* sectors, whoever plays.
LedsOff ==
    /\ at = "loop"
    /\ vectors' = [a \in DOMAIN vectors |-> IF a % 5 = 4 THEN 0 ELSE vectors[a]]
    /\ UNCHANGED <<at, code, PC, wreg, carry, indirectAddress, returnAddress, gp_ram,
                   wdc, pause, leds>>

MachineInit ==
    /\ at = "loop" /\ code \in Programs
    /\ PC = 0 /\ wreg = 0 /\ carry = 0
    /\ indirectAddress = 0 /\ returnAddress = 0
    /\ vectors = [a \in 0 .. VectorBytes - 1 |-> 0]
    /\ gp_ram = [a \in GpFirst .. 255 |-> 0]
    /\ leds = [d \in Directions |-> [c \in Colours |-> 0]]
    /\ wdc = 0 /\ pause = 0

Execute ==
    \/ Load \/ Store \/ Compute \/ Count \/ Shift \/ Skip \/ Jump \/ Pass
    \/ Update \/ Restart \/ TimeOut

Frame == Call \/ Execute \/ ShowFrame

MachineNext == Frame \/ LedsOff \/ \E p \in Programs : SwapProgram(p)

\* The main loop never stops, so a step of it that can be taken is taken.
MachineSpec == MachineInit /\ [][MachineNext]_vars /\ WF_vars(Frame)

-----------------------------------------------------------------------------
(* Every register keeps its byte and every access stays inside vectors,    *)
(* gp_ram and code, whatever the program.                                  *)
MachineTypeOK ==
    /\ at \in {"loop", "code", "leds"}
    /\ code \in Programs
    /\ PC \in Address /\ {wreg, carry, indirectAddress, returnAddress, pause} \subseteq Byte
    /\ vectors \in [0 .. VectorBytes - 1 -> Byte]
    /\ gp_ram \in [GpFirst .. 255 -> Byte]
    /\ wdc \in 0 .. WatchDog

(* When a frame is shown every LED shows the vectors as README.md:31       *)
(* describes them, in every direction and with every sum capped.           *)
LedsShowVectors == [][ShowFrame => ShowsVectors']_vars

(* No program keeps the hat: the main loop is back at its radio again and  *)
(* again.                                                                  *)
KeepsPolling == []<>(at = "loop")

(* utils/README.md:43: "If result overflow, carry bit is set to 1. Else it *)
(* is set to 0."  For programs, which can only ask whether the carry is    *)
(* zero: it is not, exactly when the sum came out smaller, or the          *)
(* difference larger, than wreg was.                                       *)
CarryIsOverflow ==
    [][Compute /\ word.toWreg =>
         /\ word.op = "ADD" => (carry' # 0 <=> wreg' < wreg)
         /\ word.op = "SUB" => (carry' # 0 <=> wreg' > wreg)]_vars
=============================================================================
