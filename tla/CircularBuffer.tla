--------------------------- MODULE CircularBuffer ---------------------------
(***************************************************************************)
(* circularBuffer<T, capacity> of circular_buffer.h: the byte ring between *)
(* an interrupt handler and the main program.  The class is pure data, so  *)
(* it is a record [tail, count, data] and one operator per method; the     *)
(* modules that own a buffer decide who calls them and when.  read() and   *)
(* write() run under ATOMIC_BLOCK, so each is one step of its caller.      *)
(* `& (capacity - 1)` on a power of two is % Capacity, and a uint8_t wraps *)
(* at CountMod (256 in the program, smaller in some runs).                 *)
(***************************************************************************)
EXTENDS Integers, Sequences

CONSTANTS Capacity,   \* the template argument `capacity`
          CountMod,   \* 2^8, the modulus of the uint8_t members
          Byte        \* the element type T, char in both uses

ASSUME CapacityAssumption ==
    /\ Capacity \in Nat \ {0}
    /\ CountMod \in Nat
    /\ 2 * Capacity <= CountMod
    /\ Byte # {}

Buffer == [tail  : 0 .. Capacity - 1,
           count : 0 .. CountMod - 1,
           data  : [0 .. Capacity - 1 -> Byte]]

\* The constructor; data[] is not initialised by it, so it may hold anything.
IsNew(b) == b \in Buffer /\ b.tail = 0 /\ b.count = 0

IsEmpty(b) == b.count = 0

\* An equality test, not >=: a buffer beyond its capacity is not "full".
IsFull(b) == b.count = Capacity

\* Mutant: the newest item instead of the oldest.
Peak_Newest(b) == b.data[(b.tail + b.count - 1) % Capacity]

Peak(b) == b.data[b.tail]

\* Mutant: the tail is not masked.
Read_NoMask(b) == [tail  |-> b.tail + 1,
                   count |-> (b.count - 1) % CountMod,
                   data  |-> b.data]

Read(b) == [tail  |-> (b.tail + 1) % Capacity,
            count |-> (b.count - 1) % CountMod,
            data  |-> b.data]

\* Mutant: the head is one place too far.
HeadIndex_OffByOne(b) == ((b.tail + b.count + 1) % CountMod) % Capacity

HeadIndex(b) == ((b.tail + b.count) % CountMod) % Capacity

Write(b, c) == [tail  |-> b.tail,
                count |-> (b.count + 1) % CountMod,
                data  |-> [b.data EXCEPT ![HeadIndex(b)] = c]]

-----------------------------------------------------------------------------
(* What a buffer within its capacity stands for: its items, oldest first.  *)
Contents(b) == [i \in 1 .. b.count |-> b.data[(b.tail + i - 1) % Capacity]]
=============================================================================
