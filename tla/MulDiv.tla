------------------------------- MODULE MulDiv -------------------------------
(***************************************************************************)
(* muldiv(value, multiplier, divider, remainder) of utils.cpp: value *     *)
(* multiplier / divider without an intermediate product wider than a       *)
(* uint32_t, by long multiplication with quotient and remainder side by    *)
(* side.  taskmanager.cpp scales ticks to milliseconds with it, and back.  *)
(* One action is one turn of the loop.  Every variable is a word: it wraps *)
(* at Word, 2^32 in the program.                                           *)
(***************************************************************************)
EXTENDS Integers

CONSTANTS Word,      \* 2^32, the modulus of uint32_t
          Values, Multipliers, Dividers   \* the arguments (bounds)

Words == 0 .. Word - 1

ASSUME MulDivAssumption ==
    /\ Word \in Nat \ {0}
    /\ Values \subseteq Words /\ Multipliers \subseteq Words
    /\ Dividers \subseteq Words \ {0}

VARIABLES arg,       \* the arguments of the call
          value,     \* the bits of arg.value not yet multiplied
          q, r,      \* quotient and remainder of the bits that are
          qn, rn,    \* ... and of the multiplier times the next bit's weight
          done       \* muldiv has returned q, with the remainder r

vars == <<arg, value, q, r, qn, rn, done>>

Arguments == [value : Values, multiplier : Multipliers, divider : Dividers]

Init ==
    /\ arg \in Arguments
    /\ value = arg.value
    /\ q = 0 /\ r = 0
    /\ qn = arg.multiplier \div arg.divider
    /\ rn = arg.multiplier % arg.divider
    /\ done = FALSE

\* Mutant: a remainder that has reached the divider does not count.
Carry_Late(rem) == IF rem > arg.divider THEN 1 ELSE 0

\* A quotient and a remainder that has reached the divider.
Carry(rem) == IF rem >= arg.divider THEN 1 ELSE 0

Reduced(rem) == IF rem >= arg.divider THEN rem - arg.divider ELSE rem

\* `if (value & 1)`: the bit's part is added.
AddBit ==
    LET sum == (r + rn) % Word
    IN  IF value % 2 = 1
          THEN q' = (q + qn + Carry(sum)) % Word /\ r' = Reduced(sum)
          ELSE UNCHANGED <<q, r>>

\* The next bit weighs twice as much.
DoubleWeight ==
    LET twice == (2 * rn) % Word
    IN  /\ value' = value \div 2
        /\ qn' = ((2 * qn) + Carry(twice)) % Word
        /\ rn' = Reduced(twice)

Turn ==
    /\ value # 0
    /\ AddBit /\ DoubleWeight
    /\ UNCHANGED <<arg, done>>

Return ==
    /\ value = 0 /\ ~done
    /\ done' = TRUE
    /\ UNCHANGED <<arg, value, q, r, qn, rn>>

Next == Turn \/ Return

Spec == Init /\ [][Next]_vars

-----------------------------------------------------------------------------
Product == arg.value * arg.multiplier

\* A divider of up to half a word leaves room for the sum of two remainders.
RemaindersFit == 2 * arg.divider <= Word

(* muldiv returns the quotient and the remainder of the product, although  *)
(* the product itself need not fit a word: only the quotient has to.       *)
Exact ==
    done /\ RemaindersFit /\ Product \div arg.divider < Word
        => q = Product \div arg.divider /\ r = Product % arg.divider
=============================================================================
