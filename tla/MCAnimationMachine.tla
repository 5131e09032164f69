-------------------------- MODULE MCAnimationMachine --------------------------
(* Two vectors, two cells of general purpose memory, programs of up to 16  *)
(* instructions.  Operands come from the random cell, so that each program *)
(* runs on every combination of the sample.                                *)
EXTENDS ProgramMemory, Sequences

I(op, arg) == [op |-> op, toWreg |-> FALSE, data |-> arg]
W(op, arg) == [op |-> op, toWreg |-> TRUE, data |-> arg]

Program(s) == [a \in Address |-> IF a < Len(s) THEN s[a + 1] ELSE I("none", 0)]

\* A full second vector, and a first one with every cell that matters random.
Render == <<I("RST", 1), I("LDC", 200), I("STR", 5), I("LDC", 7), I("STR", 9),
            I("LDR", 42), I("STR", 3), I("LDR", 42), I("STR", 4),
            I("LDR", 42), I("STR", 0), I("UDC", 1), I("JMP", 5)>>

ToWreg == <<I("RST", 1), I("LDR", 42), I("STR", 254), I("LDR", 42), W("ADD", 254),
            I("LDR", 42), W("SUB", 254), W("AND", 254), W("OR", 254),
            W("XOR", 254), I("UDW", 0), I("DEBUG", 254),
            I("SIRZ", 254), I("RJMP", 254), I("JMP", 0)>>

ToMemory == <<I("RST", 1), I("LDR", 42), I("STR", 254), I("LDR", 42), I("ADD", 254),
              I("SUB", 254), I("XOR", 254), I("OR", 254), I("AND", 254),
              I("INC", 254), I("DEC", 3), I("SR", 1), I("SL", 9), I("UDC", 255),
              I("SICZ", 0), I("SIWZ", 0)>>

\* The pointer at memory, at nothing, at its own data and at itself.
Pointers == <<I("RST", 1), I("LDC", 254), I("STR", 40), I("LDR", 42), I("STR", 41),
              I("INC", 41), I("LDC", 63), I("STR", 40), I("STR", 41),
              I("LDC", 41), I("STR", 40), I("STR", 41),
              I("LDC", 40), I("STR", 40), I("LDR", 42), I("STR", 41)>>

\* A routine that is called, branches of every kind, and a loop without end.
Branches == <<I("RST", 1), I("LDC", 4), I("STR", 45), I("JMP", 11), I("LDR", 43),
              I("SIWE", 44), I("JIWZ", 9), I("SIWB", 42), I("JICZ", 8),
              I("SIWS", 42), I("JMP", 10), I("DEC", 4), I("RET", 0)>>

MCPrograms == {Program(s) : s \in {Render, ToWreg, ToMemory, Pointers, Branches}}
MCDirections == {0, -128, 100}
=============================================================================
