------------------------------ MODULE Assembler ------------------------------
(***************************************************************************)
(* The assembler of utils/assembler.cpp, one line a step: it reads the     *)
(* source and puts in what was defined, takes the labels out and numbers   *)
(* them, puts their addresses in, and translates.  A line is what explode()*)
(* makes of it, the sequence of its words; << >> is one that is empty when *)
(* its comment is gone.  What a word is made of is left open: constants    *)
(* say which are numbers and which name a label.                           *)
(***************************************************************************)
EXTENDS Integers, SequencesExt

CONSTANTS ByteMod,     \* 256
          Numeral,     \* stoi() of the words it knows
          Decimal,     \* to_string() of a number
          LabelName,   \* the name in a word that begins with ":"
          Hashes,      \* the words that begin with "#"
          Sources      \* the programs to assemble

\* A line of white space only: it has no words, but is not empty.
Blank == <<" ">>

ASSUME AssemblerAssumption ==
    /\ ByteMod \in Nat /\ ByteMod > 1
    /\ \A n \in DOMAIN Decimal : /\ Decimal[n] \in DOMAIN Numeral
                                 /\ Numeral[Decimal[n]] = n
    /\ "#define" \in Hashes
    /\ Sources \subseteq Seq(Seq(STRING))
    /\ \A s \in Sources : 0 .. Len(s) \subseteq DOMAIN Decimal

VARIABLES source,    \* what is assembled
          todo,      \* the lines to read
          defines, labels, code,
          lineNbr,   \* where the pass is in the code
          pass, instructions

vars == <<source, todo, defines, labels, code, lineNbr, pass, instructions>>

Word == 0 .. 256 * ByteMod - 1

-----------------------------------------------------------------------------
(* Instructions and values.                                                *)
STORE_WREG_MASK == 128

NoArgument == [SIWZ |-> 18, SICZ |-> 20, RET |-> 29, UDW |-> 16]

Stores == [ADD |-> 4, SUB |-> 5, AND |-> 6, OR |-> 7, XOR |-> 8]
ToWreg == [ADD |-> "ADD:W", SUB |-> "SUB:W", AND |-> "AND:W", OR |-> "OR:W", XOR |-> "XOR:W"]
ToRam  == [ADD |-> "ADD:R", SUB |-> "SUB:R", AND |-> "AND:R", OR |-> "OR:R", XOR |-> "XOR:R"]

OneArgument ==
    [LDC |-> 1, LDR |-> 2, STR |-> 3, INC |-> 9, DEC |-> 10, SR |-> 11, SL |-> 12,
     UDC |-> 17, SIRZ |-> 19, JIWZ |-> 21, JICZ |-> 22, JMP |-> 23, RJMP |-> 25,
     RST |-> 24, SIWE |-> 26, SIWB |-> 27, SIWS |-> 28, DEBUG |-> 30]
      @@ [m \in {ToRam[s] : s \in DOMAIN Stores} |->
             Stores[CHOOSE s \in DOMAIN Stores : ToRam[s] = m]]
      @@ [m \in {ToWreg[s] : s \in DOMAIN Stores} |->
             STORE_WREG_MASK + Stores[CHOOSE s \in DOMAIN Stores : ToWreg[s] = m]]

\* operandToOpcode().
Opcode == NoArgument @@ OneArgument

Arguments(m) == IF m \in DOMAIN NoArgument THEN 0 ELSE 1

\* valueToNumber() of a word it takes.
IsValue(w) == w \in DOMAIN Numeral /\ Numeral[w] \in -(ByteMod \div 2) .. ByteMod - 1

Value(w) == Numeral[w] % ByteMod

-----------------------------------------------------------------------------
(* Reading.                                                                *)

\* Throws a string, which is caught: a message, and exit(1).
Fail == pass' = "failed"

\* Undefined behaviour with a known end, or an exception nobody catches.
Crash == pass' = "crashed"

\* Mutant: the last definition counts.
Substituted_Backwards(line) ==
    FoldRight(LAMBDA d, ws : [u \in DOMAIN ws |->
                 IF ws[u] = d.name THEN d.replacement ELSE ws[u]], defines, line)

\* preProsessing(): each define in its turn, in every word.
Substituted(line) ==
    FoldLeft(LAMBDA ws, d : [u \in DOMAIN ws |->
                 IF ws[u] = d.name THEN d.replacement ELSE ws[u]], line, defines)

\* prosessInput(); there is no words[0] on a blank line.
ReadLine ==
    /\ pass = "reading" /\ todo # << >> /\ todo' = Tail(todo)
    /\ LET line == Head(todo) IN
       \/ line = << >> /\ UNCHANGED <<pass, defines, code>>
       \/ line = Blank /\ Crash /\ UNCHANGED <<defines, code>>
       \/ /\ line \notin {<< >>, Blank} /\ line[1] = "#define" /\ Len(line) >= 3
          /\ defines' = Append(defines, [name |-> line[2], replacement |-> line[3]])
          /\ UNCHANGED <<pass, code>>
       \/ /\ line \notin {<< >>, Blank}
          /\ \/ line[1] = "#define" /\ Len(line) < 3
             \/ line[1] \in Hashes \ {"#define"}
          /\ Fail /\ UNCHANGED <<defines, code>>
       \/ /\ line \notin {<< >>, Blank} /\ line[1] \notin Hashes
          /\ code' = Append(code, Substituted(line))
          /\ UNCHANGED <<pass, defines>>
    /\ UNCHANGED <<source, labels, lineNbr, instructions>>

NextPass(from, to) ==
    /\ pass = from /\ pass' = to /\ lineNbr' = 0
    /\ UNCHANGED <<source, todo, defines, labels, code, instructions>>

EndReading == todo = << >> /\ NextPass("reading", "labelling")

-----------------------------------------------------------------------------
(* Labels.                                                                 *)
words == code[lineNbr + 1]
InPass(p) == pass = p /\ lineNbr < Len(code)
EndPass(from, to) == lineNbr = Len(code) /\ NextPass(from, to)

IsLabel(line) == line[1] \in DOMAIN LabelName

\* Mutant: a label that was defined before is found again and again.
Twice_Again == UNCHANGED pass

Twice == Fail

\* findLables() and the erasure of the whole line.
FindLabel ==
    /\ InPass("labelling") /\ IsLabel(words)
    /\ LET name == LabelName[words[1]] IN
       \/ /\ \E k \in DOMAIN labels : labels[k].name = name
          /\ Twice /\ UNCHANGED <<labels, code, lineNbr>>
       \/ /\ \A k \in DOMAIN labels : labels[k].name # name
          /\ labels' = Append(labels, [name |-> name, address |-> Decimal[lineNbr]])
          /\ code' = RemoveAt(code, lineNbr + 1)
          /\ UNCHANGED <<pass, lineNbr>>
    /\ UNCHANGED <<source, todo, defines, instructions>>

KeepLine ==
    /\ InPass("labelling") /\ ~IsLabel(words)
    /\ lineNbr' = lineNbr + 1
    /\ UNCHANGED <<source, todo, defines, labels, code, pass, instructions>>

\* resolveLabels() of the argument: each label in its turn.
Resolved(w) == FoldLeft(LAMBDA v, l : IF l.name = v THEN l.address ELSE v, w, labels)

\* There is no words[1] without an argument; it is compared all the same.
ResolveLine ==
    /\ InPass("resolving")
    /\ \/ /\ Len(words) >= 2
          /\ code' = [code EXCEPT ![lineNbr + 1][2] = Resolved(@)]
          /\ lineNbr' = lineNbr + 1 /\ UNCHANGED pass
       \/ /\ Len(words) = 1
          /\ lineNbr' = lineNbr + 1 /\ UNCHANGED <<code, pass>>
       \/ /\ Len(words) = 1 /\ labels # << >>
          /\ Crash /\ UNCHANGED <<code, lineNbr>>
    /\ UNCHANGED <<source, todo, defines, labels, instructions>>

-----------------------------------------------------------------------------
(* main(): codeToHex() of each line, after a copy of it[1] to the message  *)
(* an error would have; again there may be none.                           *)

\* Mutant: too few words only are an error.
RightCount_AtLeast == Len(words) >= Arguments(words[1]) + 1

RightCount == Len(words) = Arguments(words[1]) + 1

Translate ==
    /\ InPass("translating") /\ words[1] \in DOMAIN Opcode /\ RightCount
    /\ Arguments(words[1]) = 1 => IsValue(words[2])
    /\ instructions' = Append(instructions,
          Opcode[words[1]] * ByteMod
            + IF Arguments(words[1]) = 0 THEN 0 ELSE Value(words[2]))
    /\ lineNbr' = lineNbr + 1
    /\ UNCHANGED <<source, todo, defines, labels, code, pass>>

Refuse ==
    /\ InPass("translating")
    /\ \/ Len(words) = 1 /\ Crash
       \/ words[1] \notin DOMAIN Opcode /\ Fail
       \/ words[1] \in DOMAIN Opcode /\ ~RightCount /\ Crash
       \/ /\ words[1] \in DOMAIN Opcode /\ RightCount
          /\ Arguments(words[1]) = 1 /\ ~IsValue(words[2]) /\ Fail
    /\ UNCHANGED <<source, todo, defines, labels, code, lineNbr, instructions>>

AssemblerInit ==
    /\ source \in Sources /\ todo = source
    /\ defines = << >> /\ labels = << >> /\ code = << >>
    /\ lineNbr = 0 /\ pass = "reading" /\ instructions = << >>

AssemblerNext ==
    \/ ReadLine \/ EndReading
    \/ FindLabel \/ KeepLine \/ EndPass("labelling", "resolving")
    \/ ResolveLine \/ EndPass("resolving", "translating")
    \/ Translate \/ Refuse \/ EndPass("translating", "done")

AssemblerSpec ==
    AssemblerInit /\ [][AssemblerNext]_vars /\ WF_vars(AssemblerNext)

-----------------------------------------------------------------------------
(* What a source means, said of its lines, not of what becomes of them.    *)

IsDefine(j) == source[j] # << >> /\ source[j][1] = "#define"

DefinesOf(w, j) == {i \in 1 .. j - 1 : IsDefine(i) /\ source[i][2] = w}

\* The first definition of a word before its line counts, as long as no
\* replacement is defined itself.
Meaning(w, j) ==
    IF DefinesOf(w, j) = {} THEN w
    ELSE source[CHOOSE i \in DefinesOf(w, j) : \A k \in DefinesOf(w, j) : i <= k][3]

NoChains ==
    \A i, j \in DOMAIN source : IsDefine(i) /\ IsDefine(j) => source[i][3] # source[j][2]

MeaningOf(j) == [u \in DOMAIN source[j] |-> Meaning(source[j][u], j)]

Mark(j) ==   \* line j defines a label
    source[j] # << >> /\ ~IsDefine(j) /\ IsLabel(MeaningOf(j))
Instruction(j) ==
    source[j] # << >> /\ ~IsDefine(j) /\ ~IsLabel(MeaningOf(j))
InstructionsBefore(j) == Cardinality({i \in 1 .. j - 1 : Instruction(i)})

MarksOf(w) == {j \in DOMAIN source : Mark(j) /\ LabelName[MeaningOf(j)[1]] = w}

\* No label has the name of a number.
PlainNames == \A w \in DOMAIN Numeral : MarksOf(w) = {}

\* -1 if there is no meaning.
ArgumentOf(w) ==
    CASE MarksOf(w) # {} -> InstructionsBefore(CHOOSE j \in MarksOf(w) : TRUE)
      [] MarksOf(w) = {} /\ IsValue(w) -> Value(w)
      [] OTHER -> -1

-----------------------------------------------------------------------------
(* A program that is printed has one word for each line with an            *)
(* instruction, in their order; a label stands for the number of the first *)
(* instruction after its line, wherever it is used, and a defined word for *)
(* what it was first defined as, from the next line on.                    *)
Translates ==
    pass = "done" /\ NoChains /\ PlainNames =>
      /\ Len(instructions) = InstructionsBefore(Len(source) + 1)
      /\ \A j \in DOMAIN source :
           Instruction(j) =>
             instructions[InstructionsBefore(j) + 1] =
                Opcode[MeaningOf(j)[1]] * ByteMod
                  + IF Len(source[j]) = 1 THEN 0 ELSE ArgumentOf(MeaningOf(j)[2])

(* Nothing is printed of a source with a label that is defined twice, an   *)
(* unknown instruction, a wrong number of words, or an argument that is    *)
(* neither a label nor fits a byte; an address may be too large for one.   *)
Accepts ==
    pass = "done" /\ NoChains /\ PlainNames =>
      \A j \in DOMAIN source :
        /\ Mark(j) => MarksOf(LabelName[MeaningOf(j)[1]]) = {j}
        /\ Instruction(j) =>
             LET line == MeaningOf(j) IN
               /\ line[1] \in DOMAIN Opcode
               /\ Len(line) = Arguments(line[1]) + 1
               /\ Len(line) = 2 =>
                    IF MarksOf(line[2]) = {} THEN IsValue(line[2])
                    ELSE ArgumentOf(line[2]) < ByteMod

(* The assembler ends, although the pass over the labels takes out of the  *)
(* list it walks along.                                                    *)
Terminates == <>(pass \in {"done", "failed", "crashed"})
=============================================================================
