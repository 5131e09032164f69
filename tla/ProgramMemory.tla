---------------------------- MODULE ProgramMemory ----------------------------
(***************************************************************************)
(* What programs store, remembered apart from where ramStore() puts it.    *)
(* The memory of the machine is decoded twice, by ramLoad() and by         *)
(* ramStore(), into four places, and a fifth address stands for whichever  *)
(* cell the pointer names.  Programs are not alone with it: rendering cuts *)
(* the sectors of the vectors, a command to the keyframe runner clears     *)
(* them, and a program may be cut off by the watchdog, or swapped, in the  *)
(* middle of what it was about to do.                                      *)
(***************************************************************************)
EXTENDS AnimationMachine

\* The cells that keep what is stored in them.  utils/README.md:251 has general
\* purpose memory from 0x40 on; ramStore() drops what is stored below 0x80, so
\* that is not among them.
Cells == 0 .. VectorBytes - 1 \cup {Pointer, ReturnCell} \cup GpFirst .. 255

VARIABLE told   \* history: what each cell was last given by a program

rememberVars == <<vars, told>>

\* The cell an address names, by what the program has stored in the pointer.
Meant(address) == IF address = PointerData THEN told[Pointer] ELSE address

Stores ==
    \/ word.op \in {"STR", "INC", "DEC"}
    \/ word.op \in {"ADD", "SUB", "AND", "OR", "XOR"} /\ ~word.toWreg

Stored(loaded) ==
    CASE word.op = "STR" -> wreg
      [] word.op = "INC" -> (loaded + 1) % 256
      [] word.op = "DEC" -> (loaded - 1) % 256
      [] OTHER -> Tmp(loaded) % 256

Running == at = "code" /\ wdc > 0
RunningStore == Running /\ Stores /\ Meant(data) \in Cells
RunningReset == Running /\ word.op = "RST"

\* A reset clears the vectors and the pointer and no other cell.
Remember ==
    \/ /\ RunningStore
       /\ \E loaded \in RamLoad(data) :
            told' = [told EXCEPT ![Meant(data)] = Stored(loaded)]
    \/ /\ RunningReset
       /\ told' = [c \in Cells |->
                     IF c < VectorBytes \/ c = Pointer THEN 0 ELSE told[c]]
    \/ ~RunningStore /\ ~RunningReset /\ UNCHANGED told

RememberInit == MachineInit /\ told = [c \in Cells |-> 0]

RememberNext == MachineNext /\ Remember

RememberSpec == RememberInit /\ [][RememberNext]_rememberVars /\ WF_vars(Frame)

-----------------------------------------------------------------------------
Sectors == {c \in 0 .. VectorBytes - 1 : c % 5 = 4}

(* What a program stores is kept: at any time a load of a cell, directly   *)
(* or through the pointer, returns what the last store to that cell left,  *)
(* whether made directly, through the pointer or by a computation in       *)
(* memory, and whatever frames, stops, swaps and timeouts came between.    *)
(* Only sectors change under a program: vectors.cpp:45 cuts them to three  *)
(* bits when a frame is shown, and animation_tasks.h:162 clears them.      *)
StoredIsKept ==
    /\ \A c \in Cells :
         RamLoad(c) \subseteq IF c \in Sectors THEN {told[c], told[c] % 8, 0}
                                               ELSE {told[c]}
    /\ Meant(PointerData) \in Cells
         => RamLoad(PointerData) = RamLoad(Meant(PointerData))
=============================================================================
