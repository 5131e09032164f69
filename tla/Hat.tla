-------------------------------- MODULE Hat --------------------------------
(***************************************************************************)
(* The main loop of main.cpp: the two program buffers and the commands     *)
(* that fill, clear and swap them, the button, and the two ways the hat    *)
(* plays, a program of the animation machine or, in helsinkiMode, the      *)
(* keyframe runner.  Everything here runs on the main loop, one command,   *)
(* frame or press after the other.                                         *)
(* A word of a program is a value of its own; what the machine does with   *)
(* it, and which frames the runner shows, is left open here.               *)
(***************************************************************************)
EXTENDS Playing, Sequences

CONSTANTS CodeSize,    \* words in a buffer: 256, also the modulus of uint8_t
          Word,        \* the words of programs ...
          Zero,        \* ... and the one that clears a buffer, 0x0000
          ChunkSize,   \* words in a full 0x81 command: 32
          BuiltIn,     \* the seven programs loadNextAnimation() knows, in order
          StartProgram, \* the 128 words loadPgmAnimation() copies: the third
                       \* of them and what lies behind it in the flash
          Stops        \* where a call of the machine may end (sample)

ASSUME HatAssumption ==
    /\ {CodeSize, ChunkSize} \subseteq Nat \ {0}
    /\ CodeSize % ChunkSize = 0
    /\ BuiltIn \in Seq(Seq(Word)) \ {<< >>}
    /\ \A i \in DOMAIN BuiltIn : Len(BuiltIn[i]) <= CodeSize
    /\ Stops \subseteq 0 .. CodeSize - 1
    /\ StartProgram \in Seq(Word) /\ Len(StartProgram) <= CodeSize
    /\ Zero \in Word

VARIABLES code,       \* animationBuffer1 and animationBuffer2
          current,    \* currentAnimation, the buffer that plays
          next,       \* nextAnimation, the buffer that is filled
          pc,         \* PC of the animation machine
          builtIn     \* pgm_animation, which built-in program comes next

programs == <<code, current, next, builtIn, pc>>
hatVars == <<programs, playingVars>>

Address == 0 .. CodeSize - 1

Copied(buffer, source) ==
    [a \in Address |-> IF a < Len(source) THEN source[a + 1] ELSE buffer[a]]

\* main() up to its loop: a built-in program is loaded, animation 1 as well,
\* and the runner is started; but the hat is not in helsinkiMode.
HatInit ==
    /\ code = << Copied([a \in Address |-> Zero], StartProgram),
                 [a \in Address |-> Zero] >>
    /\ current = 1 /\ next = 2
    /\ pc = 0 /\ builtIn = 0
    /\ PlayingInit

-----------------------------------------------------------------------------
(* The turns of the loop that are not commands.                            *)

\* runAnimationCode() takes the machine anywhere.
ProgramFrame ==
    /\ ProgramPlays
    /\ pc' \in Stops
    /\ UNCHANGED <<code, current, next, builtIn>>

RunnerFrame == RunnerPlays /\ UNCHANGED programs

\* Mutant: only one of the pointers moves.
Swap_Half == current' = next /\ next' = next

Swap == current' = next /\ next' = current

\* Mutant: pgm_animation does not start again.
NextBuiltIn_Endless == builtIn + 1

NextBuiltIn == (builtIn + 1) % Len(BuiltIn)

\* The button: the next built-in program, over the front of the other buffer.
PressButton ==
    /\ LeaveHelsinki
    /\ code' = [code EXCEPT ![next] = Copied(@, BuiltIn[builtIn + 1])]
    /\ builtIn' = NextBuiltIn
    /\ Swap
    /\ pc' = 0

-----------------------------------------------------------------------------
(* xbee_api_callback().                                                    *)

RemoteCommand == Remote /\ UNCHANGED programs

SwapPrograms ==
    /\ LeaveHelsinki
    /\ Swap
    /\ pc' = 0
    /\ UNCHANGED <<code, builtIn>>

\* A uint8_t.
Offset(n) == (n * ChunkSize) % CodeSize

WriteChunk(n, words) ==
    /\ code' = [code EXCEPT ![next] =
          [a \in Address |-> IF a - Offset(n) \in 0 .. Len(words) - 1
                               THEN words[a - Offset(n) + 1] ELSE @[a]]]
    /\ UNCHANGED <<current, next, builtIn, pc, playingVars>>

ClearProgram ==
    /\ code' = [code EXCEPT ![next] = [a \in Address |-> Zero]]
    /\ UNCHANGED <<current, next, builtIn, pc, playingVars>>

\* The commands that only answer: a dump on the debug line, an echo.
Answer == UNCHANGED hatVars

-----------------------------------------------------------------------------
(* Type invariant; the two pointers never meet.                            *)
HatTypeOK ==
    /\ code \in [1 .. 2 -> [Address -> Word]]
    /\ {current, next} = {1, 2}
    /\ pc \in Address
    /\ builtIn \in 0 .. Len(BuiltIn) - 1
    /\ helsinki \in BOOLEAN /\ lit \in BOOLEAN
    /\ runner \in RunnerStates
=============================================================================
