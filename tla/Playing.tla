------------------------------- MODULE Playing -------------------------------
(***************************************************************************)
(* What the two modes of the hat promise about its light: which of the two *)
(* players has the vectors, whether the keyframe runner is stopped, and    *)
(* whether anything can be lit.  Hat composes this with the program        *)
(* buffers; KeyframeRunner implements it.                                  *)
(***************************************************************************)
EXTENDS Integers

CONSTANT LastAnimation   \* the highest n load_nth_animation() finds

ASSUME PlayingAssumption == LastAnimation \in Nat

VARIABLES helsinki,   \* helsinkiMode
          runner,     \* state of anim_runner
          lit         \* some vector has a sector, so some LED may be on

playingVars == <<helsinki, runner, lit>>

\* `RUNNING` stands for the three fading states as well.
RunnerStates == {"STOPPED", "RUNNING"}

\* An animation is loaded and started, but the hat is not in helsinkiMode.
PlayingInit == helsinki = FALSE /\ runner = "RUNNING" /\ lit = FALSE

\* runAnimationCode() may write any vector.
ProgramPlays ==
    /\ ~helsinki /\ lit' \in BOOLEAN
    /\ UNCHANGED <<helsinki, runner>>

\* run() does nothing when stopped; else set_leds() gives vectors a sector,
\* except in the one state that only computes.
RunnerPlays ==
    /\ helsinki /\ runner # "STOPPED"
    /\ lit' \in {TRUE, lit}
    /\ UNCHANGED <<helsinki, runner>>

\* A swap of programs, by a command or by the button.
LeaveHelsinki == helsinki' = FALSE /\ UNCHANGED <<runner, lit>>

\* load_nth_animation(n) of an n there is: set_animation() stops the runner.
Loaded(n) == n <= LastAnimation

LoadAnimation(n) ==
    /\ runner' = IF Loaded(n) THEN "STOPPED" ELSE runner
    /\ lit' = (lit /\ ~Loaded(n))
    /\ UNCHANGED helsinki

StartAnimation == helsinki' = TRUE /\ runner' = "RUNNING" /\ UNCHANGED lit

\* Mutant: the vectors stay as they are.
StopAnimation_Lit == runner' = "STOPPED" /\ UNCHANGED <<helsinki, lit>>

StopAnimation == runner' = "STOPPED" /\ lit' = FALSE /\ UNCHANGED helsinki

LoadAndStart(n) ==
    /\ helsinki' = TRUE /\ runner' = "RUNNING"
    /\ lit' = (lit /\ ~Loaded(n))

\* The commands of the keyframe runner; every n beyond the last does the same.
Remote ==
    \/ \E n \in 0 .. LastAnimation + 1 : LoadAnimation(n) \/ LoadAndStart(n)
    \/ StartAnimation \/ StopAnimation

PlayingNext == ProgramPlays \/ RunnerPlays \/ LeaveHelsinki \/ Remote

PlayingSpec == PlayingInit /\ [][PlayingNext]_playingVars

-----------------------------------------------------------------------------
(* Whoever stops the keyframe runner leaves the hat dark for as long as    *)
(* the runner has it, whatever a program or the other mode had lit before: *)
(* every way into helsinkiMode starts the runner, every way to stop it     *)
(* clears the vectors.                                                     *)
StoppedIsDark == helsinki /\ runner = "STOPPED" => ~lit
=============================================================================
