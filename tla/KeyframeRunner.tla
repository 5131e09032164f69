--------------------------- MODULE KeyframeRunner ---------------------------
(***************************************************************************)
(* AnimationRunner (animation_tasks.h) and load_nth_animation()            *)
(* (animations.h), which play keyframe animations in helsinkiMode, with    *)
(* the part of the main loop that decides when the next frame is due.      *)
(* Time passes in units of a millisecond or more.  runTime and nextFrame   *)
(* are kept as what is left until then: runIn is negative when runTime is  *)
(* past, frameIn stops at 0, where the frame is due.                       *)
(* Every animation lights the same LEDs, as those of animations.h do; a    *)
(* frame is a function of their colour channels and a wait.                *)
(***************************************************************************)
EXTENDS Integers, Sequences, FiniteSetsExt

CONSTANTS ByteMod,      \* 256
          FadeMinTime,  \* FADE_MIN_TIME: 10 ms
          Channels,     \* the colour channels of the LEDs that are lit
          Animations,   \* the linked list of animations.h, first to last
          Pauses,       \* what runAnimationCode() asks for, times 10 (sample)
          Delays,       \* by how much time passes in a step (sample)
          LateMax       \* how far runTime may fall behind (bound)

Byte == 0 .. ByteMod - 1
Leds == [Channels -> Byte]
Keyframe == [leds : Leds, wait_ms : Nat]
Animation == [fades : BOOLEAN, frames : Seq(Keyframe)]
Last == Len(Animations)

\* The last animation has no fewer frames than any other, and a frame waits
\* for a step of a fade at least: so it is in animations.h.
ASSUME KeyframeAssumption ==
    /\ ByteMod \in Nat /\ ByteMod > 1 /\ FadeMinTime \in Nat \ {0}
    /\ Animations \in Seq(Animation) /\ Last > 0
    /\ \A i \in 1 .. Last :
         LET frames == Animations[i].frames IN
           /\ Len(frames) \in 1 .. Min({Len(Animations[Last].frames), ByteMod - 1})
           /\ \A k \in DOMAIN frames : frames[k].wait_ms >= FadeMinTime
    /\ Pauses \subseteq Nat /\ Delays \subseteq Nat \ {0} /\ LateMax \in Nat

VARIABLES animation_buffer,   \* which animation was copied to it last
          state, current_step,
          current_frame, next_frame, fade_frame,
          fade_step, num_fade_steps,
          lit,                \* some vector has a sector
          runIn,              \* runTime - now
          helsinkiMode,
          frameIn             \* nextFrame - now

fade == <<next_frame, fade_frame, fade_step, num_fade_steps>>
step == <<current_step, current_frame>>
runner == <<animation_buffer, state, step, fade, lit>>
vars == <<runner, runIn, helsinkiMode, frameIn>>

Blank == [leds |-> [c \in Channels |-> 0], wait_ms |-> 0]

-----------------------------------------------------------------------------
(* Helpers of run().                                                       *)
animation == Animations[animation_buffer]
length == Len(animation.frames)

\* unpack_frame() of the frame at a step.
FrameAt(n) == animation.frames[n + 1]

Following(n) == IF n + 1 >= length THEN 0 ELSE n + 1

\* Mutant: the channels of fade_frame are wider than a byte.
Interpolated_Wide(from, to, steps, n) ==
    [c \in Channels |->
        IF from[c] = to[c] THEN to[c]
        ELSE IF from[c] > to[c] THEN from[c] - ((from[c] - to[c]) \div steps) * n
        ELSE ((to[c] - from[c]) \div steps) * n]

\* interpolate_fade() at a step of a fade between two sets of channels.
Interpolated(from, to, steps, n) ==
    [c \in Channels |->
        IF from[c] = to[c] THEN to[c]
        ELSE IF from[c] > to[c]
          THEN (from[c] - ((from[c] - to[c]) \div steps) * n) % ByteMod
          ELSE (((to[c] - from[c]) \div steps) * n) % ByteMod]

\* fade_max_steps, and the wait that goes with it.
FadeMaxSteps == Min({current_frame.wait_ms \div FadeMinTime, ByteMod - 1})
FadeWait ==
    IF current_frame.wait_ms \div FadeMinTime > ByteMod - 1
      THEN current_frame.wait_ms \div (ByteMod - 1) ELSE FadeMinTime

Differences(from, to) ==
    {Max({from[c], to[c]}) - Min({from[c], to[c]}) : c \in Channels}

LargestDiff(from, to) == Max({0} \cup Differences(from, to))

-----------------------------------------------------------------------------
(* AnimationRunner::run(), an action for each state; run(0) is followed by *)
(* nextFrame = getNextRunTime().                                           *)

\* Mutant: nextFrame is taken before run().
RunsAgainIn_Stale(wait_ms) ==
    /\ runIn' = runIn + wait_ms
    /\ frameIn' = Max({0, runIn})

\* incRunTime(), and the frame that is due then; a time that has passed is
\* due at once.
RunsAgainIn(wait_ms) ==
    /\ runIn' = runIn + wait_ms
    /\ frameIn' = Max({0, runIn'})

Runs(in) == helsinkiMode /\ frameIn = 0 /\ state = in /\ UNCHANGED helsinkiMode

RunStopped == Runs("STOPPED") /\ RunsAgainIn(0) /\ UNCHANGED runner

\* A fade is prepared by the next turn of the loop; else the next frame is.
RunRunning ==
    /\ Runs("RUNNING")
    /\ IF animation.fades
         THEN /\ state' = "FADING_START" /\ RunsAgainIn(0)
              /\ UNCHANGED step
         ELSE /\ RunsAgainIn(current_frame.wait_ms)
              /\ current_step' = Following(current_step)
              /\ current_frame' = FrameAt(current_step')
              /\ UNCHANGED state
    /\ lit' = TRUE
    /\ UNCHANGED <<animation_buffer, fade>>

RunFadingStart ==
    /\ Runs("FADING_START")
    /\ next_frame' = FrameAt(Following(current_step))
    /\ num_fade_steps' = Min({FadeMaxSteps, LargestDiff(current_frame.leds, next_frame'.leds)})
    /\ fade_step' = 1
    /\ fade_frame' = [wait_ms |-> FadeWait,
          leds |-> Interpolated(current_frame.leds, next_frame'.leds, num_fade_steps', 1)]
    /\ RunsAgainIn(FadeWait)
    /\ state' = "FADING"
    /\ UNCHANGED <<animation_buffer, step, lit>>

\* Mutant: the step is counted before it is compared.
FadeEnds_CountsFirst == (fade_step + 1) % ByteMod > num_fade_steps

\* Mutant: the last step, which overshoots, is shown as part of the fade.
FadeEnds_Late == fade_step > num_fade_steps

FadeEnds == fade_step >= num_fade_steps

\* After the last step one more is computed, which the next state shows.
RunFading ==
    /\ Runs("FADING")
    /\ RunsAgainIn(fade_frame.wait_ms)
    /\ state' = IF FadeEnds THEN "FADING_END" ELSE "FADING"
    /\ fade_step' = (fade_step + 1) % ByteMod
    /\ fade_frame' = [fade_frame EXCEPT !.leds =
          Interpolated(current_frame.leds, next_frame.leds, num_fade_steps, fade_step')]
    /\ lit' = TRUE
    /\ UNCHANGED <<animation_buffer, step, next_frame, num_fade_steps>>

RunFadingEnd ==
    /\ Runs("FADING_END")
    /\ RunsAgainIn(fade_frame.wait_ms)
    /\ state' = "RUNNING"
    /\ current_step' = Following(current_step)
    /\ current_frame' = next_frame
    /\ lit' = TRUE
    /\ UNCHANGED <<animation_buffer, fade>>

RunFrame == RunStopped \/ RunRunning \/ RunFadingStart \/ RunFading \/ RunFadingEnd

-----------------------------------------------------------------------------
(* The rest of the main loop: a frame of the animation machine, and the    *)
(* commands of xbee_api_callback() and the button.                         *)

\* The machine may write any vector.
MachineFrame ==
    /\ ~helsinkiMode /\ frameIn = 0
    /\ frameIn' \in Pauses
    /\ lit' \in BOOLEAN
    /\ UNCHANGED <<animation_buffer, state, step, fade, runIn, helsinkiMode>>

LeaveHelsinki ==
    /\ helsinkiMode' = FALSE
    /\ UNCHANGED <<runner, runIn, frameIn>>

\* Mutant: set_animation() goes on with the step of the old animation.
SetAnimation_KeepsStep ==
    /\ current_step' = current_step
    /\ current_frame' = animation'.frames[Min({current_step' + 1, length'})]
    /\ runIn' = 0
    /\ lit' = FALSE

\* set_animation() of what is in animation_buffer now, but for the state.
SetAnimation ==
    /\ current_step' = 0
    /\ current_frame' = animation'.frames[1]
    /\ runIn' = 0
    /\ lit' = FALSE

\* load_nth_animation(), which copies one animation after the other to
\* animation_buffer until it meets the n-th or the last.
LoadNth(n) ==
    /\ animation_buffer' = Min({n + 1, Last})
    /\ IF n < Last THEN SetAnimation ELSE UNCHANGED <<step, runIn, lit>>
    /\ UNCHANGED <<fade, frameIn>>

LoadAnimation(n) ==
    /\ LoadNth(n)
    /\ state' = IF n < Last THEN "STOPPED" ELSE state
    /\ UNCHANGED helsinkiMode

Started == state' = "RUNNING"

StartAnimation ==
    /\ Started /\ helsinkiMode' = TRUE
    /\ UNCHANGED <<animation_buffer, step, fade, lit, runIn, frameIn>>

\* Mutant: the vectors keep their sectors.
StopAnimation_Lit ==
    /\ state' = "STOPPED"
    /\ UNCHANGED <<animation_buffer, step, fade, lit, runIn, helsinkiMode, frameIn>>

StopAnimation ==
    /\ state' = "STOPPED" /\ lit' = FALSE
    /\ UNCHANGED <<animation_buffer, step, fade, runIn, helsinkiMode, frameIn>>

LoadAndStart(n) == LoadNth(n) /\ Started /\ helsinkiMode' = TRUE

\* Every n beyond the last does the same.
Commands ==
    \/ LeaveHelsinki \/ StartAnimation \/ StopAnimation
    \/ \E n \in 0 .. Last : LoadAnimation(n) \/ LoadAndStart(n)

\* Time; how far runTime falls behind is counted up to LateMax.
Elapse(d) ==
    /\ runIn' = Max({-LateMax, runIn - d})
    /\ frameIn' = Max({0, frameIn - d})
    /\ UNCHANGED <<runner, helsinkiMode>>

\* main() up to its loop: load_nth_animation(1), if there are two, and start.
KeyframeInit ==
    /\ animation_buffer = Min({2, Last})
    /\ state = "RUNNING"
    /\ current_step = 0 /\ current_frame = FrameAt(0)
    /\ next_frame = Blank /\ fade_frame = Blank
    /\ fade_step = 0 /\ num_fade_steps = 0
    /\ lit = FALSE /\ helsinkiMode = FALSE
    /\ runIn = 0 /\ frameIn = 0

Time == \E d \in Delays : Elapse(d)

KeyframeNext == RunFrame \/ MachineFrame \/ Commands \/ Time

\* The loop turns for ever, and meanwhile time passes.
KeyframeSpec ==
    /\ KeyframeInit /\ [][KeyframeNext]_vars
    /\ WF_vars(RunFrame \/ MachineFrame) /\ WF_vars(Time)

-----------------------------------------------------------------------------
(* Type invariant.                                                         *)
KeyframeTypeOK ==
    /\ animation_buffer \in 1 .. Last
    /\ state \in {"STOPPED", "RUNNING", "FADING_START", "FADING", "FADING_END"}
    /\ {current_frame, next_frame, fade_frame} \subseteq Keyframe
    /\ {current_step, fade_step, num_fade_steps} \subseteq Byte
    /\ lit \in BOOLEAN /\ helsinkiMode \in BOOLEAN
    /\ runIn \in Int /\ frameIn \in Nat

(* No frame is run before its runTime, whatever the machine or the runner  *)
(* asked for when the modes changed, and whenever an animation was loaded: *)
(* nextFrame is never earlier.                                             *)
NeverEarly == runIn <= frameIn

(* Frames are read inside the animation, also when animation_buffer was    *)
(* changed under a runner that plays, by a load beyond the last animation, *)
(* which is the only load that keeps the step.                             *)
StepInAnimation == current_step < length

(* A fade never divides by zero, and every frame of it but the one of      *)
(* FADING_END, computed after the last step, keeps each channel between    *)
(* the frames it fades between, however large the step; a channel that     *)
(* rises starts from zero (animation_tasks.h:196) and not from its frame.  *)
FadeStaysBetween ==
    state = "FADING" =>
      \A c \in Channels :
        LET from == current_frame.leds[c]
            to == next_frame.leds[c]
            now == fade_frame.leds[c]
        IN  /\ from # to => num_fade_steps > 0
            /\ now <= Max({from, to})
            /\ from > to => now >= to

(* Left alone in helsinkiMode, a runner that was not stopped plays every   *)
(* frame of its animation again and again: no fade is without an end, also *)
(* the one that takes all the steps a byte can count, and no time that was *)
(* lost is waited for.                                                     *)
PlaysOn ==
    <>[][RunFrame \/ Time]_vars =>
      \A n \in 0 .. Len(Animations[Last].frames) - 1 :
        []<>(helsinkiMode /\ state # "STOPPED" /\ n < length => current_step = n)

(* The runner in the loop does what Playing says of the two modes and the  *)
(* light.                                                                  *)
P == INSTANCE Playing WITH LastAnimation <- Last - 1, helsinki <- helsinkiMode,
       runner <- IF state = "STOPPED" THEN "STOPPED" ELSE "RUNNING"

ImplementsPlaying == P!PlayingSpec
=============================================================================
