---------------------------- MODULE KeyframeProofs ----------------------------
(***************************************************************************)
(* Theorems about the keyframe runner, for every list of animations, every *)
(* width of a byte and every passing of time.                              *)
(***************************************************************************)
EXTENDS KeyframeRunner, WellFoundedInduction, SequenceTheorems, TLAPS

-----------------------------------------------------------------------------
(* Numbers.                                                                *)

LEMMA Sizes ==
    /\ ByteMod \in Nat /\ ByteMod > 1
    /\ FadeMinTime \in Nat /\ FadeMinTime > 0
    /\ Last \in Nat /\ Last > 0
    /\ 0 \in Byte /\ Byte \subseteq Nat
  BY KeyframeAssumption, LenProperties DEF Last, Byte

\* A division is a quotient and a remainder.
LEMMA Division ==
    ASSUME NEW d \in Nat, NEW s \in Nat, s > 0
    PROVE  d \div s \in Nat /\ (d \div s) * s <= d /\ (d >= s => d \div s >= 1)
  OBVIOUS

\* n of s parts of a difference are no more than the difference.
LEMMA PartOfDifference ==
    ASSUME NEW d \in Nat, NEW s \in Nat, s > 0, NEW n \in Nat
    PROVE  /\ (d \div s) * n \in Nat
           /\ n <= s => (d \div s) * n <= d
  <1> DEFINE e == d \div s
  <1>1. e \in Nat /\ e * s <= d
    BY Division
  <1> HIDE DEF e
  <1>2. e * n \in Nat
    BY <1>1
  <1>3. ASSUME n <= s PROVE e * n <= e * s
    BY <1>1, <1>3
  <1>4. e * s \in Nat
    BY <1>1
  <1>5. QED
    BY <1>1, <1>2, <1>3, <1>4 DEF e

LEMMA Wraps ==
    ASSUME NEW x \in Int
    PROVE  x % ByteMod \in Byte /\ (x \in Byte => x % ByteMod = x)
  BY Sizes DEF Byte

LEMMA MinOfTwo ==
    ASSUME NEW a \in Int, NEW b \in Int
    PROVE  Min({a, b}) = IF a <= b THEN a ELSE b
  BY DEF Min

LEMMA MaxOfTwo ==
    ASSUME NEW a \in Int, NEW b \in Int
    PROVE  Max({a, b}) = IF a >= b THEN a ELSE b
  BY DEF Max

\* A set of bytes has a largest one, as its distances from ByteMod have a
\* smallest one.
LEMMA MaxOfBytes ==
    ASSUME NEW S, S \subseteq Byte, S # {}
    PROVE  Max(S) \in S /\ \A y \in S : y <= Max(S)
  <1> DEFINE R == OpToRel(<, Nat)
             T == {ByteMod - x : x \in S}
  <1>1. T \subseteq Nat /\ T # {}
    <2>1. ASSUME NEW x \in S PROVE ByteMod - x \in Nat
      BY Sizes DEF Byte
    <2>2. PICK x \in S : TRUE
      OBVIOUS
    <2>3. ByteMod - x \in T
      OBVIOUS
    <2>4. QED
      BY <2>1, <2>3
  <1>2. IsWellFoundedOn(R, Nat)
    BY NatLessThanWellFounded
  <1>3. \E t \in T : \A u \in T : ~ (<<u, t>> \in R)
    <2> HIDE DEF R, T
    <2>1. QED
      BY <1>1, <1>2, WFMin
  <1>4. PICK x \in S : \A u \in T : ~ (<<u, ByteMod - x>> \in R)
    BY <1>3
  <1>5. ASSUME NEW y \in S PROVE x >= y
    <2>1. ByteMod - y \in T /\ ByteMod - y \in Nat /\ ByteMod - x \in Nat
      BY <1>1
    <2>2. ~ (ByteMod - y < ByteMod - x)
      BY <1>4, <2>1 DEF OpToRel
    <2>3. QED
      BY <2>2, Sizes DEF Byte
  <1>6. QED
    <2>1. \E z \in S : \A y \in S : z >= y
      BY <1>5
    <2>2. Max(S) \in S /\ \A y \in S : Max(S) >= y
      BY <2>1 DEF Max
    <2>3. QED
      BY <2>2, Sizes DEF Byte

-----------------------------------------------------------------------------
(* Frames.                                                                 *)

\* What can be on its way to the LEDs: frames of the animations.
Shown == {f \in Keyframe : f.wait_ms >= FadeMinTime}

FramesOf(i) == Animations[i].frames

LEMMA FrameCounts ==
    ASSUME NEW i \in 1 .. Last
    PROVE  /\ FramesOf(i) \in Seq(Shown)
           /\ Len(FramesOf(i)) \in 1 .. ByteMod - 1
           /\ Len(FramesOf(i)) <= Len(FramesOf(Last))
  <1> DEFINE f == FramesOf(i)
             a == Len(FramesOf(Last))
  <1>1. \A j \in 1 .. Last : FramesOf(j) \in Seq(Keyframe)
    <2>1. \A j \in 1 .. Last : Animations[j] \in Animation
      BY KeyframeAssumption, ElementOfSeq DEF Last
    <2>2. QED
      BY <2>1 DEF Animation, FramesOf
  <1>2. f \in Seq(Keyframe) /\ Len(f) \in Nat /\ DOMAIN f = 1 .. Len(f) /\ a \in Nat
    BY <1>1, Sizes, LenProperties
  <1>3. /\ Len(f) \in 1 .. Min({a, ByteMod - 1})
        /\ \A k \in DOMAIN f : f[k].wait_ms >= FadeMinTime
    BY KeyframeAssumption DEF FramesOf
  <1>4. Min({a, ByteMod - 1}) = IF a <= ByteMod - 1 THEN a ELSE ByteMod - 1
    BY <1>2, Sizes, MinOfTwo
  <1>5. \A k \in 1 .. Len(f) : f[k] \in Shown
    BY <1>2, <1>3, ElementOfSeq DEF Shown
  <1>6. f \in Seq(Shown)
    <2>1. f = [k \in 1 .. Len(f) |-> f[k]]
      BY <1>2, LenProperties
    <2> HIDE DEF f
    <2>2. QED
      BY <1>2, <1>5, <2>1
  <1>7. QED
    BY <1>2, <1>3, <1>4, <1>6, Sizes

\* Every frame that is asked for is one of the animation, and so is the step
\* that follows.
LEMMA FrameInAnimation ==
    ASSUME animation_buffer \in 1 .. Last, current_step \in Nat, current_step < length
    PROVE  /\ length \in 1 .. ByteMod - 1
           /\ Following(current_step) \in Byte
           /\ Following(current_step) < length
           /\ FrameAt(current_step) \in Shown
           /\ FrameAt(Following(current_step)) \in Shown
  <1> DEFINE f == FramesOf(animation_buffer)
  <1>1. f = animation.frames /\ length = Len(f)
    BY DEF animation, length, FramesOf
  <1>2. f \in Seq(Shown) /\ Len(f) \in 1 .. ByteMod - 1
    BY FrameCounts
  <1>3. Following(current_step) \in Nat /\ Following(current_step) < length
    BY <1>1, <1>2, Sizes DEF Following
  <1>4. ASSUME NEW n \in Nat, n < length PROVE FrameAt(n) \in Shown
    <2>1. n + 1 \in 1 .. Len(f)
      BY <1>1, <1>2, <1>4, Sizes
    <2> HIDE DEF f
    <2>2. f[n + 1] \in Shown
      BY <1>2, <2>1, ElementOfSeq
    <2>3. QED
      BY <1>1, <2>2 DEF FrameAt
  <1>5. QED
    BY <1>1, <1>2, <1>3, <1>4, Sizes DEF Byte

\* A fade between two sets of channels is made of bytes, if it has a step
\* wherever they differ.
LEMMA InterpolatedType ==
    ASSUME NEW from \in Leds, NEW to \in Leds, NEW steps \in Nat, NEW n \in Nat,
           \A c \in Channels : from[c] # to[c] => steps > 0
    PROVE  Interpolated(from, to, steps, n) \in Leds
  <1> SUFFICES ASSUME NEW c \in Channels
               PROVE  Interpolated(from, to, steps, n)[c] \in Byte
    BY DEF Interpolated, Leds
  <1>1. from[c] \in Byte /\ to[c] \in Byte /\ from[c] \in Nat /\ to[c] \in Nat
    BY Sizes DEF Leds
  <1>2. CASE from[c] = to[c]
    BY <1>1, <1>2 DEF Interpolated
  <1>3. CASE from[c] > to[c]
    <2>1. ((from[c] - to[c]) \div steps) * n \in Nat
      BY <1>1, <1>3, PartOfDifference
    <2>2. from[c] - ((from[c] - to[c]) \div steps) * n \in Int
      BY <1>1, <2>1
    <2>3. QED
      BY <1>1, <1>3, <2>2, Wraps DEF Interpolated
  <1>4. CASE from[c] < to[c]
    <2>1. ((to[c] - from[c]) \div steps) * n \in Nat
      BY <1>1, <1>4, PartOfDifference
    <2>2. QED
      BY <1>1, <1>4, <2>1, Wraps DEF Interpolated
  <1>5. QED
    BY <1>1, <1>2, <1>3, <1>4

\* Up to its last step a fade stays between what it fades between, and no
\* byte of it wraps.
LEMMA InterpolatedBetween ==
    ASSUME NEW from \in Leds, NEW to \in Leds, NEW steps \in Nat, NEW n \in Nat,
           NEW c \in Channels, from[c] # to[c] => n <= steps /\ steps > 0
    PROVE  LET now == Interpolated(from, to, steps, n)[c] IN
             /\ now <= Max({from[c], to[c]})
             /\ from[c] > to[c] => now >= to[c]
  <1> DEFINE now == Interpolated(from, to, steps, n)[c]
  <1>1. from[c] \in Byte /\ to[c] \in Byte /\ from[c] \in Nat /\ to[c] \in Nat
    BY Sizes DEF Leds
  <1>2. Max({from[c], to[c]}) = IF from[c] >= to[c] THEN from[c] ELSE to[c]
    BY <1>1, MaxOfTwo
  <1>3. CASE from[c] = to[c]
    BY <1>1, <1>2, <1>3 DEF Interpolated
  <1>4. CASE from[c] > to[c]
    <2> DEFINE part == ((from[c] - to[c]) \div steps) * n
    <2>1. part \in Nat /\ part <= from[c] - to[c]
      BY <1>1, <1>4, PartOfDifference
    <2>2. from[c] - part \in Byte
      <3> HIDE DEF part
      <3>1. QED
        BY <1>1, <2>1, Sizes DEF Byte
    <2>3. now = from[c] - part
      <3>1. (from[c] - part) % ByteMod = from[c] - part
        BY <1>1, <2>1, <2>2, Wraps
      <3>2. from[c] # to[c]
        BY <1>1, <1>4
      <3>3. now = (from[c] - part) % ByteMod
        BY <1>4, <3>2 DEF Interpolated
      <3>4. QED
        BY <3>1, <3>3
    <2> HIDE DEF part, now
    <2>4. QED
      BY <1>1, <1>2, <1>4, <2>1, <2>3 DEF now
  <1>5. CASE from[c] < to[c]
    <2> DEFINE part == ((to[c] - from[c]) \div steps) * n
    <2>1. part \in Nat /\ part <= to[c] - from[c]
      BY <1>1, <1>5, PartOfDifference
    <2>2. part \in Byte
      <3> HIDE DEF part
      <3>1. QED
        BY <1>1, <2>1, Sizes DEF Byte
    <2>3. now = part
      BY <1>1, <1>5, <2>2, Wraps, Sizes DEF Interpolated
    <2> HIDE DEF part, now
    <2>4. QED
      BY <1>1, <1>2, <1>5, <2>1, <2>3 DEF now
  <1>6. QED
    BY <1>1, <1>3, <1>4, <1>5

-----------------------------------------------------------------------------
(* The inductive invariant.  To the four properties it adds what fades     *)
(* rest on: that the frame on show is one of an animation, and so is the   *)
(* next one while there is a fade, so that their waits make a step.        *)

FramesShown ==
    /\ current_frame \in Shown
    /\ state \in {"FADING", "FADING_END"} => next_frame \in Shown

IInv ==
    /\ KeyframeTypeOK /\ NeverEarly /\ StepInAnimation
    /\ FadeStaysBetween /\ FramesShown

LEMMA ShownIsKeyframe ==
    ASSUME NEW f \in Shown
    PROVE  /\ f \in Keyframe /\ f.leds \in Leds
           /\ f.wait_ms \in Nat /\ f.wait_ms >= FadeMinTime
  BY DEF Shown, Keyframe

LEMMA BlankIsKeyframe == Blank \in Keyframe
  BY Sizes DEF Blank, Keyframe, Leds

\* run() asks for its next turn not before it is due.
LEMMA DueInTime ==
    ASSUME NEW wait_ms \in Nat, runIn \in Int, RunsAgainIn(wait_ms)
    PROVE  runIn' \in Int /\ frameIn' \in Nat /\ runIn' <= frameIn'
  <1>1. runIn' \in Int
    BY DEF RunsAgainIn
  <1>2. frameIn' = IF 0 >= runIn' THEN 0 ELSE runIn'
    BY <1>1, MaxOfTwo DEF RunsAgainIn
  <1>3. QED
    BY <1>1, <1>2

\* The number of steps of a fade is a byte, and one at least if there is
\* anything to fade.
LEMMA FadeSteps ==
    ASSUME IInv, NEW next \in Leds
    PROVE  /\ FadeMaxSteps \in Byte /\ FadeMaxSteps > 0
           /\ FadeWait \in Nat
           /\ LargestDiff(current_frame.leds, next) \in Byte
           /\ \A c \in Channels : current_frame.leds[c] # next[c] =>
                 LargestDiff(current_frame.leds, next) > 0
  <1> DEFINE parts == current_frame.wait_ms \div FadeMinTime
             from == current_frame.leds
             D == {0} \cup Differences(from, next)
  <1>1. /\ current_frame.wait_ms \in Nat /\ current_frame.wait_ms >= FadeMinTime
        /\ from \in Leds
    BY ShownIsKeyframe DEF IInv, FramesShown
  <1>2. parts \in Nat /\ parts >= 1
    BY <1>1, Division, Sizes
  <1>3. FadeMaxSteps = IF parts <= ByteMod - 1 THEN parts ELSE ByteMod - 1
    BY <1>2, MinOfTwo, Sizes DEF FadeMaxSteps
  <1>4. FadeMaxSteps \in Byte /\ FadeMaxSteps > 0
    BY <1>2, <1>3, Sizes DEF Byte
  <1>5. FadeWait \in Nat
    <2>1. current_frame.wait_ms \div (ByteMod - 1) \in Nat
      BY <1>1, Division, Sizes
    <2>2. QED
      BY <2>1, Sizes DEF FadeWait
  <1>6. ASSUME NEW c \in Channels
        PROVE  LET d == Max({from[c], next[c]}) - Min({from[c], next[c]}) IN
                 d \in Byte /\ (from[c] # next[c] => d > 0)
    <2>1. from[c] \in Byte /\ next[c] \in Byte /\ from[c] \in Nat /\ next[c] \in Nat
      BY <1>1, Sizes DEF Leds
    <2>2. /\ Max({from[c], next[c]}) = IF from[c] >= next[c] THEN from[c] ELSE next[c]
          /\ Min({from[c], next[c]}) = IF from[c] <= next[c] THEN from[c] ELSE next[c]
      BY <2>1, MaxOfTwo, MinOfTwo
    <2>3. QED
      BY <2>1, <2>2, Sizes DEF Byte
  <1>7. D \subseteq Byte /\ D # {}
    BY <1>6, Sizes DEF Differences
  <1>8. LargestDiff(from, next) \in Byte /\ \A d \in D : d <= LargestDiff(from, next)
    <2> HIDE DEF D
    <2>1. Max(D) \in D /\ \A d \in D : d <= Max(D)
      BY <1>7, MaxOfBytes
    <2>2. QED
      BY <1>7, <2>1 DEF LargestDiff, D
  <1>9. ASSUME NEW c \in Channels, from[c] # next[c]
        PROVE  LargestDiff(from, next) > 0
    <2> DEFINE d == Max({from[c], next[c]}) - Min({from[c], next[c]})
    <2>1. d \in D
      BY DEF Differences
    <2>2. d \in Byte /\ d > 0 /\ d <= LargestDiff(from, next)
      BY <1>6, <1>8, <1>9, <2>1
    <2> HIDE DEF d, D
    <2>3. QED
      BY <1>8, <2>2, Sizes DEF Byte
  <1>10. QED
    BY <1>4, <1>5, <1>8, <1>9

LEMMA InitInv == KeyframeInit => IInv
  <1> SUFFICES ASSUME KeyframeInit PROVE IInv
    OBVIOUS
  <1>1. animation_buffer \in 1 .. Last
    BY Sizes, MinOfTwo DEF KeyframeInit
  <1>2. length \in 1 .. ByteMod - 1
    BY <1>1, FrameCounts DEF length, animation, FramesOf
  <1>3. current_step < length
    BY <1>2, Sizes DEF KeyframeInit
  <1>4. current_frame \in Shown
    BY <1>1, <1>3, FrameInAnimation DEF KeyframeInit
  <1>5. KeyframeTypeOK
    <2>1. {current_frame, next_frame, fade_frame} \subseteq Keyframe
      BY <1>4, ShownIsKeyframe, BlankIsKeyframe DEF KeyframeInit
    <2>2. lit \in BOOLEAN /\ helsinkiMode \in BOOLEAN
      BY DEF KeyframeInit
    <2>3. /\ {current_step, fade_step, num_fade_steps} \subseteq Byte
          /\ runIn \in Int /\ frameIn \in Nat
      BY Sizes DEF KeyframeInit
    <2>4. state = "RUNNING"
      BY DEF KeyframeInit
    <2>5. QED
      BY <1>1, <2>1, <2>2, <2>3, <2>4 DEF KeyframeTypeOK
  <1>6. QED
    BY <1>3, <1>4, <1>5 DEF KeyframeInit, IInv, NeverEarly, StepInAnimation,
       FadeStaysBetween, FramesShown

\* run(), state by state.
LEMMA RunInv ==
    ASSUME IInv, RunFrame
    PROVE  IInv'
  <1> USE DEF IInv
  <1>1. /\ runIn \in Int /\ helsinkiMode \in BOOLEAN /\ lit \in BOOLEAN
        /\ animation_buffer \in 1 .. Last
        /\ current_step \in Nat /\ current_step < length
        /\ current_frame \in Shown
    BY Sizes DEF KeyframeTypeOK, StepInAnimation, FramesShown
  <1>2. /\ Following(current_step) \in Byte /\ Following(current_step) < length
        /\ FrameAt(current_step) \in Shown /\ FrameAt(Following(current_step)) \in Shown
    BY <1>1, FrameInAnimation
  <1>3. current_frame.wait_ms \in Nat /\ current_frame.leds \in Leds
    BY <1>1, ShownIsKeyframe
  <1>4. ASSUME animation_buffer' = animation_buffer PROVE length' = length
    BY <1>4 DEF length, animation
  <1>5. CASE RunStopped
    <2>1. runIn' \in Int /\ frameIn' \in Nat /\ runIn' <= frameIn'
      BY <1>1, <1>5, DueInTime DEF RunStopped
    <2>2. UNCHANGED <<runner, helsinkiMode>>
      BY <1>5 DEF RunStopped, Runs
    <2>3. KeyframeTypeOK'
      BY <2>1, <2>2 DEF KeyframeTypeOK, runner, step, fade
    <2>4. QED
      BY <1>4, <2>1, <2>2, <2>3 DEF NeverEarly, StepInAnimation, FadeStaysBetween,
         FramesShown, runner, step, fade
  <1>6. CASE RunRunning
    <2>1. /\ UNCHANGED <<animation_buffer, fade, helsinkiMode>> /\ lit' = TRUE
          /\ state' \in {"RUNNING", "FADING_START"}
      BY <1>6 DEF RunRunning, Runs
    <2>2. RunsAgainIn(0) \/ RunsAgainIn(current_frame.wait_ms)
      BY <1>6 DEF RunRunning
    <2>3. runIn' \in Int /\ frameIn' \in Nat /\ runIn' <= frameIn'
      BY <1>1, <1>3, <2>2, DueInTime
    <2>4. CASE animation.fades
      <3>1. UNCHANGED step
        BY <1>6, <2>4 DEF RunRunning
      <3>2. KeyframeTypeOK'
        BY <2>1, <2>3, <3>1 DEF KeyframeTypeOK, step, fade
      <3>3. QED
        BY <1>4, <2>1, <2>3, <3>1, <3>2 DEF NeverEarly, StepInAnimation,
           FadeStaysBetween, FramesShown, step, fade
    <2>5. CASE ~animation.fades
      <3>1. current_step' = Following(current_step)
        BY <1>6, <2>5 DEF RunRunning
      <3>2. current_frame' = FrameAt(Following(current_step))
        BY <1>6, <2>1, <2>5, <3>1 DEF RunRunning, FrameAt, animation
      <3>3. current_frame' \in Shown /\ current_frame' \in Keyframe
        BY <1>2, <3>2, ShownIsKeyframe
      <3>4. KeyframeTypeOK'
        BY <1>2, <2>1, <2>3, <3>1, <3>3 DEF KeyframeTypeOK, fade
      <3>5. QED
        BY <1>2, <1>4, <2>1, <2>3, <3>1, <3>3, <3>4 DEF NeverEarly, StepInAnimation,
           FadeStaysBetween, FramesShown
    <2>6. QED
      BY <2>4, <2>5
  <1>7. CASE RunFadingStart
    <2> DEFINE from == current_frame.leds
               to == next_frame'.leds
               largest == LargestDiff(from, to)
    <2>1. /\ UNCHANGED <<animation_buffer, step, lit, helsinkiMode>> /\ state' = "FADING"
          /\ next_frame' = FrameAt(Following(current_step)) /\ RunsAgainIn(FadeWait)
          /\ num_fade_steps' = Min({FadeMaxSteps, largest}) /\ fade_step' = 1
          /\ fade_frame' = [wait_ms |-> FadeWait,
                 leds |-> Interpolated(from, to, num_fade_steps', 1)]
      BY <1>7 DEF RunFadingStart, Runs
    <2>2. next_frame' \in Shown /\ next_frame' \in Keyframe /\ to \in Leds
      BY <1>2, <2>1, ShownIsKeyframe
    <2>3. /\ FadeMaxSteps \in Byte /\ FadeMaxSteps > 0 /\ FadeWait \in Nat
          /\ largest \in Byte
          /\ \A c \in Channels : from[c] # to[c] => largest > 0
      BY <2>2, FadeSteps
    <2>4. num_fade_steps' = IF FadeMaxSteps <= largest THEN FadeMaxSteps ELSE largest
      <3> HIDE DEF largest
      <3>1. FadeMaxSteps \in Int /\ largest \in Int
        BY <2>3, Sizes
      <3>2. QED
        BY <2>1, <3>1, MinOfTwo DEF largest
    <2>5. /\ num_fade_steps' \in Byte /\ num_fade_steps' \in Nat
          /\ \A c \in Channels : from[c] # to[c] => num_fade_steps' > 0
      <3> HIDE DEF largest
      <3>1. QED
        BY <2>3, <2>4, Sizes
    <2>6. fade_frame' \in Keyframe
      <3>1. fade_frame'.leds \in Leds
        BY <1>3, <2>1, <2>2, <2>5, InterpolatedType
      <3>2. QED
        BY <2>1, <2>3, <3>1 DEF Keyframe
    <2>7. runIn' \in Int /\ frameIn' \in Nat /\ runIn' <= frameIn'
      BY <1>1, <2>1, <2>3, DueInTime
    <2>8. FadeStaysBetween'
      <3>1. SUFFICES ASSUME NEW c \in Channels
                     PROVE  LET now == Interpolated(from, to, num_fade_steps', 1)[c] IN
                              /\ from[c] # to[c] => num_fade_steps' > 0
                              /\ now <= Max({from[c], to[c]})
                              /\ from[c] > to[c] => now >= to[c]
        BY <2>1 DEF FadeStaysBetween, step
      <3>2. from[c] # to[c] => 1 <= num_fade_steps' /\ num_fade_steps' > 0
        BY <2>5
      <3>3. QED
        BY <1>3, <2>2, <2>5, <3>2, InterpolatedBetween
    <2>9. KeyframeTypeOK'
      <3>1. fade_step' \in Byte
        BY <2>1, Sizes DEF Byte
      <3>2. QED
        BY <2>1, <2>2, <2>5, <2>6, <2>7, <3>1 DEF KeyframeTypeOK, step
    <2>10. QED
      BY <1>4, <2>1, <2>2, <2>7, <2>8, <2>9 DEF NeverEarly, StepInAnimation, FramesShown, step
  <1>8. CASE RunFading
    <2> DEFINE from == current_frame.leds
               to == next_frame.leds
               next == (fade_step + 1) % ByteMod
    <2>1. /\ UNCHANGED <<animation_buffer, step, next_frame, num_fade_steps, helsinkiMode>>
          /\ state = "FADING" /\ lit' = TRUE
          /\ state' = IF FadeEnds THEN "FADING_END" ELSE "FADING"
          /\ RunsAgainIn(fade_frame.wait_ms) /\ fade_step' = next
          /\ fade_frame' = [fade_frame EXCEPT !.leds =
                Interpolated(from, to, num_fade_steps, next)]
      BY <1>8 DEF RunFading, Runs
    <2>2. next_frame \in Shown /\ next_frame \in Keyframe /\ to \in Leds
      BY <2>1, ShownIsKeyframe DEF FramesShown
    <2>3. /\ fade_step \in Nat /\ num_fade_steps \in Nat /\ num_fade_steps < ByteMod
          /\ next \in Byte /\ next \in Nat
      <3>1. /\ fade_step \in Nat /\ num_fade_steps \in Nat /\ num_fade_steps < ByteMod
        BY Sizes DEF KeyframeTypeOK, Byte
      <3>2. next \in Byte
        BY <3>1, Wraps
      <3>3. QED
        BY <3>1, <3>2, Sizes
    <2>4. \A c \in Channels : from[c] # to[c] => num_fade_steps > 0
      BY <2>1 DEF FadeStaysBetween
    <2>5. Interpolated(from, to, num_fade_steps, next) \in Leds
      BY <1>3, <2>2, <2>3, <2>4, InterpolatedType
    <2>6. fade_frame.wait_ms \in Nat /\ fade_frame' \in Keyframe
      <3>1. fade_frame \in Keyframe
        BY DEF KeyframeTypeOK
      <3>2. QED
        BY <2>1, <2>5, <3>1 DEF Keyframe
    <2>7. runIn' \in Int /\ frameIn' \in Nat /\ runIn' <= frameIn'
      BY <1>1, <2>1, <2>6, DueInTime
    <2>8. ASSUME state' = "FADING" PROVE next <= num_fade_steps
      <3>1. fade_step < num_fade_steps
        BY <2>1, <2>3, <2>8 DEF FadeEnds
      <3>2. fade_step + 1 \in Byte
        BY <2>3, <3>1, Sizes DEF Byte
      <3>3. next = fade_step + 1
        BY <2>3, <3>2, Wraps
      <3>4. QED
        BY <2>3, <3>1, <3>3
    <2>9. FadeStaysBetween'
      <3>1. SUFFICES ASSUME NEW c \in Channels, state' = "FADING"
                     PROVE  LET now == Interpolated(from, to, num_fade_steps, next)[c] IN
                              /\ from[c] # to[c] => num_fade_steps > 0
                              /\ now <= Max({from[c], to[c]})
                              /\ from[c] > to[c] => now >= to[c]
        <4>1. fade_frame \in Keyframe
          BY DEF KeyframeTypeOK
        <4>2. fade_frame'.leds = Interpolated(from, to, num_fade_steps, next)
          BY <2>1, <4>1 DEF Keyframe
        <4>3. QED
          BY <2>1, <4>2 DEF FadeStaysBetween, step
      <3>2. from[c] # to[c] => next <= num_fade_steps /\ num_fade_steps > 0
        BY <2>4, <2>8, <3>1
      <3>3. QED
        BY <1>3, <2>2, <2>3, <3>2, InterpolatedBetween
    <2>10. KeyframeTypeOK'
      BY <2>1, <2>2, <2>3, <2>6, <2>7 DEF KeyframeTypeOK, step
    <2>11. QED
      BY <1>4, <2>1, <2>2, <2>7, <2>9, <2>10 DEF NeverEarly, StepInAnimation, FramesShown, step
  <1>9. CASE RunFadingEnd
    <2>1. /\ UNCHANGED <<animation_buffer, fade, helsinkiMode>> /\ lit' = TRUE
          /\ state = "FADING_END" /\ state' = "RUNNING"
          /\ RunsAgainIn(fade_frame.wait_ms)
          /\ current_step' = Following(current_step) /\ current_frame' = next_frame
      BY <1>9 DEF RunFadingEnd, Runs
    <2>2. next_frame \in Shown /\ next_frame \in Keyframe
      BY <2>1, ShownIsKeyframe DEF FramesShown
    <2>3. fade_frame.wait_ms \in Nat
      BY DEF KeyframeTypeOK, Keyframe
    <2>4. runIn' \in Int /\ frameIn' \in Nat /\ runIn' <= frameIn'
      BY <1>1, <2>1, <2>3, DueInTime
    <2>5. KeyframeTypeOK'
      BY <1>2, <2>1, <2>2, <2>4 DEF KeyframeTypeOK, fade
    <2>6. QED
      BY <1>2, <1>4, <2>1, <2>2, <2>4, <2>5 DEF NeverEarly, StepInAnimation,
         FadeStaysBetween, FramesShown
  <1>10. QED
    BY <1>5, <1>6, <1>7, <1>8, <1>9 DEF RunFrame

\* A command or the button.  A load beyond the last animation keeps the step,
\* in an animation that has no fewer frames.
LEMMA CommandInv ==
    ASSUME IInv, Commands
    PROVE  IInv'
  <1> USE DEF IInv
  <1>1. /\ animation_buffer \in 1 .. Last /\ runIn \in Int /\ frameIn \in Nat
        /\ current_step \in Nat /\ current_step < length /\ current_step \in Byte
        /\ helsinkiMode \in BOOLEAN /\ lit \in BOOLEAN
    BY Sizes DEF KeyframeTypeOK, StepInAnimation
  <1>2. ASSUME animation_buffer' = animation_buffer PROVE length' = length
    BY <1>2 DEF length, animation
  <1>3. CASE LeaveHelsinki \/ StartAnimation \/ StopAnimation
    <2>1. /\ UNCHANGED <<animation_buffer, step, fade, runIn, frameIn>>
          /\ helsinkiMode' \in BOOLEAN /\ lit' \in BOOLEAN
          /\ state' \in {"RUNNING", "STOPPED", state}
      BY <1>1, <1>3 DEF LeaveHelsinki, StartAnimation, Started, StopAnimation, runner
    <2>2. KeyframeTypeOK'
      BY <2>1 DEF KeyframeTypeOK, step, fade
    <2>3. QED
      BY <1>2, <2>1, <2>2 DEF NeverEarly, StepInAnimation, FadeStaysBetween,
         FramesShown, step, fade
  <1>4. ASSUME NEW n \in 0 .. Last, LoadAnimation(n) \/ LoadAndStart(n)
        PROVE  IInv'
    <2>1. LoadNth(n) /\ UNCHANGED <<fade, frameIn>> /\ helsinkiMode' \in BOOLEAN
      BY <1>1, <1>4 DEF LoadAnimation, LoadAndStart, LoadNth
    <2>2. animation_buffer' = IF n + 1 <= Last THEN n + 1 ELSE Last
      BY <2>1, MinOfTwo, Sizes DEF LoadNth
    <2>3. animation_buffer' \in 1 .. Last /\ (n < Last \/ animation_buffer' = Last)
      BY <2>2, Sizes
    <2>4. length' = Len(FramesOf(animation_buffer'))
      BY DEF length, animation, FramesOf
    <2>5. length' \in Nat /\ length' > 0
      BY <2>3, <2>4, FrameCounts, Sizes
    <2>6. CASE n < Last
      <3>1. state' \in {"STOPPED", "RUNNING"}
        BY <1>4, <2>6 DEF LoadAnimation, LoadAndStart, Started
      <3>2. /\ current_step' = 0 /\ runIn' = 0 /\ lit' = FALSE
            /\ current_frame' = FramesOf(animation_buffer')[1]
        BY <2>1, <2>6 DEF LoadNth, SetAnimation, animation, FramesOf
      <3>3. current_frame' \in Shown /\ current_frame' \in Keyframe
        <4>1. FramesOf(animation_buffer') \in Seq(Shown)
          BY <2>3, FrameCounts
        <4>2. 1 \in 1 .. Len(FramesOf(animation_buffer'))
          BY <2>4, <2>5
        <4>3. current_frame' \in Shown
          BY <3>2, <4>1, <4>2, ElementOfSeq
        <4>4. QED
          BY <4>3, ShownIsKeyframe
      <3>4. KeyframeTypeOK'
        <4>1. lit' \in BOOLEAN
          BY <3>2
        <4>2. current_step' \in Byte /\ runIn' \in Int /\ frameIn' \in Nat
          BY <1>1, <2>1, <3>2, Sizes
        <4>3. QED
          BY <2>1, <2>3, <3>1, <3>3, <4>1, <4>2 DEF KeyframeTypeOK, fade
      <3>5. QED
        BY <1>1, <2>1, <2>5, <3>1, <3>2, <3>3, <3>4 DEF NeverEarly, StepInAnimation,
           FadeStaysBetween, FramesShown, fade
    <2>7. CASE ~ (n < Last)
      <3>1. UNCHANGED <<step, runIn, lit>> /\ state' \in {state, "RUNNING"}
        BY <1>4, <2>1, <2>7 DEF LoadAnimation, LoadAndStart, LoadNth, Started
      <3>2. current_step < length'
        <4>1. length <= Len(FramesOf(Last)) /\ length \in Nat
          BY <1>1, FrameCounts DEF length, animation, FramesOf
        <4>2. QED
          BY <1>1, <2>3, <2>4, <2>5, <2>7, <4>1
      <3>3. KeyframeTypeOK'
        BY <2>1, <2>3, <3>1 DEF KeyframeTypeOK, step, fade
      <3>4. QED
        BY <2>1, <3>1, <3>2, <3>3 DEF NeverEarly, StepInAnimation, FadeStaysBetween,
           FramesShown, step, fade
    <2>8. QED
      BY <2>6, <2>7
  <1>5. QED
    BY <1>3, <1>4 DEF Commands

\* A frame of the machine, and time.
LEMMA LoopInv ==
    ASSUME IInv, MachineFrame \/ Time \/ UNCHANGED vars
    PROVE  IInv'
  <1> USE DEF IInv
  <1>1. UNCHANGED <<animation_buffer, state, step, fade, helsinkiMode>>
    BY DEF MachineFrame, Time, Elapse, vars, runner
  <1>2. lit' \in BOOLEAN
    BY DEF MachineFrame, Time, Elapse, vars, runner, KeyframeTypeOK
  <1>3. runIn \in Int /\ frameIn \in Nat /\ runIn <= frameIn
    BY DEF KeyframeTypeOK, NeverEarly
  <1>4. runIn' \in Int /\ frameIn' \in Nat /\ runIn' <= frameIn'
    <2>1. CASE MachineFrame
      BY <1>3, <2>1, KeyframeAssumption DEF MachineFrame
    <2>2. CASE Time
      <3>1. PICK d \in Delays : Elapse(d)
        BY <2>2 DEF Time
      <3>2. d \in Nat /\ LateMax \in Nat
        BY KeyframeAssumption
      <3>3. /\ runIn' = IF -LateMax >= runIn - d THEN -LateMax ELSE runIn - d
            /\ frameIn' = IF 0 >= frameIn - d THEN 0 ELSE frameIn - d
        BY <1>3, <3>1, <3>2, MaxOfTwo DEF Elapse
      <3>4. QED
        BY <1>3, <3>2, <3>3
    <2>3. CASE UNCHANGED vars
      BY <1>3, <2>3 DEF vars
    <2>4. QED
      BY <2>1, <2>2, <2>3
  <1>5. KeyframeTypeOK'
    BY <1>1, <1>2, <1>4 DEF KeyframeTypeOK, step, fade
  <1>6. QED
    BY <1>1, <1>4, <1>5 DEF NeverEarly, StepInAnimation, FadeStaysBetween, FramesShown,
       length, animation, step, fade

\* The invariant of the main loop with the runner in it, which the theorems
\* below take apart.
THEOREM Invariance == KeyframeSpec => []IInv
  <1>1. IInv /\ [KeyframeNext]_vars => IInv'
    BY RunInv, CommandInv, LoopInv DEF KeyframeNext
  <1>2. QED
    BY InitInv, <1>1, PTL DEF KeyframeSpec

-----------------------------------------------------------------------------
\* The runner keeps its types: every step of a fade, every byte of a frame
\* and every count of animation_tasks.h fits what it is kept in.
THEOREM TypeCorrect == KeyframeSpec => []KeyframeTypeOK
  <1>1. IInv => KeyframeTypeOK
    BY DEF IInv
  <1>2. QED
    BY <1>1, Invariance, PTL

\* No frame is run before its runTime, in any order of the two players and of
\* loads, starts and stops.
THEOREM NeverRunsEarly == KeyframeSpec => []NeverEarly
  <1>1. IInv => NeverEarly
    BY DEF IInv
  <1>2. QED
    BY <1>1, Invariance, PTL

\* run() reads no frame outside its animation, although
\* load_nth_animation() may change the animation under it.
THEOREM StaysInAnimation == KeyframeSpec => []StepInAnimation
  <1>1. IInv => StepInAnimation
    BY DEF IInv
  <1>2. QED
    BY <1>1, Invariance, PTL

\* But for the frame of FADING_END, interpolate_fade() never divides by zero and
\* does not pass the next frame: a falling channel stays between the two frames,
\* a rising one between zero and the next.  The waits are FADE_MIN_TIME or
\* more, as KeyframeAssumption says of animations.h.
THEOREM FadesBetween == KeyframeSpec => []FadeStaysBetween
  <1>1. IInv => FadeStaysBetween
    BY DEF IInv
  <1>2. QED
    BY <1>1, Invariance, PTL

-----------------------------------------------------------------------------
(* Refinement of the two modes.                                            *)

LEMMA InitRefines == KeyframeInit => P!PlayingInit
  BY DEF KeyframeInit, P!PlayingInit

LEMMA StepRefines ==
    IInv /\ [KeyframeNext]_vars => [P!PlayingNext]_(P!playingVars)
  <1> SUFFICES ASSUME IInv, [KeyframeNext]_vars
               PROVE  [P!PlayingNext]_(P!playingVars)
    OBVIOUS
  <1>1. lit \in BOOLEAN
    BY DEF IInv, KeyframeTypeOK
  <1>2. CASE RunStopped \/ Time \/ UNCHANGED vars
    BY <1>2 DEF RunStopped, Runs, Time, Elapse, vars, runner, P!playingVars
  <1>3. CASE RunRunning \/ RunFadingStart \/ RunFading \/ RunFadingEnd
    <2>1. /\ helsinkiMode /\ UNCHANGED helsinkiMode /\ lit' \in {TRUE, lit}
          /\ state # "STOPPED" /\ state' # "STOPPED"
      BY <1>3 DEF RunRunning, RunFadingStart, RunFading, RunFadingEnd, Runs
    <2>2. P!RunnerPlays
      BY <2>1 DEF P!RunnerPlays
    <2>3. QED
      BY <2>2 DEF P!PlayingNext
  <1>4. CASE MachineFrame
    BY <1>4 DEF MachineFrame, P!ProgramPlays, P!PlayingNext
  <1>5. CASE LeaveHelsinki
    BY <1>5 DEF LeaveHelsinki, runner, P!LeaveHelsinki, P!PlayingNext
  <1>6. CASE StartAnimation
    BY <1>6 DEF StartAnimation, Started, P!StartAnimation, P!Remote, P!PlayingNext
  <1>7. CASE StopAnimation
    BY <1>7 DEF StopAnimation, P!StopAnimation, P!Remote, P!PlayingNext
  <1>8. ASSUME NEW n \in 0 .. Last, LoadAnimation(n) \/ LoadAndStart(n)
        PROVE  P!Remote
    <2>1. n \in 0 .. (Last - 1) + 1 /\ (P!Loaded(n) <=> n < Last)
      BY Sizes DEF P!Loaded
    <2>2. lit' = (lit /\ ~P!Loaded(n))
      BY <1>1, <1>8, <2>1 DEF LoadAnimation, LoadAndStart, LoadNth, SetAnimation
    <2>3. CASE LoadAnimation(n)
      BY <2>1, <2>2, <2>3 DEF LoadAnimation, P!LoadAnimation, P!Remote
    <2>4. CASE LoadAndStart(n)
      BY <2>1, <2>2, <2>4 DEF LoadAndStart, Started, P!LoadAndStart, P!Remote
    <2>5. QED
      BY <1>8, <2>3, <2>4
  <1>9. QED
    BY <1>2, <1>3, <1>4, <1>5, <1>6, <1>7, <1>8 DEF KeyframeNext, RunFrame, Commands,
       P!PlayingNext

\* The runner in the main loop does with the modes and the light what Playing
\* says: what is proved of the hat, which is built on Playing, holds with it.
THEOREM Refinement == KeyframeSpec => ImplementsPlaying
  <1>1. QED
    BY InitRefines, StepRefines, Invariance, PTL
       DEF KeyframeSpec, ImplementsPlaying, P!PlayingSpec
=============================================================================
