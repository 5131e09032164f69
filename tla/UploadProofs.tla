---------------------------- MODULE UploadProofs ----------------------------
(***************************************************************************)
(* Theorems about the hat under uploads, for every size of buffer and      *)
(* chunk, every set of programs and any number of losses.  The type        *)
(* invariant is inductive: it holds the two pointers apart and says of     *)
(* every command still to be sent what the hat will find in it.  That an   *)
(* upload plays as it was sent needs one thing more, what an upload under  *)
(* way has written so far.                                                 *)
(***************************************************************************)
EXTENDS Upload, FiniteSetTheorems, SequenceTheorems, TLAPS

Words == [Address -> Word]

LEMMA Sizes ==
    /\ CodeSize \in Nat /\ CodeSize > 0
    /\ ChunkSize \in Nat /\ ChunkSize > 0
    /\ 0 \in Address
    /\ Stops \subseteq Address
  BY HatAssumption DEF Address

\* What is copied over a buffer of words leaves a buffer of words.
LEMMA CopiedType ==
    ASSUME NEW b \in Words, NEW s \in Seq(Word)
    PROVE  Copied(b, s) \in Words
  <1>1. ASSUME NEW a \in Address, a < Len(s)
        PROVE  s[a + 1] \in Word
    BY <1>1, Sizes, ElementOfSeq DEF Address
  <1>2. QED
    BY <1>1 DEF Copied, Words

LEMMA ZeroBuffer == [a \in Address |-> Zero] \in Words
  BY HatAssumption DEF Words

\* The number of the next built-in program stays in its range.
LEMMA NextBuiltInRange ==
    ASSUME builtIn \in 0 .. Len(BuiltIn) - 1
    PROVE  /\ NextBuiltIn \in 0 .. Len(BuiltIn) - 1
           /\ BuiltIn[builtIn + 1] \in Seq(Word)
  <1>1. BuiltIn \in Seq(Seq(Word)) /\ Len(BuiltIn) \in Nat /\ Len(BuiltIn) > 0
    BY HatAssumption, EmptySeq, LenProperties
  <1>2. BuiltIn[builtIn + 1] \in Seq(Word)
    BY <1>1, ElementOfSeq
  <1>3. builtIn + 1 < Len(BuiltIn) \/ builtIn + 1 = Len(BuiltIn)
    BY <1>1
  <1>4. CASE builtIn + 1 < Len(BuiltIn)
    BY <1>1, <1>2, <1>4 DEF NextBuiltIn
  <1>5. CASE builtIn + 1 = Len(BuiltIn)
    BY <1>1, <1>2, <1>5 DEF NextBuiltIn
  <1>6. QED
    BY <1>3, <1>4, <1>5

\* The chunks of a program are chunks of words.
LEMMA ChunkType ==
    ASSUME NEW p \in Programs, NEW n \in Nat
    PROVE  Chunk(p, n) \in Seq(Word)
  <1> DEFINE q == Append(p, LastWord)
             S == {Len(p) + 1, (n + 1) * ChunkSize}
             m == n * ChunkSize + 1
             e == Min(S)
  <1>1. p \in Seq(Word) /\ LastWord \in Word
    BY UploadAssumption
  <1>2. q \in Seq(Word) /\ Len(q) = Len(p) + 1 /\ Len(p) \in Nat
    BY <1>1, AppendProperties, LenProperties
  <1>3. n * ChunkSize \in Nat /\ (n + 1) * ChunkSize \in Nat
    BY Sizes
  <1>4. e \in Nat /\ e <= Len(q)
    <2>1. \E x \in S : \A y \in S : x <= y
      BY <1>2, <1>3
    <2>2. e \in S /\ \A y \in S : e <= y
      BY <2>1 DEF Min
    <2>3. QED
      BY <1>2, <1>3, <2>2
  <1>5. m \in Nat /\ m >= 1
    BY <1>3
  <1>6. SubSeq(q, m, e) \in Seq(Word)
    <2>1. m .. e \subseteq 1 .. Len(q)
      BY <1>2, <1>4, <1>5
    <2> HIDE DEF q, S, m, e
    <2>2. QED
      BY <1>2, <1>4, <1>5, <2>1, SubSeqProperties
  <1>7. QED
    BY <1>6 DEF Chunk

\* A run of the tool sends commands that the hat knows.
LEMMA CommandsType ==
    ASSUME NEW p \in Programs \cup {<< >>}
    PROVE  Commands(p) \in Seq(Command)
  <1> DEFINE k == IF p = << >> THEN 0 ELSE Chunks(p)
             chunk(n) == [command |-> "chunk", number |-> n - 1,
                          words |-> Chunk(p, n - 1)]
             first == <<[command |-> "clear"]>>
             middle == [n \in 1 .. k |-> chunk(n)]
             last == <<[command |-> "swap", of |-> p], [command |-> "dump"]>>
  <1>1. first \in Seq(Command)
    BY DEF Command
  <1>2. last \in Seq(Command)
    BY DEF Command
  <1>3. k \in Nat
    <2>1. CASE p = << >>
      BY <2>1
    <2>2. CASE p # << >>
      <3>1. Len(p) \in Nat
        BY <2>2, UploadAssumption, LenProperties
      <3>2. (2 * Len(p) + 1) \div (2 * ChunkSize) \in Nat
        BY <3>1, Sizes
      <3>3. QED
        BY <2>2, <3>2 DEF Chunks, Bytes
    <2>3. QED
      BY <2>1, <2>2
  <1>4. ASSUME NEW n \in 1 .. k
        PROVE  chunk(n) \in Command
    <2>1. p # << >> /\ p \in Programs
      BY <1>4
    <2>2. n - 1 \in Nat
      BY <1>3
    <2>3. Chunk(p, n - 1) \in Seq(Word)
      BY <2>1, <2>2, ChunkType
    <2>4. QED
      BY <2>2, <2>3 DEF Command
  <1>5. middle \in Seq(Command)
    BY <1>3, <1>4
  <1>6. first \o middle \in Seq(Command)
    BY <1>1, <1>5, ConcatProperties
  <1>7. (first \o middle) \o last \in Seq(Command)
    BY <1>2, <1>6, ConcatProperties
  <1>8. QED
    BY <1>7 DEF Commands

\* What a command still to be sent brings the hat.
LEMMA HeadOfTodo ==
    ASSUME todo \in Seq(Command), todo # << >>
    PROVE  /\ Tail(todo) \in Seq(Command)
           /\ Head(todo).command = "chunk" =>
                 Head(todo).number \in Nat /\ Head(todo).words \in Seq(Word)
           /\ Head(todo).command = "swap" =>
                 Head(todo).of \in Programs \cup {<< >>}
  <1>1. Head(todo) \in Command /\ Tail(todo) \in Seq(Command)
    BY HeadTailProperties
  <1>2. QED
    BY <1>1 DEF Command

\* Each step of the hat keeps its types.
LEMMA WriteChunkType ==
    ASSUME HatTypeOK, NEW n \in Nat, NEW words \in Seq(Word), WriteChunk(n, words)
    PROVE  HatTypeOK'
  <1> DEFINE new == [a \in Address |-> IF a - Offset(n) \in 0 .. Len(words) - 1
                       THEN words[a - Offset(n) + 1] ELSE code[next][a]]
  <1>1. code \in [1 .. 2 -> Words] /\ next \in 1 .. 2
    BY DEF HatTypeOK, Words
  <1>2. Offset(n) \in Int
    BY Sizes DEF Offset
  <1>3. ASSUME NEW a \in Address, a - Offset(n) \in 0 .. Len(words) - 1
        PROVE  words[a - Offset(n) + 1] \in Word
    <2>1. a - Offset(n) + 1 \in 1 .. Len(words)
      BY <1>2, <1>3, Sizes, LenProperties DEF Address
    <2>2. QED
      BY <2>1, ElementOfSeq
  <1>4. code[next] \in Words
    BY <1>1
  <1>5. new \in Words
    BY <1>3, <1>4 DEF Words
  <1>6. code' = [code EXCEPT ![next] = new]
    BY DEF WriteChunk
  <1>7. code' \in [1 .. 2 -> Words]
    <2> HIDE DEF new
    <2> QED
      BY <1>1, <1>5, <1>6
  <1>8. QED
    BY <1>7 DEF HatTypeOK, WriteChunk, Words, playingVars

LEMMA ClearType ==
    ASSUME HatTypeOK, ClearProgram
    PROVE  HatTypeOK'
  <1>1. code \in [1 .. 2 -> Words] /\ next \in 1 .. 2
    BY DEF HatTypeOK, Words
  <1>2. code' \in [1 .. 2 -> Words]
    BY <1>1, ZeroBuffer DEF ClearProgram
  <1>3. QED
    BY <1>2 DEF HatTypeOK, ClearProgram, Words, playingVars

LEMMA PressType ==
    ASSUME HatTypeOK, PressButton
    PROVE  HatTypeOK'
  <1>1. /\ code \in [1 .. 2 -> Words] /\ next \in 1 .. 2
        /\ builtIn \in 0 .. Len(BuiltIn) - 1
    BY DEF HatTypeOK, Words
  <1>2. BuiltIn[builtIn + 1] \in Seq(Word)
    BY <1>1, NextBuiltInRange
  <1>3. builtIn' \in 0 .. Len(BuiltIn) - 1
    BY <1>1, NextBuiltInRange DEF PressButton
  <1>4. Copied(code[next], BuiltIn[builtIn + 1]) \in Words
    BY <1>1, <1>2, CopiedType
  <1>5. code' \in [1 .. 2 -> Words]
    BY <1>1, <1>4 DEF PressButton
  <1>6. QED
    BY <1>3, <1>5, Sizes DEF HatTypeOK, PressButton, LeaveHelsinki, Swap, Words

LEMMA OtherStepsType ==
    ASSUME HatTypeOK, ProgramFrame \/ RunnerFrame \/ RemoteCommand \/ SwapPrograms
                        \/ UNCHANGED hatVars
    PROVE  HatTypeOK'
  <1> USE DEF HatTypeOK
  <1>1. CASE ProgramFrame
    BY <1>1, Sizes DEF ProgramFrame, ProgramPlays
  <1>2. CASE RunnerFrame
    BY <1>2 DEF RunnerFrame, RunnerPlays, programs
  <1>3. CASE RemoteCommand
    BY <1>3 DEF RemoteCommand, programs, Remote, LoadAnimation, LoadAndStart, StartAnimation,
                StopAnimation, Loaded, RunnerStates
  <1>4. CASE SwapPrograms
    BY <1>4, Sizes DEF SwapPrograms, LeaveHelsinki, Swap
  <1>5. CASE UNCHANGED hatVars
    BY <1>5 DEF hatVars, programs, playingVars
  <1>6. QED
    BY <1>1, <1>2, <1>3, <1>4, <1>5

LEMMA TypeStep ==
    ASSUME UploadTypeOK, [UploadNext]_allVars
    PROVE  UploadTypeOK'
  <1> USE DEF UploadTypeOK
  <1>1. ASSUME NEW p \in Programs \cup {<< >>}, StartTool(p)
        PROVE  UploadTypeOK'
    BY <1>1, CommandsType, OtherStepsType DEF StartTool
  <1>2. CASE Send
    <2> DEFINE c == Head(todo)
    <2>1. HatTypeOK'
      <3>1. CASE c.command = "clear" /\ ClearProgram
        BY <3>1, ClearType
      <3>2. CASE c.command = "chunk" /\ WriteChunk(c.number, c.words)
        <4>1. c.number \in Nat /\ c.words \in Seq(Word)
          BY <1>2, <3>2, HeadOfTodo DEF Send
        <4>2. QED
          BY <3>2, <4>1, WriteChunkType
      <3>3. CASE SwapPrograms
        BY <3>3, OtherStepsType
      <3>4. CASE Answer
        BY <3>4, OtherStepsType DEF Answer
      <3>5. QED
        BY <1>2, <3>1, <3>2, <3>3, <3>4 DEF Send
    <2>2. todo' \in Seq(Command)
      BY <1>2, HeadOfTodo DEF Send
    <2>3. uploaded' \in Programs \cup {<< >>}
      BY <1>2, HeadOfTodo DEF Send
    <2>4. QED
      BY <1>2, <2>1, <2>2, <2>3 DEF Send
  <1>3. CASE Lose
    <2>1. HatTypeOK'
      BY <1>3, OtherStepsType DEF Lose
    <2>2. losses' \in 0 .. LossMax
      BY <1>3, UploadAssumption DEF Lose
    <2>3. QED
      BY <1>3, <2>1, <2>2, HeadOfTodo DEF Lose
  <1>4. CASE RemoteSends
    BY <1>4, OtherStepsType DEF RemoteSends
  <1>5. CASE Press
    BY <1>5, PressType DEF Press
  <1>6. CASE Frame
    BY <1>6, OtherStepsType DEF Frame
  <1>7. CASE UNCHANGED allVars
    BY <1>7, OtherStepsType DEF allVars
  <1>8. QED
    BY <1>1, <1>2, <1>3, <1>4, <1>5, <1>6, <1>7 DEF UploadNext

LEMMA TypeInit ==
    ASSUME UploadInit
    PROVE  UploadTypeOK
  <1>1. Copied([a \in Address |-> Zero], StartProgram) \in Words
    BY ZeroBuffer, CopiedType, HatAssumption
  <1>2. code \in [1 .. 2 -> Words]
    BY <1>1, ZeroBuffer DEF UploadInit, HatInit
  <1>3. 0 \in 0 .. Len(BuiltIn) - 1
    BY HatAssumption, EmptySeq, LenProperties
  <1>4. HatTypeOK
    BY <1>2, <1>3, Sizes DEF UploadInit, HatInit, PlayingInit, HatTypeOK, Words, RunnerStates
  <1>5. << >> \in Seq(Command)
    BY EmptySeq
  <1>6. losses \in 0 .. LossMax
    BY UploadAssumption DEF UploadInit
  <1>7. QED
    BY <1>4, <1>5, <1>6 DEF UploadInit, UploadTypeOK

(* The hat keeps its types under every order of commands, presses and      *)
(* losses: the pointers stay apart, the program counter in the buffer, and *)
(* no chunk is anything but words, whatever the program's length.          *)
THEOREM TypeCorrect == UploadSpec => []UploadTypeOK
  <1>1. UploadInit => UploadTypeOK
    BY TypeInit
  <1>2. UploadTypeOK /\ [UploadNext]_allVars => UploadTypeOK'
    BY TypeStep
  <1>3. QED
    BY <1>1, <1>2, PTL DEF UploadSpec

\* Chunks, clears and presses go by the pointer that never meets current.
LEMMA PlayedIsKept ==
    ASSUME UploadTypeOK, [UploadNext]_allVars, current' = current
    PROVE  code'[current] = code[current]
  <1>1. /\ current \in 1 .. 2 /\ next \in 1 .. 2 /\ current # next
        /\ code \in [1 .. 2 -> Words]
    <2>1. {current, next} = {1, 2} /\ code \in [1 .. 2 -> Words]
      BY DEF UploadTypeOK, HatTypeOK, Words
    <2>2. current \in {1, 2} /\ next \in {1, 2} /\ current # next
      BY <2>1
    <2>3. QED
      BY <2>1, <2>2
  <1>2. CASE UNCHANGED code
    BY <1>2
  <1>3. CASE Send
    <2>1. CASE ClearProgram
      BY <1>1, <2>1 DEF ClearProgram
    <2>2. ASSUME NEW n, NEW words, WriteChunk(n, words)
          PROVE  code'[current] = code[current]
      BY <1>1, <2>2 DEF WriteChunk
    <2>3. CASE SwapPrograms
      BY <2>3 DEF SwapPrograms
    <2>4. CASE Answer
      BY <2>4 DEF Answer, hatVars, programs
    <2>5. QED
      BY <1>3, <2>1, <2>2, <2>3, <2>4 DEF Send
  <1>4. CASE Press
    BY <1>1, <1>4 DEF Press, PressButton, Swap
  <1>5. CASE RemoteSends
    BY <1>2, <1>5 DEF RemoteSends, RemoteCommand, programs
  <1>6. CASE Frame
    BY <1>2, <1>6 DEF Frame, ProgramFrame, RunnerFrame, programs
  <1>7. CASE Lose \/ \E p \in Programs \cup {<< >>} : StartTool(p)
    BY <1>2, <1>7 DEF Lose, StartTool, hatVars, programs
  <1>8. CASE UNCHANGED allVars
    BY <1>2, <1>8 DEF allVars, hatVars, programs
  <1>9. QED
    BY <1>3, <1>4, <1>5, <1>6, <1>7, <1>8 DEF UploadNext

(* What plays is never written, for any sizes and programs: because the    *)
(* pointers never meet, and chunks, clears and presses go by the other.    *)
THEOREM NeverWritesWhatPlays == UploadSpec => PlayedIsNotWritten
  <1>1. UploadTypeOK /\ [UploadNext]_allVars
          => [current' = current => code'[current] = code[current]]_allVars
    BY PlayedIsKept
  <1>2. QED
    BY <1>1, TypeCorrect, PTL DEF UploadSpec, PlayedIsNotWritten

(* A hat in helsinkiMode whose runner was stopped is dark: every command   *)
(* that stops the runner clears the vectors, and every way into the mode   *)
(* starts it.  The property is inductive as it stands.                     *)
THEOREM AlwaysDarkWhenStopped == UploadSpec => []StoppedIsDark
  <1>1. UploadInit => StoppedIsDark
    BY DEF UploadInit, HatInit, PlayingInit, StoppedIsDark
  <1>2. StoppedIsDark /\ [UploadNext]_allVars => StoppedIsDark'
    <2> SUFFICES ASSUME StoppedIsDark, [UploadNext]_allVars
                 PROVE  StoppedIsDark'
      OBVIOUS
    <2> USE DEF StoppedIsDark
    <2>1. CASE UNCHANGED playingVars
      BY <2>1 DEF playingVars
    <2>2. CASE Send
      <3>1. CASE ClearProgram \/ Answer \/ \E n, words : WriteChunk(n, words)
        BY <2>1, <3>1 DEF ClearProgram, Answer, WriteChunk, hatVars
      <3>2. CASE SwapPrograms
        BY <3>2 DEF SwapPrograms, LeaveHelsinki
      <3>3. QED
        BY <2>2, <3>1, <3>2 DEF Send
    <2>3. CASE Press
      BY <2>3 DEF Press, PressButton, LeaveHelsinki
    <2>4. CASE RemoteSends
      BY <2>4 DEF RemoteSends, RemoteCommand, Remote, LoadAnimation,
                  LoadAndStart, StartAnimation, StopAnimation
    <2>5. CASE Frame
      BY <2>5 DEF Frame, ProgramFrame, ProgramPlays, RunnerFrame, RunnerPlays
    <2>6. CASE Lose \/ \E p \in Programs \cup {<< >>} : StartTool(p)
      BY <2>1, <2>6 DEF Lose, StartTool, hatVars
    <2>7. CASE UNCHANGED allVars
      BY <2>1, <2>7 DEF allVars, hatVars
    <2>8. QED
      BY <2>2, <2>3, <2>4, <2>5, <2>6, <2>7 DEF UploadNext
  <1>3. QED
    BY <1>1, <1>2, PTL DEF UploadSpec
-----------------------------------------------------------------------------
(* What plays is what was uploaded.                                        *)

\* The words an upload of p leaves, the tool's chunks of it, and the free
\* buffer after the clear and n of them.
Filled(p) == Append(p, LastWord)
Pieces(p) == IF p = << >> THEN 0 ELSE Chunks(p)
Part(p, n) == [a \in Address |-> IF a < n * ChunkSize /\ a < Len(p) + 1
                                   THEN Filled(p)[a + 1] ELSE Zero]

\* After j commands of an upload of p the rest is still to be sent, and the
\* free buffer holds the part that was.
Sent(p, j) ==
    /\ Len(todo) = Pieces(p) + 3 - j
    /\ \A i \in 1 .. Len(todo) : todo[i] = Commands(p)[i + j]
    /\ j \in 1 .. Pieces(p) + 1 /\ Len(p) < CodeSize
          => code[next] = Part(p, j - 1)

PartIsThere ==
    whole => \E p \in Programs \cup {<< >>} : \E j \in 0 .. Pieces(p) + 3 : Sent(p, j)

UploadInv == UploadTypeOK /\ PartIsThere /\ PlaysUpload

\* The tool sends as many chunks as it takes to send every word.
LEMMA PiecesCover ==
    ASSUME NEW p \in Programs \cup {<< >>}
    PROVE  /\ Pieces(p) \in Nat /\ Len(p) \in Nat
           /\ p # << >> => /\ Pieces(p) > 0
                           /\ (Pieces(p) - 1) * ChunkSize <= Len(p)
                           /\ Len(p) + 1 <= Pieces(p) * ChunkSize
  <1>1. CASE p = << >>
    BY <1>1 DEF Pieces
  <1>2. CASE p # << >>
    <2> DEFINE k == (2 * Len(p) + 1) \div (2 * ChunkSize)
    <2>1. Len(p) \in Nat
      BY <1>2, UploadAssumption, LenProperties
    <2>2. /\ k \in Nat
          /\ (2 * ChunkSize) * k <= 2 * Len(p) + 1
          /\ 2 * Len(p) + 1 < (2 * ChunkSize) * k + 2 * ChunkSize
      BY <2>1, Sizes
    <2>3. Pieces(p) = k + 1
      BY <1>2 DEF Pieces, Chunks, Bytes
    <2>4. ChunkSize * k \in Nat /\ (2 * ChunkSize) * k = 2 * (ChunkSize * k)
      BY <2>2, Sizes
    <2>5. (k + 1) * ChunkSize = ChunkSize * k + ChunkSize /\ k * ChunkSize = ChunkSize * k
      BY <2>2, Sizes
    <2> HIDE DEF k
    <2>6. QED
      BY <2>1, <2>2, <2>3, <2>4, <2>5, <1>2, Sizes
  <1>3. QED
    BY <1>1, <1>2

\* The commands of an upload: the clear, the chunks, the swap and the dump.
LEMMA CommandsAre ==
    ASSUME NEW p \in Programs \cup {<< >>}
    PROVE  /\ Len(Commands(p)) = Pieces(p) + 3
           /\ Commands(p)[1] = [command |-> "clear"]
           /\ \A n \in 1 .. Pieces(p) :
                 Commands(p)[n + 1] = [command |-> "chunk", number |-> n - 1,
                                       words |-> Chunk(p, n - 1)]
           /\ Commands(p)[Pieces(p) + 2] = [command |-> "swap", of |-> p]
           /\ Commands(p)[Pieces(p) + 3] = [command |-> "dump"]
  <1> DEFINE k == Pieces(p)
             chunk(n) == [command |-> "chunk", number |-> n - 1,
                          words |-> Chunk(p, n - 1)]
             first == <<[command |-> "clear"]>>
             middle == [n \in 1 .. k |-> chunk(n)]
             last == <<[command |-> "swap", of |-> p], [command |-> "dump"]>>
             T == {chunk(n) : n \in 1 .. k} \cup {[command |-> "clear"],
                     [command |-> "swap", of |-> p], [command |-> "dump"]}
  <1>1. k \in Nat
    BY PiecesCover
  <1>2. first \in Seq(T) /\ last \in Seq(T) /\ middle \in Seq(T)
    <2>1. first \in Seq(T) /\ last \in Seq(T)
      OBVIOUS
    <2>2. \A n \in 1 .. k : chunk(n) \in T
      OBVIOUS
    <2> HIDE DEF T, chunk, k
    <2>3. middle \in Seq(T)
      BY <1>1, <2>2
    <2>4. QED
      BY <2>1, <2>3
  <1>3. Len(first) = 1 /\ Len(last) = 2 /\ Len(middle) = k
    BY <1>1
  <1>4. Commands(p) = (first \o middle) \o last
    BY DEF Commands, Pieces
  <1>5. first[1] = [command |-> "clear"] /\ last[1] = [command |-> "swap", of |-> p]
        /\ last[2] = [command |-> "dump"] /\ \A n \in 1 .. k : middle[n] = chunk(n)
    OBVIOUS
  <1> HIDE DEF k, chunk, first, middle, last, T
  <1>6. /\ first \o middle \in Seq(T) /\ Len(first \o middle) = k + 1
        /\ (first \o middle)[1] = first[1]
        /\ \A n \in 1 .. k : (first \o middle)[n + 1] = middle[n]
    <2>1. /\ first \o middle \in Seq(T)
          /\ Len(first \o middle) = Len(first) + Len(middle)
          /\ \A i \in 1 .. Len(first) + Len(middle) : (first \o middle)[i] =
                IF i <= Len(first) THEN first[i] ELSE middle[i - Len(first)]
      BY <1>2, ConcatProperties, Zenon
    <2>2. QED
      BY <1>1, <1>3, <2>1
  <1>7. /\ Len(Commands(p)) = k + 3
        /\ \A i \in 1 .. k + 1 : Commands(p)[i] = (first \o middle)[i]
        /\ Commands(p)[k + 2] = last[1] /\ Commands(p)[k + 3] = last[2]
    <2> DEFINE front == first \o middle
    <2>1. front \in Seq(T) /\ Len(front) = k + 1
      BY <1>6
    <2> HIDE DEF front
    <2>2. /\ Len(front \o last) = Len(front) + Len(last)
          /\ \A i \in 1 .. Len(front) + Len(last) : (front \o last)[i] =
                IF i <= Len(front) THEN front[i] ELSE last[i - Len(front)]
      BY <1>2, <2>1, ConcatProperties, Zenon
    <2>3. Commands(p) = front \o last
      BY <1>4 DEF front
    <2>4. /\ Len(Commands(p)) = k + 3
          /\ \A i \in 1 .. k + 1 : Commands(p)[i] = front[i]
          /\ Commands(p)[k + 2] = last[1] /\ Commands(p)[k + 3] = last[2]
      BY <1>1, <1>3, <2>1, <2>2, <2>3
    <2>5. QED
      BY <2>4 DEF front
  <1>8. QED
    BY <1>1, <1>5, <1>6, <1>7 DEF k, chunk


\* A command that clears the free buffer begins a part, a chunk makes it
\* longer, and after the last chunk it is the whole upload.
LEMMA PartBegins ==
    ASSUME NEW p \in Programs \cup {<< >>}
    PROVE  Part(p, 0) = [a \in Address |-> Zero]
  <1>1. \A a \in Address : ~(a < 0 * ChunkSize)
    BY Sizes DEF Address
  <1>2. QED
    BY <1>1 DEF Part

LEMMA PartEnds ==
    ASSUME NEW p \in Programs
    PROVE  Part(p, Pieces(p)) = Copied([a \in Address |-> Zero], Filled(p))
  <1>1. /\ p # << >> /\ Len(p) \in Nat /\ Len(Filled(p)) = Len(p) + 1
    BY UploadAssumption, AppendProperties, LenProperties DEF Filled
  <1>2. Pieces(p) * ChunkSize \in Nat /\ Len(p) + 1 <= Pieces(p) * ChunkSize
    BY <1>1, PiecesCover, Sizes
  <1>3. \A a \in Address : (a < Pieces(p) * ChunkSize /\ a < Len(p) + 1)
                               <=> a < Len(Filled(p))
    BY <1>1, <1>2, Sizes DEF Address
  <1>4. QED
    BY <1>3 DEF Part, Copied

LEMMA ChunkIs ==
    ASSUME NEW p \in Programs, NEW n \in 0 .. Pieces(p) - 1
    PROVE  LET from == n * ChunkSize
               words == Chunk(p, n)
           IN  /\ from \in Nat /\ from <= Len(p) /\ Len(words) \in Nat
               /\ \A a \in Nat : (a - from \in 0 .. Len(words) - 1)
                     <=> from <= a /\ a < (n + 1) * ChunkSize /\ a < Len(p) + 1
               /\ \A a \in Nat : a - from \in 0 .. Len(words) - 1
                     => words[a - from + 1] = Filled(p)[a + 1]
  <1> DEFINE q == Filled(p)
             from == n * ChunkSize
             S == {Len(p) + 1, (n + 1) * ChunkSize}
             e == Min(S)
  <1>1. /\ p # << >> /\ q \in Seq(Word) /\ Len(q) = Len(p) + 1 /\ Len(p) \in Nat
    BY UploadAssumption, AppendProperties, LenProperties DEF Filled
  <1>2. Pieces(p) \in Nat /\ (Pieces(p) - 1) * ChunkSize <= Len(p)
    BY <1>1, PiecesCover
  <1>3. from \in Nat /\ (n + 1) * ChunkSize = from + ChunkSize
    BY Sizes
  <1>4. from <= Len(p)
    <2>1. n * ChunkSize <= (Pieces(p) - 1) * ChunkSize
      BY <1>2, Sizes
    <2>2. (Pieces(p) - 1) * ChunkSize \in Int
      BY <1>2, Sizes
    <2>3. QED
      BY <1>1, <1>2, <1>3, <2>1, <2>2
  <1>5. e \in S /\ \A y \in S : e <= y
    <2>1. \E x \in S : \A y \in S : x <= y
      BY <1>1, <1>3, Sizes
    <2>2. QED
      BY <2>1 DEF Min
  <1>6. /\ e \in Nat /\ from + 1 <= e /\ e <= Len(q)
        /\ \A a \in Nat : a < e <=> a < (n + 1) * ChunkSize /\ a < Len(p) + 1
    <2> DEFINE full == (n + 1) * ChunkSize
    <2>1. /\ e = Len(p) + 1 \/ e = full
          /\ e <= Len(p) + 1 /\ e <= full
      BY <1>5
    <2>2. full \in Nat /\ from + 1 <= full
      BY <1>3, Sizes
    <2> HIDE DEF full, e, from, q
    <2>3. /\ e \in Nat /\ from + 1 <= e /\ e <= Len(q)
          /\ \A a \in Nat : a < e <=> a < full /\ a < Len(p) + 1
      BY <1>1, <1>3, <1>4, <2>1, <2>2
    <2>4. QED
      BY <2>3 DEF full
  <1>7. Chunk(p, n) = SubSeq(q, from + 1, e)
    BY DEF Chunk, Filled
  <1> HIDE DEF q, from, S, e
  <1>8. /\ Len(SubSeq(q, from + 1, e)) = e - from
        /\ \A i \in 1 .. e - from : SubSeq(q, from + 1, e)[i] = q[from + i]
    <2>1. (from + 1) .. e \subseteq 1 .. Len(q)
      BY <1>1, <1>3, <1>6
    <2>2. /\ Len(SubSeq(q, from + 1, e)) =
                IF from + 1 <= e THEN e - (from + 1) + 1 ELSE 0
          /\ \A i \in 1 .. e - (from + 1) + 1 :
                SubSeq(q, from + 1, e)[i] = q[from + 1 + i - 1]
      BY <1>1, <1>3, <1>6, <2>1, SubSeqProperties
    <2>3. QED
      BY <1>3, <1>6, <2>2
  <1>9. Len(Chunk(p, n)) = e - from /\ Len(Chunk(p, n)) \in Nat
    BY <1>3, <1>6, <1>7, <1>8
  <1>10. ASSUME NEW a \in Nat, a - from \in 0 .. e - from - 1
         PROVE  Chunk(p, n)[a - from + 1] = q[a + 1]
    <2>1. a - from + 1 \in 1 .. e - from /\ from + (a - from + 1) = a + 1
      BY <1>3, <1>6, <1>10
    <2>2. SubSeq(q, from + 1, e)[a - from + 1] = q[from + (a - from + 1)]
      BY <1>8, <2>1
    <2>3. QED
      BY <1>7, <2>1, <2>2
  <1>11. \A a \in Nat : (a - from \in 0 .. e - from - 1) <=> from <= a /\ a < e
    BY <1>3, <1>6
  <1>12. QED
    BY <1>3, <1>4, <1>6, <1>9, <1>10, <1>11 DEF from, q

LEMMA NoWrap == \A x, m \in Nat : x < m => x % m = x
  OBVIOUS

LEMMA PartGrows ==
    ASSUME UploadTypeOK, NEW p \in Programs, Len(p) < CodeSize,
           NEW n \in 0 .. Pieces(p) - 1,
           code[next] = Part(p, n), WriteChunk(n, Chunk(p, n))
    PROVE  code'[next'] = Part(p, n + 1)
  <1> DEFINE from == n * ChunkSize
             words == Chunk(p, n)
  <1>1. /\ from \in Nat /\ from <= Len(p)
        /\ \A a \in Nat : (a - from \in 0 .. Len(words) - 1)
              <=> from <= a /\ a < (n + 1) * ChunkSize /\ a < Len(p) + 1
        /\ \A a \in Nat : a - from \in 0 .. Len(words) - 1
              => words[a - from + 1] = Filled(p)[a + 1]
    BY ChunkIs
  <1>2. Len(p) \in Nat /\ Pieces(p) \in Nat
    BY PiecesCover
  <1>3. Offset(n) = from
    <2>1. from < CodeSize
      BY <1>1, <1>2, Sizes
    <2> HIDE DEF from
    <2>2. from % CodeSize = from
      BY <1>1, <2>1, Sizes, NoWrap, Zenon
    <2>3. QED
      BY <2>2 DEF Offset, from
  <1>4. code \in [1 .. 2 -> Words] /\ next \in 1 .. 2
    BY DEF UploadTypeOK, HatTypeOK, Words
  <1>5. next' = next /\ code'[next] =
            [a \in Address |-> IF a - from \in 0 .. Len(words) - 1
                                 THEN words[a - from + 1] ELSE code[next][a]]
    BY <1>3, <1>4 DEF WriteChunk
  <1>6. (n + 1) * ChunkSize = from + ChunkSize
    BY <1>2, Sizes
  <1> DEFINE new(a) == IF a - from \in 0 .. Len(words) - 1
                         THEN words[a - from + 1] ELSE code[next][a]
             grown(a) == IF a < (n + 1) * ChunkSize /\ a < Len(p) + 1
                           THEN Filled(p)[a + 1] ELSE Zero
  <1>7. \A a \in Address : code[next][a] = IF a < from /\ a < Len(p) + 1
                                             THEN Filled(p)[a + 1] ELSE Zero
    BY DEF Part
  <1>8. Address \subseteq Nat
    BY DEF Address
  <1> HIDE DEF from, words
  <1>9. ASSUME NEW a \in Address PROVE new(a) = grown(a)
    <2>1. a \in Nat
      BY <1>8
    <2>2. CASE a - from \in 0 .. Len(words) - 1
      BY <1>1, <2>1, <2>2
    <2>3. CASE ~(a - from \in 0 .. Len(words) - 1)
      <3>1. ~(from <= a /\ a < (n + 1) * ChunkSize /\ a < Len(p) + 1)
        BY <1>1, <2>1, <2>3
      <3>2. (a < from /\ a < Len(p) + 1) <=> (a < (n + 1) * ChunkSize /\ a < Len(p) + 1)
        BY <1>1, <1>2, <1>6, <2>1, <3>1, Sizes
      <3>3. QED
        BY <1>7, <2>3, <3>2
    <2>4. QED
      BY <2>2, <2>3
  <1>10. code'[next] = [a \in Address |-> grown(a)]
    BY <1>5, <1>9
  <1>11. QED
    BY <1>5, <1>10 DEF Part

LEMMA PartInit ==
    ASSUME UploadInit
    PROVE  PartIsThere /\ PlaysUpload
  BY DEF UploadInit, PartIsThere, PlaysUpload

\* What the tool sends next when it has sent j commands of an upload.
LEMMA SendsNext ==
    ASSUME UploadTypeOK, NEW p \in Programs \cup {<< >>}, NEW j \in 0 .. Pieces(p) + 3,
           Sent(p, j), Send
    PROVE  /\ j + 1 \in 0 .. Pieces(p) + 3
           /\ Len(todo') = Pieces(p) + 3 - (j + 1)
           /\ \A i \in 1 .. Len(todo') : todo'[i] = Commands(p)[i + (j + 1)]
           /\ Head(todo) = Commands(p)[j + 1]
  <1>1. todo \in Seq(Command) /\ todo # << >> /\ todo' = Tail(todo)
    BY DEF UploadTypeOK, Send
  <1>2. Pieces(p) \in Nat
    BY PiecesCover
  <1>3. Len(todo) \in Nat /\ Len(todo) # 0
    BY <1>1, EmptySeq, LenProperties
  <1>4. /\ Head(todo) = todo[1] /\ Len(todo') = Len(todo) - 1
        /\ \A i \in 1 .. Len(todo') : todo'[i] = todo[i + 1]
    BY <1>1, <1>3, HeadTailProperties
  <1>5. /\ Len(todo) = Pieces(p) + 3 - j
        /\ \A i \in 1 .. Len(todo) : todo[i] = Commands(p)[i + j]
    BY DEF Sent
  <1>6. j + 1 \in 0 .. Pieces(p) + 3 /\ Len(todo') = Pieces(p) + 3 - (j + 1)
    BY <1>2, <1>3, <1>4, <1>5
  <1>7. ASSUME NEW i \in 1 .. Len(todo')
        PROVE  todo'[i] = Commands(p)[i + (j + 1)]
    <2>1. i + 1 \in 1 .. Len(todo) /\ (i + 1) + j = i + (j + 1)
      BY <1>3, <1>4
    <2>2. todo'[i] = todo[i + 1] /\ todo[i + 1] = Commands(p)[(i + 1) + j]
      BY <1>4, <1>5, <2>1
    <2>3. QED
      BY <2>1, <2>2
  <1>8. Head(todo) = Commands(p)[j + 1]
    <2>1. 1 \in 1 .. Len(todo) /\ 1 + j = j + 1
      BY <1>3
    <2>2. todo[1] = Commands(p)[1 + j]
      BY <1>5, <2>1
    <2>3. QED
      BY <1>4, <2>1, <2>2
  <1>9. QED
    BY <1>6, <1>7, <1>8

\* And the part in the free buffer follows.
LEMMA PartStep ==
    ASSUME UploadTypeOK, PartIsThere, [UploadNext]_allVars
    PROVE  PartIsThere'
  <1>1. ASSUME NEW p \in Programs \cup {<< >>}, StartTool(p)
        PROVE  PartIsThere'
    <2>1. Len(todo') = Pieces(p) + 3 - 0
      <3>1. todo' = Commands(p) /\ Pieces(p) \in Nat
        BY <1>1, PiecesCover DEF StartTool
      <3>2. Len(Commands(p)) = Pieces(p) + 3
        BY CommandsAre
      <3>3. QED
        BY <3>1, <3>2
    <2>2. \A i \in 1 .. Len(todo') : todo'[i] = Commands(p)[i + 0]
      BY <1>1 DEF StartTool
    <2>3. ~(0 \in 1 .. Pieces(p) + 1) /\ 0 \in 0 .. Pieces(p) + 3
      BY PiecesCover
    <2>4. Sent(p, 0)'
      BY <2>1, <2>2, <2>3 DEF Sent
    <2>5. QED
      BY <2>3, <2>4 DEF PartIsThere
  <1>2. CASE Send
    <2> SUFFICES ASSUME whole PROVE PartIsThere'
      BY <1>2 DEF Send, PartIsThere
    <2>1. PICK p \in Programs \cup {<< >>} : \E j \in 0 .. Pieces(p) + 3 : Sent(p, j)
      BY DEF PartIsThere
    <2>2. PICK j \in 0 .. Pieces(p) + 3 : Sent(p, j)
      BY <2>1
    <2>3. /\ j + 1 \in 0 .. Pieces(p) + 3
          /\ Len(todo') = Pieces(p) + 3 - (j + 1)
          /\ \A i \in 1 .. Len(todo') : todo'[i] = Commands(p)[i + (j + 1)]
          /\ Head(todo) = Commands(p)[j + 1]
      BY <1>2, <2>2, SendsNext
    <2>4. Pieces(p) \in Nat /\ (p = << >> => Pieces(p) = 0)
      BY PiecesCover DEF Pieces
    <2>5. ASSUME j + 1 \in 1 .. Pieces(p) + 1, Len(p) < CodeSize
          PROVE  code'[next'] = Part(p, (j + 1) - 1)
      <3>1. CASE j = 0
        <4>1. Head(todo).command = "clear"
          <5>1. j + 1 = 1
            BY <3>1
          <5>2. Commands(p)[1] = [command |-> "clear"]
            BY CommandsAre
          <5>3. QED
            BY <2>3, <5>1, <5>2
        <4>2. ClearProgram
          BY <1>2, <4>1 DEF Send
        <4>3. code \in [1 .. 2 -> Words] /\ next \in 1 .. 2
          BY DEF UploadTypeOK, HatTypeOK, Words
        <4>4. code'[next'] = [a \in Address |-> Zero]
          BY <4>2, <4>3 DEF ClearProgram
        <4>5. QED
          BY <3>1, <4>4, PartBegins
      <3>2. CASE j # 0
        <4>1. j \in 1 .. Pieces(p) /\ (j + 1) - 1 = j /\ j - 1 \in 0 .. Pieces(p) - 1
              /\ (j - 1) + 1 = j
          BY <2>4, <2>5, <3>2
        <4>2. p \in Programs
          BY <2>4, <4>1
        <4>3. Head(todo) = [command |-> "chunk", number |-> j - 1,
                            words |-> Chunk(p, j - 1)]
          BY <2>3, <4>1, CommandsAre
        <4>4. WriteChunk(j - 1, Chunk(p, j - 1))
          BY <1>2, <4>3 DEF Send
        <4>5. code[next] = Part(p, j - 1)
          BY <2>2, <2>4, <2>5, <4>1 DEF Sent
        <4>6. code'[next'] = Part(p, (j - 1) + 1)
          BY <2>5, <4>1, <4>2, <4>4, <4>5, PartGrows
        <4>7. QED
          BY <4>1, <4>6
      <3>3. QED
        BY <3>1, <3>2
    <2>6. Sent(p, j + 1)'
      BY <2>3, <2>5 DEF Sent
    <2>7. QED
      BY <2>3, <2>6 DEF PartIsThere
  <1>3. CASE Lose \/ Press
    BY <1>3 DEF Lose, Press, PartIsThere
  <1>4. CASE UNCHANGED <<code, next, todo, whole>>
    BY <1>4 DEF PartIsThere, Sent
  <1>5. CASE RemoteSends
    BY <1>4, <1>5 DEF RemoteSends, RemoteCommand, programs
  <1>6. CASE Frame
    BY <1>4, <1>6 DEF Frame, ProgramFrame, RunnerFrame, programs
  <1>7. CASE UNCHANGED allVars
    BY <1>4, <1>7 DEF allVars, hatVars, programs
  <1>8. QED
    BY <1>1, <1>2, <1>3, <1>5, <1>6, <1>7 DEF UploadNext

\* The swap of a whole upload finds all of it; nothing else brings a program.
LEMMA PlaysStep ==
    ASSUME UploadTypeOK, PartIsThere, PlaysUpload, [UploadNext]_allVars
    PROVE  PlaysUpload'
  <1>1. ASSUME UNCHANGED <<current, uploaded>> PROVE PlaysUpload'
    BY <1>1, PlayedIsKept DEF PlaysUpload, Copied
  <1>2. CASE Send
    <2>1. CASE Head(todo).command # "swap"
      <3>1. uploaded' = uploaded
        BY <1>2, <2>1 DEF Send
      <3>2. current' = current
        BY <1>2, <2>1 DEF Send, ClearProgram, WriteChunk, Answer, hatVars, programs
      <3>3. QED
        BY <1>1, <3>1, <3>2
    <2>2. CASE Head(todo).command = "swap" /\ ~whole
      BY <1>2, <2>2 DEF Send, PlaysUpload
    <2>3. CASE Head(todo).command = "swap" /\ whole
      <3>1. PICK p \in Programs \cup {<< >>} : \E j \in 0 .. Pieces(p) + 3 : Sent(p, j)
        BY <2>3 DEF PartIsThere
      <3>2. PICK j \in 0 .. Pieces(p) + 3 : Sent(p, j)
        BY <3>1
      <3>3. /\ j + 1 \in 0 .. Pieces(p) + 3
            /\ Head(todo) = Commands(p)[j + 1]
        BY <1>2, <3>2, SendsNext
      <3>4. Pieces(p) \in Nat
        BY PiecesCover
      <3>5. j = Pieces(p) + 1
        <4>1. CASE j = 0
          <5>1. j + 1 = 1
            BY <4>1
          <5>2. Commands(p)[1] = [command |-> "clear"]
            BY CommandsAre
          <5>3. QED
            BY <2>3, <3>3, <5>1, <5>2
        <4>2. CASE j \in 1 .. Pieces(p)
          <5>1. Head(todo) = [command |-> "chunk", number |-> j - 1,
                              words |-> Chunk(p, j - 1)]
            BY <3>3, <4>2, CommandsAre
          <5>2. QED
            BY <2>3, <5>1
        <4>3. CASE j = Pieces(p) + 2
          <5>1. j + 1 = Pieces(p) + 3
            BY <3>4, <4>3
          <5>2. Commands(p)[Pieces(p) + 3] = [command |-> "dump"]
            BY CommandsAre
          <5>3. QED
            BY <2>3, <3>3, <5>1, <5>2
        <4>4. QED
          BY <3>3, <3>4, <4>1, <4>2, <4>3
      <3>6. Head(todo) = [command |-> "swap", of |-> p]
        <4>1. j + 1 = Pieces(p) + 2
          BY <3>4, <3>5
        <4>2. Commands(p)[Pieces(p) + 2] = [command |-> "swap", of |-> p]
          BY CommandsAre
        <4>3. QED
          BY <3>3, <4>1, <4>2
      <3>7. uploaded' = p /\ SwapPrograms
        BY <1>2, <2>3, <3>6 DEF Send
      <3>8. ASSUME p # << >>, Len(p) < CodeSize
            PROVE  code'[current'] = Copied([a \in Address |-> Zero], Filled(p))
        <4>1. j \in 1 .. Pieces(p) + 1 /\ j - 1 = Pieces(p)
          BY <3>4, <3>5
        <4>2. code[next] = Part(p, Pieces(p))
          BY <3>2, <3>8, <4>1 DEF Sent
        <4>3. code' = code /\ current' = next
          BY <3>7 DEF SwapPrograms, Swap
        <4>4. QED
          BY <3>8, <4>2, <4>3, PartEnds
      <3>9. QED
        BY <3>7, <3>8 DEF PlaysUpload, Filled, Copied
    <2>4. QED
      BY <2>1, <2>2, <2>3
  <1>3. CASE Press
    BY <1>3 DEF Press, PlaysUpload
  <1>4. CASE RemoteSends
    BY <1>1, <1>4 DEF RemoteSends, RemoteCommand, programs
  <1>5. CASE Frame
    BY <1>1, <1>5 DEF Frame, ProgramFrame, RunnerFrame, programs
  <1>6. CASE Lose \/ \E p \in Programs \cup {<< >>} : StartTool(p)
    BY <1>1, <1>6 DEF Lose, StartTool, hatVars, programs
  <1>7. CASE UNCHANGED allVars
    BY <1>1, <1>7 DEF allVars, hatVars, programs
  <1>8. QED
    BY <1>2, <1>3, <1>4, <1>5, <1>6, <1>7 DEF UploadNext

(* An upload that arrives whole and undisturbed plays as it was sent, for  *)
(* every program that fills less than the buffer and every size of chunk:  *)
(* the chunks of the tool cover it, none of their offsets wraps, and the   *)
(* buffer they go to was cleared before them, whatever it held.            *)
THEOREM PlaysWhatWasSent == UploadSpec => []PlaysUpload
  <1>1. UploadInit => UploadInv
    BY TypeInit, PartInit DEF UploadInv
  <1>2. UploadInv /\ [UploadNext]_allVars => UploadInv'
    BY TypeStep, PartStep, PlaysStep DEF UploadInv
  <1>3. UploadInv => PlaysUpload
    BY DEF UploadInv
  <1>4. QED
    BY <1>1, <1>2, <1>3, PTL DEF UploadSpec
=============================================================================
