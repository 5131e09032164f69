------------------------------- MODULE Upload -------------------------------
(***************************************************************************)
(* An upload: the tool of utils/com.cpp sends a hat the commands that      *)
(* clear its free buffer, fill it in chunks and swap the buffers, without  *)
(* waiting for an answer; any of them may be lost; meanwhile a remote      *)
(* sends commands of its own, and somebody presses the button.             *)
(* The tool never hears from the hat, so a command on its way is no        *)
(* different from one not yet sent: sending and handling are one step.     *)
(***************************************************************************)
EXTENDS Hat, SequencesExt

CONSTANTS Programs,   \* the programs that are uploaded
          LastWord,   \* the word the hat makes of the end of file
          LossMax     \* commands lost in a behaviour (bound)

ASSUME UploadAssumption ==
    /\ Programs \subseteq Seq(Word) \ {<< >>} /\ LastWord \in Word
    /\ \A p \in Programs : Len(p) <= CodeSize
    /\ LossMax \in Nat

VARIABLES todo,       \* the commands the tool has still to send
          losses,     \* commands lost so far
          whole,      \* history: no command of this upload was lost, and
                      \* nobody pressed the button since it began
          uploaded    \* history: the program that plays now, if such an
                      \* upload brought it, else << >>

allVars == <<hatVars, todo, losses, whole, uploaded>>

-----------------------------------------------------------------------------
(* The tool.                                                               *)

\* main() reads its input to the end, and the end of file comes with it as
\* one more byte: the words of the program, and a byte 0xff.
Bytes(p) == 2 * Len(p) + 1

\* Mutant: the tool stops at the last full chunk.
Chunks_Full(p) == Bytes(p) \div (2 * ChunkSize)

\* sendAnimation() stops when what was sent exceeds the size.
Chunks(p) == Bytes(p) \div (2 * ChunkSize) + 1

\* The hat makes a word of each pair of bytes; the last has no partner, and
\* takes the byte that happens to follow it in the frame.
Chunk(p, n) == SubSeq(Append(p, LastWord), n * ChunkSize + 1,
                      Min({Len(p) + 1, (n + 1) * ChunkSize}))

\* The commands of a run of the tool; with -c it sends no program.
Commands(p) ==
    <<[command |-> "clear"]>>
      \o [n \in 1 .. (IF p = << >> THEN 0 ELSE Chunks(p)) |->
            [command |-> "chunk", number |-> n - 1, words |-> Chunk(p, n - 1)]]
      \o <<[command |-> "swap", of |-> p], [command |-> "dump"]>>

Command ==
    {[command |-> "clear"], [command |-> "dump"]}
      \cup [command : {"chunk"}, number : Nat, words : Seq(Word)]
      \cup [command : {"swap"}, of : Programs \cup {<< >>}]

UploadInit ==
    /\ HatInit
    /\ todo = << >> /\ losses = 0
    /\ whole = FALSE /\ uploaded = << >>

StartTool(p) ==
    /\ todo = << >>
    /\ todo' = Commands(p) /\ whole' = TRUE
    /\ UNCHANGED <<hatVars, losses, uploaded>>

\* sendCommand(), and xbee_api_callback() with what was sent.
Send ==
    /\ todo # << >> /\ todo' = Tail(todo)
    /\ LET c == Head(todo) IN
         /\ \/ c.command = "clear" /\ ClearProgram
            \/ c.command = "chunk" /\ WriteChunk(c.number, c.words)
            \/ c.command = "swap" /\ SwapPrograms
            \/ c.command = "dump" /\ Answer
         /\ uploaded' = IF c.command # "swap" THEN uploaded
                        ELSE IF whole THEN c.of ELSE << >>
    /\ UNCHANGED <<losses, whole>>

Lose ==
    /\ todo # << >> /\ losses < LossMax
    /\ todo' = Tail(todo) /\ whole' = FALSE /\ losses' = losses + 1
    /\ UNCHANGED <<hatVars, uploaded>>

RemoteSends ==
    /\ RemoteCommand
    /\ UNCHANGED <<todo, losses, whole, uploaded>>

Press ==
    /\ PressButton
    /\ whole' = FALSE /\ uploaded' = << >>
    /\ UNCHANGED <<todo, losses>>

Frame ==
    /\ ProgramFrame \/ RunnerFrame
    /\ UNCHANGED <<todo, losses, whole, uploaded>>

UploadNext ==
    \/ \E p \in Programs \cup {<< >>} : StartTool(p)
    \/ Send \/ Lose \/ RemoteSends \/ Press \/ Frame

UploadSpec == UploadInit /\ [][UploadNext]_allVars

-----------------------------------------------------------------------------
(* Type invariant.                                                         *)
UploadTypeOK ==
    /\ HatTypeOK
    /\ todo \in Seq(Command)
    /\ losses \in 0 .. LossMax /\ whole \in BOOLEAN
    /\ uploaded \in Programs \cup {<< >>}

(* An upload that arrives whole, without a press in it, plays as it was    *)
(* sent and with nothing of an older program behind it, whatever was lost, *)
(* pressed or abandoned before, and it stays so under every later command  *)
(* until the next swap.  (The program fills less than the buffer.)         *)
PlaysUpload ==
    uploaded # << >> /\ Len(uploaded) < CodeSize =>
        code[current] = Copied([a \in Address |-> Zero],
                               Append(uploaded, LastWord))

(* What plays is never written: its words change only by a swap, although  *)
(* uploads and presses write buffers at any time.                          *)
PlayedIsNotWritten ==
    [][current' = current => code'[current] = code[current]]_allVars

(* README.md:18: "max code size of 256 instructions".  So an upload of     *)
(* that size plays as it was sent, too.                                    *)
PlaysLargest ==
    uploaded # << >> =>
        \A a \in 1 .. Len(uploaded) : code[current][a - 1] = uploaded[a]
=============================================================================
