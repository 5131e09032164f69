# Partyhat: specification, model checking and proofs

Partyhat is the firmware of an LED hat (an ATxmega with an XBee radio) and the two programs that
assemble and upload animations to it. This directory specifies its control logic in TLA+, checks
it with TLC on small instances, and proves the main safety results with TLAPS for all values of
the constants. File and line references are to the repository (`src/` stands for its root in
`PROJECT.json`).

## The system

| part | state it keeps | operations | talks to |
|---|---|---|---|
| `circularBuffer` (circular_buffer.h) | `tail`, `count` (uint8_t), `data[]` | `read`, `write`, `isEmpty`, `isFull`, `peak` | owned by `uart` |
| `uart` (serial.h, serial.cpp) | a transmit and a receive buffer, the DRE interrupt's level | `sendChar`, `sendString` and its non-blocking form, `flush`, `dataAvailable`, `getChar`; the receive and DRE interrupts | the USART; `XBee` above it through `Stream` |
| `XBee` parser (XBee.cpp) | `_pos`, `_escape`, `_checksumTotal`, the response | `readPacket`, `resetResponse` | polled by the main loop |
| `XBee` sender (XBee.cpp) | frame id | `send`, `sendByte` | the `uart` |
| `taskManager` (taskmanager.cpp) | `tasks[]`, `tasksInUse`, `time_ovf`; RTC counter, compare, flags | `registerTask`, `removeTask`, `getTime`, the compare and overflow interrupts | runs the battery task, is the clock of the main loop |
| `muldiv` (utils.cpp) | locals of a loop | long multiplication with remainder | `taskManager` |
| main loop (main.cpp, pgm_animations.h, button.h) | two program buffers and two pointers, `helsinkiMode`, `nextFrame` | the radio commands, the button, a frame | everything |
| animation machine (animation.cpp) | `PC`, `wreg`, `carry`, indirect and return address, 128 bytes, the vectors | `runAnimationCode`, `ramLoad`, `ramStore`, `resetPC` | run by the main loop on the current buffer |
| keyframe runner (animation_tasks.h, animations.h) | state, step, three frames, `runTime`, `animation_buffer` | `set_animation`, `start_animation`, `stop_animation`, `run` | run by the main loop in `helsinkiMode` |
| renderer (vectors.cpp, gamma.h) | the LEDs | `updateLed`, `vectorToRGB` | called after each frame |
| upload tool (utils/com.cpp) | input, addresses | clear, chunks, swap, dump for each hat | the radio |
| assembler (utils/assembler.cpp) | labels, defines | two passes over a source | files |
| drivers, battery | registers | | hardware |

What is hard here. There are no threads: concurrency is the main program against the interrupts of
the uart and of the RTC, on data only partly protected by `ATOMIC_BLOCK`. Counters are narrow
(uint8_t indices, a 16-bit RTC with an overflow count beside it). The radio and the serial line
lose bytes and packets, nothing is acknowledged, and the parser has to find its feet again. The
upload is a protocol of several commands into one of two buffers, which the button uses too.

What makes each part correct:

- uart: what was accepted is delivered once and in order; nobody waits for ever in a busy loop.
- parser: only packets that were sent are delivered; on a clean line all of them; after damage it
  gets into step again; it never writes outside its array.
- taskManager: time never jumps; a task is called, not early and not an era late; slots and their
  count agree enough that registration stays inside the array.
- muldiv: the exact quotient and remainder.
- main loop and upload: what plays is what was uploaded; what plays is never written; a stopped hat
  is dark.
- animation machine: every call returns, every address stays inside its memory, a stored byte is
  loaded again. Keyframe runner: fades stay between their frames and take the time of the frame.

## Modules

| module | models | checked by | proved in |
|---|---|---|---|
| `CircularBuffer` | the ring buffer, as a record and an operator per method | through both uarts | `UartProofs` |
| `FifoLine` | abstract: a bounded first-in first-out line with progress | refined by three modules | |
| `UartTx` (`MCUartTx`) | transmit half and DRE interrupt | `uart_tx` | `UartProofs` |
| `UartRx` | receive half and receive interrupt | `uart_rx` | `UartProofs` |
| `XBeeReceiver` (`MCXBeeReceiver`) | `readPacket` | `xbee_receiver` | `XBeeProofs` |
| `XBeeLink` (`MCXBeeLink`) | sender, lossy line, parser and main loop composed | `xbee_link` | `XBeeProofs` |
| `TaskManager` | taskmanager.cpp and the RTC | `task_manager`, `task_manager_skip` | `TaskManagerProofs` |
| `MulDiv` (`MCMulDiv`) | `muldiv` | `muldiv` | `MulDivProofs` |
| `Playing` | abstract: the two modes, the keyframe runner and the light | part of `Hat`; refined by `KeyframeRunner` | (through `UploadProofs`) |
| `Hat` | `Playing` with the program buffers, commands and button of main.cpp | through `Upload` | `UploadProofs` |
| `Upload` (`MCUpload`) | the upload tool, a lossy radio, a remote, the button, composed with `Hat` | `upload`, `upload_largest` | `UploadProofs` |
| `Renderer` | vectors.cpp | through `AnimationMachine` | `AnimationMachineProofs` |
| `AnimationMachine` (`MCAnimationMachine`) | animation.cpp, composed with `Renderer`, the frame of main.cpp and the keyframe runner's leds_off() | `animation_machine` | `AnimationMachineProofs` |
| `ProgramMemory` | what programs stored, as a history beside `AnimationMachine` | `animation_machine` | `AnimationMachineProofs` |
| `KeyframeRunner` (`MCKeyframeRunner`) | animation_tasks.h, animations.h and when main.cpp runs a frame | `keyframe_runner` | `KeyframeProofs` |
| `Assembler` (`MCAssembler`) | utils/assembler.cpp | `assembler` | `AssemblerProofs` |

### uart (`CircularBuffer`, `UartTx`, `UartRx`, `FifoLine`)

The buffer's `& (capacity - 1)` is `% Capacity` and its uint8_t arithmetic `% CountMod`. `read()`
and `write()` run under `ATOMIC_BLOCK` and are one step; everything else the callers do is a step
of its own, so that `sendChar` is three (`SeeRoom`, `WriteByte`, `EnableDre`) with `TxInterrupt`
between any two. `ShiftOut` is the USART. The abstract queue is the byte in the data register and
then the buffer (`Pending`).

`uart_tx` (capacity 2, strings of up to 4 bytes, so that the buffer fills, wraps and blocks its
caller): `NoOverrun`, `NoStall`, the refinement `ImplementsFifoLine` and `CallsReturn`. Fairness:
the main program runs, an enabled interrupt is served, the shift register empties; these are what
the hardware guarantees, and nobody is obliged to send.

`uart_rx` covers two kinds of behaviour, picked in `Init`. With a `punctual` reader the line never
brings a byte to a full buffer, as circular_buffer.h:8 asks of its user: the receiver then is the
same line (`RxSafeFifoLine`, `EveryByteRead`). Otherwise the interrupt overruns the
buffer as long as it likes and `count` wraps (at 8 in the run): `FifoUnlessOverrun` shows that
draining the buffer is enough to be sound again. The history it compares the buffer with keeps the
first `Capacity` of what arrived, which bounds the state space without a constant of its own. `EveryByteRead` needs only that the main loop
keeps polling.

The program's buffers hold 128 (receive) and 64 bytes. A template argument of 256 would not fit
its own uint8_t type; the assumption `2 * Capacity <= CountMod` names the range in which
`tail + count` cannot wrap.

### XBee (`XBeeReceiver`, `XBeeLink`)

`ReadPacket` is one turn of readPacket's loop, `CallReadPacket` its entry (with the reset of a
response that was handed over or failed), and one action stands for each position the switch tells
apart. The serial buffer may run empty before any byte, between an escape and its byte too. The
members keep their names; the frame data array is a function of `MaxFrameDataSize` cells.

`xbee_receiver` feeds the parser every stream of up to 10 bytes of a start byte, an escape byte, a
byte usable as a length and one that completes a sum: `Consistent` relates position, stored bytes,
escape flag and response. `xbee_link` composes it with `send()`, which frames a packet a byte at a
time: `sender` is the packet, the byte of the frame, whether its escape has been sent, and the sum
so far. The packets need escapes everywhere (also in the checksum), the line loses up to 2 bytes,
and the array holds 12 bytes, so that a length taken from the wrong byte may fit or not. Beside the
queue runs a history of marks: with the last byte of a frame comes the packet if all of it came, or
the news that it was damaged.

- `CleanIsFifo`, `CleanDelivers`: while nothing is lost the composition is a `FifoLine` of packets.
- `Genuine`: one lost byte never makes a packet. It is stated for one loss, and for packets that
  are `Unmistakable`, because that is what holds. Two losses can cancel, and one passes the additive
  checksum when it falls between two escapes: 125, 17 is sent as 7d 5d 7d 31 and arrives without its
  second byte as 93, 49, as many bytes with the same sum. So 125 must not come before 17 or 19, nor
  last, where the checksum follows. Nothing in the code keeps it from doing so. The other two
  conditions hold of the program: MAX_FRAME_DATA_SIZE is 110, and the API ids of what a radio sends
  to the hat are 0x80 and more (XBee.h:98), which is too much to be taken for a length. The
  packets of the run are `Unmistakable` (an assumption of `MCXBeeLink`).
- `Resynchronises`: at most three whole packets are missed after a damaged one. Three can be: lost
  bytes leave the parser inside a packet with a pending escape, which hides the first start byte;
  the second start byte ends the packet so begun, and with it the frame it belongs to; and the sum
  left over from there spoils the third.

Fairness: the main loop calls `readPacket` for ever, and a frame once begun is sent to its end.

Met and not a run of their own: XBee.cpp:876 says a start byte inside a packet starts over, but the
parser discards both packets (`Resynchronises` allows for it); the sum of an aborted packet stays
in `_checksumTotal` (XBee.cpp:878) and can make a packet pass whose own sum is wrong; the array
bound is compared with the position (XBee.cpp:929), so packets of 107 to 110 bytes are refused
although they fit; and a length of 256 or more is announced modulo 256 (XBee.cpp:732), but nothing
that long is sent to the hat.

### taskManager (`TaskManager`) and `MulDiv`

Main program, the two interrupts and the counter interleave step by step; `main.pc` and `isr.at` say
where each stands. `getTime` outside of `ATOMIC_BLOCK` is read as the 8-bit core reads it: the
counter, then the lower and the upper byte of `time_ovf` (`ReadRtc`, `ReadLow`, `TimeIsRead` or
`TaskInUse`). The loop of `setNextInterrupt` looks at one slot a step and reads a call time that is
the earliest so far a second time to take it (`LookAtTask`, `TakeCallTime`), as the volatile
`tasks[]` of taskmanager.cpp:90 makes the compiler do. Both interrupts have the low level, so
neither interrupts the other, and the overflow goes first. `now` is the true time, `RTC.CNT` is `now
% Era`. Timing assumptions, all in `Tick`: a pending unmasked interrupt waits at most one tick (0.5
ms), the compare interrupt with the tasks it calls takes at most `IsrTicks`, the instructions from
reading the counter to writing the compare register take less than a tick, `registerTask` and
`getTime` take less than an era (32 s), `IsrTicks + 1 < Era` (or the counter would turn again while
an overflow waits), and a behaviour ends so far below 2^32 that no time wraps. The members of a task
are read in one step each, also those of 32 bits: main.cpp registers its only task before a compare
interrupt can run, so nothing in this program can tear them.

`task_manager` (era 5 ticks, bytes of 2 values, 2 slots, up to 3 registrations; a behaviour lasts 23
ticks less 6 for each registration, so more than three eras with one): `RegistersInArray`, `Armed`,
`NotEarly`, `ComparesInTime` (a task that waits has a compare coming, at most an era after its call
time), `TimeNotBehind`. `ComparesInTime` leaves out one case, which the history `astray` marks: when
the compare interrupt moves a call time between its two reads at taskmanager.cpp:90, past what was
the earliest one, COMP may be set past another task, and is wrong until the interrupt runs next. The
interval of 2 ms with 4 ticks is not a multiple of the era, so that calls and compares fall on all
sides of an overflow.

The code disagrees with its own comments here. `task_manager_skip` is a run: setNextInterrupt with
an overflow pending programs a compare that has passed, so the task is called an era late. The
others are known without one: `getTime` (taskmanager.h:37) torn by the overflow interrupt is an era
ahead, or, between the two bytes of `time_ovf` when the overflow carries (0x00FF read as 0x01FF),
256 eras ahead, and main.cpp:115 then waits 32 s, or more than two hours, for its next frame;
`TimeNotBehind` admits both, and says that a time is never behind; a single shot (taskmanager.h:24)
is never counted off, because the interrupt clears `inUse` before removeTask looks, and after eight
of them nothing can be registered; and the rounding compensation compares a remainder in
thousandths, cut to a uint8_t, with 100 (taskmanager.cpp:135, 196-201).

`MulDiv` takes one step per turn of muldiv's loop; `muldiv` checks all arguments of a 5-bit word:
`Exact`, the quotient and the remainder although the product does not fit. It ends, so deadlock is
not checked.

### Main loop and upload (`Playing`, `Hat`, `Upload`)

`Playing` is what the two modes promise about the light, apart from how frames are made: whether
the machine or the keyframe runner has the vectors, whether the runner is stopped, whether anything
is lit. `Hat` extends it with the buffers, with an action for each command of `xbee_api_callback`
that changes state and for the button. Words of programs are values, and a frame may move `PC` and
light vectors freely; `AnimationMachine` and `KeyframeRunner` are what frames really do, and the
second is checked to implement `Playing`.
`Upload` sends what utils/com.cpp sends: clear, chunks, swap, dump, or, with `-c`, no chunks. The
tool never hears from the hat, so sending and handling are one step, `Lose` drops a command, and
`Remote` and `Press` come between any two. The uint8_t offset is `% CodeSize`, as 256 is both.

`upload` (two chunks of two words; programs that end within a chunk and with one; one loss, any number
of uploads and presses): `PlaysUpload` (a whole, undisturbed upload plays as it was sent and nothing
of an older program is left behind it, whatever happened before), `PlayedIsNotWritten`,
`StoppedIsDark`. `upload_largest`: a program that fills the buffer, which README.md:18 allows, has
its first word overwritten, because the end of file is uploaded as a ninth chunk and its offset
wraps. LossMax 1 is enough for every damage of one upload that a later one can meet: a residue in
either buffer comes from a lost clear, chunk or swap.

### Animation machine and renderer (`AnimationMachine`, `Renderer`)

`AnimationMachine` has the registers, the memory map and the watchdog of animation.cpp under their
names, an action for each group of opcodes, and one for each way back to the main loop (`Update`,
`Restart`, `TimeOut`). `ShowFrame` is `updateLed` of every LED, from `Renderer`, which also cuts the
sectors in the memory of the program. `SwapProgram` comes between any two frames, and leaves the
registers and the memory to the next program, as main.cpp:150 does. So may `LedsOff`, which a stop or
a load of the keyframe runner leaves in the vectors (animation_tasks.h:157) while the LEDs still show
the last frame; what keyframes draw between two programs is left to `KeyframeRunner`. Arithmetic is
in the widths of the C++ types, with their sign.

`ProgramMemory` remembers in `told` what programs stored in each cell, by what the instructions mean,
apart from the four places where ramStore() puts it. Its cells are those that keep what they are
given: the vectors, the pointer, the return address and general purpose memory from 0x80 on.

`animation_machine` runs five programs that between them contain every opcode; operands are loaded
from the random cell (1, 6, 128, 255 and the battery's bytes), so that each runs on every
combination, with two vectors, three directions (0, -128, 100: 128 steps apart is the edge), two
cells of `gp_ram`, and a watchdog of 7, less than any of the programs needs. `LedsShowVectors`
compares, in each frame that is shown, vectors.cpp with what README.md:31-39 says of the circle;
`StoredIsKept` what a load returns, directly and through the pointer, with the last that was stored,
after any number of instructions, frames, stops, timeouts and swaps, where only a sector may have
been cut or cleared; `CarryIsOverflow` the carry with utils/README.md:43;
`MachineTypeOK` says that no access leaves its array, with the pointer cell at itself and with
jumps to everywhere; `KeepsPolling` that the main loop gets its turn again, with the fairness that
a step of the main program which can be taken is taken. A larger CodeSize or GpSize adds addresses
of the same kind; Byte is always 0..255, as the memory map has its addresses in it.

Where utils/README.md says other than the code, the code is modelled: utils/README.md:251 has general
purpose memory from 0x40 to 0xFF, but animation.cpp:43 drops what is stored below 0x80 and
animation.cpp:95 loads zero there, which test.asm and off.asm do not know (0x40 is therefore not in
`Cells`, and a store there is not kept; known without a run of its own); SR and SL are said to shift a
cell by one and shift `wreg` by the argument (animation.cpp), RST is said to reset the memory and
keeps `returnAddress` and `gp_ram`, and DEBUG prints and does nothing else.

### Keyframe runner (`KeyframeRunner`)

`run()` is an action for each state, and the main loop around it says when: `runTime` and
`nextFrame` are kept as distances from now, so that time needs no bound; only how far `runTime`
falls behind has one (`LateMax`). Animations are data: whether they fade and their frames, with a
channel for each colour of an LED. All of animations.h light the same LEDs, which `Animations` takes
for granted; a hat that lit others would be a different model.

`keyframe_runner` (bytes of two bits, two channels, three animations; see `MCKeyframeRunner` for why
these): a fade takes exactly as many steps as a byte can count, one has equal frames, one a
difference larger than its steps, and commands may come at any moment, loads beyond the last
animation among them. `NeverEarly` relates the two clocks over all changes of mode; `StepInAnimation`
holds although a load beyond the last animation changes the buffer under a runner, because the last
animation has the most frames (`KeyframeAssumption`, so in animations.h). `FadeStaysBetween` says
what holds of a fade whose frame lasts FADE_MIN_TIME at least, as all of animations.h do
(`KeyframeAssumption`), except in the one frame (FADING_END) that is computed after the last step: it
never divides by zero, a channel that falls stays between its frames, and one that rises, from
zero, does not pass the next. `PlaysOn` needs that the loop turns for ever and time passes, and
that no command comes any more. `ImplementsPlaying` is the refinement.

What the model shows of fades and no property calls wrong, as nothing says otherwise: a fade takes
up to 20 ms longer than the wait of its frame, overshoots in its last frame, starts from zero where
a channel rises (animation_tasks.h:196), and plays in a burst what it missed while it was stopped. `set_leds`
writes vectors 0 to 3, so those a program lit beyond them stay lit until a stop.

### Assembler (`Assembler`)

One action for each line of each pass: reading and substituting defines, taking labels out of the
list while walking along it, resolving, translating, with every error. `Fail` is an exception that
main catches, `Crash` one that nobody does, or a read behind the end of a vector. Text is abstract:
a line is its words, `Numeral` what stoi makes of a word, `LabelName` the name in a word with a
colon.

`assembler` assembles every source of up to five lines of eight kinds, and of up to three lines of
twenty (errors of every kind among them), with bytes of two bits, so that an address may not fit.
`Translates` and `Accepts` say what the output means in terms of the source, without the passes;
`Terminates` needs that the program runs. It ends, so deadlock is not checked.

What a user might not expect and the model keeps: an address in RJMP is taken as it is, though RJMP
jumps relatively; an instruction on a label's line is dropped; of two defines of a word the first
counts; a define that is replaced by another word is replaced again (`NoChains` excludes it from
the properties); nothing checks that a program has at most 256 instructions.

## What is proved

TLAPS checks these for every value of the constants that satisfies the modules' assumptions.

- `UartProofs`: of the ring buffer `WriteAppends` and `ReadTakesHead` (write appends to, and read
  takes the head of, the sequence a buffer stands for), from lemmas about `%` on a ring. For the
  transmitter `TypeCorrect`, `NeverOverrun`, `NeverStalls`, and `Refinement` (every step is a step
  of `FifoLine` or a stutter). The inductive invariant adds to the type invariant that the buffer is
  within its capacity, with room while a byte is about to be written: `SeeRoom` and `WriteByte` are
  separate steps, so the first has to be remembered at the second, and the interrupt between them
  only makes room. `NeverStalls` needs that the interrupt switches itself off only on an empty
  buffer. For the receiver `RxTypeCorrect`, `RxInOrder` and `RxRefinement`: the invariant `RxInv`
  says that outside an overrun the buffer stands for the history and is within its capacity, that a
  punctual reader never has an overrun, and that a byte which was polled is still there when it is
  read.
- `XBeeProofs`: `TypeCorrect` and `AlwaysConsistent`, for every array size and stream. The
  inductive invariant is `Consistent` itself with the type invariant: the position determines which
  members have been set, and the bound is tested before it is used. For sender, line and parser
  together `DeliversInOrder` (the step part of the refinement of `FifoLine`) and `BackInStep`, for
  all packets that fit, any queue and any number of losses. One invariant, `LinkInv`, carries both:
  there is a trail of places in frames, one for each byte of the queue and one for the sender, each
  the next of the one before except where bytes were lost; and what was missed so far and what the
  parser owes at the first place, its `Debt`, are at most three packets together. The debt is 3
  inside a frame when the parser's position is not the sender's, 1 when only the sum is wrong, 0
  when they agree, and so on at the start of a frame. `TurnPays` is the core: no turn of the loop
  adds to it, and a packet that ends without being delivered pays for one. On a line that has lost
  nothing the debt is 0, so that every packet is delivered where its mark is read. What `PacketsIn`
  collects is proved with an induction over the naturals as a least counterexample
  (`NatSetInduction`), as the library's theorem takes an operator. `OnlyGenuine` states `Genuine`, for
  all `Unmistakable` packets and wherever the one byte is lost. Its invariant `GenuineInv` counts the
  places again, with that of the loss (`Route`), and says of the parser beyond it that it is
  `Harmless`: waiting for a start byte, or at a place after all, or in place with a sum that is wrong
  and stays so (`Spoilt`), or about to see the second half of an escaped byte bare, so that the sum
  will be (`Bare`), or counting on more bytes than are left before the next start byte (`Short`).
  `HarmlessTurn` shows that a turn keeps that, `LoseHarmless` and `MergeTurn` that the loss leads
  there: `MergeTurn` when an escape takes a byte that is not its other half, the only place where
  the sum might not tell and the condition on 125 is needed.
- `TaskManagerProofs`: all six invariants of the run, for every number of slots, era, interval and
  length of a behaviour. The inductive invariant is built in layers, each with its own step lemma
  over every action: the types, with a count that is never below the slots in use (`CountInv`, for
  `StaysInArray` and `StaysArmed`); the clock, `now = Turns * Era + Cnt` (`ClockInv`: an overflow is
  counted or pending, and a pending one is recent, so that none is lost); the calls, each of which
  moves the next call time by an interval (`OnTime`, for `NeverEarly`); what is on its way to the
  compare register (`WriteInv`) and the register itself (`CompInv`, for `NoTaskLost`); and the time
  that getTime is about to return (`TimeInv`, for `TimeIsReliable`), which after each of its three
  reads is the value of some moment since the call, in the digits that have been read (`ReadAt`,
  `Torn`). `ClockInv` is why
  `IsrTicks + 1 < Era` had to become an assumption: without it two overflows could be one flag.
- `MulDivProofs`: `DividesExactly`. The argument is the bits to come times their weight, plus the
  bits done; (q, r) stands for the multiplier times the bits done and (qn, rn) for the multiplier
  times the weight, each quotient modulo a word, as the code keeps them.
- `UploadProofs`: `TypeCorrect`, `NeverWritesWhatPlays`, `AlwaysDarkWhenStopped` and
  `PlaysWhatWasSent`, for any sizes, programs and losses. The type invariant is inductive because
  it keeps the two buffer pointers apart and says of every command still to be sent what it holds;
  that what plays is never written follows from it, since every write goes by the other pointer.
  `StoppedIsDark` is inductive alone. `PlaysWhatWasSent` adds `PartIsThere`: while an upload is
  undisturbed, what is still to be sent is the rest of its commands, and the free buffer holds the
  part of the program that was sent over zeros. Lemmas say that the chunks cover the program
  (`PiecesCover`), that none of their offsets wraps and that each makes the part longer by its own
  words (`PartGrows`).
- `AnimationMachineProofs`: `StaysInMemory`, `LedsAreRight`, `CarryTells` and `StoredStays`, for
  all programs, sizes of memory, directions of LEDs and battery levels. The types are inductive,
  with a lemma for each group of opcodes. For the LEDs the core are `AngleIsDistance` (abs8 of the
  difference is the way round the circle, but -128 for the opposite side) and `RGBIsFade` (the
  truncated products are the fading that README.md describes). For the memory the invariant
  (`KeptInv`) is `StoredIsKept` said of the four places: each cell holds what it was told, or, if a
  sector, what is left of it; that the pointer is told like any cell makes the code's `Target` and
  the program's `Meant` the same address (`TargetIsMeant`), and `StoreKeeps` that a store changes
  the cell it means and no other.
- `KeyframeProofs`: `TypeCorrect`, `NeverRunsEarly`, `StaysInAnimation`, `FadesBetween`, and
  `Refinement` (the runner in the main loop implements `Playing`), for every list of animations that
  satisfies `KeyframeAssumption` (so no frame is shorter than FADE_MIN_TIME). The inductive invariant adds to these four that the frame on show,
  and during a fade the next one, is a frame of an animation (`FramesShown`): only their waits are
  known to make a step, so that a fade has one to divide by. The arithmetic is in two lemmas about
  `interpolate_fade`, `InterpolatedType` and `InterpolatedBetween`. That the refinement needs no more
  than the types shows how little of the runner the light depends on.
- `AssemblerProofs`: `TranslatesRight` and `AcceptsRight`, for every set of sources, any table of
  numbers and names and any width of a byte. The inductive invariant, `AssemblerInv`, says for each
  pass how far it is (`ReadingAt`, `LabellingAt`, `ResolvingAt`, `TranslatingAt`, `DoneAt`), with a
  witness the program does not keep: the list of the source lines that the list of code still
  holds, which is every code line that has not been taken out as a label's, in its order (`Lists`).
  While the labels are taken out all that is in front of the pass is an instruction, so that the
  number a label gets is the number of instructions before its line (`FindLabelKeeps`). The folds
  that replace words get a closed form each, by a least counterexample over the length of the list
  (`SubstitutedIs`, `ResolvedIs`): the first entry that fits, where no replacement is replaced again;
  `NoChains` and `PlainNames` say so, and for labels the assumption that stoi reads back what
  to_string wrote. `Accepts` is in the invariant of a pass as what its lines so far are checked for.

Model-checked only: liveness under fairness (`CallsReturn`, `EveryByteRead`, `CleanDelivers`,
`KeepsPolling`, `PlaysOn`, `Terminates`), which is beyond the prover. Every safety invariant of the
passing runs is stated by a theorem.

## Not modelled

The XBee request and response classes (offsets into packets), clock and pin setup, `setBaudRate`,
`sendInt` and `sendHex`, the LED drivers with brightness and gamma tables, the framing and the
command line of the upload tool, `readPacket(timeout)` and `readPacketUntilAvailable` (nobody calls
them), a second `initialize()`: straight lines of register writes, data layout and input or output,
without states to check. The battery is a mean and a linear formula; `AnimationMachine` takes any
level. One thing there is worth knowing: the tool (com.cpp:47) escapes the data of a frame but not
its length or checksum, so that a command with an unlucky sum never reaches the radio; in `Upload`
it is one of those that are lost.
