----------------------- MODULE AnimationMachineProofs -----------------------
(***************************************************************************)
(* Theorems about the animation machine and the LEDs it lights, for all    *)
(* programs, sizes of its memories, numbers of vectors and directions.     *)
(***************************************************************************)
EXTENDS ProgramMemory, TLAPS

-----------------------------------------------------------------------------
(* The arithmetic of the renderer.                                         *)

\* What is assumed of the sizes.
LEMMA Sizes ==
    /\ CodeSize \in 1 .. 256 /\ GpSize \in 1 .. 128 /\ GpFirst \in 128 .. 255
    /\ WatchDog \in Nat /\ WatchDog > 0
    /\ VectorBytes \in 0 .. 40 /\ VectorBytes = 5 * (VectorBytes \div 5)
    /\ VectorBytes \div 5 \in Nat
  <1>1. CodeSize \in 1 .. 256 /\ GpSize \in 1 .. 128 /\ WatchDog \in Nat /\ WatchDog # 0
    BY MachineAssumption
  <1>2. VectorBytes \in Nat /\ VectorBytes % 5 = 0 /\ VectorBytes <= 40
    BY RendererAssumption
  <1>3. VectorBytes = 5 * (VectorBytes \div 5) /\ VectorBytes \div 5 \in Nat
    BY <1>2
  <1>4. GpFirst \in 128 .. 255
    BY <1>1 DEF GpFirst
  <1>5. QED
    BY <1>1, <1>2, <1>3, <1>4

\* Where the bytes of a vector are.
LEMMA VectorAddress ==
    ASSUME NEW v \in Vectors, NEW i \in 0 .. 4
    PROVE  /\ 5 * v + i \in 0 .. VectorBytes - 1
           /\ (5 * v + i) % 5 = i
  BY Sizes DEF Vectors

LEMMA MinOfTwo ==
    ASSUME NEW a \in Int, NEW b \in Int
    PROVE  Min({a, b}) = IF a <= b THEN a ELSE b
  BY DEF Min

\* A difference of two directions, reduced to a byte.
LEMMA OnCircle ==
    ASSUME NEW d \in -383 .. 511
    PROVE  d % 256 = IF d < -256 THEN d + 512
                     ELSE IF d < 0 THEN d + 256
                     ELSE IF d < 256 THEN d ELSE d - 256
  <1>1. CASE d < -256
    BY <1>1, SMTT(60)
  <1>2. CASE d \in -256 .. -1
    BY <1>2, SMTT(60)
  <1>3. CASE d \in 0 .. 255
    BY <1>3, SMTT(60)
  <1>4. CASE d > 255
    BY <1>4, SMTT(60)
  <1>5. QED
    BY <1>1, <1>2, <1>3, <1>4

\* The two ways round the circle from one direction to another.
LEMMA DistanceIs ==
    ASSUME NEW a \in 0 .. 255, NEW b \in -128 .. 127
    PROVE  Distance(a, b) = IF (a - b) % 256 <= 128 THEN (a - b) % 256
                                                    ELSE 256 - ((a - b) % 256)
  <1> DEFINE x == (a - b) % 256
             y == (b - a) % 256
  <1>1. x \in 0 .. 255 /\ y = IF x = 0 THEN 0 ELSE 256 - x
    <2> DEFINE d == a - b
               e == b - a
    <2>1. d \in -383 .. 511 /\ e \in -383 .. 511 /\ e = -d
          /\ d \in -127 .. 383
      OBVIOUS
    <2> HIDE DEF d, e
    <2>2. d % 256 = IF d < 0 THEN d + 256 ELSE IF d < 256 THEN d ELSE d - 256
      BY <2>1, OnCircle
    <2>3. e % 256 = IF e < -256 THEN e + 512 ELSE IF e < 0 THEN e + 256 ELSE e
      BY <2>1, OnCircle
    <2>4. d % 256 \in 0 .. 255 /\ e % 256 = IF d % 256 = 0 THEN 0 ELSE 256 - (d % 256)
      BY <2>1, <2>2, <2>3
    <2>5. QED
      BY <2>4 DEF d, e
  <1>2. x \in Int /\ y \in Int
    BY <1>1
  <1>3. Distance(a, b) = Min({x, y})
    BY DEF Distance
  <1> HIDE DEF x, y
  <1>4. Distance(a, b) = IF x <= y THEN x ELSE y
    BY <1>2, <1>3, MinOfTwo
  <1>5. QED
    BY <1>1, <1>4 DEF x

\* abs8() of the difference is the distance, but for the opposite direction.
LEMMA AngleIsDistance ==
    ASSUME NEW a \in 0 .. 255, NEW b \in -128 .. 127
    PROVE  /\ Distance(a, b) \in 0 .. 128
           /\ Abs8(a - b) = IF Distance(a, b) = 128 THEN -128 ELSE Distance(a, b)
  <1> DEFINE x == (a - b) % 256
             i == IF x < 128 THEN x ELSE x - 256
  <1>1. x \in 0 .. 255 /\ Int8(a - b) = i
    <2> DEFINE d == a - b
               e == d + 128
    <2>1. d \in -127 .. 383 /\ d \in -383 .. 511 /\ e \in -383 .. 511
      OBVIOUS
    <2> HIDE DEF d
    <2>2. d % 256 = IF d < 0 THEN d + 256 ELSE IF d < 256 THEN d ELSE d - 256
      BY <2>1, OnCircle
    <2>3. e = d + 128
      OBVIOUS
    <2> HIDE DEF e
    <2>4. e % 256 = IF e < 0 THEN e + 256 ELSE IF e < 256 THEN e ELSE e - 256
      BY <2>1, <2>3, OnCircle
    <2>5. Int8(d) = (e % 256) - 128
      BY DEF Int8, e
    <2>6. /\ d % 256 \in 0 .. 255
          /\ (e % 256) - 128 = IF d % 256 < 128 THEN d % 256 ELSE (d % 256) - 256
      BY <2>1, <2>2, <2>3, <2>4
    <2>7. QED
      BY <2>5, <2>6 DEF d
  <1>2. Distance(a, b) = IF x <= 128 THEN x ELSE 256 - x
    BY DistanceIs, ZenonT(60)
  <1>3. Abs8(a - b) = Int8(IF i < 0 THEN -i ELSE i)
    BY <1>1 DEF Abs8
  <1> HIDE DEF x
  <1> DEFINE y == IF i < 0 THEN -i ELSE i
  <1>4. y \in 0 .. 128 /\ y = IF x <= 128 THEN x ELSE 256 - x
    BY <1>1
  <1> HIDE DEF y, i
  <1>5. Int8(y) = IF y = 128 THEN -128 ELSE y
    BY <1>4 DEF Int8
  <1>6. Distance(a, b) = y
    BY <1>2, <1>4
  <1>7. QED
    BY <1>3, <1>4, <1>5, <1>6 DEF y

\* A sector's reach is a power of two.
LEMMA Powers ==
    /\ 2 ^ 0 = 1 /\ 2 ^ 1 = 2 /\ 2 ^ 2 = 4 /\ 2 ^ 3 = 8 /\ 2 ^ 4 = 16
    /\ 2 ^ 5 = 32 /\ 2 ^ 6 = 64 /\ 2 ^ 7 = 128
  BY SMT

LEMMA PowerIs ==
    ASSUME NEW s \in 0 .. 7
    PROVE  2 ^ s \in {1, 2, 4, 8, 16, 32, 64, 128} /\ (s > 0 => 2 ^ s > 1)
  <1>1. s \in {0, 1, 2, 3, 4, 5, 6, 7}
    OBVIOUS
  <1>2. CASE s = 0
    <2>1. 2 ^ s = 1
      BY <1>2, Powers, Zenon
    <2>2. QED
      BY <1>2, <2>1
  <1>3. CASE s = 1
    <2>1. 2 ^ s = 2
      BY <1>3, Powers, Zenon
    <2>2. QED
      BY <1>3, <2>1
  <1>4. CASE s = 2
    <2>1. 2 ^ s = 4
      BY <1>4, Powers, Zenon
    <2>2. QED
      BY <1>4, <2>1
  <1>5. CASE s = 3
    <2>1. 2 ^ s = 8
      BY <1>5, Powers, Zenon
    <2>2. QED
      BY <1>5, <2>1
  <1>6. CASE s = 4
    <2>1. 2 ^ s = 16
      BY <1>6, Powers, Zenon
    <2>2. QED
      BY <1>6, <2>1
  <1>7. CASE s = 5
    <2>1. 2 ^ s = 32
      BY <1>7, Powers, Zenon
    <2>2. QED
      BY <1>7, <2>1
  <1>8. CASE s = 6
    <2>1. 2 ^ s = 64
      BY <1>8, Powers, Zenon
    <2>2. QED
      BY <1>8, <2>1
  <1>9. CASE s = 7
    <2>1. 2 ^ s = 128
      BY <1>9, Powers, Zenon
    <2>2. QED
      BY <1>9, <2>1
  <1>10. QED
    BY <1>1, <1>2, <1>3, <1>4, <1>5, <1>6, <1>7, <1>8, <1>9

\* What vectorToRGB() makes of the bytes of a vector, and what README.md says.
RGB(colour, direction, sector, d) ==
    IF ~ (Abs8(direction - d) < 2 ^ sector /\ Abs8(direction - d) # -128) THEN 0
    ELSE ((colour * (((256 \div 2 ^ sector) * (2 ^ sector - Abs8(direction - d))) % 65536))
            % 65536) \div 256

Fade(colour, direction, sector, d) ==
    IF Distance(direction, d) >= 2 ^ sector THEN 0
    ELSE (colour * (2 ^ sector - Distance(direction, d))) \div 2 ^ sector

\* They are the same: scaling by 256 / 2^sector and taking the high byte is
\* dividing by the reach, and sixteen bits are enough for it.
LEMMA RGBIsFade ==
    ASSUME NEW dir \in 0 .. 255, NEW col \in 0 .. 255, NEW s \in 1 .. 7,
           NEW d \in -128 .. 127
    PROVE  RGB(col, dir, s, d) = Fade(col, dir, s, d)
  <1> DEFINE p == 2 ^ s
             a == Abs8(dir - d)
             e == Distance(dir, d)
  <1>1. p \in {2, 4, 8, 16, 32, 64, 128}
    <2>1. s \in 0 .. 7 /\ s > 0
      OBVIOUS
    <2>2. p \in {1, 2, 4, 8, 16, 32, 64, 128} /\ p > 1
      BY <2>1, PowerIs, Zenon
    <2> HIDE DEF p
    <2>3. QED
      BY <2>2
  <1>2. e \in 0 .. 128 /\ a = IF e = 128 THEN -128 ELSE e
    BY AngleIsDistance
  <1> HIDE DEF p, a, e
  <1>3. CASE e >= p
    <2>1. ~ (a < p /\ a # -128)
      BY <1>1, <1>2, <1>3
    <2>2. QED
      BY <1>3, <2>1 DEF RGB, Fade, p, a, e
  <1>4. CASE e < p
    <2>1. a = e /\ a < p /\ a # -128 /\ p - e \in 1 .. p
      BY <1>1, <1>2, <1>4
    <2> DEFINE k == p - e
               t == col * k
               w == 256 \div p
    <2>2. k \in 1 .. p
      BY <2>1
    <2> HIDE DEF k
    <2>3. t \in Nat /\ t <= 255 * p
      <3>1. k \in Nat /\ p \in Nat /\ k <= p
        BY <1>1, <2>2
      <3>2. col * k \in Nat /\ col * k <= 255 * k
        BY <3>1
      <3>3. QED
        BY <3>1, <3>2
    <2>4. w \in {2, 4, 8, 16, 32, 64, 128} /\ w * p = 256
      BY <1>1
    <2>5. (w * k) % 65536 = w * k
      <3> DEFINE m == w * k
      <3>1. m \in 0 .. 256
        BY <1>1, <2>2, <2>4
      <3> HIDE DEF m, w
      <3>2. m % 65536 = m
        BY <3>1
      <3>3. QED
        BY <3>2 DEF m
    <2>6. col * (w * k) = w * t
      BY <1>1, <2>2, <2>4
    <2> HIDE DEF t
    <2>7. (w * t) % 65536 = w * t /\ (w * t) \div 256 = t \div p
      BY <1>1, <2>3, <2>4
    <2>8. ((col * ((w * k) % 65536)) % 65536) \div 256 = t \div p
      BY <2>5, <2>6, <2>7
    <2>9. ~ (e >= p)
      BY <1>1, <1>2, <1>4
    <2>10. QED
      BY <2>1, <2>8, <2>9 DEF RGB, Fade, p, a, e, k, t
  <1>5. QED
    BY <1>1, <1>2, <1>3, <1>4

-----------------------------------------------------------------------------
(* The memory map.                                                         *)

\* The cells hold bytes, and an address a program counter can take is one.
Memory ==
    /\ vectors \in [0 .. VectorBytes - 1 -> Byte]
    /\ gp_ram \in [GpFirst .. 255 -> Byte]
    /\ indirectAddress \in Byte /\ returnAddress \in Byte

Registers ==
    /\ code \in Programs /\ PC \in Address /\ wreg \in Byte /\ carry \in Byte

Frames ==
    /\ at \in {"loop", "code", "leds"}
    /\ pause \in Byte /\ wdc \in 0 .. WatchDog

LEMMA Types == MachineTypeOK <=> Memory /\ Registers /\ Frames
  BY DEF MachineTypeOK, Memory, Registers, Frames

LEMMA NextTypes == MachineTypeOK' <=> Memory' /\ Registers' /\ Frames'
  BY DEF MachineTypeOK, Memory, Registers, Frames

LEMMA TargetType ==
    ASSUME Memory, NEW a \in Byte
    PROVE  Target(a) \in Byte
  BY DEF Target, Memory

\* Whatever cell a load is for, it returns a byte.
LEMMA RamLoadType ==
    ASSUME Memory, NEW a \in Byte
    PROVE  RamLoad(a) \subseteq Byte
  <1> DEFINE t == Target(a)
  <1>1. t \in Byte
    BY TargetType
  <1> HIDE DEF t
  <1>2. t < VectorBytes => {vectors[t]} \subseteq Byte
    BY <1>1, Sizes DEF Memory, Byte
  <1>3. t >= GpFirst => {gp_ram[t]} \subseteq Byte
    BY <1>1, Sizes DEF Memory, Byte
  <1>4. /\ {level \div 256 : level \in Levels} \subseteq Byte
        /\ {level % 256 : level \in Levels} \subseteq Byte
    <2>1. \A level \in Levels : level \in Nat /\ level < 65536
      BY MachineAssumption
    <2>2. ASSUME NEW level \in Nat, level < 65536
          PROVE  level \div 256 \in 0 .. 255 /\ level % 256 \in 0 .. 255
      BY <2>2
    <2>3. \A level \in Levels : level \div 256 \in Byte /\ level % 256 \in Byte
      BY <2>1, <2>2 DEF Byte
    <2>4. QED
      BY <2>3, Zenon
  <1>5. {indirectAddress} \subseteq Byte /\ {returnAddress} \subseteq Byte
        /\ Random \subseteq Byte /\ {0} \subseteq Byte
    BY MachineAssumption DEF Memory, Byte
  <1>6. QED
    BY <1>2, <1>3, <1>4, <1>5 DEF RamLoad, t

\* And a store leaves bytes in the memory.
LEMMA RamStoreType ==
    ASSUME Memory, NEW a \in Byte, NEW d \in Byte, RamStore(a, d)
    PROVE  Memory'
  <1> DEFINE t == Target(a)
  <1>1. t \in Byte
    BY TargetType
  <1> HIDE DEF t
  <1>2. vectors' \in [0 .. VectorBytes - 1 -> Byte]
    BY <1>1, Sizes DEF RamStore, Memory, t
  <1>3. gp_ram' \in [GpFirst .. 255 -> Byte]
    BY <1>1, Sizes DEF RamStore, Memory, t
  <1>4. indirectAddress' \in Byte /\ returnAddress' \in Byte
    BY DEF RamStore, Memory
  <1>5. QED
    BY <1>2, <1>3, <1>4 DEF Memory

\* The word at the PC is an instruction.
LEMMA WordType ==
    ASSUME Registers
    PROVE  word \in Instruction /\ word.op \in Operations /\ data \in Byte
  <1>1. code \in [Address -> Instruction] /\ PC \in Address
    BY MachineAssumption DEF Registers
  <1>2. code[PC] \in Instruction
    BY <1>1
  <1>3. QED
    BY <1>2 DEF word, data, Instruction

LEMMA GoesToType ==
    ASSUME NEW a \in Int, GoesTo(a)
    PROVE  PC' \in Address
  BY Sizes DEF GoesTo, Address

LEMMA AdvanceType ==
    ASSUME Registers, Advance
    PROVE  PC' \in Address
  <1>1. PC + 1 \in Int
    BY Sizes DEF Registers, Address
  <1>2. QED
    BY <1>1, GoesToType DEF Advance

LEMMA ExecutesType ==
    ASSUME Frames, Registers, NEW operations, Executes(operations)
    PROVE  Frames' /\ code' \in Programs /\ at' = "code" /\ leds' = leds
  BY Sizes DEF Executes, Frames, Registers

-----------------------------------------------------------------------------
(* The instructions keep the types.                                        *)

\* What `&`, `|` and `^` make of two numbers is a number.
LEMMA BitByBitType ==
    ASSUME NEW x \in Int, NEW y \in Int
    PROVE  And(x, y) \in Int /\ Or(x, y) \in Int /\ Xor(x, y) \in Int
  BY DEF And, Or, Xor, BitByBit

LEMMA TmpType ==
    ASSUME Registers, NEW loaded \in Byte,
           word.op \in {"ADD", "SUB", "AND", "OR", "XOR"}
    PROVE  Tmp(loaded) \in Int /\ CarryOf(Tmp(loaded)) \in Byte
  <1>1. wreg \in 0 .. 255 /\ loaded \in 0 .. 255 /\ carry \in 0 .. 255
    BY DEF Registers, Byte
  <1>2. CASE word.op = "ADD"
    <2>1. Tmp(loaded) = loaded + wreg
      BY <1>2 DEF Tmp
    <2>2. CarryOf(Tmp(loaded)) = (loaded + wreg) \div 256
      BY <1>2, <2>1 DEF CarryOf
    <2>3. QED
      BY <1>1, <2>1, <2>2 DEF Byte
  <1>3. CASE word.op = "SUB"
    <2> DEFINE t == (wreg - loaded) % 65536
    <2>1. Tmp(loaded) = t
      BY <1>3 DEF Tmp
    <2>2. CarryOf(Tmp(loaded)) = t \div 256
      BY <1>3, <2>1 DEF CarryOf
    <2>3. t \in Nat /\ t < 65536
      BY <1>1
    <2> HIDE DEF t
    <2>4. t \div 256 \in 0 .. 255
      BY <2>3
    <2>5. QED
      BY <2>1, <2>2, <2>3, <2>4 DEF Byte
  <1>4. CASE word.op \in {"AND", "OR", "XOR"}
    <2>1. CarryOf(Tmp(loaded)) = carry
      BY <1>4 DEF CarryOf
    <2>2. Tmp(loaded) \in Int
      <3>1. loaded \in Int /\ wreg \in Int
        BY <1>1
      <3>2. And(loaded, wreg) \in Int /\ Or(loaded, wreg) \in Int /\ Xor(loaded, wreg) \in Int
        BY <3>1, BitByBitType
      <3>3. CASE word.op = "AND"
        BY <3>2, <3>3 DEF Tmp
      <3>4. CASE word.op = "OR"
        BY <3>2, <3>4 DEF Tmp
      <3>5. CASE word.op = "XOR"
        BY <3>2, <3>5 DEF Tmp
      <3>6. QED
        BY <1>4, <3>3, <3>4, <3>5
    <2>3. QED
      BY <1>1, <2>1, <2>2 DEF Byte
  <1>5. QED
    BY <1>2, <1>3, <1>4

LEMMA LowByte == \A n \in Int : n % 256 \in Byte
  BY DEF Byte

\* An instruction that leaves the memory alone leaves bytes in it.
LEMMA MemoryKept ==
    ASSUME Memory, UNCHANGED memory
    PROVE  Memory'
  BY DEF Memory, memory

LEMMA LoadType ==
    ASSUME Memory, Registers, Frames, Load
    PROVE  Memory' /\ Registers' /\ Frames'
  <1>1. Frames' /\ code' \in Programs
    BY ExecutesType DEF Load
  <1>2. PC' \in Address
    BY AdvanceType DEF Load
  <1>3. wreg' \in Byte
    BY WordType, RamLoadType DEF Load
  <1>4. carry' \in Byte
    BY DEF Load, Registers
  <1>5. Memory'
    BY MemoryKept DEF Load
  <1>6. QED
    BY <1>1, <1>2, <1>3, <1>4, <1>5 DEF Registers

LEMMA StoreType ==
    ASSUME Memory, Registers, Frames, Store
    PROVE  Memory' /\ Registers' /\ Frames'
  <1>1. Frames' /\ code' \in Programs
    BY ExecutesType DEF Store
  <1>2. PC' \in Address
    BY AdvanceType DEF Store
  <1>3. wreg' \in Byte /\ carry' \in Byte
    BY DEF Store, Registers
  <1>4. Memory'
    <2>1. data \in Byte /\ wreg \in Byte /\ RamStore(data, wreg)
      BY WordType DEF Store, Registers
    <2>2. QED
      BY <2>1, RamStoreType
  <1>5. QED
    BY <1>1, <1>2, <1>3, <1>4 DEF Registers

LEMMA ComputeType ==
    ASSUME Memory, Registers, Frames, Compute
    PROVE  Memory' /\ Registers' /\ Frames'
  <1>1. Frames' /\ code' \in Programs
    BY ExecutesType DEF Compute
  <1>2. PC' \in Address
    BY AdvanceType DEF Compute
  <1>3. PICK loaded \in RamLoad(data) :
            /\ carry' = CarryOf(Tmp(loaded))
            /\ IF word.toWreg
                 THEN wreg' = Tmp(loaded) % 256 /\ UNCHANGED memory
                 ELSE RamStore(data, Tmp(loaded) % 256) /\ UNCHANGED wreg
    BY DEF Compute
  <1>4. word.op \in {"ADD", "SUB", "AND", "OR", "XOR"} /\ data \in Byte /\ loaded \in Byte
    BY WordType, RamLoadType DEF Compute, Executes
  <1> DEFINE byte == Tmp(loaded) % 256
  <1>5. carry' \in Byte /\ byte \in Byte
    BY <1>3, <1>4, TmpType, LowByte
  <1>6. CASE word.toWreg
    <2>1. wreg' = byte /\ UNCHANGED memory
      BY <1>3, <1>6
    <2>2. Memory'
      BY <2>1, MemoryKept
    <2>3. QED
      BY <1>1, <1>2, <1>5, <2>1, <2>2 DEF Registers
  <1>7. CASE ~word.toWreg
    <2>1. RamStore(data, byte) /\ wreg' = wreg
      BY <1>3, <1>7
    <2> HIDE DEF byte
    <2>2. Memory'
      BY <1>4, <1>5, <2>1, RamStoreType
    <2>3. QED
      BY <1>1, <1>2, <1>5, <2>1, <2>2 DEF Registers
  <1>8. QED
    BY <1>6, <1>7

LEMMA CountType ==
    ASSUME Memory, Registers, Frames, Count
    PROVE  Memory' /\ Registers' /\ Frames'
  <1>1. Frames' /\ code' \in Programs
    BY ExecutesType DEF Count
  <1>2. PC' \in Address
    BY AdvanceType DEF Count
  <1>3. data \in Byte /\ RamLoad(data) \subseteq Byte
    BY WordType, RamLoadType
  <1>4. \E loaded \in RamLoad(data), n \in Int :
            carry' \in {0, 1} /\ RamStore(data, n % 256)
    <2>1. \A loaded \in RamLoad(data) : loaded + 1 \in Int /\ loaded - 1 \in Int
      BY <1>3 DEF Byte
    <2>2. QED
      BY <2>1 DEF Count
  <1>5. PICK n \in Int : carry' \in {0, 1} /\ RamStore(data, n % 256)
    BY <1>4
  <1>6. carry' \in Byte
    BY <1>5 DEF Byte
  <1>7. Memory'
    <2> DEFINE byte == n % 256
    <2>1. byte \in Byte
      BY LowByte
    <2>2. RamStore(data, byte)
      BY <1>5
    <2> HIDE DEF byte
    <2>3. QED
      BY <1>3, <2>1, <2>2, RamStoreType
  <1>8. wreg' = wreg
    BY DEF Count
  <1>9. QED
    BY <1>1, <1>2, <1>6, <1>7, <1>8 DEF Registers

\* Shifts by up to seven places and by all of them stay in the byte.
LEMMA ShiftType ==
    ASSUME Memory, Registers, Frames, Shift
    PROVE  Memory' /\ Registers' /\ Frames'
  <1> DEFINE factor == IF data < 8 THEN 2 ^ data ELSE 256
  <1>1. Frames' /\ code' \in Programs
    BY ExecutesType DEF Shift
  <1>2. PC' \in Address
    BY AdvanceType DEF Shift
  <1>3. data \in 0 .. 255 /\ wreg \in 0 .. 255
    BY WordType DEF Registers, Byte
  <1>4. factor \in {1, 2, 4, 8, 16, 32, 64, 128, 256}
    <2>1. CASE data < 8
      <3>1. data \in 0 .. 7
        BY <1>3, <2>1
      <3>2. factor = 2 ^ data
        BY <2>1
      <3>3. 2 ^ data \in {1, 2, 4, 8, 16, 32, 64, 128}
        BY <3>1, PowerIs
      <3> HIDE DEF factor
      <3>4. QED
        BY <3>2, <3>3, Zenon
    <2>2. CASE ~ (data < 8)
      BY <2>2
    <2>3. QED
      BY <2>1, <2>2
  <1>5. \/ carry' = wreg % 2 /\ wreg' = wreg \div factor
        \/ carry' = wreg \div 128 /\ wreg' = (wreg * factor) % 256
    BY DEF Shift
  <1> HIDE DEF factor
  <1>6. wreg' \in 0 .. 255 /\ carry' \in 0 .. 255
    <2>1. wreg \div factor \in 0 .. 255
      BY <1>3, <1>4
    <2>2. (wreg * factor) % 256 \in 0 .. 255
      BY <1>3, <1>4
    <2>3. wreg % 2 \in 0 .. 255 /\ wreg \div 128 \in 0 .. 255
      BY <1>3
    <2>4. QED
      BY <1>5, <2>1, <2>2, <2>3
  <1>7. Memory'
    BY MemoryKept DEF Shift
  <1>8. QED
    BY <1>1, <1>2, <1>6, <1>7 DEF Registers, Byte

\* Branches, and instructions that do nothing.
LEMMA BranchType ==
    ASSUME Memory, Registers, Frames, Skip \/ Jump \/ Pass
    PROVE  Memory' /\ Registers' /\ Frames'
  <1>1. Frames' /\ code' \in Programs
    BY ExecutesType DEF Skip, Jump, Pass
  <1>2. PC \in Int /\ data \in Int
    BY WordType, Sizes DEF Registers, Address, Byte
  <1>3. PC' \in Address
    <2>1. CASE Skip
      <3>1. \E n \in Int : GoesTo(n)
        <4>1. \A b : PC + (IF b THEN 2 ELSE 1) \in Int
          BY <1>2
        <4>2. QED
          BY <2>1, <4>1 DEF Skip
      <3>2. QED
        BY <3>1, GoesToType
    <2>2. CASE Jump
      <3>1. word.op \in Jumps /\ GoesTo(JumpTarget)
        BY <2>2 DEF Jump, Executes
      <3>2. returnAddress \in Int
        BY DEF Memory, Byte
      <3>3. JumpTarget \in Int
        BY <1>2, <3>1, <3>2 DEF JumpTarget, Jumps
      <3>4. QED
        BY <3>1, <3>3, GoesToType
    <2>3. CASE Pass
      BY <2>3, AdvanceType DEF Pass
    <2>4. QED
      BY <2>1, <2>2, <2>3
  <1>4. wreg' \in Byte /\ carry' \in Byte /\ UNCHANGED memory
    BY DEF Skip, Jump, Pass, Registers
  <1>5. QED
    BY <1>1, <1>3, <1>4, MemoryKept DEF Registers

\* The ways back to the main loop.
LEMMA ReturnType ==
    ASSUME Memory, Registers, Frames, Update \/ Restart \/ TimeOut
    PROVE  Memory' /\ Registers' /\ Frames'
  <1>0. wreg \in Byte /\ data \in Byte /\ 0 \in Byte /\ 0 \in 0 .. WatchDog
    BY WordType, Sizes DEF Registers, Byte
  <1>1. CASE Update
    <2>1. PC' \in Address
      BY <1>1, AdvanceType DEF Update
    <2>2. Memory'
      BY <1>1, MemoryKept DEF Update
    <2>3. Frames'
      BY <1>0, <1>1 DEF Update, Returns, Frames
    <2>4. QED
      BY <1>1, <2>1, <2>2, <2>3 DEF Update, Returns, Registers
  <1>2. CASE Restart
    <2>1. data \in Int
      BY <1>0 DEF Byte
    <2>2. PC' \in Address
      BY <1>2, <2>1, GoesToType DEF Restart
    <2>3. Memory'
      BY <1>0, <1>2 DEF Restart, Memory
    <2>4. Frames'
      BY <1>0, <1>2 DEF Restart, Returns, Frames
    <2>5. QED
      BY <1>0, <1>2, <2>2, <2>3, <2>4 DEF Restart, Returns, Registers
  <1>3. CASE TimeOut
    <2>1. Memory'
      BY <1>3, MemoryKept DEF TimeOut
    <2>2. Frames'
      BY <1>0, <1>3 DEF TimeOut, Returns, Frames
    <2>3. QED
      BY <1>3, <2>1, <2>2 DEF TimeOut, Returns, Registers
  <1>4. QED
    BY <1>1, <1>2, <1>3

\* The main loop's own steps.
LEMMA LoopType ==
    ASSUME Memory, Registers, Frames,
           Call \/ ShowFrame \/ LedsOff \/ \E p \in Programs : SwapProgram(p)
    PROVE  Memory' /\ Registers' /\ Frames'
  <1>0. 0 \in Address /\ WatchDog \in 0 .. WatchDog
    BY Sizes DEF Address
  <1>1. CASE Call
    <2>1. Memory'
      BY <1>1, MemoryKept DEF Call
    <2>2. QED
      BY <1>0, <1>1, <2>1 DEF Call, Registers, Frames
  <1>2. CASE ShowFrame
    <2>1. vectors' \in [0 .. VectorBytes - 1 -> Byte]
      <3>1. \A x \in Byte : x % 8 \in Byte
        BY DEF Byte
      <3>2. QED
        BY <1>2, <3>1 DEF ShowFrame, UpdateLeds, Memory
    <2>2. Memory'
      BY <1>2, <2>1 DEF ShowFrame, Memory
    <2>3. QED
      BY <1>2, <2>2 DEF ShowFrame, Registers, Frames
  <1>3. ASSUME NEW p \in Programs, SwapProgram(p)
        PROVE  Memory' /\ Registers' /\ Frames'
    <2>1. Memory'
      BY <1>3, MemoryKept DEF SwapProgram
    <2>2. QED
      BY <1>0, <1>3, <2>1 DEF SwapProgram, Registers, Frames
  <1>4. CASE LedsOff
    <2>1. 0 \in Byte
      BY DEF Byte
    <2>2. Memory'
      BY <1>4, <2>1 DEF LedsOff, Memory
    <2>3. QED
      BY <1>4, <2>2 DEF LedsOff, Registers, Frames
  <1>5. QED
    BY <1>1, <1>2, <1>3, <1>4

LEMMA InitType == MachineInit => MachineTypeOK
  <1> SUFFICES ASSUME MachineInit PROVE MachineTypeOK
    OBVIOUS
  <1>1. 0 \in Address /\ 0 \in Byte /\ 0 \in 0 .. WatchDog
    BY Sizes DEF Address, Byte
  <1>2. Memory /\ Registers /\ Frames
    BY <1>1 DEF MachineInit, Memory, Registers, Frames
  <1>3. QED
    BY <1>2, Types

LEMMA NextType == MachineTypeOK /\ [MachineNext]_vars => MachineTypeOK'
  <1> SUFFICES ASSUME MachineTypeOK, [MachineNext]_vars PROVE MachineTypeOK'
    OBVIOUS
  <1>0. Memory /\ Registers /\ Frames
    BY Types
  <1>1. CASE Load
    BY <1>0, <1>1, LoadType, NextTypes
  <1>2. CASE Store
    BY <1>0, <1>2, StoreType, NextTypes
  <1>3. CASE Compute
    BY <1>0, <1>3, ComputeType, NextTypes
  <1>4. CASE Count
    BY <1>0, <1>4, CountType, NextTypes
  <1>5. CASE Shift
    BY <1>0, <1>5, ShiftType, NextTypes
  <1>6. CASE Skip \/ Jump \/ Pass
    BY <1>0, <1>6, BranchType, NextTypes
  <1>7. CASE Update \/ Restart \/ TimeOut
    BY <1>0, <1>7, ReturnType, NextTypes
  <1>8. CASE Call \/ ShowFrame \/ LedsOff \/ \E p \in Programs : SwapProgram(p)
    BY <1>0, <1>8, LoopType, NextTypes
  <1>9. CASE UNCHANGED vars
    BY <1>9 DEF vars, memory, MachineTypeOK
  <1>10. QED
    BY <1>1, <1>2, <1>3, <1>4, <1>5, <1>6, <1>7, <1>8, <1>9
       DEF MachineNext, Frame, Execute

(* Every register keeps its byte and every access stays inside vectors,    *)
(* gp_ram and code, whatever the program: the decoders of ramLoad() and    *)
(* ramStore() leave no address to go astray.                               *)
THEOREM StaysInMemory == MachineSpec => []MachineTypeOK
  <1>1. QED
    BY InitType, NextType, PTL DEF MachineSpec

-----------------------------------------------------------------------------
(* The LEDs.                                                               *)

\* A vector in memory whose sector is cut to three bits adds its share.
LEMMA AddsFade ==
    ASSUME NEW mem \in [0 .. VectorBytes - 1 -> Byte], NEW v \in Vectors,
           NEW c \in Colours, NEW d \in Directions, mem[5 * v + 4] < 8
    PROVE  (IF mem[5 * v + 4] > 0
              THEN RGB(mem[5 * v + c], mem[5 * v + 3], mem[5 * v + 4], d) ELSE 0)
           = IF mem[5 * v + 4] = 0
               THEN 0 ELSE Fade(mem[5 * v + c], mem[5 * v + 3], mem[5 * v + 4], d)
  <1> DEFINE col == mem[5 * v + c]
             dir == mem[5 * v + 3]
             s   == mem[5 * v + 4]
  <1>1. col \in 0 .. 255 /\ dir \in 0 .. 255 /\ s \in 0 .. 7
    <2>1. c \in 0 .. 4 /\ 3 \in 0 .. 4 /\ 4 \in 0 .. 4
      BY DEF Colours
    <2>2. 5 * v + c \in 0 .. VectorBytes - 1 /\ 5 * v + 3 \in 0 .. VectorBytes - 1
          /\ 5 * v + 4 \in 0 .. VectorBytes - 1
      BY <2>1, VectorAddress
    <2>3. col \in Byte /\ dir \in Byte /\ s \in Byte /\ s < 8
      BY <2>2
    <2> HIDE DEF col, dir, s
    <2>4. QED
      BY <2>3 DEF Byte
  <1>2. d \in -128 .. 127
    BY RendererAssumption
  <1> HIDE DEF col, dir, s
  <1>3. s > 0 => RGB(col, dir, s, d) = Fade(col, dir, s, d)
    <2>1. s > 0 => s \in 1 .. 7
      BY <1>1
    <2>2. QED
      BY <1>1, <1>2, <2>1, RGBIsFade
  <1>4. s > 0 <=> s # 0
    BY <1>1
  <1>5. QED
    BY <1>3, <1>4 DEF col, dir, s

\* updateLed() lights every LED as README.md says.
LEMMA UpdateShows ==
    ASSUME MachineTypeOK, UpdateLeds
    PROVE  ShowsVectors'
  <1>1. vectors \in [0 .. VectorBytes - 1 -> Byte]
    BY DEF MachineTypeOK
  <1>2. vectors' \in [0 .. VectorBytes - 1 -> Byte]
    <2>1. \A x \in Byte : x % 8 \in Byte
      BY DEF Byte
    <2>2. QED
      BY <1>1, <2>1 DEF UpdateLeds
  <1>3. ASSUME NEW v \in Vectors PROVE vectors'[5 * v + 4] < 8
    <2>1. 5 * v + 4 \in 0 .. VectorBytes - 1 /\ (5 * v + 4) % 5 = 4
      <3>1. 4 \in 0 .. 4
        OBVIOUS
      <3>2. QED
        BY <3>1, VectorAddress, Zenon
    <2>2. vectors'[5 * v + 4] = vectors[5 * v + 4] % 8
      BY <1>1, <2>1 DEF UpdateLeds
    <2>3. \A x \in Byte : x % 8 < 8
      BY DEF Byte
    <2>4. QED
      BY <1>1, <2>1, <2>2, <2>3
  <1> SUFFICES ASSUME NEW d \in Directions, NEW c \in Colours
               PROVE  leds'[d][c] = Capped(Total([v \in Vectors |-> Share(v, d, c)']))
    BY DEF ShowsVectors
  <1> DEFINE part == [v \in Vectors |->
                        IF Sector(v)' > 0 THEN VectorToRGB(v, d, c)' ELSE 0]
             share == [v \in Vectors |-> Share(v, d, c)']
  <1>4. leds'[d][c] = Capped(Total(part))
    BY DEF UpdateLeds
  <1>5. ASSUME NEW v \in Vectors
        PROVE  (IF Sector(v)' > 0 THEN VectorToRGB(v, d, c)' ELSE 0) = Share(v, d, c)'
    <2>1. Sector(v)' = vectors'[5 * v + 4]
      BY DEF Sector
    <2>2. VectorToRGB(v, d, c)'
            = RGB(vectors'[5 * v + c], vectors'[5 * v + 3], vectors'[5 * v + 4], d)
      BY DEF VectorToRGB, Reaches, Angle, Intensity, Colour, Direction, Sector, RGB
    <2>3. Share(v, d, c)'
            = IF vectors'[5 * v + 4] = 0 THEN 0
              ELSE Fade(vectors'[5 * v + c], vectors'[5 * v + 3], vectors'[5 * v + 4], d)
      BY DEF Share, Colour, Direction, Sector, Fade
    <2>4. QED
      BY <1>2, <1>3, <2>1, <2>2, <2>3, AddsFade
  <1>6. part = share
    BY <1>5
  <1> HIDE DEF part, share
  <1>7. leds'[d][c] = Capped(Total(share))
    BY <1>4, <1>6
  <1>8. QED
    BY <1>7 DEF share

(* When a frame is shown every LED shows the vectors as README.md:31       *)
(* describes them: linearly fading, capped, and the same in every          *)
(* direction and for every contents of the memory, although updateLed()    *)
(* computes with an int8_t that overflows and products of sixteen bits.    *)
THEOREM LedsAreRight == MachineSpec => LedsShowVectors
  <1>1. MachineTypeOK /\ [MachineNext]_vars => [ShowFrame => ShowsVectors']_vars
    BY UpdateShows DEF ShowFrame
  <1>2. QED
    BY <1>1, StaysInMemory, PTL DEF MachineSpec, LedsShowVectors

-----------------------------------------------------------------------------
(* Action properties.                                                      *)

(* The carry of a sum or a difference tells whether it went over the edge  *)
(* of the byte, as utils/README.md:43 promises: the result is on the other *)
(* side of what wreg was, exactly when the carry is not zero.              *)
THEOREM CarryTells == MachineSpec => CarryIsOverflow
  <1>1. MachineTypeOK /\ [MachineNext]_vars
          => [Compute /\ word.toWreg =>
                /\ word.op = "ADD" => (carry' # 0 <=> wreg' < wreg)
                /\ word.op = "SUB" => (carry' # 0 <=> wreg' > wreg)]_vars
    <2> SUFFICES ASSUME MachineTypeOK, Compute, word.toWreg
                 PROVE  /\ word.op = "ADD" => (carry' # 0 <=> wreg' < wreg)
                        /\ word.op = "SUB" => (carry' # 0 <=> wreg' > wreg)
      OBVIOUS
    <2>1. Memory /\ Registers
      BY Types
    <2>2. PICK loaded \in RamLoad(data) :
              carry' = CarryOf(Tmp(loaded)) /\ wreg' = Tmp(loaded) % 256
      BY DEF Compute
    <2>3. loaded \in 0 .. 255 /\ wreg \in 0 .. 255
      <3>1. loaded \in Byte /\ wreg \in Byte
        BY <2>1, <2>2, WordType, RamLoadType DEF Registers
      <3>2. QED
        BY <3>1 DEF Byte
    <2>4. CASE word.op = "ADD"
      <3>1. carry' = (loaded + wreg) \div 256 /\ wreg' = (loaded + wreg) % 256
        BY <2>2, <2>4 DEF CarryOf, Tmp
      <3>2. (loaded + wreg) \div 256 # 0 <=> (loaded + wreg) % 256 < wreg
        BY <2>3
      <3>3. QED
        BY <2>4, <3>1, <3>2
    <2>5. CASE word.op = "SUB"
      <3> DEFINE t == (wreg - loaded) % 65536
      <3>1. Tmp(loaded) = t /\ CarryOf(Tmp(loaded)) = Tmp(loaded) \div 256
        BY <2>5 DEF CarryOf, Tmp
      <3>2. t = IF wreg >= loaded THEN wreg - loaded ELSE wreg - loaded + 65536
        BY <2>3
      <3> HIDE DEF t
      <3>3. t \div 256 # 0 <=> t % 256 > wreg
        BY <2>3, <3>2
      <3>4. QED
        BY <2>2, <2>5, <3>1, <3>3
    <2>6. QED
      BY <2>4, <2>5
  <1>2. QED
    BY <1>1, StaysInMemory, PTL DEF MachineSpec, CarryIsOverflow

-----------------------------------------------------------------------------
(* What programs store.                                                    *)

\* What a cell holds, and what it may hold of what it was told.
Content(c) ==
    IF c < VectorBytes THEN vectors[c]
    ELSE IF c = Pointer THEN indirectAddress
    ELSE IF c = ReturnCell THEN returnAddress
    ELSE gp_ram[c]

Allowed(c) == IF c \in Sectors THEN {told[c], told[c] % 8, 0} ELSE {told[c]}

KeptInv ==
    /\ told \in [Cells -> Byte]
    /\ \A c \in Cells : Content(c) \in Allowed(c)

\* The kinds of cells.
LEMMA CellIs ==
    ASSUME NEW c \in Cells
    PROVE  /\ c \in Byte /\ c # PointerData
           /\ c \in Sectors => c < VectorBytes
           /\ c \in 0 .. VectorBytes - 1 \/ c \in {Pointer, ReturnCell} \/ c \in GpFirst .. 255
           /\ c < VectorBytes => c \in 0 .. VectorBytes - 1
           /\ c \in {Pointer, ReturnCell} => c >= VectorBytes /\ c < GpFirst
           /\ c \in GpFirst .. 255 =>
                c >= VectorBytes /\ c \notin {Pointer, RandomCell, BatteryHigh, BatteryLow, ReturnCell}
  BY Sizes DEF Cells, Sectors, Byte, Pointer, PointerData, ReturnCell, RandomCell,
               BatteryHigh, BatteryLow

LEMMA OtherIs ==
    ASSUME NEW a \in Byte, a \notin Cells
    PROVE  ~ (a < VectorBytes) /\ a # Pointer /\ a # ReturnCell /\ ~ (a >= GpFirst)
  BY Sizes DEF Cells, Byte

\* A load of a cell returns what it holds, and nothing else.
LEMMA LoadsContent ==
    ASSUME NEW c \in Cells
    PROVE  RamLoad(c) = {Content(c)}
  <1>1. Target(c) = c
    BY CellIs DEF Target
  <1>2. c \in Int /\ VectorBytes \in 0 .. 40 /\ GpFirst \in 128 .. 255
    BY CellIs, Sizes DEF Byte
  <1>3. CASE c < VectorBytes
    BY <1>1, <1>2, <1>3 DEF RamLoad, Content, Pointer, RandomCell, BatteryHigh,
                            BatteryLow, ReturnCell
  <1>4. CASE c = Pointer
    BY <1>1, <1>2, <1>4 DEF RamLoad, Content, Pointer, RandomCell, BatteryHigh,
                            BatteryLow, ReturnCell
  <1>5. CASE c = ReturnCell
    BY <1>1, <1>2, <1>5 DEF RamLoad, Content, Pointer, RandomCell, BatteryHigh,
                            BatteryLow, ReturnCell
  <1>6. CASE c >= GpFirst
    BY <1>1, <1>2, <1>6 DEF RamLoad, Content, Pointer, RandomCell, BatteryHigh,
                            BatteryLow, ReturnCell
  <1>7. c < VectorBytes \/ c = Pointer \/ c = ReturnCell \/ c >= GpFirst
    BY <1>2, CellIs
  <1>8. QED
    BY <1>3, <1>4, <1>5, <1>6, <1>7

\* A load of any address returns something.
LEMMA LoadsSome ==
    ASSUME Memory, NEW a \in Byte
    PROVE  RamLoad(a) # {}
  <1> DEFINE t == Target(a)
  <1>1. t \in Int /\ VectorBytes \in 0 .. 40 /\ GpFirst \in 128 .. 255
    <2>1. t \in Byte
      BY TargetType
    <2> HIDE DEF t
    <2>2. QED
      BY <2>1, Sizes DEF Byte
  <1>2. /\ {level \div 256 : level \in Levels} # {}
        /\ {level % 256 : level \in Levels} # {}
    <2>1. PICK level : level \in Levels
      BY MachineAssumption
    <2>2. level \div 256 \in {l \div 256 : l \in Levels} /\ level % 256 \in {l % 256 : l \in Levels}
      BY <2>1
    <2>3. QED
      BY <2>2
  <1>3. Random # {}
    BY MachineAssumption
  <1> HIDE DEF t
  <1>4. QED
    BY <1>1, <1>2, <1>3 DEF RamLoad, t, Pointer, RandomCell, BatteryHigh, BatteryLow,
                            ReturnCell

\* The pointer is told like any cell, so the code means what programs mean.
LEMMA TargetIsMeant ==
    ASSUME KeptInv
    PROVE  told[Pointer] = indirectAddress /\ \A a : Target(a) = Meant(a)
  <1>1. Pointer \in Cells
    BY DEF Cells
  <1>2. Content(Pointer) \in Allowed(Pointer) /\ Pointer \notin Sectors
        /\ ~ (Pointer < VectorBytes)
    BY <1>1, Sizes, CellIs DEF KeptInv, Pointer
  <1>3. told[Pointer] = indirectAddress
    BY <1>2 DEF Content, Allowed
  <1>4. QED
    BY <1>3 DEF Target, Meant

LEMMA KeptIsKept == KeptInv => StoredIsKept
  <1> SUFFICES ASSUME KeptInv PROVE StoredIsKept
    OBVIOUS
  <1>1. ASSUME NEW c \in Cells
        PROVE  RamLoad(c) \subseteq IF c \in Sectors THEN {told[c], told[c] % 8, 0}
                                                     ELSE {told[c]}
    BY LoadsContent DEF KeptInv, Allowed
  <1>2. Meant(PointerData) \in Cells
          => RamLoad(PointerData) = RamLoad(Meant(PointerData))
    <2>1. ASSUME Meant(PointerData) \in Cells
          PROVE  Target(Meant(PointerData)) = Target(PointerData)
      <3>1. Target(PointerData) = Meant(PointerData)
        BY TargetIsMeant
      <3>2. Meant(PointerData) # PointerData
        BY <2>1, CellIs
      <3>3. QED
        BY <3>1, <3>2 DEF Target
    <2>2. QED
      BY <2>1 DEF RamLoad
  <1>3. QED
    BY <1>1, <1>2 DEF StoredIsKept

\* A store changes the cell it means and no other.
LEMMA StoreKeeps ==
    ASSUME Memory, KeptInv, NEW a \in Byte, NEW d \in Byte, RamStore(a, d),
           told' = IF Meant(a) \in Cells THEN [told EXCEPT ![Meant(a)] = d] ELSE told
    PROVE  KeptInv'
  <1> DEFINE t == Target(a)
  <1>1. t = Meant(a) /\ t \in Byte
    BY TargetIsMeant, TargetType
  <1>2. /\ vectors' = IF t < VectorBytes THEN [vectors EXCEPT ![t] = d] ELSE vectors
        /\ indirectAddress' = IF t = Pointer THEN d ELSE indirectAddress
        /\ returnAddress' = IF t = ReturnCell THEN d ELSE returnAddress
        /\ gp_ram' = IF t >= GpFirst THEN [gp_ram EXCEPT ![t] = d] ELSE gp_ram
    BY DEF RamStore
  <1> HIDE DEF t
  <1>3. told' \in [Cells -> Byte]
    BY <1>1 DEF KeptInv
  <1>4. ASSUME NEW c \in Cells PROVE Content(c)' \in Allowed(c)'
    <2>1. /\ vectors \in [0 .. VectorBytes - 1 -> Byte]
          /\ gp_ram \in [GpFirst .. 255 -> Byte]
          /\ t \in Int /\ c \in Int /\ VectorBytes \in Int /\ GpFirst \in Int
          /\ 255 \in Int
      <3>1. t \in Int /\ c \in Int
        BY <1>1, CellIs DEF Byte
      <3>2. QED
        BY <3>1, Sizes DEF Memory
    <2>2. Content(c)' = IF c = t THEN d ELSE Content(c)
      <3>1. CASE c \in 0 .. VectorBytes - 1
        BY <1>2, <2>1, <3>1 DEF Content
      <3>2. CASE c = Pointer
        BY <1>2, <2>1, <3>2, CellIs DEF Content
      <3>3. CASE c = ReturnCell
        BY <1>2, <2>1, <3>3, CellIs DEF Content, Pointer, ReturnCell
      <3>4. CASE c \in GpFirst .. 255
        <4>1. ~ (c < VectorBytes) /\ c # Pointer /\ c # ReturnCell
          BY <2>1, <3>4, CellIs
        <4>2. Content(c) = gp_ram[c] /\ Content(c)' = gp_ram'[c]
          BY <4>1 DEF Content
        <4>3. gp_ram'[c] = IF c = t THEN d ELSE gp_ram[c]
          BY <1>2, <2>1, <3>4
        <4>4. QED
          BY <4>2, <4>3
      <3>5. QED
        BY <3>1, <3>2, <3>3, <3>4, CellIs
    <2>3. told'[c] = IF c = t THEN d ELSE told[c]
      BY <1>1 DEF KeptInv
    <2>4. Content(c) \in Allowed(c)
      BY DEF KeptInv
    <2>5. QED
      BY <2>2, <2>3, <2>4 DEF Allowed, Sectors
  <1>5. QED
    BY <1>3, <1>4 DEF KeptInv

\* Nothing stored, nothing told.
LEMMA StillKept ==
    ASSUME KeptInv, UNCHANGED memory, told' = told
    PROVE  KeptInv'
  BY DEF KeptInv, memory, Content, Allowed, Sectors

\* Rendering and the keyframe runner touch sectors only.
LEMMA SectorsCut ==
    ASSUME Memory, KeptInv, told' = told,
           UNCHANGED <<indirectAddress, returnAddress, gp_ram>>,
           ShowFrame \/ LedsOff
    PROVE  KeptInv'
  <1>1. ASSUME NEW c \in Cells PROVE Content(c)' \in Allowed(c)'
    <2>1. Content(c) \in Allowed(c) /\ told[c] \in Byte
      BY DEF KeptInv
    <2>2. CASE c \in Sectors
      <3>1. c \in 0 .. VectorBytes - 1 /\ c % 5 = 4 /\ c < VectorBytes
        BY <2>2, CellIs DEF Sectors
      <3>2. Content(c)' \in {Content(c) % 8, 0}
        BY <3>1 DEF Content, ShowFrame, UpdateLeds, LedsOff, Memory
      <3>3. told[c] \in 0 .. 255 /\ Content(c) \in {told[c], told[c] % 8, 0}
        BY <2>1, <2>2 DEF Allowed, Byte
      <3>4. Content(c) % 8 \in {told[c] % 8, 0}
        BY <3>3
      <3>5. QED
        BY <2>2, <3>2, <3>4 DEF Allowed, Sectors
    <2>3. CASE c \notin Sectors
      <3>1. c < VectorBytes => c \in 0 .. VectorBytes - 1 /\ c % 5 # 4
        BY <2>3, CellIs DEF Sectors
      <3>2. Content(c)' = Content(c)
        BY <3>1 DEF Content, ShowFrame, UpdateLeds, LedsOff, Memory
      <3>3. QED
        BY <2>1, <2>3, <3>2 DEF Allowed, Sectors
    <2>4. QED
      BY <2>2, <2>3
  <1>2. QED
    BY <1>1 DEF KeptInv

\* A store of a cell is remembered as it is made: what it computes with is what
\* the cell holds, so that both mean the same byte.
LEMMA Remembered ==
    ASSUME Memory, Registers, KeptInv, Remember, Running, Stores,
           NEW loaded \in RamLoad(data), RamStore(data, Stored(loaded)),
           Stored(loaded) \in Byte
    PROVE  KeptInv'
  <1>1. data \in Byte /\ word.op # "RST"
    BY WordType DEF Stores
  <1>2. CASE Meant(data) \in Cells
    <2>1. RamLoad(data) = {Content(Meant(data))}
      <3>1. Target(data) = Meant(data) /\ Target(Meant(data)) = Meant(data)
        BY <1>2, TargetIsMeant, CellIs DEF Target
      <3>2. RamLoad(data) = RamLoad(Meant(data))
        BY <3>1 DEF RamLoad
      <3>3. QED
        BY <1>2, <3>2, LoadsContent
    <2>2. told' = [told EXCEPT ![Meant(data)] = Stored(loaded)]
      BY <1>1, <1>2, <2>1 DEF Remember, RunningStore, RunningReset
    <2>3. QED
      BY <1>1, <1>2, <2>2, StoreKeeps
  <1>3. CASE Meant(data) \notin Cells
    <2>1. told' = told
      BY <1>1, <1>3 DEF Remember, RunningStore, RunningReset
    <2>2. QED
      BY <1>1, <1>3, <2>1, StoreKeeps
  <1>4. QED
    BY <1>2, <1>3

LEMMA InitKept == RememberInit => MachineTypeOK /\ KeptInv
  <1> SUFFICES ASSUME RememberInit PROVE MachineTypeOK /\ KeptInv
    OBVIOUS
  <1>1. MachineTypeOK
    BY InitType DEF RememberInit
  <1>2. told \in [Cells -> Byte]
    BY DEF RememberInit, Byte
  <1>3. ASSUME NEW c \in Cells PROVE Content(c) \in Allowed(c)
    <2>1. told[c] = 0
      BY DEF RememberInit
    <2>2. Content(c) = 0
      <3>1. /\ vectors = [a \in 0 .. VectorBytes - 1 |-> 0]
            /\ indirectAddress = 0 /\ returnAddress = 0
            /\ gp_ram = [a \in GpFirst .. 255 |-> 0]
        BY DEF RememberInit, MachineInit
      <3>2. \/ c \in 0 .. VectorBytes - 1 \/ c \in {Pointer, ReturnCell}
            \/ c \in GpFirst .. 255 /\ ~ (c < VectorBytes)
        <4>1. c \in Int /\ VectorBytes \in Int
          BY CellIs, Sizes DEF Byte
        <4>2. QED
          BY <4>1, CellIs
      <3>3. c < VectorBytes => c \in 0 .. VectorBytes - 1
        BY CellIs
      <3>4. c < VectorBytes => vectors[c] = 0
        BY <3>1, <3>3
      <3>5. c \in GpFirst .. 255 => gp_ram[c] = 0
        BY <3>1
      <3>6. ~ (c < VectorBytes) => c \in {Pointer, ReturnCell} \/ c \in GpFirst .. 255
        <4>1. c \in Int /\ VectorBytes \in Int
          BY CellIs, Sizes DEF Byte
        <4>2. QED
          BY <4>1, <3>2
      <3>7. QED
        BY <3>1, <3>4, <3>5, <3>6 DEF Content
    <2>3. QED
      BY <2>1, <2>2 DEF Allowed
  <1>4. QED
    BY <1>1, <1>2, <1>3 DEF KeptInv

LEMMA NextKept ==
    MachineTypeOK /\ KeptInv /\ [RememberNext]_rememberVars => MachineTypeOK' /\ KeptInv'
  <1> SUFFICES ASSUME MachineTypeOK, KeptInv, [RememberNext]_rememberVars
               PROVE  MachineTypeOK' /\ KeptInv'
    OBVIOUS
  <1>1. MachineTypeOK'
    BY NextType DEF RememberNext, rememberVars
  <1>2. Memory /\ Registers /\ word.op \in Operations /\ data \in Byte
    BY Types, WordType
  <1>3. CASE UNCHANGED rememberVars
    BY <1>1, <1>3, StillKept DEF rememberVars, vars
  <1>4. CASE Remember /\ Store
    <2>1. Running /\ Stores /\ word.op = "STR" /\ RamStore(data, wreg)
      BY <1>4 DEF Store, Executes, Running, Stores
    <2>2. PICK loaded : loaded \in RamLoad(data)
      <3>1. RamLoad(data) # {}
        BY <1>2, LoadsSome
      <3>2. QED
        BY <3>1
    <2>3. Stored(loaded) = wreg /\ wreg \in Byte
      BY <1>2, <2>1 DEF Stored, Registers
    <2>4. QED
      BY <1>1, <1>2, <1>4, <2>1, <2>2, <2>3, Remembered
  <1>5. CASE Remember /\ Compute
    <2>1. word.op \in {"ADD", "SUB", "AND", "OR", "XOR"} /\ at = "code" /\ wdc > 0
      BY <1>5 DEF Compute, Executes
    <2>2. PICK loaded \in RamLoad(data) :
              IF word.toWreg THEN UNCHANGED memory
                             ELSE RamStore(data, Tmp(loaded) % 256)
      BY <1>5 DEF Compute
    <2>3. CASE word.toWreg
      <3>1. told' = told
        BY <1>5, <2>1, <2>3 DEF Remember, RunningStore, RunningReset, Stores
      <3>2. QED
        BY <1>1, <2>2, <2>3, <3>1, StillKept
    <2>4. CASE ~word.toWreg
      <3>1. Running /\ Stores
        BY <2>1, <2>4 DEF Running, Stores
      <3>2. loaded \in Byte
        BY <1>2, <2>2, RamLoadType
      <3>3. Stored(loaded) = Tmp(loaded) % 256
        BY <2>1 DEF Stored
      <3>4. Tmp(loaded) \in Int
        BY <1>2, <2>1, <3>2, TmpType
      <3>5. Stored(loaded) \in Byte
        BY <3>3, <3>4, LowByte
      <3>6. RamStore(data, Stored(loaded))
        BY <2>2, <2>4, <3>3
      <3>7. QED
        BY <1>1, <1>2, <1>5, <2>2, <3>1, <3>5, <3>6, Remembered
    <2>5. QED
      BY <2>3, <2>4
  <1>6. CASE Remember /\ Count
    <2>1. word.op \in {"INC", "DEC"} /\ Running /\ Stores
      BY <1>6 DEF Count, Executes, Running, Stores
    <2>2. PICK loaded \in RamLoad(data) :
              RamStore(data, (IF word.op = "INC" THEN loaded + 1 ELSE loaded - 1) % 256)
      BY <1>6 DEF Count
    <2>3. Stored(loaded) = (IF word.op = "INC" THEN loaded + 1 ELSE loaded - 1) % 256
      BY <2>1 DEF Stored
    <2>4. loaded + 1 \in Int /\ loaded - 1 \in Int
      BY <1>2, <2>2, RamLoadType DEF Byte
    <2>5. Stored(loaded) \in Byte
      BY <2>3, <2>4, LowByte
    <2>6. QED
      BY <1>1, <1>2, <1>6, <2>1, <2>2, <2>3, <2>5, Remembered
  <1>7. CASE Remember /\ Restart
    <2>1. word.op = "RST" /\ Running
      BY <1>7 DEF Restart, Running
    <2>2. told' = [c \in Cells |-> IF c < VectorBytes \/ c = Pointer THEN 0 ELSE told[c]]
      BY <1>7, <2>1 DEF Remember, RunningStore, RunningReset, Stores
    <2>3. told' \in [Cells -> Byte]
      BY <2>2 DEF KeptInv, Byte
    <2>4. ASSUME NEW c \in Cells PROVE Content(c)' \in Allowed(c)'
      <3>1. Content(c) \in Allowed(c) /\ told'[c] = IF c < VectorBytes \/ c = Pointer
                                                      THEN 0 ELSE told[c]
        BY <2>2 DEF KeptInv
      <3>2. Content(c)' = IF c < VectorBytes \/ c = Pointer THEN 0 ELSE Content(c)
        BY <1>2, <1>7, CellIs DEF Restart, Content, Memory
      <3>3. QED
        BY <3>1, <3>2, CellIs DEF Allowed, Sectors
    <2>5. QED
      BY <1>1, <2>3, <2>4 DEF KeptInv
  <1>8. CASE Remember /\ (ShowFrame \/ LedsOff)
    <2>1. told' = told
      BY <1>8 DEF ShowFrame, LedsOff, Remember, RunningStore, RunningReset, Running
    <2>2. UNCHANGED <<indirectAddress, returnAddress, gp_ram>>
      BY <1>8 DEF ShowFrame, LedsOff
    <2>3. QED
      BY <1>1, <1>2, <1>8, <2>1, <2>2, SectorsCut
  <1>9. CASE Remember /\ (Load \/ Shift \/ Skip \/ Jump \/ Pass)
    <2>1. /\ word.op \notin {"STR", "INC", "DEC", "ADD", "SUB", "AND", "OR", "XOR", "RST"}
          /\ UNCHANGED memory
      BY <1>9 DEF Load, Shift, Skip, Jump, Pass, Executes, Jumps
    <2>2. told' = told
      BY <1>9, <2>1 DEF Remember, RunningStore, RunningReset, Stores
    <2>3. QED
      BY <1>1, <2>1, <2>2, StillKept
  <1>10. CASE Remember /\ (Update \/ TimeOut)
    <2>1. ~RunningStore /\ ~RunningReset /\ UNCHANGED memory
      BY <1>10, Sizes DEF Update, TimeOut, RunningStore, RunningReset, Running, Stores
    <2>2. told' = told
      BY <1>10, <2>1 DEF Remember
    <2>3. QED
      BY <1>1, <2>1, <2>2, StillKept
  <1>11. CASE Remember /\ (Call \/ \E p \in Programs : SwapProgram(p))
    <2>1. at = "loop" /\ UNCHANGED memory
      BY <1>11 DEF Call, SwapProgram
    <2>2. told' = told
      BY <1>11, <2>1 DEF Remember, RunningStore, RunningReset, Running
    <2>3. QED
      BY <1>1, <2>1, <2>2, StillKept
  <1>12. QED
    BY <1>3, <1>4, <1>5, <1>6, <1>7, <1>8, <1>9, <1>10, <1>11
       DEF RememberNext, MachineNext, Frame, Execute

(* What a program stores is kept, for every program and whatever else      *)
(* touches the memory: the two decoders agree on every cell, through the   *)
(* pointer too, and only sectors are cut or cleared under a program        *)
(* (vectors.cpp:45, animation_tasks.h:162).                                *)
THEOREM StoredStays == RememberSpec => []StoredIsKept
  <1>1. MachineTypeOK /\ KeptInv => StoredIsKept
    BY KeptIsKept
  <1>2. QED
    BY <1>1, InitKept, NextKept, PTL DEF RememberSpec
=============================================================================
