------------------------------ MODULE Renderer ------------------------------
(***************************************************************************)
(* vectors.cpp: the colours of the LEDs, computed from the vectors.  The   *)
(* vectors are the bytes that programs store into, five of them for each:  *)
(* red, green, blue, direction and sector.  What main.cpp does with the    *)
(* colours afterwards (brightness, gamma) is left out.                     *)
(***************************************************************************)
EXTENDS Integers, FiniteSetsExt

CONSTANTS VectorBytes,   \* sizeof(vectors): 40
          Directions     \* the directions the hat has an LED in

ASSUME RendererAssumption ==
    /\ VectorBytes \in Nat /\ VectorBytes % 5 = 0 /\ VectorBytes <= 40
    /\ Directions \subseteq -128 .. 127

VARIABLES vectors, leds

Byte == 0 .. 255
Vectors == 0 .. VectorBytes \div 5 - 1
Colours == 0 .. 2

Colour(v, c) == vectors[5 * v + c]
Direction(v) == vectors[5 * v + 3]
Sector(v) == vectors[5 * v + 4]

-----------------------------------------------------------------------------
Int8(x) == ((x + 128) % 256) - 128

\* Mutant: the difference of the directions is not cut to a byte.
Abs8_Wide(x) == IF x < 0 THEN -x ELSE x

\* abs8(): the argument is cut to an int8_t, and so is the result: -128 stays.
Abs8(x) == Int8(IF Int8(x) < 0 THEN -Int8(x) ELSE Int8(x))

Angle(v, direction) == Abs8(Direction(v) - direction)

Reaches(v, direction) ==
    /\ Angle(v, direction) < 2 ^ Sector(v)
    /\ Angle(v, direction) # -128

\* The products are uint16_t.
Intensity(v, direction) ==
    ((256 \div 2 ^ Sector(v)) * (2 ^ Sector(v) - Angle(v, direction))) % 65536

VectorToRGB(v, direction, c) ==
    IF ~Reaches(v, direction) THEN 0
    ELSE ((Colour(v, c) * Intensity(v, direction)) % 65536) \div 256

\* The sum of what the vectors add, taken one after the other.
Total(part) ==
    LET upTo[n \in 0 .. VectorBytes \div 5] ==
            IF n = 0 THEN 0 ELSE upTo[n - 1] + part[n - 1]
    IN  upTo[VectorBytes \div 5]

Capped(sum) == IF sum > 255 THEN 255 ELSE sum

\* updateLed() of every LED: it also cuts every sector to three bits, in the
\* memory of the program, before it looks at it.
UpdateLeds ==
    /\ vectors' = [a \in DOMAIN vectors |->
                     IF a % 5 = 4 THEN vectors[a] % 8 ELSE vectors[a]]
    /\ leds' = [d \in Directions |-> [c \in Colours |->
         Capped(Total([v \in Vectors |->
                          IF Sector(v)' > 0 THEN VectorToRGB(v, d, c)' ELSE 0]))]]

-----------------------------------------------------------------------------
(* What the LEDs should show, README.md:31-39: a vector shines to both     *)
(* sides over 2^sector steps of the circle, linearly fading, and the       *)
(* vectors add up.                                                         *)
Distance(a, b) == Min({(a - b) % 256, (b - a) % 256})

Share(v, direction, c) ==
    LET reach == 2 ^ Sector(v)
        distance == Distance(Direction(v), direction)
    IN  IF Sector(v) = 0 \/ distance >= reach THEN 0
        ELSE (Colour(v, c) * (reach - distance)) \div reach

ShowsVectors ==
    \A d \in Directions, c \in Colours :
        leds[d][c] = Capped(Total([v \in Vectors |-> Share(v, d, c)]))
=============================================================================
