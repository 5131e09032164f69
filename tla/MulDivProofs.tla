---------------------------- MODULE MulDivProofs ----------------------------
(***************************************************************************)
(* Theorems about muldiv, for every width of a word and all arguments.     *)
(***************************************************************************)
EXTENDS MulDiv, TLAPS

\* A number as the program keeps it: the remainder by the divider, and what a
\* word holds of the quotient.
Represents(n, quotient, rest) ==
    \E k \in Nat : /\ quotient = k % Word
                   /\ rest \in 0 .. arg.divider - 1
                   /\ n = k * arg.divider + rest

\* The argument is the bits to come, which weigh `weight`, and the bits done.
\* The two pairs of words are the multiplier's multiples by the two.
Partial ==
    \E weight, bits \in Nat :
        /\ arg.value = value * weight + bits
        /\ Represents(bits * arg.multiplier, q, r)
        /\ Represents(weight * arg.multiplier, qn, rn)

IInv ==
    /\ arg \in Arguments
    /\ value \in Nat
    /\ done => value = 0
    /\ RemaindersFit => Partial

-----------------------------------------------------------------------------
LEMMA Sizes ==
    ASSUME arg \in Arguments
    PROVE  /\ Word \in Nat /\ Word > 0
           /\ arg.value \in Nat
           /\ arg.multiplier \in Nat /\ arg.multiplier < Word
           /\ arg.divider \in Nat /\ arg.divider > 0
  <1>1. arg.value \in Values /\ arg.multiplier \in Multipliers /\ arg.divider \in Dividers
    BY DEF Arguments
  <1>2. Word \in Nat /\ Word # 0
    BY MulDivAssumption
  <1>3. /\ arg.value \in 0 .. Word - 1
        /\ arg.multiplier \in 0 .. Word - 1
        /\ arg.divider \in 0 .. Word - 1 /\ arg.divider # 0
    BY <1>1, MulDivAssumption DEF Words
  <1> HIDE DEF Words
  <1>4. QED
    BY <1>2, <1>3

LEMMA Division ==
    ASSUME NEW x \in Int, NEW m \in Nat, m > 0
    PROVE  x % m \in 0 .. m - 1 /\ x \div m \in Int /\ x = (x \div m) * m + (x % m)
  OBVIOUS

\* Quotient and remainder are what makes up the number.
LEMMA DivisionUnique ==
    ASSUME NEW k \in Int, NEW m \in Nat, NEW s \in 0 .. m - 1
    PROVE  (k * m + s) % m = s /\ (k * m + s) \div m = k
  OBVIOUS

\* Words may be reduced before or after they are added.
LEMMA ReducedSum ==
    ASSUME NEW m \in Nat, m > 0
    PROVE  \A a, b, c \in Nat : ((a % m) + (b % m) + c) % m = (a + b + c) % m
  <1> TAKE a, b, c \in Nat
  <1> DEFINE ka == a \div m
             ra == a % m
             kb == b \div m
             rb == b % m
             s  == ra + rb + c
             ks == s \div m
             rs == s % m
  <1>1. ka \in Int /\ ra \in 0 .. m - 1 /\ a = ka * m + ra
    BY Division
  <1>2. kb \in Int /\ rb \in 0 .. m - 1 /\ b = kb * m + rb
    BY Division
  <1> HIDE DEF ka, ra, kb, rb
  <1>3. s \in Int
    BY <1>1, <1>2
  <1>4. ks \in Int /\ rs \in 0 .. m - 1 /\ s = ks * m + rs
    <2> HIDE DEF s
    <2>1. QED
      BY <1>3, Division
  <1>5. a + b + c = ka * m + kb * m + s
    BY <1>1, <1>2
  <1> HIDE DEF ks, rs, s
  <1>6. a + b + c = (ka + kb + ks) * m + rs
    BY <1>1, <1>2, <1>4, <1>5
  <1>7. ka + kb + ks \in Int
    BY <1>1, <1>2, <1>4
  <1>8. ((ka + kb + ks) * m + rs) % m = rs
    <2> DEFINE k == ka + kb + ks
    <2> HIDE DEF k
    <2>1. k \in Int
      BY <1>7 DEF k
    <2>2. (k * m + rs) % m = rs
      BY <1>4, <2>1, DivisionUnique
    <2>3. QED
      BY <2>2 DEF k
  <1>9. QED
    BY <1>6, <1>8 DEF rs, s, ra, rb

\* The sum of two numbers, with the carry of their remainders.
LEMMA SumRepresented ==
    ASSUME arg \in Arguments, RemaindersFit,
           NEW m \in Nat, NEW qm, NEW rm, Represents(m, qm, rm),
           NEW n \in Nat, NEW qo, NEW ro, Represents(n, qo, ro)
    PROVE  LET sum == (rm + ro) % Word
           IN  Represents(m + n, (qm + qo + Carry(sum)) % Word, Reduced(sum))
  <1> DEFINE sum == (rm + ro) % Word
             d == arg.divider
  <1>1. d \in Nat /\ d > 0 /\ 2 * d <= Word /\ Word \in Nat /\ Word > 0
    BY Sizes DEF RemaindersFit
  <1>2. PICK k \in Nat : qm = k % Word /\ rm \in 0 .. d - 1 /\ m = k * d + rm
    BY DEF Represents
  <1>3. PICK l \in Nat : qo = l % Word /\ ro \in 0 .. d - 1 /\ n = l * d + ro
    BY DEF Represents
  <1>4. sum = rm + ro /\ sum \in Nat /\ sum < 2 * d
    <2>1. rm + ro \in 0 .. Word - 1 /\ rm + ro \in Nat /\ rm + ro < 2 * d
      BY <1>1, <1>2, <1>3
    <2>2. \A x \in 0 .. Word - 1 : x % Word = x
      BY <1>1
    <2>3. QED
      BY <2>1, <2>2
  <1> HIDE DEF sum, d
  <1>5. /\ Carry(sum) = IF sum >= d THEN 1 ELSE 0
        /\ Reduced(sum) = IF sum >= d THEN sum - d ELSE sum
    BY DEF Carry, Reduced, d
  <1>6. Carry(sum) \in Nat /\ Reduced(sum) \in 0 .. d - 1
        /\ Carry(sum) * d + Reduced(sum) = rm + ro
    BY <1>1, <1>4, <1>5
  <1>7. (qm + qo + Carry(sum)) % Word = (k + l + Carry(sum)) % Word
    <2> DEFINE c == Carry(sum)
    <2>1. c \in Nat /\ Word \in Nat /\ Word > 0
      BY <1>1, <1>6
    <2> HIDE DEF c
    <2>2. \A a, b, x \in Nat :
             ((a % Word) + (b % Word) + x) % Word = (a + b + x) % Word
      BY <2>1, ReducedSum, Zenon
    <2>3. ((k % Word) + (l % Word) + c) % Word = (k + l + c) % Word
      BY <2>1, <2>2, Zenon
    <2>4. (qm + qo + c) % Word = (k + l + c) % Word
      BY <1>2, <1>3, <2>3
    <2>5. QED
      BY <2>4 DEF c
  <1>8. m + n = (k + l + Carry(sum)) * d + Reduced(sum)
    <2> DEFINE c  == Carry(sum)
               e  == Reduced(sum)
               kd == k * d
               ld == l * d
               cd == c * d
    <2>1. c \in Nat /\ e \in Nat /\ cd + e = rm + ro
      BY <1>1, <1>6
    <2>2. m = kd + rm /\ n = ld + ro /\ rm \in Nat /\ ro \in Nat
      BY <1>1, <1>2, <1>3
    <2> HIDE DEF c, e
    <2>3. (k + l + c) * d = kd + ld + cd
      BY <1>1, <2>1
    <2>4. kd \in Nat /\ ld \in Nat /\ cd \in Nat
      BY <1>1, <2>1
    <2> HIDE DEF kd, ld, cd
    <2>5. m + n = (kd + ld + cd) + e
      BY <2>1, <2>2, <2>4
    <2>6. m + n = (k + l + c) * d + e
      BY <2>3, <2>5
    <2>7. QED
      BY <2>6 DEF c, e
  <1>9. k + l + Carry(sum) \in Nat
    BY <1>6
  <1>10. QED
    BY <1>6, <1>7, <1>8, <1>9 DEF Represents, d, sum

-----------------------------------------------------------------------------
\* The quotient of two numbers is no larger than the first.
LEMMA QuotientSmall ==
    ASSUME NEW x \in Nat, NEW m \in Nat, m > 0
    PROVE  x \div m \in 0 .. x
  OBVIOUS

\* Before the first turn the two words of the multiplier are its division.
LEMMA FirstWeight ==
    ASSUME Init
    PROVE  /\ Represents(0 * arg.multiplier, q, r)
           /\ Represents(1 * arg.multiplier, qn, rn)
  <1> DEFINE m == arg.multiplier
             d == arg.divider
             k == m \div d
             e == m % d
  <1>1. arg \in Arguments /\ q = 0 /\ r = 0 /\ qn = k /\ rn = e
    BY DEF Init
  <1>2. Word \in Nat /\ Word > 0 /\ m \in Nat /\ m < Word /\ d \in Nat /\ d > 0
    BY <1>1, Sizes
  <1> HIDE DEF m, d
  <1>3. k \in 0 .. m
    BY <1>2, QuotientSmall
  <1>4. e \in 0 .. d - 1 /\ m = k * d + e
    BY <1>2, Division
  <1> HIDE DEF k, e
  <1>5. k % Word = k /\ k \in Nat
    <2>1. k \in 0 .. Word - 1
      BY <1>2, <1>3
    <2>2. \A x \in 0 .. Word - 1 : x % Word = x
      BY <1>2
    <2>3. QED
      BY <1>2, <1>3, <2>1, <2>2
  <1>6. Represents(1 * m, qn, rn)
    <2>1. 1 * m = k * d + e
      BY <1>2, <1>4
    <2>2. qn = k % Word /\ rn \in 0 .. d - 1 /\ 1 * m = k * d + rn
      BY <1>1, <1>4, <1>5, <2>1
    <2>3. QED
      BY <1>5, <2>2 DEF Represents, d
  <1>7. Represents(0 * m, q, r)
    <2>1. 0 = 0 % Word /\ 0 \in 0 .. d - 1 /\ 0 * m = 0 * d + 0
      BY <1>2
    <2>2. QED
      BY <1>1, <2>1 DEF Represents, d
  <1>8. QED
    BY <1>6, <1>7 DEF m

LEMMA InitInv == Init => IInv
  <1> SUFFICES ASSUME Init PROVE IInv
    OBVIOUS
  <1>1. arg \in Arguments /\ value = arg.value /\ done = FALSE
    BY DEF Init
  <1>2. arg.value \in Nat
    BY <1>1, Sizes
  <1>3. arg.value = value * 1 + 0
    BY <1>1, <1>2
  <1>4. Partial
    BY <1>3, FirstWeight DEF Partial
  <1>5. QED
    BY <1>1, <1>2, <1>4 DEF IInv

\* The lowest bit of the value, and the others.
LEMMA LowestBit ==
    ASSUME NEW v \in Nat
    PROVE  /\ v \div 2 \in Nat
           /\ v % 2 \in {0, 1}
           /\ v = 2 * (v \div 2) + (v % 2)
  OBVIOUS

\* A turn keeps what the words stand for, when the words are wide enough.
LEMMA TurnKeepsPartial ==
    ASSUME arg \in Arguments, value \in Nat, RemaindersFit, Partial, Turn
    PROVE  Partial'
  <1> DEFINE m == arg.multiplier
             w == value \div 2
  <1>1. arg' = arg /\ AddBit /\ DoubleWeight
    BY DEF Turn
  <1>2. m \in Nat /\ arg.value \in Nat
    BY Sizes
  <1>3. PICK weight \in Nat, bits \in Nat :
            /\ arg.value = value * weight + bits
            /\ Represents(bits * m, q, r)
            /\ Represents(weight * m, qn, rn)
    BY DEF Partial
  <1>4. w \in Nat /\ value % 2 \in {0, 1} /\ value = 2 * w + (value % 2) /\ value' = w
    BY <1>1, LowestBit DEF DoubleWeight
  <1> DEFINE bm == bits * m
             wm == weight * m
             tw == 2 * weight
             nb == IF value % 2 = 1 THEN bits + weight ELSE bits
  <1> HIDE DEF m, w
  <1>5. bm \in Nat /\ wm \in Nat /\ tw \in Nat /\ nb \in Nat
    BY <1>2, <1>3
  <1>6. Represents(tw * m, qn', rn')
    <2> DEFINE sum == (rn + rn) % Word
    <2>1. Represents(wm + wm, (qn + qn + Carry(sum)) % Word, Reduced(sum))
      <3> HIDE DEF wm
      <3>1. Represents(wm, qn, rn)
        BY <1>3 DEF wm
      <3>2. QED
        BY <1>5, <3>1, SumRepresented
    <2>2. qn \in Int /\ rn \in Int
      <3>1. Word \in Nat /\ Word > 0 /\ arg.divider \in Nat
        BY Sizes
      <3>2. \A x \in Nat : x % Word \in Int
        BY <3>1
      <3>3. QED
        BY <1>3, <3>1, <3>2 DEF Represents
    <2>3. 2 * rn = rn + rn /\ 2 * qn = qn + qn
      BY <2>2
    <2>4. qn' = (qn + qn + Carry(sum)) % Word /\ rn' = Reduced(sum)
      BY <1>1, <2>3 DEF DoubleWeight
    <2>5. tw * m = wm + wm
      BY <1>2, <1>3
    <2>6. QED
      BY <2>1, <2>4, <2>5
  <1>7. Represents(nb * m, q', r')
    <2>1. CASE value % 2 = 1
      <3> DEFINE sum == (r + rn) % Word
      <3>1. Represents(bm + wm, (q + qn + Carry(sum)) % Word, Reduced(sum))
        <4> HIDE DEF bm, wm
        <4>1. Represents(bm, q, r) /\ Represents(wm, qn, rn)
          BY <1>3 DEF bm, wm
        <4>2. QED
          BY <1>5, <4>1, SumRepresented
      <3>2. q' = (q + qn + Carry(sum)) % Word /\ r' = Reduced(sum)
        BY <1>1, <2>1 DEF AddBit
      <3>3. nb * m = bm + wm
        BY <1>2, <1>3, <2>1
      <3>4. QED
        BY <3>1, <3>2, <3>3
    <2>2. CASE value % 2 # 1
      <3>1. q' = q /\ r' = r /\ nb = bits
        BY <1>1, <2>2 DEF AddBit
      <3>2. QED
        BY <1>3, <3>1
    <2>3. QED
      BY <2>1, <2>2
  <1>8. arg.value = w * tw + nb
    <2> DEFINE p  == w * weight
               vw == value * weight
               wt == w * tw
    <2>1. vw = p + p + (IF value % 2 = 1 THEN weight ELSE 0)
      BY <1>3, <1>4
    <2>2. wt = p + p
      BY <1>3, <1>4
    <2>3. p \in Nat
      BY <1>3, <1>4
    <2>4. arg.value = vw + bits
      BY <1>3
    <2> HIDE DEF p, vw, wt, tw
    <2>5. arg.value = wt + nb
      BY <2>1, <2>2, <2>3, <2>4
    <2>6. QED
      BY <2>5 DEF wt
  <1>9. arg'.value = value' * tw + nb /\ arg' = arg
    BY <1>1, <1>4, <1>8
  <1> HIDE DEF tw, nb
  <1>10. QED
    BY <1>5, <1>6, <1>7, <1>9 DEF Partial, Represents, m

LEMMA NextInv == IInv /\ [Next]_vars => IInv'
  <1> SUFFICES ASSUME IInv, [Next]_vars PROVE IInv'
    OBVIOUS
  <1>0. arg \in Arguments /\ value \in Nat /\ (done => value = 0)
    BY DEF IInv
  <1>1. CASE Turn
    <2>1. arg' = arg /\ done' = done /\ value # 0
      BY <1>1 DEF Turn
    <2>2. value' \in Nat
      BY <1>0, <1>1, LowestBit DEF Turn, DoubleWeight
    <2>3. ~done'
      BY <1>0, <2>1
    <2>4. RemaindersFit' => Partial'
      BY <1>0, <1>1, <2>1, TurnKeepsPartial DEF IInv, RemaindersFit
    <2>5. QED
      BY <1>0, <2>1, <2>2, <2>3, <2>4 DEF IInv
  <1>2. CASE Return
    BY <1>2 DEF IInv, Return, Partial, Represents, RemaindersFit
  <1>3. CASE UNCHANGED vars
    BY <1>3 DEF IInv, vars, Partial, Represents, RemaindersFit
  <1>4. QED
    BY <1>1, <1>2, <1>3 DEF Next

\* With no bit to come, the two words are the division of the product.
LEMMA InvExact == IInv => Exact
  <1> DEFINE n == arg.value * arg.multiplier
             d == arg.divider
  <1> SUFFICES ASSUME IInv, done, RemaindersFit, n \div d < Word
               PROVE  q = n \div d /\ r = n % d
    BY DEF Exact, Product
  <1>1. arg \in Arguments /\ value = 0 /\ Partial
    BY DEF IInv
  <1>2. /\ Word \in Nat /\ Word > 0 /\ d \in Nat /\ d > 0
        /\ arg.value \in Nat /\ arg.multiplier \in Nat
    BY <1>1, Sizes
  <1>3. PICK weight \in Nat, bits \in Nat :
            arg.value = value * weight + bits /\ Represents(bits * arg.multiplier, q, r)
    BY <1>1 DEF Partial
  <1>4. arg.value = bits
    BY <1>1, <1>3
  <1>5. PICK k \in Nat : q = k % Word /\ r \in 0 .. d - 1 /\ n = k * d + r
    BY <1>3, <1>4 DEF Represents
  <1> HIDE DEF d
  <1>6. (k * d + r) % d = r /\ (k * d + r) \div d = k
    <2>1. k \in Int /\ d \in Nat /\ d > 0 /\ r \in 0 .. d - 1
      BY <1>2, <1>5
    <2>2. QED
      BY ONLY <2>1, DivisionUnique
  <1> HIDE DEF n
  <1>7. n % d = r /\ n \div d = k
    BY <1>5, <1>6
  <1>8. k \in 0 .. Word - 1
    BY <1>2, <1>7
  <1>9. \A x \in 0 .. Word - 1 : x % Word = x
    BY <1>2
  <1>10. QED
    BY <1>5, <1>7, <1>8, <1>9

(* What muldiv returns is the quotient and the remainder of the product,   *)
(* for every width of a word and all arguments whose divider fits half a   *)
(* word and whose quotient fits a word: the 32-bit words of utils.cpp as   *)
(* much as the four-bit ones of the run.                                   *)
THEOREM DividesExactly == Spec => []Exact
  <1>1. QED
    BY InitInv, NextInv, InvExact, PTL DEF Spec
=============================================================================
