--------------------------- MODULE AssemblerProofs ---------------------------
(***************************************************************************)
(* Theorems about the assembler, for every source, every width of a byte   *)
(* and whatever words are numbers and labels.                              *)
(***************************************************************************)
EXTENDS Assembler, FiniteSetTheorems, SequenceTheorems, TLAPS

-----------------------------------------------------------------------------
(* Numbers and sequences.                                                  *)

\* A set of naturals has a least element.
LEMMA Least ==
    ASSUME NEW S, S \subseteq Nat, S # {}
    PROVE  \E m \in S : \A n \in S : m <= n
  <1> DEFINE R == OpToRel(<, Nat)
  <1>1. IsWellFoundedOn(R, Nat)
    BY NatLessThanWellFounded
  <1> HIDE DEF R
  <1>2. PICK m \in S : \A n \in S : ~ (<<n, m>> \in R)
    BY <1>1, WFMin
  <1>3. \A n \in S : ~ (n < m)
    BY <1>2 DEF R, OpToRel
  <1>4. QED
    BY <1>3

\* And a bounded one a greatest.
LEMMA Greatest ==
    ASSUME NEW n \in Nat, NEW S, S \subseteq 1 .. n, S # {}
    PROVE  Max(S) \in S /\ \A k \in S : k <= Max(S)
  <1> DEFINE B == {m \in Nat : \A k \in S : k <= m}
  <1>1. n \in B
    OBVIOUS
  <1>2. PICK m \in B : \A b \in B : m <= b
    BY <1>1, Least
  <1>3. m \in S
    <2>1. \A k \in S : k >= 1 /\ k <= m
      <3>1. \A k \in S : k \in 1 .. n /\ k <= m
        OBVIOUS
      <3>2. QED
        BY <3>1
    <2>2. CASE \A x \in S : x # m
      <3>1. m - 1 \in Nat /\ ~ (m <= m - 1)
        <4>1. PICK k \in S : k >= 1 /\ k <= m
          BY <2>1
        <4>2. k \in Nat
          OBVIOUS
        <4>3. QED
          BY <4>1, <4>2
      <3>2. \A x \in S : x <= m - 1
        BY <2>2
      <3>3. QED
        BY <1>2, <3>1, <3>2
    <2>3. QED
      BY <2>2
  <1>4. \E x \in S : \A y \in S : x >= y
    BY <1>3
  <1>5. Max(S) \in S /\ \A y \in S : Max(S) >= y
    BY <1>4 DEF Max
  <1>6. QED
    BY <1>5

\* A sequence without its m-th element.
LEMMA RemoveAtIs ==
    ASSUME NEW S, NEW s \in Seq(S), NEW m \in 1 .. Len(s)
    PROVE  /\ RemoveAt(s, m) \in Seq(S)
           /\ Len(RemoveAt(s, m)) = Len(s) - 1
           /\ \A i \in 1 .. Len(s) - 1 :
                RemoveAt(s, m)[i] = IF i < m THEN s[i] ELSE s[i + 1]
  <1> DEFINE n == Len(s)
             t == SubSeq(s, 1, m - 1)
             u == SubSeq(s, m + 1, n)
  <1>1. n \in Nat /\ m \in 1 .. n /\ \A i \in 1 .. n : s[i] \in S
    BY LenProperties, ElementOfSeq
  <1>2. RemoveAt(s, m) = t \o u
    BY DEF RemoveAt
  <1> HIDE DEF n
  <1>3. t \in Seq(S) /\ Len(t) = m - 1 /\ \A i \in 1 .. m - 1 : t[i] = s[i]
    <2>1. \A i \in 1 .. m - 1 : s[i] \in S
      BY <1>1
    <2>2. /\ 1 \in Int /\ m - 1 \in Int
          /\ Len(t) = (IF 1 <= m - 1 THEN m - 1 - 1 + 1 ELSE 0)
          /\ t \in Seq(S)
          /\ \A i \in 1 .. m - 1 - 1 + 1 : t[i] = s[1 + i - 1]
      BY <1>1, <2>1, SubSeqProperties
    <2> HIDE DEF t
    <2>3. Len(t) = m - 1
      BY <1>1, <2>2
    <2>4. \A i \in 1 .. m - 1 : i \in 1 .. m - 1 - 1 + 1 /\ 1 + i - 1 = i
      BY <1>1
    <2>5. QED
      BY <2>2, <2>3, <2>4
  <1>4. u \in Seq(S) /\ Len(u) = n - m /\ \A i \in 1 .. n - m : u[i] = s[m + i]
    <2>1. \A i \in m + 1 .. n : s[i] \in S
      BY <1>1
    <2>2. /\ Len(u) = (IF m + 1 <= n THEN n - (m + 1) + 1 ELSE 0)
          /\ u \in Seq(S)
          /\ \A i \in 1 .. n - (m + 1) + 1 : u[i] = s[m + 1 + i - 1]
      BY <1>1, <2>1, SubSeqProperties
    <2> HIDE DEF u
    <2>3. Len(u) = n - m
      BY <1>1, <2>2
    <2>4. \A i \in 1 .. n - m : i \in 1 .. n - (m + 1) + 1 /\ m + 1 + i - 1 = m + i
      BY <1>1
    <2>5. QED
      BY <2>2, <2>3, <2>4
  <1> HIDE DEF t, u
  <1>5. /\ t \o u \in Seq(S)
        /\ Len(t \o u) = Len(t) + Len(u)
        /\ \A i \in 1 .. Len(t) + Len(u) :
             (t \o u)[i] = IF i <= Len(t) THEN t[i] ELSE u[i - Len(t)]
    BY <1>3, <1>4, ConcatProperties
  <1>6. Len(t) + Len(u) = n - 1
    BY <1>1, <1>3, <1>4
  <1>7. ASSUME NEW i \in 1 .. n - 1
        PROVE  (t \o u)[i] = IF i < m THEN s[i] ELSE s[i + 1]
    <2>1. CASE i < m
      <3>1. i \in 1 .. m - 1 /\ i <= Len(t)
        BY <1>1, <1>3, <2>1
      <3>2. QED
        BY <1>3, <1>5, <1>6, <2>1, <3>1
    <2>2. CASE ~ (i < m)
      <3>1. ~ (i <= Len(t)) /\ i - Len(t) = i - m + 1
        BY <1>1, <1>3, <2>2
      <3>2. i - m + 1 \in 1 .. n - m /\ m + (i - m + 1) = i + 1
        BY <1>1, <2>2
      <3> DEFINE j == i - m + 1
      <3>3. (t \o u)[i] = u[j]
        BY <1>5, <1>6, <3>1
      <3>4. u[j] = s[m + j]
        BY <1>4, <3>2
      <3>5. m + j = i + 1
        BY <3>2
      <3> HIDE DEF j
      <3>6. QED
        BY <2>2, <3>3, <3>4, <3>5
    <2>3. QED
      BY <2>1, <2>2
  <1>8. QED
    BY <1>2, <1>5, <1>6, <1>7 DEF n

\* A function of an interval is a sequence.
LEMMA FunctionSeq ==
    ASSUME NEW n \in Nat, NEW S, NEW f \in [1 .. n -> S]
    PROVE  f \in Seq(S) /\ Len(f) = n
  OBVIOUS

\* A sequence is the function of its elements.
LEMMA SeqFunction ==
    ASSUME NEW S, NEW s \in Seq(S)
    PROVE  s = [i \in 1 .. Len(s) |-> s[i]]
  BY LenProperties

-----------------------------------------------------------------------------
(* The elements of a set of naturals in their order.                       *)
Lists(p, S) ==
    /\ p \in Seq(Nat)
    /\ \A i, k \in 1 .. Len(p) : i < k => p[i] < p[k]
    /\ \A i \in 1 .. Len(p) : p[i] \in S
    /\ \A j \in S : \E i \in 1 .. Len(p) : p[i] = j

\* Where the elements of a list are.
LEMMA ListIs ==
    ASSUME NEW p, NEW S, Lists(p, S)
    PROVE  /\ p \in Seq(Nat) /\ Len(p) \in Nat
           /\ \A i \in 1 .. Len(p) : p[i] \in Nat /\ p[i] \in S
           /\ \A i, k \in 1 .. Len(p) : i < k => p[i] < p[k]
           /\ \A j \in S : \E i \in 1 .. Len(p) : p[i] = j
  BY LenProperties, ElementOfSeq DEF Lists

\* The empty list.
LEMMA ListsNone == Lists(<< >>, {})
  BY EmptySeq DEF Lists

\* j comes after all of S.
Above(j, S) == \A x \in S : x < j

\* One more, above the others.
LEMMA ListsAppend ==
    ASSUME NEW p, NEW S, Lists(p, S), NEW j \in Nat, Above(j, S)
    PROVE  /\ Lists(Append(p, j), S \cup {j})
           /\ Len(Append(p, j)) = Len(p) + 1
           /\ Append(p, j)[Len(p) + 1] = j
           /\ \A i \in 1 .. Len(p) : Append(p, j)[i] = p[i]
  <1> DEFINE n == Len(p)
             q == Append(p, j)
  <1>1. /\ p \in Seq(Nat) /\ n \in Nat
        /\ \A i, k \in 1 .. n : i < k => p[i] < p[k]
        /\ \A i \in 1 .. n : p[i] \in S /\ p[i] < j
        /\ \A x \in S : \E i \in 1 .. n : p[i] = x
    BY LenProperties DEF Lists, Above
  <1>2. /\ q \in Seq(Nat) /\ Len(q) = n + 1 /\ q[n + 1] = j
        /\ \A i \in 1 .. n : q[i] = p[i]
    BY <1>1, AppendProperties
  <1> HIDE DEF n, q
  <1>3. ASSUME NEW i \in 1 .. n + 1, NEW k \in 1 .. n + 1, i < k
        PROVE  q[i] < q[k]
    <2>1. i \in 1 .. n
      BY <1>1, <1>3
    <2>2. CASE k \in 1 .. n
      BY <1>1, <1>2, <1>3, <2>1, <2>2
    <2>3. CASE k = n + 1
      BY <1>1, <1>2, <2>1, <2>3
    <2>4. QED
      BY <1>1, <2>2, <2>3
  <1>4. ASSUME NEW i \in 1 .. n + 1 PROVE q[i] \in S \cup {j}
    <2>1. i \in 1 .. n \/ i = n + 1
      BY <1>1
    <2>2. QED
      BY <1>1, <1>2, <2>1
  <1>5. ASSUME NEW x \in S \cup {j} PROVE \E i \in 1 .. n + 1 : q[i] = x
    <2>1. CASE x = j
      <3>1. n + 1 \in 1 .. n + 1
        BY <1>1
      <3>2. QED
        BY <1>2, <2>1, <3>1
    <2>2. CASE x \in S
      <3>1. PICK i \in 1 .. n : p[i] = x
        BY <1>1, <2>2
      <3>2. i \in 1 .. n + 1
        BY <1>1
      <3>3. QED
        BY <1>2, <3>1, <3>2
    <2>3. QED
      BY <2>1, <2>2
  <1>6. Lists(q, S \cup {j})
    BY <1>2, <1>3, <1>4, <1>5 DEF Lists
  <1>7. QED
    BY <1>2, <1>6 DEF n, q

\* One taken out.
LEMMA ListsRemove ==
    ASSUME NEW p, NEW S, Lists(p, S), NEW m \in 1 .. Len(p)
    PROVE  /\ Lists(RemoveAt(p, m), S \ {p[m]})
           /\ Len(RemoveAt(p, m)) = Len(p) - 1
           /\ \A i \in 1 .. Len(p) - 1 :
                RemoveAt(p, m)[i] = IF i < m THEN p[i] ELSE p[i + 1]
  <1> DEFINE n == Len(p)
             q == RemoveAt(p, m)
  <1>1. /\ p \in Seq(Nat) /\ n \in Nat
        /\ \A i, k \in 1 .. n : i < k => p[i] < p[k]
        /\ \A i \in 1 .. n : p[i] \in S /\ p[i] \in Nat
        /\ \A x \in S : \E i \in 1 .. n : p[i] = x
    BY LenProperties, ElementOfSeq DEF Lists
  <1>2. /\ q \in Seq(Nat) /\ Len(q) = n - 1
        /\ \A i \in 1 .. n - 1 : q[i] = IF i < m THEN p[i] ELSE p[i + 1]
    BY <1>1, RemoveAtIs
  <1>3. m \in 1 .. n
    OBVIOUS
  <1> HIDE DEF n, q
  <1> DEFINE At(i) == IF i < m THEN i ELSE i + 1
  <1>4. \A i \in 1 .. n - 1 : /\ At(i) \in 1 .. n /\ At(i) # m /\ q[i] = p[At(i)]
                              /\ \A k \in 1 .. n - 1 : i < k => At(i) < At(k)
    BY <1>1, <1>2, <1>3
  <1>5. \A k \in 1 .. n : k # m => \E i \in 1 .. n - 1 : At(i) = k
    <2> SUFFICES ASSUME NEW k \in 1 .. n, k # m PROVE \E i \in 1 .. n - 1 : At(i) = k
      OBVIOUS
    <2>1. CASE k < m
      <3>1. k \in 1 .. n - 1 /\ At(k) = k
        BY <1>1, <1>3, <2>1
      <3>2. QED
        BY <3>1
    <2>2. CASE k > m
      <3>1. k - 1 \in 1 .. n - 1 /\ At(k - 1) = k
        BY <1>1, <1>3, <2>2
      <3>2. QED
        BY <3>1
    <2>3. QED
      BY <1>1, <1>3, <2>1, <2>2
  <1> HIDE DEF At
  <1>6. \A i \in 1 .. n : i # m => p[i] # p[m]
    <2> SUFFICES ASSUME NEW i \in 1 .. n, i # m PROVE p[i] # p[m]
      OBVIOUS
    <2>1. i < m \/ m < i
      BY <1>1, <1>3
    <2>2. p[i] < p[m] \/ p[m] < p[i]
      BY <1>1, <1>3, <2>1
    <2>3. p[i] \in Nat /\ p[m] \in Nat
      BY <1>1, <1>3
    <2>4. QED
      BY <2>2, <2>3
  <1>7. \A i, k \in 1 .. n - 1 : i < k => q[i] < q[k]
    BY <1>1, <1>4
  <1>8. \A i \in 1 .. n - 1 : q[i] \in S \ {p[m]}
    BY <1>1, <1>4, <1>6
  <1>9. \A x \in S \ {p[m]} : \E i \in 1 .. n - 1 : q[i] = x
    <2> SUFFICES ASSUME NEW x \in S \ {p[m]} PROVE \E i \in 1 .. n - 1 : q[i] = x
      OBVIOUS
    <2>1. PICK k \in 1 .. n : p[k] = x
      BY <1>1
    <2>2. PICK i \in 1 .. n - 1 : At(i) = k
      BY <1>5, <2>1
    <2>3. QED
      BY <1>4, <2>1, <2>2
  <1>10. Lists(q, S \ {p[m]})
    BY <1>2, <1>7, <1>8, <1>9 DEF Lists
  <1>11. QED
    BY <1>2, <1>10 DEF n, q

\* The first k of the list are k.
LEMMA ListCounts ==
    ASSUME NEW p, NEW S, Lists(p, S), NEW k \in 0 .. Len(p),
           NEW T, T = {p[i] : i \in 1 .. k}
    PROVE  IsFiniteSet(T) /\ Cardinality(T) = k
  <1> DEFINE n == Len(p)
  <1>1. /\ p \in Seq(Nat) /\ n \in Nat /\ k \in 0 .. n
        /\ \A i, m \in 1 .. n : i < m => p[i] < p[m]
        /\ \A i \in 1 .. n : p[i] \in Nat
    BY LenProperties, ElementOfSeq DEF Lists
  <1> HIDE DEF n
  <1> DEFINE f == [i \in 1 .. k |-> p[i]]
  <1>2. f \in [1 .. k -> T] /\ \A t \in T : \E i \in 1 .. k : f[i] = t
    OBVIOUS
  <1>3. \A i, m \in 1 .. k : f[i] = f[m] => i = m
    <2> SUFFICES ASSUME NEW i \in 1 .. k, NEW m \in 1 .. k, p[i] = p[m] PROVE i = m
      OBVIOUS
    <2>1. i \in 1 .. n /\ m \in 1 .. n
      BY <1>1
    <2>2. p[i] \in Nat /\ ~ (p[i] < p[m]) /\ ~ (p[m] < p[i])
      BY <1>1, <2>1
    <2>3. ~ (i < m) /\ ~ (m < i)
      BY <1>1, <2>1, <2>2
    <2>4. QED
      BY <2>1, <2>3
  <1> HIDE DEF f
  <1>4. ExistsBijection(1 .. k, T)
    <2>1. f \in Surjection(1 .. k, T)
      BY <1>2 DEF Surjection
    <2>2. f \in Injection(1 .. k, T)
      BY <1>2, <1>3 DEF Injection, IsInjective
    <2>3. QED
      BY <2>1, <2>2 DEF ExistsBijection, Bijection
  <1>5. k \in Nat
    BY <1>1
  <1>6. IsFiniteSet(1 .. k) /\ Cardinality(1 .. k) = k
    BY <1>5, FS_Interval
  <1>7. QED
    BY <1>4, <1>6, FS_Bijection

\* How many of a set lie below its k-th.
LEMMA ListBefore ==
    ASSUME NEW p, NEW S, Lists(p, S), NEW k \in 1 .. Len(p)
    PROVE  Cardinality({j \in S : j < p[k]}) = k - 1
  <1> DEFINE n == Len(p)
             T == {p[i] : i \in 1 .. k - 1}
  <1>1. /\ n \in Nat /\ k \in 1 .. n
        /\ \A i, m \in 1 .. n : i < m => p[i] < p[m]
        /\ \A i \in 1 .. n : p[i] \in Nat /\ p[i] \in S
        /\ \A x \in S : \E i \in 1 .. n : p[i] = x
    BY LenProperties, ElementOfSeq DEF Lists
  <1>2. k - 1 \in 0 .. Len(p)
    <2> HIDE DEF n
    <2>1. k - 1 \in 0 .. n
      BY <1>1
    <2>2. QED
      BY <2>1 DEF n
  <1>3. Cardinality(T) = k - 1
    BY <1>2, ListCounts
  <1> HIDE DEF n
  <1>4. ASSUME NEW j \in S, j < p[k] PROVE j \in T
    <2>1. PICK i \in 1 .. n : p[i] = j
      BY <1>1
    <2>2. i < k
      <3>1. CASE i = k
        BY <1>1, <1>4, <2>1, <3>1
      <3>2. CASE k < i
        <4>1. p[k] < p[i] /\ p[k] \in Nat /\ p[i] \in Nat
          BY <1>1, <3>2
        <4>2. QED
          BY <1>4, <2>1, <4>1
      <3>3. QED
        BY <1>1, <3>1, <3>2
    <2>3. i \in 1 .. k - 1
      BY <1>1, <2>2
    <2>4. QED
      BY <2>1, <2>3
  <1>5. ASSUME NEW j \in T PROVE j \in S /\ j < p[k]
    <2>1. PICK i \in 1 .. k - 1 : p[i] = j
      OBVIOUS
    <2>2. i \in 1 .. n /\ i < k
      BY <1>1
    <2>3. QED
      BY <1>1, <2>1, <2>2
  <1>6. {j \in S : j < p[k]} = T
    BY <1>4, <1>5
  <1>7. QED
    BY <1>3, <1>6

-----------------------------------------------------------------------------
(* Replacements of a word, one after the other: a[i] becomes b[i].  When   *)
(* no b[i] is replaced itself, the first that applies is all that counts.  *)
Hits(a, s, w) == {i \in s : a[i] = w}
First(S) == CHOOSE m \in S : \A n \in S : m <= n
Replaced(a, b, s, w) == IF Hits(a, s, w) = {} THEN w ELSE b[First(Hits(a, s, w))]

Apart(n, a, b) == \A i, j \in 1 .. n : b[i] # a[j]

\* The first of some is one of them, and no other is.
LEMMA FirstIs ==
    ASSUME NEW S, S \subseteq Nat, S # {}
    PROVE  First(S) \in S /\ \A n \in S : First(S) <= n
  BY Least DEF First

\* One of them that no other is below is the first.
LEMMA FirstUnique ==
    ASSUME NEW S, S \subseteq Nat, NEW m \in S, \A n \in S : m <= n
    PROVE  First(S) = m
  <1>1. First(S) \in S /\ \A n \in S : First(S) <= n
    BY FirstIs
  <1>2. First(S) \in Nat /\ m \in Nat
    BY <1>1
  <1> PICK k : k = First(S)
    OBVIOUS
  <1>3. k \in Nat /\ k <= m /\ m <= k
    BY <1>1, <1>2
  <1>4. k = m
    BY ONLY <1>2, <1>3
  <1>5. QED
    BY <1>4

\* The last of some replacements comes after the others.
LEMMA ReplacedStep ==
    ASSUME NEW n \in Nat, NEW a, NEW b, NEW s \in SUBSET (1 .. n), s # {},
           Apart(n, a, b), NEW w, NEW v, v = Replaced(a, b, s \ {Max(s)}, w)
    PROVE  Replaced(a, b, s, w) = IF a[Max(s)] = v THEN b[Max(s)] ELSE v
  <1> PICK x : x = Max(s)
    OBVIOUS
  <1> PICK r : r = s \ {x}
    OBVIOUS
  <1>0. s \subseteq 1 .. n
    OBVIOUS
  <1>1. /\ x \in s /\ \A k \in s : k <= x
        /\ r \subseteq s /\ s \subseteq Nat /\ x \in 1 .. n
    <2>1. x \in s /\ \A k \in s : k <= x
      BY <1>0, Greatest
    <2>2. r \subseteq s /\ x \in 1 .. n
      BY <1>0, <2>1
    <2>3. s \subseteq Nat
      BY <1>0
    <2>4. QED
      BY <2>1, <2>2, <2>3
  <1> DEFINE R == Hits(a, r, w)
             S == Hits(a, s, w)
  <1>2. R \subseteq S /\ S \subseteq s /\ R \subseteq r /\ (S \ R) \subseteq {x}
    BY DEF Hits
  <1>3. x \in S <=> a[x] = w
    BY <1>1 DEF Hits
  <1> HIDE DEF R, S
  <1>4. CASE R = {}
    <2>1. v = w
      BY <1>4 DEF Replaced, R
    <2>2. CASE a[x] = w
      <3>1. S = {x}
        BY <1>2, <1>3, <1>4, <2>2
      <3>2. First(S) = x
        BY <3>1 DEF First
      <3>3. QED
        BY <2>1, <2>2, <3>1, <3>2 DEF Replaced, S
    <2>3. CASE a[x] # w
      <3>1. S = {}
        BY <1>2, <1>3, <1>4, <2>3
      <3>2. QED
        BY <2>1, <2>3, <3>1 DEF Replaced, S
    <2>4. QED
      BY <2>2, <2>3
  <1>5. CASE R # {}
    <2>1. v = b[First(R)]
      BY <1>5 DEF Replaced, R
    <2>2. First(R) \in R /\ \A k \in R : First(R) <= k
      BY <1>1, <1>2, <1>5, FirstIs
    <2>3. First(R) \in 1 .. n
      BY <1>0, <1>1, <1>2, <2>2
    <2>4. a[x] # v
      BY <1>1, <2>1, <2>3 DEF Apart
    <2>5. First(S) = First(R)
      <3>1. First(R) \in S /\ S \subseteq Nat
        BY <1>1, <1>2, <2>2
      <3>2. \A k \in S : First(R) <= k
        BY <1>1, <1>2, <2>2, <2>3
      <3>3. QED
        BY <3>1, <3>2, FirstUnique
    <2>6. S # {}
      BY <1>2, <1>5
    <2>7. QED
      BY <2>1, <2>4, <2>5, <2>6 DEF Replaced, S
  <1>6. QED
    BY <1>4, <1>5

\* The replacements up to one more.
LEMMA PrefixMax ==
    ASSUME NEW m \in Nat, m # 0
    PROVE  Max(1 .. m) = m /\ (1 .. m) \ {m} = 1 .. m - 1 /\ 1 .. m # {}
  <1>1. m \in 1 .. m /\ 1 .. m # {} /\ \A k \in 1 .. m : k <= m
    OBVIOUS
  <1>2. Max(1 .. m) \in 1 .. m /\ m <= Max(1 .. m)
    BY <1>1, Greatest
  <1>3. Max(1 .. m) = m
    BY <1>2
  <1>4. (1 .. m) \ {m} = 1 .. m - 1
    OBVIOUS
  <1>5. QED
    BY <1>1, <1>3, <1>4

StepAlike(n, f, g) ==
    \A m \in 1 .. n : f[1 .. m - 1] = g[1 .. m - 1] => f[1 .. m] = g[1 .. m]

\* Two functions of sets that take the same step at every prefix agree.
LEMMA SamePrefixes ==
    ASSUME NEW n \in Nat, NEW f, NEW g, f[{}] = g[{}], StepAlike(n, f, g)
    PROVE  f[1 .. n] = g[1 .. n]
  <1> DEFINE W == {m \in 0 .. n : f[1 .. m] # g[1 .. m]}
  <1>1. W \subseteq Nat /\ n \in 0 .. n /\ 1 .. 0 = {}
    OBVIOUS
  <1>2. \A m \in 0 .. n : m \in W <=> f[1 .. m] # g[1 .. m]
    OBVIOUS
  <1>3. W \subseteq 0 .. n
    OBVIOUS
  <1> HIDE DEF W
  <1>4. CASE W = {}
    BY <1>1, <1>2, <1>4
  <1>5. CASE W # {}
    <2>1. PICK m \in W : \A k \in W : m <= k
      BY <1>1, <1>5, Least
    <2>2. m \in 0 .. n
      BY <1>3
    <2>3. m # 0
      BY <1>1, <1>2, <2>2
    <2>4. m \in 1 .. n /\ m - 1 \in 0 .. n /\ ~ (m <= m - 1)
      BY <2>2, <2>3
    <2>5. m - 1 \notin W
      BY <2>1, <2>4
    <2>6. f[1 .. m - 1] = g[1 .. m - 1]
      BY <1>2, <2>4, <2>5
    <2>7. f[1 .. m] = g[1 .. m]
      BY <2>4, <2>6 DEF StepAlike
    <2>8. QED
      BY <1>2, <2>2, <2>7
  <1>6. QED
    BY <1>4, <1>5

-----------------------------------------------------------------------------
(* What the folds over defines and labels amount to.                       *)
Replacing(ws, w, r) == [u \in DOMAIN ws |-> IF ws[u] = w THEN r ELSE ws[u]]

SubstitutesBy(f, line) ==
    f = [s \in SUBSET (DOMAIN defines) |->
           IF s = {} THEN line
           ELSE Replacing(f[s \ {Max(s)}], defines[Max(s)].name, defines[Max(s)].replacement)]

\* Substituted() is a fold over the defines, which is a function that was chosen.
LEMMA SubstitutedFolds ==
    ASSUME NEW line
    PROVE  Substituted(line) = (CHOOSE f : SubstitutesBy(f, line))[DOMAIN defines]
  BY DEF Substituted, FoldLeft, MapThenFoldSet, SubstitutesBy, Replacing

\* When no replacement is defined itself, each word gets the replacement of
\* the first define of its name.
LEMMA SubstitutedIs ==
    ASSUME NEW n \in Nat, DOMAIN defines = 1 .. n, NEW S, NEW line \in Seq(S),
           NEW a, \A i \in 1 .. n : a[i] = defines[i].name,
           NEW b, \A i \in 1 .. n : b[i] = defines[i].replacement,
           Apart(n, a, b)
    PROVE  Substituted(line) = [u \in DOMAIN line |-> Replaced(a, b, 1 .. n, line[u])]
  <1> DEFINE At(s) == [u \in DOMAIN line |-> Replaced(a, b, s, line[u])]
             D(s) == defines[Max(s)]
  <1> PICK g : g = [s \in SUBSET (1 .. n) |-> At(s)]
    OBVIOUS
  <1>1. \A s \in SUBSET (1 .. n) : g[s] = At(s)
    OBVIOUS
  <1>2. g[{}] = line
    <2>1. \A w : Replaced(a, b, {}, w) = w
      BY DEF Replaced, Hits
    <2>2. line = [u \in DOMAIN line |-> line[u]]
      OBVIOUS
    <2>3. {} \in SUBSET (1 .. n)
      OBVIOUS
    <2>4. g[{}] = At({})
      BY <1>1, <2>3
    <2>5. QED
      BY <2>1, <2>2, <2>4
  <1>3. ASSUME NEW s \in SUBSET (1 .. n), s # {}
        PROVE  g[s] = Replacing(g[s \ {Max(s)}], D(s).name, D(s).replacement)
    <2> PICK x : x = Max(s)
      OBVIOUS
    <2> PICK r : r = s \ {x}
      OBVIOUS
    <2> PICK h : h = g[r]
      OBVIOUS
    <2>1. s \subseteq 1 .. n
      OBVIOUS
    <2>2. x \in 1 .. n
      BY <1>3, <2>1, Greatest
    <2>3. r \in SUBSET (1 .. n)
      BY <2>1
    <2>4. h = At(r)
      BY <1>1, <2>3
    <2>5. ASSUME NEW u \in DOMAIN line
          PROVE  Replaced(a, b, s, line[u]) = IF h[u] = a[x] THEN b[x] ELSE h[u]
      <3> PICK v : v = h[u]
        OBVIOUS
      <3>1. v = Replaced(a, b, s \ {Max(s)}, line[u])
        BY <2>4
      <3>2. Replaced(a, b, s, line[u]) = IF a[Max(s)] = v THEN b[Max(s)] ELSE v
        BY <1>3, <3>1, ReplacedStep
      <3>3. QED
        BY <3>2
    <2>6. DOMAIN h = DOMAIN line
      BY <2>4
    <2>7. At(s) = Replacing(h, a[x], b[x])
      BY <2>5, <2>6 DEF Replacing
    <2>8. g[s] = Replacing(h, a[x], b[x])
      BY <1>1, <2>7
    <2>9. a[x] = D(s).name /\ b[x] = D(s).replacement
      BY <2>2
    <2>10. QED
      BY <2>8, <2>9
  <1> HIDE DEF At
  <1>4. SubstitutesBy(g, line)
    <2>1. \A s \in SUBSET (1 .. n) :
            g[s] = IF s = {} THEN line
                   ELSE Replacing(g[s \ {Max(s)}], D(s).name, D(s).replacement)
      BY <1>2, <1>3
    <2>2. g = [s \in SUBSET (1 .. n) |-> g[s]]
      OBVIOUS
    <2>3. QED
      BY <2>1, <2>2, Zenon DEF SubstitutesBy
  <1> PICK f : f = CHOOSE h : SubstitutesBy(h, line)
    OBVIOUS
  <1>5. SubstitutesBy(f, line)
    BY <1>4
  <1>6. \A s \in SUBSET (1 .. n) :
          f[s] = IF s = {} THEN line
                 ELSE Replacing(f[s \ {Max(s)}], D(s).name, D(s).replacement)
    BY <1>5 DEF SubstitutesBy
  <1> HIDE DEF D
  <1>7. f[{}] = line
    <2>1. {} \in SUBSET (1 .. n)
      OBVIOUS
    <2>2. QED
      BY <1>6, <2>1, Zenon
  <1>8. StepAlike(n, f, g)
    <2> SUFFICES ASSUME NEW m \in 1 .. n, f[1 .. m - 1] = g[1 .. m - 1]
                 PROVE  f[1 .. m] = g[1 .. m]
      BY DEF StepAlike
    <2> PICK s : s = 1 .. m
      OBVIOUS
    <2>1. m \in Nat /\ m # 0
      OBVIOUS
    <2>2. Max(s) = m /\ s \ {m} = 1 .. m - 1 /\ s # {}
      BY <2>1, PrefixMax
    <2>3. s \in SUBSET (1 .. n)
      OBVIOUS
    <2>4. f[s] = Replacing(f[s \ {Max(s)}], D(s).name, D(s).replacement)
      BY <1>6, <2>2, <2>3, Zenon
    <2>5. g[s] = Replacing(g[s \ {Max(s)}], D(s).name, D(s).replacement)
      BY <1>3, <2>2, <2>3, Zenon
    <2>6. f[s \ {Max(s)}] = g[s \ {Max(s)}]
      BY <2>2
    <2>7. QED
      BY <2>4, <2>5, <2>6
  <1>9. f[1 .. n] = g[1 .. n]
    BY <1>2, <1>7, <1>8, SamePrefixes
  <1>10. g[1 .. n] = At(1 .. n)
    BY <1>1
  <1>11. QED
    BY <1>9, <1>10, SubstitutedFolds DEF At

ResolvesBy(f, w) ==
    f = [s \in SUBSET (DOMAIN labels) |->
           IF s = {} THEN w
           ELSE IF labels[Max(s)].name = f[s \ {Max(s)}]
                  THEN labels[Max(s)].address ELSE f[s \ {Max(s)}]]

\* And Resolved() one over the labels.
LEMMA ResolvedFolds ==
    ASSUME NEW w
    PROVE  Resolved(w) = (CHOOSE f : ResolvesBy(f, w))[DOMAIN labels]
  BY DEF Resolved, FoldLeft, MapThenFoldSet, ResolvesBy

\* When no address is a label, a word gets the address of the first label of
\* its name.
LEMMA ResolvedIs ==
    ASSUME NEW n \in Nat, DOMAIN labels = 1 .. n, NEW w,
           NEW a, \A i \in 1 .. n : a[i] = labels[i].name,
           NEW b, \A i \in 1 .. n : b[i] = labels[i].address,
           Apart(n, a, b)
    PROVE  Resolved(w) = Replaced(a, b, 1 .. n, w)
  <1> PICK g : g = [s \in SUBSET (1 .. n) |-> Replaced(a, b, s, w)]
    OBVIOUS
  <1>1. \A s \in SUBSET (1 .. n) : g[s] = Replaced(a, b, s, w)
    OBVIOUS
  <1>2. g[{}] = w
    <2>1. g[{}] = Replaced(a, b, {}, w)
      BY <1>1
    <2>2. QED
      BY <2>1 DEF Replaced, Hits
  <1>3. ASSUME NEW s \in SUBSET (1 .. n), s # {}
        PROVE  g[s] = IF labels[Max(s)].name = g[s \ {Max(s)}]
                        THEN labels[Max(s)].address ELSE g[s \ {Max(s)}]
    <2> PICK r : r = s \ {Max(s)}
      OBVIOUS
    <2> PICK v : v = g[r]
      OBVIOUS
    <2>1. s \subseteq 1 .. n
      OBVIOUS
    <2>2. Max(s) \in 1 .. n
      BY <1>3, <2>1, Greatest
    <2>3. v = Replaced(a, b, s \ {Max(s)}, w)
      BY <1>1, <2>1
    <2>4. Replaced(a, b, s, w) = IF a[Max(s)] = v THEN b[Max(s)] ELSE v
      BY <1>3, <2>3, ReplacedStep
    <2>5. a[Max(s)] = labels[Max(s)].name /\ b[Max(s)] = labels[Max(s)].address
      BY <2>2
    <2>6. QED
      BY <1>1, <2>4, <2>5
  <1>4. ResolvesBy(g, w)
    <2>1. \A s \in SUBSET (1 .. n) :
            g[s] = IF s = {} THEN w
                   ELSE IF labels[Max(s)].name = g[s \ {Max(s)}]
                          THEN labels[Max(s)].address ELSE g[s \ {Max(s)}]
      BY <1>2, <1>3
    <2>2. g = [s \in SUBSET (1 .. n) |-> g[s]]
      OBVIOUS
    <2>3. QED
      BY <2>1, <2>2, Zenon DEF ResolvesBy
  <1> PICK f : f = CHOOSE h : ResolvesBy(h, w)
    OBVIOUS
  <1>5. ResolvesBy(f, w)
    BY <1>4
  <1>6. \A s \in SUBSET (1 .. n) :
          f[s] = IF s = {} THEN w
                 ELSE IF labels[Max(s)].name = f[s \ {Max(s)}]
                        THEN labels[Max(s)].address ELSE f[s \ {Max(s)}]
    BY <1>5 DEF ResolvesBy
  <1>7. f[{}] = w
    <2>1. {} \in SUBSET (1 .. n)
      OBVIOUS
    <2>2. QED
      BY <1>6, <2>1, Zenon
  <1>8. StepAlike(n, f, g)
    <2> SUFFICES ASSUME NEW m \in 1 .. n, f[1 .. m - 1] = g[1 .. m - 1]
                 PROVE  f[1 .. m] = g[1 .. m]
      BY DEF StepAlike
    <2> PICK s : s = 1 .. m
      OBVIOUS
    <2>1. m \in Nat /\ m # 0
      OBVIOUS
    <2>2. Max(s) = m /\ s \ {m} = 1 .. m - 1 /\ s # {}
      BY <2>1, PrefixMax
    <2>3. s \in SUBSET (1 .. n)
      OBVIOUS
    <2>4. f[s] = IF labels[Max(s)].name = f[s \ {Max(s)}]
                   THEN labels[Max(s)].address ELSE f[s \ {Max(s)}]
      BY <1>6, <2>2, <2>3, Zenon
    <2>5. f[s \ {Max(s)}] = g[s \ {Max(s)}]
      BY <2>2
    <2>6. QED
      BY <1>3, <2>2, <2>3, <2>4, <2>5, Zenon
  <1>9. f[1 .. n] = g[1 .. n]
    BY <1>2, <1>7, <1>8, SamePrefixes
  <1>10. QED
    BY <1>1, <1>9, ResolvedFolds

-----------------------------------------------------------------------------
(* The lines of a source, as the passes work through them.                 *)
N == Len(source)
CodeLine(j) == source[j] # << >> /\ ~IsDefine(j)

Defs(r)  == {j \in 1 .. r : IsDefine(j)}
Lines(r) == {j \in 1 .. r : CodeLine(j)}
Marks(b) == {j \in 1 .. b : Mark(j)}
Ins      == {j \in 1 .. N : Instruction(j)}
\* What is left when the labels up to b are out.
Kept(b)  == {j \in 1 .. N : CodeLine(j) /\ (j > b \/ Instruction(j))}

DefineOf(j) == [name |-> source[j][2], replacement |-> source[j][3]]
NameOf(j) == LabelName[MeaningOf(j)[1]]
LabelOf(j) == [name |-> NameOf(j), address |-> Decimal[InstructionsBefore(j)]]

\* An argument when its labels are resolved, and a line.
Some(S) == CHOOSE j \in S : TRUE
Address(w) ==
    IF MarksOf(w) = {} THEN w ELSE Decimal[InstructionsBefore(Some(MarksOf(w)))]
ResolvedLine(j) ==
    IF Len(source[j]) >= 2 THEN [MeaningOf(j) EXCEPT ![2] = Address(@)] ELSE MeaningOf(j)

\* The word of a line, and that it may have one.
CodeOf(j) ==
    Opcode[MeaningOf(j)[1]] * ByteMod
      + IF Len(source[j]) = 1 THEN 0 ELSE ArgumentOf(MeaningOf(j)[2])
Codes == {CodeOf(j) : j \in Ins}
Right(j) ==
    LET line == MeaningOf(j) IN
      /\ line[1] \in DOMAIN Opcode
      /\ Len(line) = Arguments(line[1]) + 1
      /\ Len(line) = 2 =>
           IF MarksOf(line[2]) = {} THEN IsValue(line[2])
           ELSE ArgumentOf(line[2]) < ByteMod

-----------------------------------------------------------------------------
(* The invariant.                                                          *)
Follow(c, pos) == c = [i \in 1 .. Len(pos) |-> MeaningOf(pos[i])]
DefinesFollow(d, ds) == d = [k \in 1 .. Len(ds) |-> DefineOf(ds[k])]

ReadingAt(t, d, c) ==
    \E r \in 0 .. N : \E ds, pos :
      /\ t \in Seq(Seq(STRING)) /\ Len(t) = N - r
      /\ \A i \in 1 .. N - r : t[i] = source[r + i]
      /\ Lists(ds, Defs(r)) /\ DefinesFollow(d, ds)
      /\ Lists(pos, Lines(r)) /\ Follow(c, pos)

LabelsTell(b, ls) ==
    /\ ls \in Seq({LabelOf(j) : j \in Marks(b)})
    /\ \A j \in Marks(b) : \E k \in 1 .. Len(ls) : ls[k].name = NameOf(j)
    /\ \A i, j \in Marks(b) : NameOf(i) = NameOf(j) => i = j

LabellingAt(c, l, ls) ==
    \E b \in 0 .. N : \E pos :
      /\ Lists(pos, Kept(b)) /\ Follow(c, pos)
      /\ l \in 0 .. Len(pos) /\ \A i \in 1 .. Len(pos) : i <= l <=> pos[i] <= b
      /\ LabelsTell(b, ls)

ResolvingAt(c, l, ls) ==
    \E pos :
      /\ Lists(pos, Ins) /\ l \in 0 .. Len(pos)
      /\ c = [i \in 1 .. Len(pos) |-> IF i <= l THEN ResolvedLine(pos[i])
                                                ELSE MeaningOf(pos[i])]
      /\ LabelsTell(N, ls)

TranslatingAt(c, l, ls, is) ==
    \E pos :
      /\ Lists(pos, Ins) /\ l \in 0 .. Len(pos)
      /\ c = [i \in 1 .. Len(pos) |-> ResolvedLine(pos[i])]
      /\ LabelsTell(N, ls)
      /\ is \in Seq(Codes) /\ Len(is) = l
      /\ \A i \in 1 .. l : is[i] = CodeOf(pos[i]) /\ Right(pos[i])

DoneAt(ls, is) ==
    \E pos :
      /\ Lists(pos, Ins) /\ LabelsTell(N, ls) /\ Len(is) = Len(pos)
      /\ \A i \in 1 .. Len(pos) : is[i] = CodeOf(pos[i]) /\ Right(pos[i])

AtPass ==
    /\ pass = "reading" => /\ labels = << >> /\ lineNbr = 0 /\ instructions = << >>
                           /\ ReadingAt(todo, defines, code)
    /\ pass = "labelling" => instructions = << >> /\ LabellingAt(code, lineNbr, labels)
    /\ pass = "resolving" => instructions = << >> /\ ResolvingAt(code, lineNbr, labels)
    /\ pass = "translating" => TranslatingAt(code, lineNbr, labels, instructions)
    /\ pass = "done" => DoneAt(labels, instructions)

AssemblerInv ==
    /\ source \in Sources
    /\ NoChains /\ PlainNames => AtPass

-----------------------------------------------------------------------------
(* A source does not change, and so what it means.                         *)
\* The definition that counts is the first.
LEMMA MeaningFirst ==
    ASSUME NEW w, NEW j
    PROVE  Meaning(w, j) = IF DefinesOf(w, j) = {} THEN w
                           ELSE source[First(DefinesOf(w, j))][3]
  BY DEF Meaning, First

\* Lines mean the same in the next state.
LEMMA MeaningSame ==
    ASSUME source' = source
    PROVE  /\ N' = N
           /\ \A j : (IsDefine(j)' <=> IsDefine(j)) /\ (CodeLine(j)' <=> CodeLine(j))
           /\ \A j : MeaningOf(j)' = MeaningOf(j) /\ NameOf(j)' = NameOf(j)
           /\ \A j : (Mark(j)' <=> Mark(j)) /\ (Instruction(j)' <=> Instruction(j))
  <1>1. N' = N
    BY DEF N
  <1>2. \A j : (IsDefine(j)' <=> IsDefine(j))
    BY DEF IsDefine
  <1>3. \A j, w : DefinesOf(w, j)' = DefinesOf(w, j)
    BY DEF IsDefine, DefinesOf
  <1>4. ASSUME NEW j, NEW w PROVE Meaning(w, j)' = Meaning(w, j)
    <2>1. Meaning(w, j)' = IF DefinesOf(w, j)' = {} THEN w
                           ELSE source'[First(DefinesOf(w, j)')][3]
      BY DEF Meaning, First
    <2>2. QED
      BY <1>3, <2>1, MeaningFirst
  <1>5. \A j : MeaningOf(j)' = MeaningOf(j)
    BY <1>4 DEF MeaningOf
  <1>6. QED
    BY <1>1, <1>2, <1>5 DEF CodeLine, NameOf, Mark, Instruction, IsLabel

\* So do labels and arguments, and what the properties assume still holds.
LEMMA SourceSame ==
    ASSUME source' = source
    PROVE  /\ \A j : InstructionsBefore(j)' = InstructionsBefore(j)
           /\ \A w : MarksOf(w)' = MarksOf(w) /\ ArgumentOf(w)' = ArgumentOf(w)
           /\ \A j : DefineOf(j)' = DefineOf(j) /\ LabelOf(j)' = LabelOf(j)
           /\ \A j : ResolvedLine(j)' = ResolvedLine(j) /\ CodeOf(j)' = CodeOf(j)
           /\ \A j : Right(j)' <=> Right(j)
           /\ (NoChains' <=> NoChains) /\ (PlainNames' <=> PlainNames)
  <1>1. \A j : InstructionsBefore(j)' = InstructionsBefore(j)
    BY MeaningSame DEF InstructionsBefore
  <1>2. \A w : MarksOf(w)' = MarksOf(w)
    BY MeaningSame DEF MarksOf
  <1>3. \A w : ArgumentOf(w)' = ArgumentOf(w)
    BY <1>1, <1>2 DEF ArgumentOf
  <1>4. \A j : DefineOf(j)' = DefineOf(j) /\ LabelOf(j)' = LabelOf(j)
    BY <1>1, MeaningSame DEF DefineOf, LabelOf
  <1>5. \A w : Address(w)' = Address(w)
    BY <1>1, <1>2 DEF Address
  <1>6. \A j : ResolvedLine(j)' = ResolvedLine(j)
    BY <1>5, MeaningSame DEF ResolvedLine
  <1>7. \A j : CodeOf(j)' = CodeOf(j)
    BY <1>3, MeaningSame DEF CodeOf
  <1>8. \A j : Right(j)' <=> Right(j)
    BY <1>2, <1>3, MeaningSame DEF Right
  <1>9. NoChains' <=> NoChains
    BY MeaningSame DEF NoChains
  <1>10. PlainNames' <=> PlainNames
    BY <1>2 DEF PlainNames
  <1>11. QED
    BY <1>1, <1>2, <1>3, <1>4, <1>6, <1>7, <1>8, <1>9, <1>10

\* The sets of lines are the same.
LEMMA SetsSame ==
    ASSUME source' = source
    PROVE  /\ Ins' = Ins /\ Codes' = Codes
           /\ \A c, pos : Follow(c, pos)' <=> Follow(c, pos)
           /\ \A d, ds : DefinesFollow(d, ds)' <=> DefinesFollow(d, ds)
           /\ \A b : Defs(b)' = Defs(b) /\ Lines(b)' = Lines(b)
           /\ \A b : Kept(b)' = Kept(b) /\ Marks(b)' = Marks(b)
           /\ \A b, ls : LabelsTell(b, ls)' <=> LabelsTell(b, ls)
  <1>1. Ins' = Ins
    BY MeaningSame DEF Ins
  <1>2. \A b : Defs(b)' = Defs(b) /\ Lines(b)' = Lines(b)
    BY MeaningSame DEF Defs, Lines
  <1>3. \A b : Kept(b)' = Kept(b) /\ Marks(b)' = Marks(b)
    BY MeaningSame DEF Kept, Marks
  <1>4. \A b, ls : LabelsTell(b, ls)' <=> LabelsTell(b, ls)
    BY <1>3, SourceSame, MeaningSame DEF LabelsTell
  <1>5. Codes' = Codes
    BY <1>1, SourceSame DEF Codes
  <1>6. \A c, pos : Follow(c, pos)' <=> Follow(c, pos)
    BY MeaningSame DEF Follow
  <1>7. \A d, ds : DefinesFollow(d, ds)' <=> DefinesFollow(d, ds)
    BY SourceSame DEF DefinesFollow
  <1>8. QED
    BY <1>1, <1>2, <1>3, <1>4, <1>5, <1>6, <1>7

\* So it is enough to say of the next state where it stands in the source.
LEMMA StageSame ==
    ASSUME source' = source, NEW t, NEW d, NEW c, NEW l, NEW ls, NEW is
    PROVE  /\ ReadingAt(t, d, c)' <=> ReadingAt(t, d, c)
           /\ LabellingAt(c, l, ls)' <=> LabellingAt(c, l, ls)
           /\ ResolvingAt(c, l, ls)' <=> ResolvingAt(c, l, ls)
           /\ TranslatingAt(c, l, ls, is)' <=> TranslatingAt(c, l, ls, is)
           /\ DoneAt(ls, is)' <=> DoneAt(ls, is)
  <1>1. ReadingAt(t, d, c)' <=> ReadingAt(t, d, c)
    BY SetsSame, SourceSame, MeaningSame DEF ReadingAt
  <1>2. LabellingAt(c, l, ls)' <=> LabellingAt(c, l, ls)
    BY SetsSame, SourceSame, MeaningSame DEF LabellingAt
  <1>3. ResolvingAt(c, l, ls)' <=> ResolvingAt(c, l, ls)
    BY SetsSame, SourceSame, MeaningSame DEF ResolvingAt
  <1>4. TranslatingAt(c, l, ls, is)' <=> TranslatingAt(c, l, ls, is)
    BY SetsSame, SourceSame, MeaningSame DEF TranslatingAt
  <1>5. DoneAt(ls, is)' <=> DoneAt(ls, is)
    BY SetsSame, SourceSame, MeaningSame DEF DoneAt
  <1>6. QED
    BY <1>1, <1>2, <1>3, <1>4, <1>5

-----------------------------------------------------------------------------
(* What is known of a source.                                              *)
\* A source is a sequence of lines, and its lines can be counted.
LEMMA SourceIs ==
    ASSUME source \in Sources
    PROVE  /\ source \in Seq(Seq(STRING)) /\ N \in Nat /\ DOMAIN source = 1 .. N
           /\ \A j \in 1 .. N : source[j] \in Seq(STRING)
           /\ 0 .. N \subseteq DOMAIN Decimal
  <1>1. source \in Seq(Seq(STRING)) /\ 0 .. Len(source) \subseteq DOMAIN Decimal
    BY AssemblerAssumption
  <1>2. QED
    BY <1>1, LenProperties, ElementOfSeq DEF N

\* Substitution keeps the number of words.
LEMMA MeaningIs ==
    ASSUME source \in Sources, NEW j \in 1 .. N
    PROVE  /\ MeaningOf(j) \in Seq({MeaningOf(j)[u] : u \in DOMAIN source[j]})
           /\ Len(MeaningOf(j)) = Len(source[j])
           /\ DOMAIN MeaningOf(j) = 1 .. Len(source[j])
           /\ Len(source[j]) \in Nat
           /\ source[j] # << >> => Len(source[j]) >= 1
  <1> DEFINE n == Len(source[j])
             S == {MeaningOf(j)[u] : u \in DOMAIN source[j]}
  <1>1. source[j] \in Seq(STRING)
    BY SourceIs
  <1>2. n \in Nat /\ DOMAIN source[j] = 1 .. n
    BY <1>1, LenProperties
  <1>3. source[j] # << >> => n # 0
    BY <1>1, EmptySeq
  <1>4. MeaningOf(j) \in [1 .. n -> S]
    BY <1>2 DEF MeaningOf
  <1> HIDE DEF n, S
  <1>5. MeaningOf(j) \in Seq(S) /\ Len(MeaningOf(j)) = n
    BY <1>2, <1>4, FunctionSeq
  <1>6. DOMAIN MeaningOf(j) = 1 .. n
    BY <1>4
  <1>7. source[j] # << >> => n >= 1
    BY <1>2, <1>3
  <1>8. QED
    BY <1>2, <1>5, <1>6, <1>7 DEF n, S

\* The number of the instructions before a line has a numeral.
LEMMA BeforeIs ==
    ASSUME source \in Sources, NEW j \in 1 .. N
    PROVE  /\ InstructionsBefore(j) \in 0 .. N
           /\ Decimal[InstructionsBefore(j)] \in DOMAIN Numeral
           /\ Numeral[Decimal[InstructionsBefore(j)]] = InstructionsBefore(j)
  <1> DEFINE T == {i \in 1 .. j - 1 : Instruction(i)}
  <1>1. N \in Nat /\ 0 .. N \subseteq DOMAIN Decimal
    BY SourceIs
  <1>2. j - 1 \in Nat /\ j - 1 <= N
    BY <1>1
  <1>3. IsFiniteSet(1 .. j - 1) /\ Cardinality(1 .. j - 1) = j - 1
    BY <1>2, FS_Interval
  <1>4. T \subseteq 1 .. j - 1
    OBVIOUS
  <1>5. Cardinality(T) \in Nat /\ Cardinality(T) <= j - 1
    <2>1. IsFiniteSet(T) /\ Cardinality(T) <= Cardinality(1 .. j - 1)
      BY <1>3, <1>4, FS_Subset
    <2>2. Cardinality(T) \in Nat
      BY <2>1, FS_CardinalityType
    <2>3. QED
      BY <1>3, <2>1, <2>2
  <1>6. InstructionsBefore(j) = Cardinality(T)
    BY DEF InstructionsBefore
  <1> HIDE DEF T
  <1>7. InstructionsBefore(j) \in 0 .. N
    BY <1>1, <1>2, <1>5, <1>6
  <1>8. QED
    BY <1>1, <1>7, AssemblerAssumption

-----------------------------------------------------------------------------
(* What the passes compute of a line.                                      *)

\* The line after r, with the defines that were read put in.
LEMMA SubstitutedMeans ==
    ASSUME source \in Sources, NoChains, NEW r \in 0 .. N, r < N,
           NEW ds, Lists(ds, Defs(r)), DefinesFollow(defines, ds)
    PROVE  Substituted(source[r + 1]) = MeaningOf(r + 1)
  <1> PICK n : n = Len(ds)
    OBVIOUS
  <1> PICK q : q = r + 1
    OBVIOUS
  <1> PICK line : line = source[q]
    OBVIOUS
  <1> PICK a : a = [k \in 1 .. n |-> source[ds[k]][2]]
    OBVIOUS
  <1> PICK b : b = [k \in 1 .. n |-> source[ds[k]][3]]
    OBVIOUS
  <1>1. N \in Nat /\ q \in 1 .. N /\ q - 1 = r /\ DOMAIN source = 1 .. N
    BY SourceIs
  <1>2. /\ n \in Nat
        /\ \A k \in 1 .. n : ds[k] \in Nat /\ ds[k] \in Defs(r)
        /\ \A i, k \in 1 .. n : i < k => ds[i] < ds[k]
        /\ \A j \in Defs(r) : \E i \in 1 .. n : ds[i] = j
    BY ListIs
  <1>3. \A k \in 1 .. n : ds[k] \in DOMAIN source /\ IsDefine(ds[k])
    <2>1. \A j \in 1 .. r : j \in 1 .. N
      BY <1>1
    <2>2. QED
      BY <1>1, <1>2, <2>1 DEF Defs
  <1>4. Apart(n, a, b)
    BY <1>3 DEF NoChains, Apart
  <1>5. /\ DOMAIN defines = 1 .. n
        /\ \A k \in 1 .. n : a[k] = defines[k].name /\ b[k] = defines[k].replacement
    BY DEF DefinesFollow, DefineOf
  <1>6. line \in Seq(STRING)
    BY <1>1, SourceIs
  <1>7. Substituted(line) = [u \in DOMAIN line |-> Replaced(a, b, 1 .. n, line[u])]
    <2>1. \A k \in 1 .. n : a[k] = defines[k].name
      BY <1>5
    <2>2. \A k \in 1 .. n : b[k] = defines[k].replacement
      BY <1>5
    <2>3. n \in Nat /\ DOMAIN defines = 1 .. n
      BY <1>2, <1>5
    <2>4. QED
      BY ONLY <1>4, <1>6, <2>1, <2>2, <2>3, SubstitutedIs
  <1>8. ASSUME NEW w PROVE Replaced(a, b, 1 .. n, w) = Meaning(w, q)
    <2> PICK H : H = Hits(a, 1 .. n, w)
      OBVIOUS
    <2> PICK D : D = DefinesOf(w, q)
      OBVIOUS
    <2>1. \A k : k \in H <=> k \in 1 .. n /\ source[ds[k]][2] = w
      BY DEF Hits
    <2>2. \A j : j \in D <=> j \in Defs(r) /\ source[j][2] = w
      BY <1>1 DEF DefinesOf, Defs
    <2>3. \A k \in H : ds[k] \in D
      BY <1>2, <2>1, <2>2
    <2>4. ASSUME NEW j \in D PROVE \E k \in H : ds[k] = j
      <3>1. j \in Defs(r) /\ source[j][2] = w
        BY <2>2
      <3>2. PICK k \in 1 .. n : ds[k] = j
        BY <1>2, <3>1
      <3>3. k \in H
        BY <2>1, <3>1, <3>2
      <3>4. QED
        BY <3>2, <3>3
    <2>5. Meaning(w, q) = IF D = {} THEN w ELSE source[First(D)][3]
      BY MeaningFirst
    <2>6. CASE H = {}
      BY <2>4, <2>5, <2>6 DEF Replaced
    <2>7. CASE H # {}
      <3>1. H \subseteq 1 .. n /\ H \subseteq Nat
        BY <1>2, <2>1
      <3> PICK m : m = First(H)
        OBVIOUS
      <3>2. m \in H /\ \A k \in H : m <= k
        BY <2>7, <3>1, FirstIs
      <3>3. D \subseteq Nat /\ D # {} /\ ds[m] \in D
        BY <1>2, <2>3, <2>4, <3>1, <3>2
      <3>4. ASSUME NEW j \in D PROVE ds[m] <= j
        <4>1. PICK k \in H : ds[k] = j
          BY <2>4
        <4>2. m \in 1 .. n /\ k \in 1 .. n /\ m <= k
          BY <3>1, <3>2
        <4>3. m = k \/ m < k
          BY <1>2, <4>2
        <4>4. ds[m] = ds[k] \/ ds[m] < ds[k]
          BY <1>2, <4>2, <4>3
        <4>5. ds[m] \in Nat /\ ds[k] \in Nat
          BY <1>2, <4>2
        <4>6. QED
          BY <4>1, <4>4, <4>5
      <3>5. First(D) = ds[m]
        BY <3>3, <3>4, FirstUnique
      <3>6. b[m] = source[ds[m]][3]
        BY <3>1, <3>2
      <3>7. QED
        BY <2>5, <2>7, <3>3, <3>5, <3>6 DEF Replaced
    <2>8. QED
      BY <2>6, <2>7
  <1>9. Substituted(line) = MeaningOf(q)
    BY <1>7, <1>8 DEF MeaningOf
  <1>10. QED
    BY <1>9

\* An argument, with the labels put in that were found.
LEMMA ResolvedAddress ==
    ASSUME source \in Sources, PlainNames, LabelsTell(N, labels), NEW w
    PROVE  Resolved(w) = Address(w)
  <1> PICK n : n = Len(labels)
    OBVIOUS
  <1> PICK a : a = [k \in 1 .. n |-> labels[k].name]
    OBVIOUS
  <1> PICK b : b = [k \in 1 .. n |-> labels[k].address]
    OBVIOUS
  <1>1. N \in Nat /\ DOMAIN source = 1 .. N
    BY SourceIs
  <1>2. n \in Nat /\ DOMAIN labels = 1 .. n
    BY LenProperties DEF LabelsTell
  <1>3. \A k \in 1 .. n : \E j \in Marks(N) : labels[k] = LabelOf(j)
    <2>1. \A k \in 1 .. n : labels[k] \in {LabelOf(j) : j \in Marks(N)}
      BY ElementOfSeq DEF LabelsTell
    <2>2. QED
      BY <2>1
  <1>4. \A k \in 1 .. n : \E j \in Marks(N) :
          a[k] = NameOf(j) /\ b[k] = Decimal[InstructionsBefore(j)]
    <2> SUFFICES ASSUME NEW k \in 1 .. n
                 PROVE  \E j \in Marks(N) :
                          a[k] = NameOf(j) /\ b[k] = Decimal[InstructionsBefore(j)]
      OBVIOUS
    <2>1. PICK j \in Marks(N) : labels[k] = LabelOf(j)
      BY <1>3
    <2>2. a[k] = NameOf(j) /\ b[k] = Decimal[InstructionsBefore(j)]
      BY <2>1 DEF LabelOf
    <2>3. QED
      BY <2>2
  <1>5. \A x : MarksOf(x) = {j \in Marks(N) : NameOf(j) = x}
    BY <1>1 DEF MarksOf, Marks, NameOf
  <1>6. Apart(n, a, b)
    <2> SUFFICES ASSUME NEW i \in 1 .. n, NEW k \in 1 .. n, b[i] = a[k] PROVE FALSE
      BY DEF Apart
    <2>1. PICK j \in Marks(N) : b[i] = Decimal[InstructionsBefore(j)]
      BY <1>4
    <2>2. PICK h \in Marks(N) : a[k] = NameOf(h)
      BY <1>4
    <2>3. b[i] \in DOMAIN Numeral
      BY <2>1, BeforeIs DEF Marks
    <2>4. h \in MarksOf(b[i])
      BY <1>5, <2>2
    <2>5. QED
      BY <2>3, <2>4 DEF PlainNames
  <1>7. Resolved(w) = Replaced(a, b, 1 .. n, w)
    BY <1>2, <1>6, ResolvedIs
  <1> PICK H : H = Hits(a, 1 .. n, w)
    OBVIOUS
  <1>8. \A k : k \in H <=> k \in 1 .. n /\ a[k] = w
    BY DEF Hits
  <1>9. H = {} <=> MarksOf(w) = {}
    <2>1. ASSUME NEW j \in Marks(N), NameOf(j) = w PROVE H # {}
      <3>1. PICK k \in 1 .. n : labels[k].name = NameOf(j)
        BY DEF LabelsTell
      <3>2. QED
        BY <1>8, <2>1, <3>1
    <2>2. ASSUME NEW k \in H PROVE MarksOf(w) # {}
      <3>1. k \in 1 .. n /\ a[k] = w
        BY <1>8
      <3>2. PICK j \in Marks(N) : a[k] = NameOf(j)
        BY <1>4, <3>1
      <3>3. QED
        BY <1>5, <3>1, <3>2
    <2>3. QED
      BY <1>5, <2>1, <2>2
  <1>10. CASE H = {}
    BY <1>7, <1>9, <1>10 DEF Replaced, Address
  <1>11. CASE H # {}
    <2> PICK m : m = First(H)
      OBVIOUS
    <2>1. H \subseteq Nat
      BY <1>2, <1>8
    <2>2. m \in H
      BY <1>11, <2>1, FirstIs
    <2>3. PICK j \in Marks(N) : a[m] = NameOf(j) /\ b[m] = Decimal[InstructionsBefore(j)]
      BY <1>4, <1>8, <2>2
    <2>4. MarksOf(w) = {j}
      BY <1>5, <1>8, <2>2, <2>3 DEF LabelsTell
    <2>5. Some(MarksOf(w)) = j
      BY <2>4 DEF Some
    <2>6. Address(w) = b[m]
      BY <2>3, <2>4, <2>5 DEF Address
    <2>7. QED
      BY <1>7, <1>11, <2>6 DEF Replaced
  <1>12. QED
    BY <1>10, <1>11

\* Between a line of the pass over labels and the one before, nothing counts.
LEMMA NextKept ==
    ASSUME source \in Sources, NEW b \in 0 .. N, NEW pos, Lists(pos, Kept(b)),
           NEW l \in 0 .. Len(pos), l < Len(pos),
           \A i \in 1 .. Len(pos) : i <= l <=> pos[i] <= b,
           NEW q, q = pos[l + 1]
    PROVE  /\ q \in 1 .. N /\ b < q /\ CodeLine(q)
           /\ \A j \in 1 .. N : b < j /\ j < q => ~CodeLine(j)
           /\ InstructionsBefore(q) = l
  <1> PICK n : n = Len(pos)
    OBVIOUS
  <1> PICK m : m = l + 1
    OBVIOUS
  <1>1. /\ n \in Nat /\ N \in Nat
        /\ \A i \in 1 .. n : pos[i] \in Nat /\ pos[i] \in Kept(b)
        /\ \A i, k \in 1 .. n : i < k => pos[i] < pos[k]
        /\ \A j \in Kept(b) : \E i \in 1 .. n : pos[i] = j
    BY ListIs, SourceIs
  <1>2. m \in 1 .. n /\ l \in Nat /\ l = m - 1 /\ ~ (m <= l) /\ b \in Nat
    BY <1>1
  <1>3. q \in Kept(b) /\ q \in Nat /\ ~ (q <= b)
    BY <1>1, <1>2
  <1>4. q \in 1 .. N /\ CodeLine(q)
    BY <1>3 DEF Kept
  <1>5. b < q
    BY <1>2, <1>3
  <1>6. ASSUME NEW j \in Kept(b), j < q PROVE j <= b
    <2>1. PICK i \in 1 .. n : pos[i] = j
      BY <1>1
    <2>2. ~ (i = m)
      BY <1>3, <1>6, <2>1
    <2>3. ~ (m < i)
      <3>1. ASSUME m < i PROVE FALSE
        <4>1. q < j
          BY <1>1, <1>2, <2>1, <3>1
        <4>2. j \in Nat
          BY <1>1, <2>1
        <4>3. QED
          BY <1>3, <1>6, <4>1, <4>2
      <3>2. QED
        BY <3>1
    <2>4. i <= l
      BY <1>1, <1>2, <2>2, <2>3
    <2>5. QED
      BY <2>1, <2>4
  <1>7. ASSUME NEW j \in 1 .. N, b < j, j < q PROVE ~CodeLine(j)
    <2>1. ASSUME CodeLine(j) PROVE FALSE
      <3>1. j \in Kept(b)
        BY <1>1, <1>2, <1>7, <2>1 DEF Kept
      <3>2. j <= b
        BY <1>6, <1>7, <3>1
      <3>3. QED
        BY <1>1, <1>2, <1>7, <3>2
    <2>2. QED
      BY <2>1
  <1>8. {i \in 1 .. q - 1 : Instruction(i)} = {j \in Kept(b) : j < q}
    <2>1. ASSUME NEW i \in 1 .. q - 1, Instruction(i) PROVE i \in Kept(b) /\ i < q
      <3>1. i \in 1 .. N /\ i < q
        BY <1>1, <1>4
      <3>2. CodeLine(i)
        BY <2>1 DEF Instruction, CodeLine
      <3>3. QED
        BY <2>1, <3>1, <3>2 DEF Kept
    <2>2. ASSUME NEW j \in Kept(b), j < q PROVE j \in 1 .. q - 1 /\ Instruction(j)
      <3>1. j <= b
        BY <1>6, <2>2
      <3>2. j \in 1 .. N /\ (j > b \/ Instruction(j))
        BY DEF Kept
      <3>3. j \in 1 .. q - 1
        BY <1>1, <1>4, <2>2, <3>2
      <3>4. ~ (j > b)
        BY <1>1, <1>2, <3>1, <3>2
      <3>5. QED
        BY <3>2, <3>3, <3>4
    <2>3. QED
      BY <2>1, <2>2
  <1>9. Cardinality({j \in Kept(b) : j < q}) = m - 1
    <2>1. m \in 1 .. Len(pos) /\ q = pos[m]
      BY <1>2
    <2>2. QED
      BY <2>1, ListBefore
  <1>10. InstructionsBefore(q) = l
    BY <1>2, <1>8, <1>9 DEF InstructionsBefore
  <1>11. QED
    BY <1>4, <1>5, <1>7, <1>10

\* A line of code is a label or an instruction.
LEMMA CodeLineIs ==
    ASSUME NEW j
    PROVE  /\ Mark(j) <=> CodeLine(j) /\ IsLabel(MeaningOf(j))
           /\ Instruction(j) <=> CodeLine(j) /\ ~IsLabel(MeaningOf(j))
  BY DEF Mark, Instruction, CodeLine

-----------------------------------------------------------------------------
(* Reading.                                                                *)

\* One more line that follows.
LEMMA FollowAppend ==
    ASSUME NEW S, NEW c, NEW pos, Lists(pos, S), Follow(c, pos), NEW j \in Nat,
           Above(j, S), NEW p, p = Append(pos, j)
    PROVE  Lists(p, S \cup {j}) /\ Follow(Append(c, MeaningOf(j)), p)
  <1> PICK n : n = Len(pos)
    OBVIOUS
  <1> PICK x : x = MeaningOf(j)
    OBVIOUS
  <1> DEFINE M == {MeaningOf(i) : i \in Nat}
  <1>1. n \in Nat /\ \A i \in 1 .. n : pos[i] \in Nat
    BY ListIs
  <1>2. /\ Lists(p, S \cup {j}) /\ Len(p) = n + 1 /\ p[n + 1] = j
        /\ \A i \in 1 .. n : p[i] = pos[i]
    BY ListsAppend
  <1>3. c \in [1 .. n -> M] /\ x \in M /\ \A i \in 1 .. n : c[i] = MeaningOf(pos[i])
    BY <1>1 DEF Follow
  <1> HIDE DEF M
  <1>4. c \in Seq(M) /\ Len(c) = n
    BY <1>1, <1>3, FunctionSeq
  <1>5. /\ Append(c, x) \in Seq(M) /\ Len(Append(c, x)) = n + 1
        /\ Append(c, x)[n + 1] = x /\ \A i \in 1 .. n : Append(c, x)[i] = c[i]
    BY <1>3, <1>4, AppendProperties
  <1> PICK d : d = Append(c, x)
    OBVIOUS
  <1>6. \A i \in 1 .. n + 1 : d[i] = MeaningOf(p[i])
    <2>1. \A i \in 1 .. n + 1 : i \in 1 .. n \/ i = n + 1
      BY <1>1
    <2>2. QED
      BY <1>2, <1>3, <1>5, <2>1
  <1>7. d = [i \in 1 .. n + 1 |-> d[i]]
    BY <1>5, SeqFunction
  <1>8. d = [i \in 1 .. n + 1 |-> MeaningOf(p[i])]
    BY <1>6, <1>7
  <1>9. QED
    BY <1>2, <1>8 DEF Follow

\* One more define.
LEMMA DefinesAppend ==
    ASSUME NEW S, NEW d, NEW ds, Lists(ds, S), DefinesFollow(d, ds), NEW j \in Nat,
           Above(j, S), NEW p, p = Append(ds, j)
    PROVE  Lists(p, S \cup {j}) /\ DefinesFollow(Append(d, DefineOf(j)), p)
  <1> PICK n : n = Len(ds)
    OBVIOUS
  <1> PICK x : x = DefineOf(j)
    OBVIOUS
  <1> DEFINE M == {DefineOf(i) : i \in Nat}
  <1>1. n \in Nat /\ \A i \in 1 .. n : ds[i] \in Nat
    BY ListIs
  <1>2. /\ Lists(p, S \cup {j}) /\ Len(p) = n + 1 /\ p[n + 1] = j
        /\ \A i \in 1 .. n : p[i] = ds[i]
    BY ListsAppend
  <1>3. d \in [1 .. n -> M] /\ x \in M /\ \A i \in 1 .. n : d[i] = DefineOf(ds[i])
    BY <1>1 DEF DefinesFollow
  <1> HIDE DEF M
  <1>4. d \in Seq(M) /\ Len(d) = n
    BY <1>1, <1>3, FunctionSeq
  <1>5. /\ Append(d, x) \in Seq(M) /\ Len(Append(d, x)) = n + 1
        /\ Append(d, x)[n + 1] = x /\ \A i \in 1 .. n : Append(d, x)[i] = d[i]
    BY <1>3, <1>4, AppendProperties
  <1> PICK e : e = Append(d, x)
    OBVIOUS
  <1>6. \A i \in 1 .. n + 1 : e[i] = DefineOf(p[i])
    <2>1. \A i \in 1 .. n + 1 : i \in 1 .. n \/ i = n + 1
      BY <1>1
    <2>2. QED
      BY <1>2, <1>3, <1>5, <2>1
  <1>7. e = [i \in 1 .. n + 1 |-> e[i]]
    BY <1>5, SeqFunction
  <1>8. e = [i \in 1 .. n + 1 |-> DefineOf(p[i])]
    BY <1>6, <1>7
  <1>9. QED
    BY <1>2, <1>8 DEF DefinesFollow

\* What is read so far stands for the lines so far.
LEMMA ReadLineKeeps ==
    ASSUME source \in Sources, NoChains, ReadingAt(todo, defines, code),
           ReadLine, pass' = "reading"
    PROVE  ReadingAt(todo', defines', code')
  <1>1. PICK r \in 0 .. N : \E ds, pos :
           /\ todo \in Seq(Seq(STRING)) /\ Len(todo) = N - r
           /\ \A i \in 1 .. N - r : todo[i] = source[r + i]
           /\ Lists(ds, Defs(r)) /\ DefinesFollow(defines, ds)
           /\ Lists(pos, Lines(r)) /\ Follow(code, pos)
    BY DEF ReadingAt
  <1>2. PICK ds, pos :
           /\ todo \in Seq(Seq(STRING)) /\ Len(todo) = N - r
           /\ \A i \in 1 .. N - r : todo[i] = source[r + i]
           /\ Lists(ds, Defs(r)) /\ DefinesFollow(defines, ds)
           /\ Lists(pos, Lines(r)) /\ Follow(code, pos)
    BY <1>1
  <1> PICK q : q = r + 1
    OBVIOUS
  <1> PICK line : line = Head(todo)
    OBVIOUS
  <1>3. todo # << >> /\ todo' = Tail(todo)
    BY DEF ReadLine
  <1>4. N \in Nat /\ r \in Nat /\ r <= N
    BY SourceIs
  <1>5. /\ line = todo[1] /\ todo' \in Seq(Seq(STRING)) /\ Len(todo') = Len(todo) - 1
        /\ Len(todo) \in Nat /\ \A i \in 1 .. Len(todo) - 1 : todo'[i] = todo[i + 1]
    BY <1>2, <1>3, HeadTailProperties, LenProperties
  <1>6. N - r # 0
    BY <1>2, <1>3, EmptySeq
  <1>7. q \in 1 .. N /\ r < N /\ q \in 0 .. N /\ q \in Nat
    BY <1>4, <1>6
  <1>8. line = source[q]
    BY <1>2, <1>4, <1>5, <1>7
  <1>9. Len(todo') = N - q
    BY <1>2, <1>4, <1>5
  <1>10. \A i \in 1 .. N - q : todo'[i] = source[q + i]
    <2> SUFFICES ASSUME NEW i \in 1 .. N - q PROVE todo'[i] = source[q + i]
      OBVIOUS
    <2>1. i + 1 \in 1 .. N - r /\ i \in 1 .. (N - r) - 1 /\ r + (i + 1) = q + i
      BY <1>4
    <2>2. todo'[i] = todo[i + 1]
      BY <1>2, <1>5, <2>1
    <2>3. QED
      BY <1>2, <2>1, <2>2
  <1>11. Defs(q) = Defs(r) \cup (IF IsDefine(q) THEN {q} ELSE {})
    BY <1>4 DEF Defs
  <1>12. Lines(q) = Lines(r) \cup (IF CodeLine(q) THEN {q} ELSE {})
    BY <1>4 DEF Lines
  <1>13. Above(q, Defs(r)) /\ Above(q, Lines(r))
    BY <1>4 DEF Defs, Lines, Above
  <1>14. pass' # "crashed" /\ pass' # "failed"
    OBVIOUS
  <1>15. CASE line = << >> /\ UNCHANGED <<pass, defines, code>>
    <2>1. ~IsDefine(q) /\ ~CodeLine(q)
      BY <1>8, <1>15 DEF IsDefine, CodeLine
    <2>2. Defs(q) = Defs(r) /\ Lines(q) = Lines(r)
      BY <1>11, <1>12, <2>1
    <2>3. Lists(ds, Defs(q)) /\ DefinesFollow(defines', ds)
      BY <1>2, <1>15, <2>2
    <2>4. Lists(pos, Lines(q)) /\ Follow(code', pos)
      BY <1>2, <1>15, <2>2
    <2>5. QED
      BY <1>5, <1>7, <1>9, <1>10, <2>3, <2>4 DEF ReadingAt
  <1>16. CASE /\ line # << >> /\ line[1] = "#define" /\ code' = code
              /\ defines' = Append(defines, [name |-> line[2], replacement |-> line[3]])
    <2> PICK p : p = Append(ds, q)
      OBVIOUS
    <2>1. IsDefine(q) /\ ~CodeLine(q)
      BY <1>8, <1>16 DEF IsDefine, CodeLine
    <2>2. Defs(q) = Defs(r) \cup {q} /\ Lines(q) = Lines(r)
      BY <1>11, <1>12, <2>1
    <2>3. defines' = Append(defines, DefineOf(q))
      BY <1>8, <1>16 DEF DefineOf
    <2>4. Lists(p, Defs(q)) /\ DefinesFollow(defines', p)
      <3>1. Lists(ds, Defs(r)) /\ DefinesFollow(defines, ds)
        BY <1>2
      <3>2. /\ Lists(p, Defs(r) \cup {q})
            /\ DefinesFollow(Append(defines, DefineOf(q)), p)
        BY <1>7, <1>13, <3>1, DefinesAppend
      <3>3. QED
        BY <2>2, <2>3, <3>2
    <2>5. Lists(pos, Lines(q)) /\ Follow(code', pos)
      BY <1>2, <1>16, <2>2
    <2>6. QED
      BY <1>5, <1>7, <1>9, <1>10, <2>4, <2>5 DEF ReadingAt
  <1>17. CASE /\ line # << >> /\ line[1] # "#define" /\ defines' = defines
              /\ code' = Append(code, Substituted(line))
    <2> PICK p : p = Append(pos, q)
      OBVIOUS
    <2>1. ~IsDefine(q) /\ CodeLine(q)
      BY <1>8, <1>17 DEF IsDefine, CodeLine
    <2>2. Defs(q) = Defs(r) /\ Lines(q) = Lines(r) \cup {q}
      BY <1>11, <1>12, <2>1
    <2>3. Substituted(line) = MeaningOf(q)
      BY <1>2, <1>7, <1>8, SubstitutedMeans
    <2>4. Lists(p, Lines(q)) /\ Follow(code', p)
      <3>1. Lists(pos, Lines(r)) /\ Follow(code, pos)
        BY <1>2
      <3>2. /\ Lists(p, Lines(r) \cup {q})
            /\ Follow(Append(code, MeaningOf(q)), p)
        BY <1>7, <1>13, <3>1, FollowAppend
      <3>3. QED
        BY <1>17, <2>2, <2>3, <3>2
    <2>5. Lists(ds, Defs(q)) /\ DefinesFollow(defines', ds)
      BY <1>2, <1>17, <2>2
    <2>6. QED
      BY <1>5, <1>7, <1>9, <1>10, <2>4, <2>5 DEF ReadingAt
  <1>18. QED
    BY <1>14, <1>15, <1>16, <1>17, AssemblerAssumption DEF ReadLine, Crash, Fail

\* All lines are read, and no label is out.
LEMMA EndReadingStarts ==
    ASSUME source \in Sources, ReadingAt(todo, defines, code), todo = << >>
    PROVE  LabellingAt(code, 0, << >>)
  <1>1. PICK r \in 0 .. N : \E ds, pos :
           /\ Len(todo) = N - r
           /\ Lists(pos, Lines(r)) /\ Follow(code, pos)
    BY DEF ReadingAt
  <1>2. PICK pos : Len(todo) = N - r /\ Lists(pos, Lines(r)) /\ Follow(code, pos)
    BY <1>1
  <1>3. N \in Nat /\ r = N
    BY <1>2, SourceIs, EmptySeq
  <1>4. Kept(0) = Lines(N)
    BY <1>3 DEF Kept, Lines
  <1>5. Lists(pos, Kept(0))
    BY <1>2, <1>3, <1>4
  <1>6. Len(pos) \in Nat /\ \A i \in 1 .. Len(pos) : pos[i] \in Lines(N)
    BY <1>2, <1>3, ListIs
  <1> PICK n : n = Len(pos)
    OBVIOUS
  <1>7. \A i \in 1 .. n : i <= 0 <=> pos[i] <= 0
    BY <1>6 DEF Lines
  <1>8. Marks(0) = {}
    BY DEF Marks
  <1>9. LabelsTell(0, << >>)
    BY <1>8, EmptySeq DEF LabelsTell
  <1>10. 0 \in 0 .. N /\ 0 \in 0 .. n
    BY <1>3, <1>6
  <1>11. QED
    BY <1>2, <1>5, <1>7, <1>9, <1>10 DEF LabellingAt

-----------------------------------------------------------------------------
(* The pass over the labels.                                               *)

\* Its state, with its witnesses.
LabellingBy(c, l, ls, b, pos) ==
    /\ Lists(pos, Kept(b)) /\ Follow(c, pos) /\ l \in 0 .. Len(pos)
    /\ \A i \in 1 .. Len(pos) : i <= l <=> pos[i] <= b
    /\ LabelsTell(b, ls)

\* The line that is looked at.
LEMMA LookedAt ==
    ASSUME source \in Sources, NEW b \in 0 .. N, NEW pos, InPass("labelling"),
           LabellingBy(code, lineNbr, labels, b, pos), NEW q, q = pos[lineNbr + 1]
    PROVE  /\ Len(code) = Len(pos) /\ lineNbr \in 0 .. Len(pos) /\ lineNbr < Len(pos)
           /\ lineNbr + 1 \in 1 .. Len(pos) /\ words = MeaningOf(q)
           /\ q \in 1 .. N /\ b < q /\ CodeLine(q) /\ InstructionsBefore(q) = lineNbr
           /\ \A j \in 1 .. N : b < j /\ j < q => ~CodeLine(j)
  <1> PICK n : n = Len(pos)
    OBVIOUS
  <1> DEFINE M == {MeaningOf(i) : i \in Nat}
  <1>1. n \in Nat /\ \A i \in 1 .. n : pos[i] \in Nat
    BY ListIs DEF LabellingBy
  <1>2. code \in [1 .. n -> M] /\ \A i \in 1 .. n : code[i] = MeaningOf(pos[i])
    BY <1>1 DEF LabellingBy, Follow
  <1>3. Len(code) = n
    BY <1>1, <1>2, FunctionSeq
  <1>4. lineNbr \in 0 .. n /\ lineNbr < n /\ lineNbr + 1 \in 1 .. n
    BY <1>1, <1>3 DEF LabellingBy, InPass
  <1>5. words = MeaningOf(q)
    BY <1>2, <1>4 DEF words
  <1>6. /\ Lists(pos, Kept(b)) /\ lineNbr \in 0 .. Len(pos) /\ lineNbr < Len(pos)
        /\ \A i \in 1 .. Len(pos) : i <= lineNbr <=> pos[i] <= b
    BY <1>4 DEF LabellingBy
  <1>7. /\ q \in 1 .. N /\ b < q /\ CodeLine(q) /\ InstructionsBefore(q) = lineNbr
        /\ \A j \in 1 .. N : b < j /\ j < q => ~CodeLine(j)
    BY <1>6, NextKept
  <1>8. QED
    BY <1>3, <1>4, <1>5, <1>7

\* An instruction is left where it is.
LEMMA KeepLineKeeps ==
    ASSUME source \in Sources, LabellingAt(code, lineNbr, labels), KeepLine
    PROVE  LabellingAt(code', lineNbr', labels')
  <1>1. PICK b \in 0 .. N : \E pos : LabellingBy(code, lineNbr, labels, b, pos)
    BY DEF LabellingAt, LabellingBy
  <1>2. PICK pos : LabellingBy(code, lineNbr, labels, b, pos)
    BY <1>1
  <1> PICK m : m = lineNbr + 1
    OBVIOUS
  <1> PICK q : q = pos[m]
    OBVIOUS
  <1>3. InPass("labelling") /\ ~IsLabel(words)
    BY DEF KeepLine
  <1>4. code' = code /\ labels' = labels /\ lineNbr' = m
    BY DEF KeepLine
  <1>5. /\ lineNbr \in 0 .. Len(pos) /\ m \in 1 .. Len(pos) /\ words = MeaningOf(q)
        /\ q \in 1 .. N /\ b < q /\ CodeLine(q)
        /\ \A j \in 1 .. N : b < j /\ j < q => ~CodeLine(j)
    BY <1>2, <1>3, LookedAt
  <1>6. N \in Nat /\ b \in Nat /\ q \in Nat /\ q \in 0 .. N
    BY <1>5, SourceIs
  <1>7. Instruction(q) /\ ~Mark(q)
    BY <1>3, <1>5, CodeLineIs
  <1>8. \A j \in 1 .. N : CodeLine(j) => j <= b \/ j = q \/ j > q
    BY <1>5, <1>6
  <1>9. Kept(q) = Kept(b)
    <2>1. ASSUME NEW j \in Kept(b) PROVE j \in Kept(q)
      <3>1. j \in 1 .. N /\ CodeLine(j) /\ (j > b \/ Instruction(j))
        BY DEF Kept
      <3>2. j > q \/ Instruction(j)
        BY <1>6, <1>7, <1>8, <3>1
      <3>3. QED
        BY <3>1, <3>2 DEF Kept
    <2>2. ASSUME NEW j \in Kept(q) PROVE j \in Kept(b)
      <3>1. j \in 1 .. N /\ CodeLine(j) /\ (j > q \/ Instruction(j))
        BY DEF Kept
      <3>2. j > b \/ Instruction(j)
        BY <1>5, <1>6, <3>1
      <3>3. QED
        BY <3>1, <3>2 DEF Kept
    <2>3. QED
      BY <2>1, <2>2
  <1>10. Marks(q) = Marks(b)
    <2>1. \A j \in 1 .. q : Mark(j) => j \in 1 .. b
      BY <1>5, <1>6, <1>7, <1>8, CodeLineIs
    <2>2. \A j \in 1 .. b : j \in 1 .. q
      BY <1>5, <1>6
    <2>3. QED
      BY <2>1, <2>2 DEF Marks
  <1>11. Lists(pos, Kept(q)) /\ Follow(code, pos) /\ LabelsTell(q, labels)
    BY <1>2, <1>9, <1>10 DEF LabellingBy, LabelsTell
  <1> PICK n : n = Len(pos)
    OBVIOUS
  <1>12. /\ n \in Nat /\ \A i \in 1 .. n : pos[i] \in Nat
         /\ \A i, k \in 1 .. n : i < k => pos[i] < pos[k]
    BY <1>11, ListIs
  <1>13. \A i \in 1 .. n : i <= m <=> pos[i] <= q
    <2> SUFFICES ASSUME NEW i \in 1 .. n PROVE i <= m <=> pos[i] <= q
      OBVIOUS
    <2>1. m \in 1 .. n
      BY <1>5
    <2>2. i < m => pos[i] < q
      BY <1>12, <2>1
    <2>3. m < i => q < pos[i]
      BY <1>12, <2>1
    <2>4. i < m \/ i = m \/ m < i
      BY <1>12, <2>1
    <2>5. pos[i] \in Nat
      BY <1>12
    <2>6. QED
      BY <1>6, <1>12, <2>1, <2>2, <2>3, <2>4, <2>5
  <1>14. m \in 0 .. n
    BY <1>5, <1>12
  <1>15. QED
    BY <1>4, <1>6, <1>11, <1>13, <1>14 DEF LabellingAt

\* A label goes, with the number of the instruction that comes next: the lines
\* in front of it are all instructions.
LEMMA FindLabelKeeps ==
    ASSUME source \in Sources, LabellingAt(code, lineNbr, labels), FindLabel,
           pass' = "labelling"
    PROVE  LabellingAt(code', lineNbr', labels')
  <1>1. PICK b \in 0 .. N : \E pos : LabellingBy(code, lineNbr, labels, b, pos)
    BY DEF LabellingAt, LabellingBy
  <1>2. PICK pos : LabellingBy(code, lineNbr, labels, b, pos)
    BY <1>1
  <1> PICK m : m = lineNbr + 1
    OBVIOUS
  <1> PICK q : q = pos[m]
    OBVIOUS
  <1> PICK n : n = Len(pos)
    OBVIOUS
  <1> PICK p : p = RemoveAt(pos, m)
    OBVIOUS
  <1>3. InPass("labelling") /\ IsLabel(words)
    BY DEF FindLabel
  <1>4. /\ \A k \in DOMAIN labels : labels[k].name # LabelName[words[1]]
        /\ labels' = Append(labels, [name |-> LabelName[words[1]],
                                     address |-> Decimal[lineNbr]])
        /\ code' = RemoveAt(code, m) /\ lineNbr' = lineNbr
    BY DEF FindLabel, Twice, Fail
  <1>5. /\ lineNbr \in 0 .. n /\ m \in 1 .. n /\ words = MeaningOf(q)
        /\ q \in 1 .. N /\ b < q /\ CodeLine(q) /\ InstructionsBefore(q) = lineNbr
        /\ \A j \in 1 .. N : b < j /\ j < q => ~CodeLine(j)
    BY <1>2, <1>3, LookedAt
  <1>6. N \in Nat /\ b \in Nat /\ q \in Nat /\ q \in 0 .. N /\ lineNbr \in Nat
    BY <1>5, SourceIs
  <1>7. Mark(q) /\ ~Instruction(q)
    BY <1>3, <1>5, CodeLineIs
  <1>8. \A j \in 1 .. N : CodeLine(j) => j <= b \/ j = q \/ j > q
    BY <1>5, <1>6
  <1>9. Kept(q) = Kept(b) \ {q}
    <2>1. ASSUME NEW j \in Kept(b), j # q PROVE j \in Kept(q)
      <3>1. j \in 1 .. N /\ CodeLine(j) /\ (j > b \/ Instruction(j))
        BY DEF Kept
      <3>2. j > q \/ Instruction(j)
        BY <1>6, <1>8, <2>1, <3>1
      <3>3. QED
        BY <3>1, <3>2 DEF Kept
    <2>2. ASSUME NEW j \in Kept(q) PROVE j \in Kept(b) /\ j # q
      <3>1. j \in 1 .. N /\ CodeLine(j) /\ (j > q \/ Instruction(j))
        BY DEF Kept
      <3>2. j > b \/ Instruction(j)
        BY <1>5, <1>6, <3>1
      <3>3. j # q
        BY <1>6, <1>7, <3>1
      <3>4. QED
        BY <3>1, <3>2, <3>3 DEF Kept
    <2>3. QED
      BY <2>1, <2>2
  <1>10. /\ Lists(pos, Kept(b)) /\ Follow(code, pos) /\ LabelsTell(b, labels)
         /\ \A i \in 1 .. n : i <= lineNbr <=> pos[i] <= b
    BY <1>2 DEF LabellingBy
  <1>11. /\ n \in Nat /\ \A i \in 1 .. n : pos[i] \in Nat
         /\ \A i, k \in 1 .. n : i < k => pos[i] < pos[k]
    BY <1>10, ListIs
  <1>12. /\ Lists(p, Kept(q)) /\ Len(p) = n - 1
         /\ \A i \in 1 .. n - 1 : p[i] = IF i < m THEN pos[i] ELSE pos[i + 1]
    <2>1. m \in 1 .. Len(pos)
      BY <1>5
    <2>2. /\ Lists(p, Kept(b) \ {pos[m]}) /\ Len(p) = Len(pos) - 1
          /\ \A i \in 1 .. Len(pos) - 1 : p[i] = IF i < m THEN pos[i] ELSE pos[i + 1]
      BY <1>10, <2>1, ListsRemove
    <2>3. QED
      BY <1>9, <2>2
  <1>13. Follow(code', p)
    <2> DEFINE M == {MeaningOf(i) : i \in Nat}
    <2> PICK d : d = RemoveAt(code, m)
      OBVIOUS
    <2>1. code \in [1 .. n -> M] /\ \A i \in 1 .. n : code[i] = MeaningOf(pos[i])
      BY <1>10, <1>11 DEF Follow
    <2> HIDE DEF M
    <2>2. code \in Seq(M) /\ Len(code) = n
      BY <1>11, <2>1, FunctionSeq
    <2>3. m \in 1 .. Len(code)
      BY <1>5, <2>2
    <2>4. /\ d \in Seq(M) /\ Len(d) = n - 1
          /\ \A i \in 1 .. n - 1 : d[i] = IF i < m THEN code[i] ELSE code[i + 1]
      BY <2>2, <2>3, RemoveAtIs
    <2>5. \A i \in 1 .. n - 1 : d[i] = MeaningOf(p[i])
      <3> SUFFICES ASSUME NEW i \in 1 .. n - 1 PROVE d[i] = MeaningOf(p[i])
        OBVIOUS
      <3>1. i \in 1 .. n /\ i + 1 \in 1 .. n
        BY <1>11
      <3>2. QED
        BY <1>12, <2>1, <2>4, <3>1
    <2>6. d = [i \in 1 .. n - 1 |-> d[i]]
      BY <2>4, SeqFunction
    <2>7. d = [i \in 1 .. n - 1 |-> MeaningOf(p[i])]
      BY <2>5, <2>6
    <2>8. QED
      BY <1>4, <1>12, <2>7 DEF Follow
  <1>14. \A i \in 1 .. n - 1 : i <= lineNbr <=> p[i] <= q
    <2> SUFFICES ASSUME NEW i \in 1 .. n - 1 PROVE i <= lineNbr <=> p[i] <= q
      OBVIOUS
    <2>1. i \in 1 .. n /\ i + 1 \in 1 .. n /\ m \in 1 .. n
      BY <1>5, <1>11
    <2>2. CASE i < m
      <3>1. p[i] = pos[i] /\ pos[i] < q /\ pos[i] \in Nat /\ i <= lineNbr
        BY <1>6, <1>11, <1>12, <2>1, <2>2
      <3>2. QED
        BY <1>6, <3>1
    <2>3. CASE ~ (i < m)
      <3>1. m < i + 1 /\ ~ (i <= lineNbr)
        BY <1>6, <2>1, <2>3
      <3>2. p[i] = pos[i + 1] /\ q < pos[i + 1] /\ pos[i + 1] \in Nat
        BY <1>11, <1>12, <2>1, <2>3, <3>1
      <3>3. QED
        BY <1>6, <3>1, <3>2
    <2>4. QED
      BY <2>2, <2>3
  <1>15. lineNbr \in 0 .. n - 1
    BY <1>5, <1>6, <1>11
  <1>16. labels' = Append(labels, LabelOf(q))
    BY <1>4, <1>5 DEF LabelOf, NameOf
  <1>17. Marks(q) = Marks(b) \cup {q}
    <2>1. \A j \in 1 .. q : Mark(j) => j \in 1 .. b \/ j = q
      BY <1>5, <1>6, <1>8, CodeLineIs
    <2>2. q \in 1 .. q /\ \A j \in 1 .. b : j \in 1 .. q
      BY <1>5, <1>6
    <2>3. QED
      BY <1>7, <2>1, <2>2 DEF Marks
  <1>18. LabelsTell(q, labels')
    <2> PICK T : T = {LabelOf(j) : j \in Marks(q)}
      OBVIOUS
    <2> PICK k : k = Len(labels)
      OBVIOUS
    <2>1. labels \in Seq({LabelOf(j) : j \in Marks(b)})
      BY <1>10 DEF LabelsTell
    <2>2. k \in Nat /\ DOMAIN labels = 1 .. k
      BY <2>1, LenProperties
    <2>3. labels \in Seq(T)
      <3>1. \A i \in 1 .. k : labels[i] \in {LabelOf(j) : j \in Marks(b)}
        BY <2>1, ElementOfSeq
      <3>2. \A i \in 1 .. k : labels[i] \in T
        BY <1>17, <3>1
      <3>3. labels = [i \in 1 .. k |-> labels[i]]
        BY <2>1, SeqFunction
      <3>4. labels \in [1 .. k -> T]
        BY <3>2, <3>3
      <3>5. QED
        BY <2>2, <3>4, FunctionSeq
    <2>4. LabelOf(q) \in T
      BY <1>17
    <2>5. /\ labels' \in Seq(T) /\ Len(labels') = k + 1 /\ labels'[k + 1] = LabelOf(q)
          /\ \A i \in 1 .. k : labels'[i] = labels[i]
      BY <1>16, <2>3, <2>4, AppendProperties
    <2>6. \A j \in Marks(q) : \E i \in 1 .. k + 1 : labels'[i].name = NameOf(j)
      <3> SUFFICES ASSUME NEW j \in Marks(q)
                   PROVE  \E i \in 1 .. k + 1 : labels'[i].name = NameOf(j)
        OBVIOUS
      <3>1. CASE j = q
        <4>1. labels'[k + 1].name = NameOf(j)
          BY <2>5, <3>1 DEF LabelOf
        <4>2. k + 1 \in 1 .. k + 1
          BY <2>2
        <4>3. QED
          BY <4>1, <4>2
      <3>2. CASE j \in Marks(b)
        <4>1. PICK i \in 1 .. k : labels[i].name = NameOf(j)
          BY <1>10, <3>2 DEF LabelsTell
        <4>2. i \in 1 .. k + 1 /\ labels'[i].name = NameOf(j)
          BY <2>2, <2>5, <4>1
        <4>3. QED
          BY <4>2
      <3>3. QED
        BY <1>17, <3>1, <3>2
    <2>7. \A j \in Marks(b) : NameOf(j) # NameOf(q)
      <3> SUFFICES ASSUME NEW j \in Marks(b), NameOf(j) = NameOf(q) PROVE FALSE
        OBVIOUS
      <3>1. PICK i \in 1 .. k : labels[i].name = NameOf(j)
        BY <1>10 DEF LabelsTell
      <3>2. labels[i].name # NameOf(q)
        BY <1>4, <1>5, <2>2 DEF NameOf
      <3>3. QED
        BY <3>1, <3>2
    <2>8. \A i, j \in Marks(q) : NameOf(i) = NameOf(j) => i = j
      BY <1>10, <1>17, <2>7 DEF LabelsTell
    <2>9. QED
      BY <2>5, <2>6, <2>8 DEF LabelsTell
  <1>19. LabellingBy(code', lineNbr', labels', q, p)
    BY <1>4, <1>12, <1>13, <1>14, <1>15, <1>18 DEF LabellingBy
  <1>20. QED
    BY <1>6, <1>19 DEF LabellingAt, LabellingBy

\* All labels are out, and no address is in.
LEMMA EndLabellingStarts ==
    ASSUME source \in Sources, LabellingAt(code, lineNbr, labels), lineNbr = Len(code)
    PROVE  ResolvingAt(code, 0, labels)
  <1>1. PICK b \in 0 .. N : \E pos : LabellingBy(code, lineNbr, labels, b, pos)
    BY DEF LabellingAt, LabellingBy
  <1>2. PICK pos : LabellingBy(code, lineNbr, labels, b, pos)
    BY <1>1
  <1> PICK n : n = Len(pos)
    OBVIOUS
  <1> DEFINE M == {MeaningOf(i) : i \in Nat}
  <1>3. /\ Lists(pos, Kept(b)) /\ Follow(code, pos) /\ LabelsTell(b, labels)
        /\ \A i \in 1 .. n : i <= lineNbr <=> pos[i] <= b
    BY <1>2 DEF LabellingBy
  <1>4. /\ n \in Nat /\ \A i \in 1 .. n : pos[i] \in Nat
        /\ \A j \in Kept(b) : \E i \in 1 .. n : pos[i] = j
    BY <1>3, ListIs
  <1>5. code = [i \in 1 .. n |-> MeaningOf(pos[i])] /\ code \in [1 .. n -> M]
    BY <1>3, <1>4 DEF Follow
  <1>6. lineNbr = n
    BY <1>4, <1>5, FunctionSeq
  <1>7. N \in Nat /\ b \in Nat /\ b <= N
    BY SourceIs
  <1>8. \A j \in 1 .. N : CodeLine(j) => j <= b
    <2> SUFFICES ASSUME NEW j \in 1 .. N, CodeLine(j), j > b PROVE FALSE
      BY <1>7
    <2>1. j \in Kept(b)
      BY DEF Kept
    <2>2. PICK i \in 1 .. n : pos[i] = j
      BY <1>4, <2>1
    <2>3. j <= b
      BY <1>3, <1>4, <1>6, <2>2
    <2>4. QED
      BY <1>7, <2>3
  <1>9. Kept(b) = Ins
    <2>1. \A j \in 1 .. N : CodeLine(j) => ~ (j > b)
      BY <1>7, <1>8
    <2>2. QED
      BY <2>1, CodeLineIs DEF Kept, Ins
  <1>10. Marks(N) = Marks(b)
    <2>1. \A j \in 1 .. N : Mark(j) => j \in 1 .. b
      BY <1>7, <1>8, CodeLineIs
    <2>2. \A j \in 1 .. b : j \in 1 .. N
      BY <1>7
    <2>3. QED
      BY <2>1, <2>2 DEF Marks
  <1>11. Lists(pos, Ins) /\ LabelsTell(N, labels)
    BY <1>3, <1>9, <1>10 DEF LabelsTell
  <1>12. \A i \in 1 .. n : ~ (i <= 0)
    BY <1>4
  <1>13. code = [i \in 1 .. n |-> IF i <= 0 THEN ResolvedLine(pos[i]) ELSE MeaningOf(pos[i])]
    BY <1>5, <1>12
  <1>14. 0 \in 0 .. n
    BY <1>4
  <1>15. QED
    BY <1>11, <1>13, <1>14 DEF ResolvingAt

-----------------------------------------------------------------------------
(* The pass over the arguments.                                            *)

\* A line keeps its words but the second.
LEMMA ResolvedIsLine ==
    ASSUME source \in Sources, NEW j \in Ins
    PROVE  /\ Len(ResolvedLine(j)) = Len(source[j])
           /\ ResolvedLine(j)[1] = MeaningOf(j)[1]
           /\ Len(source[j]) >= 2 => ResolvedLine(j)[2] = Address(MeaningOf(j)[2])
           /\ Len(source[j]) \in Nat /\ Len(source[j]) >= 1
           /\ Len(MeaningOf(j)) = Len(source[j])
           /\ j \in 1 .. N
  <1> PICK n : n = Len(source[j])
    OBVIOUS
  <1> PICK line : line = MeaningOf(j)
    OBVIOUS
  <1> PICK x : x = Address(line[2])
    OBVIOUS
  <1> DEFINE V == {line[u] : u \in DOMAIN source[j]} \cup {x}
  <1>1. j \in 1 .. N /\ source[j] # << >>
    BY DEF Ins, Instruction
  <1>2. n \in Nat /\ n >= 1 /\ Len(line) = n /\ DOMAIN line = 1 .. n
    BY <1>1, MeaningIs
  <1>3. line \in [1 .. n -> V]
    BY <1>2 DEF MeaningOf
  <1> HIDE DEF V
  <1>4. CASE n >= 2
    <2> PICK r : r = [line EXCEPT ![2] = x]
      OBVIOUS
    <2>1. ResolvedLine(j) = r
      BY <1>4 DEF ResolvedLine
    <2>2. x \in V
      BY DEF V
    <2>3. r \in [1 .. n -> V]
      BY <1>3, <2>2
    <2>4. Len(r) = n
      BY <1>2, <2>3, FunctionSeq
    <2>5. 1 \in 1 .. n /\ 2 \in 1 .. n
      BY <1>2, <1>4
    <2>6. r[1] = line[1] /\ r[2] = x
      BY <1>3, <2>5
    <2>7. QED
      BY <1>1, <1>2, <2>1, <2>4, <2>6
  <1>5. CASE ~ (n >= 2)
    <2>1. ResolvedLine(j) = line
      BY <1>5 DEF ResolvedLine
    <2>2. QED
      BY <1>1, <1>2, <1>5, <2>1
  <1>6. QED
    BY <1>4, <1>5

\* One more line has its address.
LEMMA ResolveLineKeeps ==
    ASSUME source \in Sources, PlainNames, ResolvingAt(code, lineNbr, labels),
           ResolveLine, pass' = "resolving"
    PROVE  ResolvingAt(code', lineNbr', labels')
  <1>1. PICK pos :
          /\ Lists(pos, Ins) /\ lineNbr \in 0 .. Len(pos)
          /\ code = [i \in 1 .. Len(pos) |-> IF i <= lineNbr THEN ResolvedLine(pos[i])
                                                             ELSE MeaningOf(pos[i])]
          /\ LabelsTell(N, labels)
    BY DEF ResolvingAt
  <1> PICK n : n = Len(pos)
    OBVIOUS
  <1> PICK m : m = lineNbr + 1
    OBVIOUS
  <1> PICK q : q = pos[m]
    OBVIOUS
  <1> DEFINE M == {MeaningOf(i) : i \in Nat} \cup {ResolvedLine(i) : i \in Nat}
  <1>2. n \in Nat /\ \A i \in 1 .. n : pos[i] \in Nat /\ pos[i] \in Ins
    BY <1>1, ListIs
  <1>3. /\ \A i \in 1 .. n : code[i] = IF i <= lineNbr THEN ResolvedLine(pos[i])
                                                       ELSE MeaningOf(pos[i])
        /\ code \in [1 .. n -> M]
    BY <1>1, <1>2
  <1>4. Len(code) = n
    BY <1>2, <1>3, FunctionSeq
  <1>5. lineNbr \in Nat /\ lineNbr < n /\ m \in 1 .. n
    BY <1>1, <1>2, <1>4 DEF ResolveLine, InPass
  <1> HIDE DEF M
  <1>6. ~ (m <= lineNbr) /\ \A i \in 1 .. n : i <= m <=> i <= lineNbr \/ i = m
    BY <1>5
  <1>7. code[m] = MeaningOf(q) /\ words = code[m]
    BY <1>3, <1>5, <1>6 DEF words
  <1>8. q \in Ins /\ q \in 1 .. N
    BY <1>2, <1>5 DEF Ins
  <1>9. Len(MeaningOf(q)) = Len(source[q]) /\ Len(source[q]) \in Nat
    BY <1>8, MeaningIs
  <1>10. labels' = labels /\ lineNbr' = m
    BY DEF ResolveLine, Crash
  <1>11. DOMAIN code' = 1 .. n /\ code'[m] = ResolvedLine(q)
         /\ \A i \in 1 .. n : i # m => code'[i] = code[i]
    <2>1. CASE Len(words) >= 2 /\ code' = [code EXCEPT ![lineNbr + 1][2] = Resolved(@)]
      <3>1. Resolved(MeaningOf(q)[2]) = Address(MeaningOf(q)[2])
        BY <1>1, ResolvedAddress
      <3>2. code' = [code EXCEPT ![m] = [code[m] EXCEPT ![2] = Resolved(code[m][2])]]
        BY <2>1
      <3>3. [code[m] EXCEPT ![2] = Resolved(code[m][2])]
              = [MeaningOf(q) EXCEPT ![2] = Address(MeaningOf(q)[2])]
        BY <1>7, <3>1
      <3>4. ResolvedLine(q) = [MeaningOf(q) EXCEPT ![2] = Address(MeaningOf(q)[2])]
        BY <1>7, <1>9, <2>1 DEF ResolvedLine
      <3> PICK v : v = ResolvedLine(q)
        OBVIOUS
      <3>5. code' = [code EXCEPT ![m] = v]
        BY <3>2, <3>3, <3>4
      <3>6. QED
        BY <1>3, <1>5, <3>5
    <2>2. CASE Len(words) = 1 /\ code' = code
      <3>1. ResolvedLine(q) = MeaningOf(q)
        BY <1>7, <1>9, <2>2 DEF ResolvedLine
      <3>2. QED
        BY <1>3, <1>7, <2>2, <3>1
    <2>3. QED
      BY <2>1, <2>2 DEF ResolveLine, Crash
  <1>12. code' = [i \in 1 .. n |-> code'[i]]
    <2>1. CASE code' = code
      BY <1>3, <2>1
    <2>2. CASE code' = [code EXCEPT ![lineNbr + 1][2] = Resolved(@)]
      BY <1>3, <2>2
    <2>3. QED
      BY <2>1, <2>2 DEF ResolveLine, Crash
  <1>13. \A i \in 1 .. n : code'[i] = IF i <= m THEN ResolvedLine(pos[i])
                                               ELSE MeaningOf(pos[i])
    <2> SUFFICES ASSUME NEW i \in 1 .. n
                 PROVE  code'[i] = IF i <= m THEN ResolvedLine(pos[i]) ELSE MeaningOf(pos[i])
      OBVIOUS
    <2>1. CASE i = m
      BY <1>5, <1>6, <1>11, <2>1
    <2>2. CASE i # m
      <3>1. i <= m <=> i <= lineNbr
        BY <1>6, <2>2
      <3>2. code'[i] = code[i]
        BY <1>11, <2>2
      <3>3. QED
        BY <1>3, <3>1, <3>2
    <2>3. QED
      BY <2>1, <2>2
  <1>14. code' = [i \in 1 .. n |-> IF i <= m THEN ResolvedLine(pos[i])
                                            ELSE MeaningOf(pos[i])]
    BY <1>12, <1>13
  <1>15. m \in 0 .. n
    BY <1>2, <1>5
  <1>16. QED
    BY <1>1, <1>10, <1>14, <1>15 DEF ResolvingAt

\* All arguments are addresses or what they were.
LEMMA EndResolvingStarts ==
    ASSUME source \in Sources, ResolvingAt(code, lineNbr, labels), lineNbr = Len(code)
    PROVE  TranslatingAt(code, 0, labels, << >>)
  <1>1. PICK pos :
          /\ Lists(pos, Ins)
          /\ code = [i \in 1 .. Len(pos) |-> IF i <= lineNbr THEN ResolvedLine(pos[i])
                                                             ELSE MeaningOf(pos[i])]
          /\ LabelsTell(N, labels)
    BY DEF ResolvingAt
  <1> PICK n : n = Len(pos)
    OBVIOUS
  <1> DEFINE M == {MeaningOf(i) : i \in Nat} \cup {ResolvedLine(i) : i \in Nat}
  <1>2. n \in Nat /\ \A i \in 1 .. n : pos[i] \in Nat
    BY <1>1, ListIs
  <1>3. code \in [1 .. n -> M]
    BY <1>1, <1>2
  <1>4. lineNbr = n
    BY <1>2, <1>3, FunctionSeq
  <1>5. \A i \in 1 .. n : i <= lineNbr
    BY <1>2, <1>4
  <1>6. code = [i \in 1 .. n |-> ResolvedLine(pos[i])]
    BY <1>1, <1>5
  <1>7. 0 \in 0 .. n /\ << >> \in Seq(Codes) /\ Len(<< >>) = 0 /\ 1 .. 0 = {}
    BY <1>2, EmptySeq
  <1>8. QED
    BY <1>1, <1>6, <1>7 DEF TranslatingAt

-----------------------------------------------------------------------------
(* The translation.                                                        *)

\* What a line that is translated had to be, and its word.
LEMMA TranslatesLine ==
    ASSUME source \in Sources, NEW q \in Ins, NEW line, line = ResolvedLine(q),
           line[1] \in DOMAIN Opcode, Len(line) = Arguments(line[1]) + 1,
           Arguments(line[1]) = 1 => IsValue(line[2])
    PROVE  /\ Right(q)
           /\ CodeOf(q) = Opcode[line[1]] * ByteMod
                            + IF Arguments(line[1]) = 0 THEN 0 ELSE Value(line[2])
  <1> PICK o : o = MeaningOf(q)
    OBVIOUS
  <1> PICK n : n = Len(source[q])
    OBVIOUS
  <1> PICK k : k = Arguments(line[1])
    OBVIOUS
  <1>1. /\ Len(line) = n /\ line[1] = o[1] /\ n \in Nat /\ n >= 1 /\ Len(o) = n
        /\ n >= 2 => line[2] = Address(o[2])
        /\ q \in 1 .. N
    BY ResolvedIsLine
  <1>2. k \in {0, 1} /\ n = k + 1
    BY <1>1 DEF Arguments
  <1>3. (n = 1 <=> k = 0) /\ (n = 2 <=> k = 1)
    BY <1>2
  <1>4. CASE k = 0
    <2>1. Right(q)
      BY <1>1, <1>3, <1>4 DEF Right
    <2>2. CodeOf(q) = Opcode[line[1]] * ByteMod + 0
      BY <1>1, <1>3, <1>4 DEF CodeOf
    <2>3. QED
      BY <1>4, <2>1, <2>2
  <1>5. CASE k = 1
    <2> PICK w : w = o[2]
      OBVIOUS
    <2>1. n = 2 /\ line[2] = Address(w) /\ IsValue(Address(w))
      BY <1>1, <1>3, <1>5
    <2>2. ArgumentOf(w) = Value(Address(w))
          /\ IF MarksOf(w) = {} THEN IsValue(w) ELSE ArgumentOf(w) < ByteMod
      <3>1. CASE MarksOf(w) = {}
        <4>1. Address(w) = w
          BY <3>1 DEF Address
        <4>2. ArgumentOf(w) = Value(w)
          BY <2>1, <3>1, <4>1 DEF ArgumentOf
        <4>3. QED
          BY <2>1, <3>1, <4>1, <4>2
      <3>2. CASE MarksOf(w) # {}
        <4> PICK j : j = Some(MarksOf(w))
          OBVIOUS
        <4> PICK x : x = InstructionsBefore(j)
          OBVIOUS
        <4>1. j \in MarksOf(w)
          BY <3>2 DEF Some
        <4>2. j \in 1 .. N
          BY <4>1, SourceIs DEF MarksOf
        <4>3. x \in 0 .. N /\ Numeral[Decimal[x]] = x
          BY <4>2, BeforeIs
        <4>4. Address(w) = Decimal[x]
          BY <3>2 DEF Address
        <4>5. ArgumentOf(w) = x
          BY <3>2 DEF ArgumentOf, Some
        <4>6. ByteMod \in Nat /\ ByteMod > 1
          BY AssemblerAssumption
        <4>7. x \in -(ByteMod \div 2) .. ByteMod - 1
          BY <2>1, <4>3, <4>4 DEF IsValue
        <4>8. x \in Nat /\ x < ByteMod
          <5>1. N \in Nat
            BY SourceIs
          <5>2. x \in Nat
            BY <4>3, <5>1
          <5>3. QED
            BY <4>6, <4>7, <5>2
        <4>9. x % ByteMod = x
          BY <4>6, <4>8
        <4>10. Value(Address(w)) = x
          BY <4>3, <4>4, <4>9 DEF Value
        <4>11. QED
          BY <3>2, <4>5, <4>8, <4>10
      <3>3. QED
        BY <3>1, <3>2
    <2>3. Right(q)
      BY <1>1, <2>1, <2>2 DEF Right
    <2>4. CodeOf(q) = Opcode[line[1]] * ByteMod + Value(line[2])
      BY <1>1, <2>1, <2>2 DEF CodeOf
    <2>5. QED
      BY <1>5, <2>3, <2>4
  <1>6. QED
    BY <1>2, <1>4, <1>5

\* One more word, of a line that may have it.
LEMMA TranslateKeeps ==
    ASSUME source \in Sources, TranslatingAt(code, lineNbr, labels, instructions),
           Translate
    PROVE  TranslatingAt(code', lineNbr', labels', instructions')
  <1>1. PICK pos :
          /\ Lists(pos, Ins) /\ lineNbr \in 0 .. Len(pos)
          /\ code = [i \in 1 .. Len(pos) |-> ResolvedLine(pos[i])]
          /\ LabelsTell(N, labels)
          /\ instructions \in Seq(Codes) /\ Len(instructions) = lineNbr
          /\ \A i \in 1 .. lineNbr : instructions[i] = CodeOf(pos[i]) /\ Right(pos[i])
    BY DEF TranslatingAt
  <1> PICK n : n = Len(pos)
    OBVIOUS
  <1> PICK m : m = lineNbr + 1
    OBVIOUS
  <1> PICK q : q = pos[m]
    OBVIOUS
  <1> DEFINE M == {ResolvedLine(i) : i \in Nat}
  <1>2. n \in Nat /\ \A i \in 1 .. n : pos[i] \in Nat /\ pos[i] \in Ins
    BY <1>1, ListIs
  <1>3. code \in [1 .. n -> M]
    BY <1>1, <1>2
  <1>4. Len(code) = n
    BY <1>2, <1>3, FunctionSeq
  <1>5. lineNbr \in Nat /\ lineNbr < n /\ m \in 1 .. n
    BY <1>1, <1>2, <1>4 DEF Translate, InPass
  <1>6. words = ResolvedLine(q) /\ q \in Ins
    BY <1>1, <1>2, <1>5 DEF words
  <1>7. /\ words[1] \in DOMAIN Opcode /\ Len(words) = Arguments(words[1]) + 1
        /\ Arguments(words[1]) = 1 => IsValue(words[2])
    BY DEF Translate, RightCount
  <1>8. /\ instructions' = Append(instructions,
             Opcode[words[1]] * ByteMod
               + IF Arguments(words[1]) = 0 THEN 0 ELSE Value(words[2]))
        /\ lineNbr' = m /\ labels' = labels /\ code' = code
    BY DEF Translate
  <1>9. /\ Right(q)
        /\ CodeOf(q) = Opcode[words[1]] * ByteMod
                         + IF Arguments(words[1]) = 0 THEN 0 ELSE Value(words[2])
    <2> PICK line : line = words
      OBVIOUS
    <2>1. /\ line = ResolvedLine(q)
          /\ line[1] \in DOMAIN Opcode /\ Len(line) = Arguments(line[1]) + 1
          /\ Arguments(line[1]) = 1 => IsValue(line[2])
      BY <1>6, <1>7
    <2>2. /\ Right(q)
          /\ CodeOf(q) = Opcode[line[1]] * ByteMod
                           + IF Arguments(line[1]) = 0 THEN 0 ELSE Value(line[2])
      BY <1>6, <2>1, TranslatesLine
    <2>3. QED
      BY <2>2
  <1>10. CodeOf(q) \in Codes /\ instructions' = Append(instructions, CodeOf(q))
    BY <1>6, <1>8, <1>9 DEF Codes
  <1>11. /\ instructions' \in Seq(Codes) /\ Len(instructions') = m
         /\ instructions'[m] = CodeOf(q)
         /\ \A i \in 1 .. lineNbr : instructions'[i] = instructions[i]
    BY <1>1, <1>10, AppendProperties
  <1>12. \A i \in 1 .. m : instructions'[i] = CodeOf(pos[i]) /\ Right(pos[i])
    <2>1. \A i \in 1 .. m : i \in 1 .. lineNbr \/ i = m
      BY <1>5
    <2>2. QED
      BY <1>1, <1>9, <1>11, <2>1
  <1>13. m \in 0 .. n
    BY <1>2, <1>5
  <1>14. QED
    BY <1>1, <1>8, <1>11, <1>12, <1>13 DEF TranslatingAt

\* Every instruction has its word.
LEMMA EndTranslatingStarts ==
    ASSUME source \in Sources, TranslatingAt(code, lineNbr, labels, instructions),
           lineNbr = Len(code)
    PROVE  DoneAt(labels, instructions)
  <1>1. PICK pos :
          /\ Lists(pos, Ins)
          /\ code = [i \in 1 .. Len(pos) |-> ResolvedLine(pos[i])]
          /\ LabelsTell(N, labels) /\ Len(instructions) = lineNbr
          /\ \A i \in 1 .. lineNbr : instructions[i] = CodeOf(pos[i]) /\ Right(pos[i])
    BY DEF TranslatingAt
  <1> PICK n : n = Len(pos)
    OBVIOUS
  <1> DEFINE M == {ResolvedLine(i) : i \in Nat}
  <1>2. n \in Nat /\ \A i \in 1 .. n : pos[i] \in Nat
    BY <1>1, ListIs
  <1>3. code \in [1 .. n -> M]
    BY <1>1, <1>2
  <1>4. lineNbr = n
    BY <1>2, <1>3, FunctionSeq
  <1>5. QED
    BY <1>1, <1>4 DEF DoneAt

-----------------------------------------------------------------------------
(* The program and what it shows of the source.                            *)
\* Word k is that of the k-th instruction.
LEMMA DoneTranslates ==
    ASSUME source \in Sources, DoneAt(labels, instructions)
    PROVE  /\ Len(instructions) = InstructionsBefore(Len(source) + 1)
           /\ \A j \in DOMAIN source :
                Instruction(j) =>
                  /\ instructions[InstructionsBefore(j) + 1] = CodeOf(j)
                  /\ Right(j)
  <1>1. PICK pos :
          /\ Lists(pos, Ins) /\ Len(instructions) = Len(pos)
          /\ \A i \in 1 .. Len(pos) : instructions[i] = CodeOf(pos[i]) /\ Right(pos[i])
    BY DEF DoneAt
  <1> PICK n : n = Len(pos)
    OBVIOUS
  <1>2. /\ n \in Nat /\ \A i \in 1 .. n : pos[i] \in Ins
        /\ \A j \in Ins : \E i \in 1 .. n : pos[i] = j
    BY <1>1, ListIs
  <1>3. N \in Nat /\ DOMAIN source = 1 .. N
    BY SourceIs
  <1>4. InstructionsBefore(Len(source) + 1) = n
    <2> PICK T : T = {pos[i] : i \in 1 .. n}
      OBVIOUS
    <2>1. T = Ins
      BY <1>2
    <2>2. n \in 0 .. Len(pos)
      BY <1>2
    <2>3. Cardinality(T) = n
      BY <1>1, <2>2, ListCounts
    <2>4. Len(source) = N /\ N + 1 - 1 = N
      BY <1>3 DEF N
    <2>5. Ins = {i \in 1 .. Len(source) + 1 - 1 : Instruction(i)}
      BY <2>4 DEF Ins
    <2>6. InstructionsBefore(Len(source) + 1)
            = Cardinality({i \in 1 .. Len(source) + 1 - 1 : Instruction(i)})
      BY DEF InstructionsBefore
    <2>7. QED
      BY <2>1, <2>3, <2>5, <2>6
  <1>5. ASSUME NEW j \in DOMAIN source, Instruction(j)
        PROVE  instructions[InstructionsBefore(j) + 1] = CodeOf(j) /\ Right(j)
    <2>1. j \in 1 .. N /\ j \in Ins
      BY <1>3, <1>5 DEF Ins
    <2>2. PICK k \in 1 .. n : pos[k] = j
      BY <1>2, <2>1
    <2>3. Cardinality({i \in Ins : i < j}) = k - 1
      BY <1>1, <2>2, ListBefore
    <2>4. {i \in 1 .. j - 1 : Instruction(i)} = {i \in Ins : i < j}
      BY <1>3, <2>1 DEF Ins
    <2>5. InstructionsBefore(j) = k - 1
      BY <2>3, <2>4 DEF InstructionsBefore
    <2>6. InstructionsBefore(j) + 1 = k
      BY <1>2, <2>5
    <2>7. QED
      BY <1>1, <2>2, <2>6
  <1>6. QED
    BY <1>1, <1>4, <1>5

\* Before the first line is read the invariant holds.
LEMMA AssemblerInvStarts ==
    ASSUME AssemblerInit
    PROVE  AssemblerInv
  <1>1. source \in Sources
    BY DEF AssemblerInit
  <1>2. source \in Seq(Seq(STRING)) /\ N \in Nat
    BY <1>1, SourceIs
  <1>3. Defs(0) = {} /\ Lines(0) = {}
    BY DEF Defs, Lines
  <1>4. Len(<< >>) = 0 /\ 1 .. 0 = {}
    BY EmptySeq
  <1>5. Lists(<< >>, Defs(0)) /\ Lists(<< >>, Lines(0))
    BY <1>3, ListsNone
  <1>6. DefinesFollow(<< >>, << >>) /\ Follow(<< >>, << >>)
    BY <1>4 DEF DefinesFollow, Follow
  <1>7. ReadingAt(source, << >>, << >>)
    <2>1. 0 \in 0 .. N /\ Len(source) = N - 0 /\ \A i \in 1 .. N - 0 : source[i] = source[0 + i]
      BY <1>2 DEF N
    <2>2. QED
      BY <1>2, <1>5, <1>6, <2>1 DEF ReadingAt
  <1>8. QED
    BY <1>1, <1>7 DEF AssemblerInit, AssemblerInv, AtPass

\* No step of a pass breaks it, nor one from a pass to the next.
LEMMA AssemblerInvStep ==
    ASSUME AssemblerInv, [AssemblerNext]_vars
    PROVE  AssemblerInv'
  <1>1. source' = source /\ source \in Sources
    BY DEF AssemblerInv, AssemblerNext, vars, ReadLine, EndReading, EndPass, NextPass,
           FindLabel, KeepLine, ResolveLine, Translate, Refuse
  <1> SUFFICES ASSUME NoChains, PlainNames PROVE AtPass'
    BY <1>1, SourceSame DEF AssemblerInv
  <1>2. AtPass
    BY DEF AssemblerInv
  <1>3. /\ ReadingAt(todo', defines', code') => ReadingAt(todo, defines, code)'
        /\ LabellingAt(code', lineNbr', labels') => LabellingAt(code, lineNbr, labels)'
        /\ ResolvingAt(code', lineNbr', labels') => ResolvingAt(code, lineNbr, labels)'
        /\ TranslatingAt(code', lineNbr', labels', instructions')
             => TranslatingAt(code, lineNbr, labels, instructions)'
        /\ DoneAt(labels', instructions') => DoneAt(labels, instructions)'
    BY <1>1, StageSame
  <1>4. CASE ReadLine
    BY <1>1, <1>2, <1>3, <1>4, ReadLineKeeps DEF AtPass, ReadLine, Fail, Crash
  <1>5. CASE EndReading
    BY <1>1, <1>2, <1>3, <1>5, EndReadingStarts DEF AtPass, EndReading, NextPass
  <1>6. CASE FindLabel
    BY <1>1, <1>2, <1>3, <1>6, FindLabelKeeps DEF AtPass, FindLabel, InPass, Twice, Fail
  <1>7. CASE KeepLine
    BY <1>1, <1>2, <1>3, <1>7, KeepLineKeeps DEF AtPass, KeepLine, InPass
  <1>8. CASE EndPass("labelling", "resolving")
    BY <1>1, <1>2, <1>3, <1>8, EndLabellingStarts DEF AtPass, EndPass, NextPass
  <1>9. CASE ResolveLine
    BY <1>1, <1>2, <1>3, <1>9, ResolveLineKeeps DEF AtPass, ResolveLine, InPass, Crash
  <1>10. CASE EndPass("resolving", "translating")
    BY <1>1, <1>2, <1>3, <1>10, EndResolvingStarts DEF AtPass, EndPass, NextPass
  <1>11. CASE Translate
    BY <1>1, <1>2, <1>3, <1>11, TranslateKeeps DEF AtPass, Translate, InPass
  <1>12. CASE Refuse
    BY <1>12 DEF AtPass, Refuse, Fail, Crash
  <1>13. CASE EndPass("translating", "done")
    BY <1>1, <1>2, <1>3, <1>13, EndTranslatingStarts DEF AtPass, EndPass, NextPass
  <1>14. CASE UNCHANGED vars
    BY <1>2, <1>3, <1>14 DEF AtPass, vars
  <1>15. QED
    BY <1>4, <1>5, <1>6, <1>7, <1>8, <1>9, <1>10, <1>11, <1>12, <1>13, <1>14
       DEF AssemblerNext

\* So it always holds.
LEMMA AssemblerInvHolds == AssemblerSpec => []AssemblerInv
  <1>1. AssemblerInit => AssemblerInv
    BY AssemblerInvStarts
  <1>2. AssemblerInv /\ [AssemblerNext]_vars => AssemblerInv'
    BY AssemblerInvStep
  <1>3. QED
    BY <1>1, <1>2, PTL DEF AssemblerSpec

(* What is printed is what the source means, for every source: a word for  *)
(* each instruction in its order, labels standing for the instruction      *)
(* after them, defined words for what they were first defined as.  That    *)
(* the passes take lines away while they count them does not shift an      *)
(* address.                                                                *)
THEOREM TranslatesRight == AssemblerSpec => []Translates
  <1>1. AssemblerInv => Translates
    <2> SUFFICES ASSUME AssemblerInv, pass = "done", NoChains, PlainNames
                 PROVE  /\ Len(instructions) = InstructionsBefore(Len(source) + 1)
                        /\ \A j \in DOMAIN source :
                             Instruction(j) =>
                               instructions[InstructionsBefore(j) + 1] = CodeOf(j)
      BY DEF Translates, CodeOf
    <2>1. source \in Sources /\ DoneAt(labels, instructions)
      BY DEF AssemblerInv, AtPass
    <2>2. QED
      BY <2>1, DoneTranslates
  <1>2. QED
    BY <1>1, AssemblerInvHolds, PTL

(* Nothing is printed of a source with an error: a label is defined once,  *)
(* every instruction is known and has its number of words, and its         *)
(* argument fits a byte, an address too.                                   *)
THEOREM AcceptsRight == AssemblerSpec => []Accepts
  <1>1. AssemblerInv => Accepts
    <2> SUFFICES ASSUME AssemblerInv, pass = "done", NoChains, PlainNames,
                        NEW j \in DOMAIN source
                 PROVE  /\ Mark(j) => MarksOf(LabelName[MeaningOf(j)[1]]) = {j}
                        /\ Instruction(j) => Right(j)
      BY DEF Accepts, Right
    <2>1. source \in Sources /\ DoneAt(labels, instructions)
      BY DEF AssemblerInv, AtPass
    <2>2. LabelsTell(N, labels)
      BY <2>1 DEF DoneAt
    <2>3. DOMAIN source = 1 .. N
      BY <2>1, SourceIs
    <2>4. ASSUME Mark(j) PROVE MarksOf(NameOf(j)) = {j}
      <3>1. \A i \in DOMAIN source : Mark(i) /\ NameOf(i) = NameOf(j) => i = j
        BY <2>2, <2>3, <2>4 DEF LabelsTell, Marks
      <3>2. QED
        BY <2>4, <3>1 DEF MarksOf, NameOf
    <2>5. QED
      BY <2>1, <2>4, DoneTranslates DEF NameOf
  <1>2. QED
    BY <1>1, AssemblerInvHolds, PTL
==============================================================================
