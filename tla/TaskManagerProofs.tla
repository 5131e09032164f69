------------------------- MODULE TaskManagerProofs -------------------------
(***************************************************************************)
(* Theorems about the task manager, for every number of tasks, width of    *)
(* the counter, set of intervals and length of a behaviour.  The invariant *)
(* is built in layers, each proved with those before it: types; the clock, *)
(* which says that no overflow is lost; the count of tasks; the times of   *)
(* calls; what is on its way to the compare register; COMP itself; and the *)
(* time getTime returns.                                                   *)
(***************************************************************************)
EXTENDS TaskManager, FiniteSetTheorems, WellFoundedInduction, TLAPS

-----------------------------------------------------------------------------
(* The inductive invariants.                                               *)

\* An interrupt waits a tick, or as long as the compare interrupt may take.
Longest == IF IsrTicks > 1 THEN IsrTicks ELSE 1

Turns == timeOvf + (IF ovfFlag THEN 1 ELSE 0)

\* now is what the turns of the counter and the counter say: every overflow
\* was counted or still waits, and one that waits came not long ago.
ClockInv ==
    /\ isr.at # "none" => ~Atomic
    /\ lag <= Longest /\ (isr.at = "none" => lag <= 1)
    /\ now = Turns * Era + Cnt
    /\ ovfFlag => Cnt <= IF Atomic \/ isr.at # "none" THEN lag ELSE Longest + lag

Used == {i \in Slots : tasks[i].inUse}

\* Where registerTask has a task in use that it has not counted.
Uncounted == main.pc \in {"scan", "take", "read", "write", "enable", "count"}

Counts == IF Uncounted THEN Used \ {main.slot} ELSE Used

\* tasksInUse is never too low, and low enough while a task is registered; and
\* the loop takes no call time behind the tasks.
CountInv ==
    /\ Cardinality(Counts) + (IF main.pc = "uncount" THEN 1 ELSE 0) <= tasksInUse
    /\ Uncounted \/ main.pc \in {"nextRtc", "nextLow", "nextHigh"} =>
         tasksInUse < MaxTasks /\ main.slot \in Slots
    /\ main.pc = "take" => main.turn < MaxTasks

\* What getTime has so far, if it read the counter at tick t: that, and then
\* the lower byte of time_ovf at a later tick.
ReadAt(t) ==
    /\ t <= now
    /\ main.pc \in {"timeLow", "nextLow"} => main.time = t % Era
    /\ main.pc \in {"timeHigh", "nextHigh"} =>
         \E m \in t .. now : main.time = ((m \div Era) % Base) * Era + (t % Era)

\* A task has not been called too often, its next call is not before its
\* time, and a single shot in use is still to be called.
OnTime(i) ==
    /\ since[i] <= now
    /\ calls[i] * tasks[i].interval <= now - since[i]
    /\ tasks[i].singleShot => calls[i] <= 1
    /\ tasks[i].inUse =>
         /\ tasks[i].nextCallTime >= since[i] + (calls[i] + 1) * tasks[i].interval
         /\ tasks[i].singleShot => calls[i] = 0

\* NotEarly, and what the steps on the way to a call keep for it.
CallInv ==
    /\ \A i \in Slots : OnTime(i)
    /\ main.pc \in {"nextRtc", "nextLow", "nextHigh"} => calls[main.slot] = 0
    /\ main.pc \in {"nextLow", "nextHigh"} => ReadAt(main.asked)
    /\ isr.at = "task" => isr.time <= now

BeforeFirst(turns, time) ==
    \A i \in Slots : i < turns /\ tasks[i].inUse => time <= tasks[i].nextCallTime

BeforeAll(time) == \A i \in Slots : tasks[i].inUse => time <= tasks[i].nextCallTime

\* What setNextInterrupt may be about to write, if it read the counter at t:
\* two ticks from t, or from an era before t; or before every call.
Writable(next, t) ==
    \/ next = t + 2
    \/ next + Era = t + 2
    \/ next + Era > t /\ BeforeAll(next)

\* Both callers write what they computed within a tick, and what the loop of the
\* main program has found is before the calls it has looked at, unless it went
\* up.
WriteInv ==
    /\ ~main.raised =>
         /\ main.pc \in {"scan", "take"} => BeforeFirst(main.turn, main.next)
         /\ main.pc = "read" => BeforeAll(main.next)
         /\ main.pc = "write" =>
              Writable(main.next, now) \/ (lag = 1 /\ Writable(main.next, now - 1))
    /\ isr.at = "write" =>
         \/ Cnt = isr.time /\ Writable(isr.next, now)
         \/ Cnt # isr.time /\ Writable(isr.next, now - 1)

\* ComparesInTime, for the task that is registered as well once COMP is set.
CompInv ==
    isr.at = "none" /\ ~compFlag /\ ~astray =>
        \A i \in Slots :
            /\ tasks[i].inUse
            /\ ~(i = main.slot /\ main.pc \in {"scan", "take", "read", "write"})
            => \/ UntilCompare <= 2
               \/ now + UntilCompare <= tasks[i].nextCallTime + Era

\* The counter was read at some tick since getTime was called.
Asking == main.pc \in {"timeRtc", "timeLow", "timeHigh", "answered"}

TimeInv ==
    /\ Asking => main.asked <= now
    /\ main.pc \in {"timeRtc", "timeLow", "timeHigh"} => now - main.asked <= Era
    /\ main.pc \in {"timeLow", "timeHigh"} =>
         \E t \in main.asked .. now : ReadAt(t)
    /\ TimeNotBehind

-----------------------------------------------------------------------------
(* Numbers.                                                                *)

LEMMA Sizes ==
    /\ MaxTasks \in Nat /\ MaxTasks > 0
    /\ Era \in Nat /\ Era > 2
    /\ Base \in Nat /\ Base > 0
    /\ IsrTicks \in Nat /\ IsrTicks + 1 < Era
    /\ Horizon \in Nat /\ CallTicks \in Nat /\ CallMax \in Nat
    /\ Longest \in Nat /\ Longest > 0 /\ Longest + 1 < Era /\ IsrTicks <= Longest
    /\ Slots \subseteq 0 .. MaxTasks /\ ~(MaxTasks \in Slots)
  BY TaskManagerAssumption DEF Longest, Slots

LEMMA ModRange ==
    ASSUME NEW x \in Int, NEW m \in Nat, m > 0
    PROVE  x % m \in 0 .. m - 1 /\ x \div m \in Int /\ x = (x \div m) * m + (x % m)
  OBVIOUS

LEMMA ModUnique ==
    ASSUME NEW k \in Int, NEW m \in Nat, NEW r \in 0 .. m - 1
    PROVE  (k * m + r) % m = r
  OBVIOUS

LEMMA DivUnique ==
    ASSUME NEW k \in Int, NEW m \in Nat, NEW r \in 0 .. m - 1
    PROVE  (k * m + r) \div m = k
  OBVIOUS

LEMMA TimesMonotone ==
    ASSUME NEW a \in Int, NEW b \in Int, NEW m \in Nat, a <= b
    PROVE  a * m <= b * m
  OBVIOUS

LEMMA DivMonotone ==
    ASSUME NEW a \in Int, NEW b \in Int, NEW m \in Nat, m > 0, a <= b
    PROVE  /\ a \div m <= b \div m
           /\ b <= a + m => b \div m <= a \div m + 1
  <1> DEFINE j == a \div m
             k == b \div m
             x == a % m
             y == b % m
  <1>1. /\ j \in Int /\ x \in 0 .. m - 1 /\ a = j * m + x
        /\ k \in Int /\ y \in 0 .. m - 1 /\ b = k * m + y
    BY ModRange
  <1> HIDE DEF j, k, x, y
  <1>2. ASSUME k < j PROVE FALSE
    <2>1. (k + 1) * m <= j * m
      BY <1>1, <1>2, TimesMonotone
    <2>2. (k + 1) * m = k * m + m
      BY <1>1
    <2>3. QED
      BY <1>1, <2>1, <2>2
  <1>3. ASSUME b <= a + m, k > j + 1 PROVE FALSE
    <2>1. (j + 2) * m <= k * m
      BY <1>1, <1>3, TimesMonotone
    <2>2. (j + 2) * m = j * m + m + m
      BY <1>1
    <2>3. QED
      BY <1>1, <1>3, <2>1, <2>2
  <1>4. QED
    BY <1>1, <1>2, <1>3 DEF j, k

\* A number of two digits whose lower one was read before the upper one: it is
\* not less than it was, and right or too great by a carry if it grew by one.
LEMMA Torn ==
    ASSUME NEW a \in Nat, NEW b \in Nat, NEW m \in Nat, m > 0, a <= b
    PROVE  /\ (b \div m) * m + (a % m) >= a
           /\ a = b => (b \div m) * m + (a % m) = b
           /\ b = a + 1 => \/ (b \div m) * m + (a % m) = a
                           \/ /\ a \div m < b \div m
                              /\ (b \div m) * m + (a % m) = a + m
  <1> DEFINE j == a \div m
             k == b \div m
             x == a % m
  <1>1. j \in Int /\ k \in Int /\ x \in 0 .. m - 1 /\ a = j * m + x
    BY ModRange
  <1>2. j <= k
    BY DivMonotone
  <1>3. a = b => k = j
    OBVIOUS
  <1>4. ASSUME b = a + 1, x + 1 < m
        PROVE  k = j
    <2>1. b = j * m + (x + 1) /\ x + 1 \in 0 .. m - 1
      <3> HIDE DEF j, x
      <3>1. QED
        BY <1>1, <1>4
    <2>2. (j * m + (x + 1)) \div m = j
      <3> HIDE DEF j, x
      <3>1. QED
        BY <1>1, <2>1, DivUnique
    <2>3. QED
      BY <2>1, <2>2
  <1>5. ASSUME b = a + 1, x + 1 = m
        PROVE  k = j + 1
    <2>1. b = (j + 1) * m + 0 /\ 0 \in 0 .. m - 1 /\ j + 1 \in Int
      <3> HIDE DEF j, x
      <3>1. QED
        BY <1>1, <1>5
    <2>2. ((j + 1) * m + 0) \div m = j + 1
      <3> HIDE DEF j, x
      <3>1. QED
        BY <2>1, DivUnique
    <2>3. QED
      BY <2>1, <2>2
  <1> HIDE DEF j, k, x
  <1>6. j * m <= k * m
    BY <1>1, <1>2, TimesMonotone
  <1>7. k * m + x >= a
    BY <1>1, <1>6
  <1>8. a = b => k * m + x = b
    BY <1>1, <1>3
  <1>9. ASSUME b = a + 1
        PROVE  k * m + x = a \/ (j < k /\ k * m + x = a + m)
    <2>1. CASE x + 1 < m
      BY <1>1, <1>4, <1>9, <2>1
    <2>2. CASE x + 1 = m
      <3>1. k = j + 1 /\ k * m = j * m + m
        BY <1>1, <1>5, <1>9, <2>2
      <3>2. QED
        BY <1>1, <3>1
    <2>3. QED
      BY <1>1, <2>1, <2>2
  <1>10. QED
    BY <1>7, <1>8, <1>9 DEF j, k, x

LEMMA ModEra ==
    ASSUME NEW x \in Int, NEW m \in Nat, m > 0
    PROVE  (x + m) % m = x % m
  <1> DEFINE k == x \div m
             r == x % m
  <1>1. k \in Int /\ r \in 0 .. m - 1 /\ x = k * m + r
    BY ModRange
  <1> HIDE DEF k, r
  <1>2. x + m = (k + 1) * m + r
    BY <1>1
  <1>3. ((k + 1) * m + r) % m = r
    BY <1>1, ModUnique
  <1>4. QED
    BY <1>2, <1>3 DEF r

LEMMA ModAdd ==
    ASSUME NEW x \in Int, NEW m \in Nat, m > 0, NEW d \in 0 .. m - 1
    PROVE  (x + d) % m = IF (x % m) + d < m THEN (x % m) + d ELSE (x % m) + d - m
  <1> DEFINE k == x \div m
             r == x % m
  <1>1. k \in Int /\ r \in 0 .. m - 1 /\ x = k * m + r
    BY ModRange
  <1> HIDE DEF k, r
  <1>2. CASE r + d >= m
    <2>1. x + d = (k + 1) * m + (r + d - m) /\ r + d - m \in 0 .. m - 1
      BY <1>1, <1>2
    <2> DEFINE s == r + d - m
    <2>3. k + 1 \in Int /\ s \in 0 .. m - 1
      BY <1>1, <2>1
    <2> HIDE DEF s
    <2>4. ((k + 1) * m + s) % m = s
      BY <2>3, ModUnique
    <2>5. QED
      BY <1>1, <1>2, <2>1, <2>4 DEF r, s
  <1>3. CASE r + d < m
    <2>1. x + d = k * m + (r + d) /\ r + d \in 0 .. m - 1
      BY <1>1, <1>3
    <2>2. (k * m + (r + d)) % m = r + d
      BY <1>1, <2>1, ModUnique
    <2>3. QED
      BY <1>3, <2>1, <2>2 DEF r
  <1>4. QED
    BY <1>1, <1>2, <1>3 

LEMMA ModDistance ==
    ASSUME NEW m \in Nat, NEW c \in 0 .. m - 1, NEW k \in 0 .. m - 1
    PROVE  (c - k) % m = IF c >= k THEN c - k ELSE c - k + m
  OBVIOUS

\* How far the counter at x is from showing what it shows d ticks later.
LEMMA ModAhead ==
    ASSUME NEW x \in Int, NEW m \in Nat, m > 0, NEW d \in 0 .. m - 1
    PROVE  (((x + d) % m) - (x % m)) % m = d
  <1> DEFINE r == x % m
             s == (x + d) % m
  <1>1. r \in 0 .. m - 1
    BY ModRange
  <1>2. s = IF r + d < m THEN r + d ELSE r + d - m
    BY ModAdd
  <1> HIDE DEF r, s
  <1>3. s \in 0 .. m - 1
    BY <1>1, <1>2
  <1>4. (s - r) % m = IF s >= r THEN s - r ELSE s - r + m
    BY <1>1, <1>3, ModDistance
  <1>5. QED
    BY <1>1, <1>2, <1>3, <1>4 DEF r, s

LEMMA SumType ==
    ASSUME NEW a \in Nat, NEW b \in Nat
    PROVE  a + b \in Nat
  OBVIOUS

LEMMA ProductType ==
    ASSUME NEW a \in Nat, NEW b \in Nat
    PROVE  a * b \in Nat
  OBVIOUS

\* A set of numbers has a smallest one.
LEMMA MinOfNats ==
    ASSUME NEW S, S \subseteq Nat, S # {}
    PROVE  Min(S) \in S /\ \A y \in S : Min(S) <= y
  <1> DEFINE R == OpToRel(<, Nat)
  <1>1. IsWellFoundedOn(R, Nat)
    BY NatLessThanWellFounded
  <1>2. \E x \in S : \A y \in S : ~ (<<y, x>> \in R)
    <2> HIDE DEF R
    <2>1. QED
      BY <1>1, WFMin
  <1>3. PICK x \in S : \A y \in S : ~ (<<y, x>> \in R)
    BY <1>2
  <1>4. ASSUME NEW y \in S PROVE x <= y
    <2>1. x \in Nat /\ y \in Nat /\ ~ (y < x)
      BY <1>3 DEF OpToRel
    <2>2. QED
      BY <2>1
  <1>5. QED
    BY <1>4 DEF Min

\* Whatever setNextInterrupt takes to be the next call, no call is before it.
LEMMA NextInterruptFirst ==
    ASSUME TypeOK
    PROVE  NextInterrupt \in Nat /\ BeforeAll(NextInterrupt)
  <1> DEFINE S == {Forever} \cup {tasks[i].nextCallTime : i \in
                                       {j \in Slots : tasks[j].inUse}}
  <1>1. Forever \in Nat
    BY Sizes DEF Forever
  <1>2. \A i \in Slots : tasks[i].nextCallTime \in Nat
    BY DEF TypeOK
  <1>3. S \subseteq Nat /\ S # {}
    BY <1>1, <1>2
  <1>4. Min(S) \in S /\ \A y \in S : Min(S) <= y
    <2> HIDE DEF S
    <2>1. QED
      BY <1>3, MinOfNats
  <1>5. NextInterrupt = Min(S)
    BY DEF NextInterrupt
  <1>6. ASSUME NEW i \in Slots, tasks[i].inUse
        PROVE  Min(S) <= tasks[i].nextCallTime
    <2>1. tasks[i].nextCallTime \in S
      BY <1>6
    <2> HIDE DEF S
    <2>2. QED
      BY <1>4, <2>1
  <1> HIDE DEF S
  <1>7. QED
    BY <1>3, <1>4, <1>5, <1>6 DEF BeforeAll

-----------------------------------------------------------------------------
(* Types.                                                                  *)

Task == [inUse : BOOLEAN, singleShot : BOOLEAN, interval : Nat,
         nextCallTime : Nat, error : 0 .. 255, currentError : 0 .. 255]

Labels == {"idle", "timeRtc", "timeLow", "timeHigh", "answered", "nextRtc", "nextLow",
           "nextHigh", "scan", "take", "read", "write", "enable", "count", "uncount",
           "disable"}

MainState == [pc : Labels, slot : 0 .. MaxTasks, time : Nat, turn : 0 .. MaxTasks,
              next : Nat, asked : Nat, raised : BOOLEAN]

IsrState == [at : {"none", "task", "write"}, turn : 0 .. MaxTasks,
             time : Nat, next : Nat]

\* TypeOK, a set at a time.
LEMMA Types ==
    TypeOK <=>
    /\ now \in 0 .. Horizon /\ timeOvf \in Nat /\ comp \in 0 .. Era - 1
    /\ ovfFlag \in BOOLEAN /\ compFlag \in BOOLEAN /\ compOn \in BOOLEAN
    /\ astray \in BOOLEAN
    /\ tasks \in [Slots -> Task]
    /\ tasksInUse \in 0 .. MaxTasks
    /\ main \in MainState
    /\ isr \in IsrState
    /\ lag \in Nat /\ registered \in Nat
    /\ calls \in [Slots -> Nat] /\ since \in [Slots -> Nat]
  BY DEF TypeOK, Task, Labels, MainState, IsrState

LEMMA NextTypes ==
    TypeOK' <=>
    /\ now' \in 0 .. Horizon /\ timeOvf' \in Nat /\ comp' \in 0 .. Era - 1
    /\ ovfFlag' \in BOOLEAN /\ compFlag' \in BOOLEAN /\ compOn' \in BOOLEAN
    /\ astray' \in BOOLEAN
    /\ tasks' \in [Slots -> Task]
    /\ tasksInUse' \in 0 .. MaxTasks
    /\ main' \in MainState
    /\ isr' \in IsrState
    /\ lag' \in Nat /\ registered' \in Nat
    /\ calls' \in [Slots -> Nat] /\ since' \in [Slots -> Nat]
  BY DEF TypeOK, Task, Labels, MainState, IsrState

LEMMA TimeType ==
    ASSUME TypeOK
    PROVE  /\ now \in Nat
           /\ Cnt \in 0 .. Era - 1
           /\ \A rtc \in Nat : /\ TimeOf(rtc) \in Nat
                               /\ WithLow(rtc) \in Nat /\ WithHigh(rtc) \in Nat
  <1>1. now \in Nat /\ now \in Int /\ timeOvf \in Nat
    BY Sizes DEF TypeOK
  <1>2. Cnt \in 0 .. Era - 1
    BY <1>1, Sizes, ModRange DEF Cnt
  <1>3. timeOvf * Era \in Nat
    BY <1>1, Sizes, ProductType
  <1>4. timeOvf \div Base \in Nat /\ timeOvf % Base \in Nat
    BY <1>1, Sizes
  <1>5. (timeOvf \div Base) * Base * Era \in Nat /\ (timeOvf % Base) * Era \in Nat
    BY <1>4, Sizes, ProductType
  <1>6. QED
    BY <1>1, <1>2, <1>3, <1>5, SumType DEF TimeOf, WithLow, WithHigh

LEMMA InFutureType ==
    ASSUME NEW call \in Nat, NEW t \in Nat
    PROVE  InFuture(call, t) \in Nat
  BY DEF InFuture

\* The two figures that registerTask computes from the interval.
LEMMA ScaledType ==
    ASSUME NEW ms \in Intervals
    PROVE  Scaled(ms) \in Nat /\ Rounding(ms) \in 0 .. 255
  <1>1. ms * 2048 \in Nat
    BY TaskManagerAssumption
  <1>2. ASSUME NEW n \in Nat
        PROVE  n \div 1000 \in Nat /\ (n % 1000) % 256 \in 0 .. 255
    OBVIOUS
  <1>3. QED
    BY <1>1, <1>2 DEF Scaled, Rounding

\* The drift of a periodic task stays a byte, and its next call is an
\* interval or more after the one before.
LEMMA RescheduledType ==
    ASSUME NEW t \in Task
    PROVE  /\ Rescheduled(t) \in Task
           /\ Rescheduled(t).nextCallTime >= t.nextCallTime + t.interval
           /\ Rescheduled(t).interval = t.interval
           /\ Rescheduled(t).inUse = t.inUse
           /\ Rescheduled(t).singleShot = t.singleShot
  <1> DEFINE e == SummedError(t)
             more == IF e > 100 THEN 1 ELSE 0
             left == e - 100 * more
             next == t.nextCallTime + t.interval + more
  <1>1. t.error \in 0 .. 255 /\ t.currentError \in 0 .. 255 /\ t.interval \in Nat
        /\ t.nextCallTime \in Nat
    BY DEF Task
  <1>2. e \in 0 .. 255
    <2>1. ASSUME NEW a \in 0 .. 255, NEW b \in 0 .. 255
          PROVE  (a + b) % 256 \in 0 .. 255
      OBVIOUS
    <2>2. QED
      BY <1>1, <2>1 DEF SummedError
  <1>3. left \in 0 .. 255 /\ next \in Nat /\ next >= t.nextCallTime + t.interval
    <2> HIDE DEF e
    <2>1. QED
      BY <1>1, <1>2
  <1>4. Rescheduled(t) = [t EXCEPT !.nextCallTime = next, !.currentError = left]
    BY DEF Rescheduled
  <1> HIDE DEF e, more, left, next
  <1>5. QED
    BY <1>3, <1>4 DEF Task

LEMMA TaskSet ==
    ASSUME NEW t \in Task, NEW n \in Nat
    PROVE  /\ [t EXCEPT !.inUse = TRUE, !.nextCallTime = n] \in Task
           /\ [t EXCEPT !.inUse = FALSE] \in Task
           /\ \A s \in BOOLEAN, e \in 0 .. 255 :
                [t EXCEPT !.singleShot = s, !.interval = n, !.error = e] \in Task
  BY DEF Task

LEMMA InitType == Init => TypeOK
  <1> SUFFICES ASSUME Init PROVE TypeOK
    OBVIOUS
  <1>1. NoTask \in Task /\ Idle \in MainState /\ NoIsr \in IsrState
    BY Sizes DEF NoTask, Task, Idle, MainState, Labels, NoIsr, IsrState
  <1>2. tasks \in [Slots -> Task] /\ calls \in [Slots -> Nat] /\ since \in [Slots -> Nat]
    BY <1>1 DEF Init
  <1>3. main \in MainState /\ isr \in IsrState
    BY <1>1 DEF Init
  <1>4. /\ now \in 0 .. Horizon /\ timeOvf \in Nat /\ comp \in 0 .. Era - 1
        /\ tasksInUse \in 0 .. MaxTasks /\ lag \in Nat /\ registered \in Nat
    BY Sizes DEF Init
  <1>5. ovfFlag \in BOOLEAN /\ compFlag \in BOOLEAN /\ compOn \in BOOLEAN
        /\ astray \in BOOLEAN
    BY DEF Init
  <1>6. QED
    BY <1>2, <1>3, <1>4, <1>5, Types

\* The first free slot, or none.
LEMMA FreeSlot ==
    Min(FreeSlots \cup {MaxTasks}) \in FreeSlots \cup {MaxTasks}
  <1>1. FreeSlots \subseteq Slots
    BY DEF FreeSlots
  <1>2. FreeSlots \cup {MaxTasks} \subseteq Nat
    BY <1>1, Sizes
  <1>3. QED
    BY <1>2, MinOfNats

\* The tasks in use are finitely many.
LEMMA CountsFinite ==
    /\ IsFiniteSet(Slots) /\ Cardinality(Slots) = MaxTasks
    /\ IsFiniteSet(Used) /\ Cardinality(Used) \in Nat
    /\ IsFiniteSet(Counts) /\ Cardinality(Counts) \in Nat
  <1>1. IsFiniteSet(Slots) /\ Cardinality(Slots) = MaxTasks
    BY Sizes, FS_Interval DEF Slots
  <1>2. Used \subseteq Slots /\ Counts \subseteq Slots
    BY DEF Used, Counts
  <1>3. IsFiniteSet(Used) /\ IsFiniteSet(Counts)
    BY <1>1, <1>2, FS_Subset
  <1>4. QED
    BY <1>1, <1>3, FS_CardinalityType

\* What a registration writes into its slot.
LEMMA RegisterType ==
    ASSUME TypeOK, NEW ms \in Intervals, NEW once \in BOOLEAN, RegisterTask(ms, once)
    PROVE  /\ main'.slot = Min(FreeSlots \cup {MaxTasks})
           /\ main'.slot \in FreeSlots \cup {MaxTasks}
           /\ main' \in MainState /\ main'.pc = "nextRtc"
           /\ tasks' \in [Slots -> Task]
           /\ \A i \in Slots : tasks'[i] = IF i = main'.slot
                THEN [NoTask EXCEPT !.singleShot = once, !.interval = Scaled(ms),
                                    !.error = Rounding(ms)]
                ELSE tasks[i]
  <1> DEFINE slot == Min(FreeSlots \cup {MaxTasks})
             new == [NoTask EXCEPT !.singleShot = once, !.interval = Scaled(ms),
                                   !.error = Rounding(ms)]
  <1>1. main \in MainState /\ tasks \in [Slots -> Task]
    BY Types
  <1>2. slot \in FreeSlots \cup {MaxTasks} /\ slot \in 0 .. MaxTasks
    <2>1. slot \in FreeSlots \cup {MaxTasks}
      BY FreeSlot
    <2>a. FreeSlots \subseteq Slots
      BY DEF FreeSlots
    <2>2. FreeSlots \subseteq 0 .. MaxTasks /\ MaxTasks \in 0 .. MaxTasks
      BY <2>a, Sizes
    <2> HIDE DEF slot
    <2>3. QED
      BY <2>1, <2>2
  <1>3. main' = [main EXCEPT !.pc = "nextRtc", !.slot = slot]
    BY DEF RegisterTask
  <1>4. main' \in MainState /\ main'.slot = slot /\ main'.pc = "nextRtc"
    <2> HIDE DEF slot
    <2>1. QED
      BY <1>1, <1>2, <1>3 DEF MainState, Labels
  <1>5. new \in Task
    <2>1. Scaled(ms) \in Nat /\ Rounding(ms) \in 0 .. 255
      BY ScaledType
    <2>2. NoTask \in Task
      BY DEF NoTask, Task
    <2>3. QED
      BY <2>1, <2>2, TaskSet
  <1>6. tasks' = [i \in Slots |-> IF i = main'.slot THEN new ELSE tasks[i]]
    BY DEF RegisterTask
  <1> HIDE DEF new, slot
  <1>7. QED
    BY <1>1, <1>2, <1>4, <1>5, <1>6 DEF new, slot

LEMMA MainType ==
    ASSUME TypeOK, CountInv, Main
    PROVE  TypeOK'
  <1>0. /\ main \in MainState /\ tasks \in [Slots -> Task] /\ now \in Nat
        /\ Cnt \in Nat /\ main.time \in Nat /\ main.next \in Nat
        /\ TimeOf(Cnt) \in Nat /\ WithLow(main.time) \in Nat
        /\ WithHigh(main.time) \in Nat
    BY Types, TimeType, Sizes DEF MainState
  <1>a. ASSUME Local, main' \in MainState PROVE TypeOK'
    BY <1>a, Types, NextTypes DEF Local, rtcVars, flags, taskVars, history
  <1>1. CASE CallGetTime
    BY <1>0, <1>1, <1>a DEF CallGetTime, MainState, Labels
  <1>2. CASE ReadRtc
    BY <1>0, <1>2, <1>a DEF ReadRtc, MainState, Labels
  <1>2a. CASE ReadLow
    BY <1>0, <1>2a, <1>a DEF ReadLow, MainState, Labels
  <1>3. CASE TimeIsRead
    BY <1>0, <1>3, <1>a DEF TimeIsRead, MainState, Labels
  <1>4. CASE GetTimeReturns
    BY <1>0, <1>4, <1>a DEF GetTimeReturns, MainState, Labels
  <1>5. ASSUME NEW ms \in Intervals, NEW once \in BOOLEAN, RegisterTask(ms, once)
        PROVE  TypeOK'
    <2>1. main' \in MainState /\ tasks' \in [Slots -> Task]
      BY <1>5, RegisterType
    <2>2. calls' \in [Slots -> Nat] /\ since' \in [Slots -> Nat]
      <3>1. calls' = [calls EXCEPT ![main'.slot] = 0] /\ since' = [since EXCEPT ![main'.slot] = now]
        BY <1>5 DEF RegisterTask
      <3>2. calls \in [Slots -> Nat] /\ since \in [Slots -> Nat]
        BY Types
      <3>3. QED
        BY <1>0, <3>1, <3>2
    <2>2a. registered' \in Nat
      BY <1>5, Types DEF RegisterTask
    <2>3. UNCHANGED <<now, ovfFlag, compFlag, comp, compOn, timeOvf, tasksInUse, isr, lag,
                      astray>>
      BY <1>5 DEF RegisterTask, rtcVars, flags
    <2>4. QED
      BY <2>1, <2>2, <2>2a, <2>3, Types, NextTypes
  <1>6. CASE TaskInUse
    <2>1. main' \in MainState
      <3>1. Forever \in Nat
        BY Sizes DEF Forever
      <3>2. main' = [main EXCEPT !.pc = "scan", !.time = 0, !.turn = 0, !.next = Forever,
                                 !.asked = 0, !.raised = FALSE]
        BY <1>6 DEF TaskInUse
      <3>3. 0 \in 0 .. MaxTasks
        BY Sizes
      <3>4. QED
        BY <1>0, <3>1, <3>2, <3>3 DEF MainState, Labels
    <2>2. ASSUME NEW i \in Slots
          PROVE  [tasks[i] EXCEPT !.inUse = TRUE,
                    !.nextCallTime = WithHigh(main.time) + tasks[i].interval] \in Task
      <3>1. tasks[i] \in Task
        BY <1>0
      <3>2. tasks[i].interval \in Nat
        BY <3>1 DEF Task
      <3>3. WithHigh(main.time) + tasks[i].interval \in Nat
        BY <1>0, <3>2
      <3>4. QED
        BY <3>1, <3>3, TaskSet
    <2>3. tasks' \in [Slots -> Task]
      BY <1>0, <1>6, <2>2 DEF TaskInUse
    <2>4. since' \in [Slots -> Nat]
      <3>1. main.asked \in Nat
        BY <1>0 DEF MainState
      <3>2. QED
        BY <1>6, <3>1, Types DEF TaskInUse
    <2>5. UNCHANGED <<now, ovfFlag, compFlag, comp, compOn, timeOvf, tasksInUse, isr, lag,
                      calls, astray, registered>>
      BY <1>6 DEF TaskInUse, rtcVars, flags
    <2>6. QED
      BY <2>1, <2>3, <2>4, <2>5, Types, NextTypes
  <1>7. CASE Scan
    <2>1. CASE LookAtTask
      <3>1. main.turn < MaxTasks => main.turn + 1 \in 0 .. MaxTasks
        BY <1>0, Sizes DEF MainState
      <3>2. main.turn < MaxTasks /\ Local
            /\ (\/ main' = [main EXCEPT !.pc = "take"]
                \/ main' = [main EXCEPT !.turn = main.turn + 1])
        BY <2>1 DEF LookAtTask
      <3>3. main' \in MainState
        BY <1>0, <3>1, <3>2 DEF MainState, Labels
      <3>4. QED
        BY <1>a, <3>2, <3>3
    <2>2. CASE TakeCallTime
      <3> DEFINE call == tasks[main.turn].nextCallTime
      <3>1. main.turn \in Slots /\ main.turn + 1 \in 0 .. MaxTasks
        <4>1. main.turn \in 0 .. MaxTasks /\ main.turn < MaxTasks
          BY <1>0, <2>2 DEF TakeCallTime, MainAt, CountInv, MainState
        <4>2. QED
          BY <4>1, Sizes DEF Slots
      <3>2. call \in Nat
        BY <1>0, <3>1 DEF Task
      <3>3. main' = [main EXCEPT !.pc = "scan", !.turn = main.turn + 1, !.next = call,
                                 !.raised = main.raised \/ call > main.next]
        BY <2>2 DEF TakeCallTime
      <3> HIDE DEF call
      <3>4. main' \in MainState
        BY <1>0, <3>1, <3>2, <3>3 DEF MainState, Labels
      <3>5. QED
        BY <1>a, <2>2, <3>4 DEF TakeCallTime
    <2>3. QED
      BY <1>7, <2>1, <2>2 DEF Scan
  <1>8. CASE EnterAtomic
    <2>1. main' \in MainState
      <3>1. 0 \in 0 .. MaxTasks
        BY Sizes
      <3>2. QED
        BY <1>0, <1>8, <3>1 DEF EnterAtomic, MainState, Labels
    <2>2. QED
      BY <1>8, <2>1, Types, NextTypes DEF EnterAtomic, rtcVars, flags, taskVars, history
  <1>9. CASE ReadInAtomic
    <2>1. InFuture(main.next, TimeOf(Cnt)) \in Nat
      BY <1>0, InFutureType
    <2>2. QED
      BY <1>0, <1>9, <1>a, <2>1 DEF ReadInAtomic, MainState, Labels
  <1>10. CASE WriteComp
    <2>1. comp' \in 0 .. Era - 1
      <3>1. main.next \in Int
        BY <1>0
      <3>2. main.next % Era \in 0 .. Era - 1
        BY <3>1, Sizes, ModRange
      <3>3. QED
        BY <1>10, <3>2 DEF WriteComp
    <2>2. main' \in MainState
      BY <1>0, <1>10 DEF WriteComp, MainState, Labels
    <2>3. QED
      BY <1>0, <1>10, <2>1, <2>2, Types, NextTypes DEF WriteComp, flags, taskVars, MainState
  <1>11. CASE EnableComp
    <2>1. main' \in MainState
      BY <1>0, <1>11 DEF EnableComp, GoesTo, MainState, Labels
    <2>2. QED
      BY <1>11, <2>1, Types, NextTypes
      DEF EnableComp, Enabled, flags, taskVars, history
  <1>12. CASE CountTask
    <2>1. main' \in MainState
      BY <1>0, <1>12 DEF CountTask, GoesTo, MainState, Labels
    <2>2. tasksInUse' \in 0 .. MaxTasks
      BY <1>12, Types, Sizes DEF CountTask, MainAt, CountInv, Uncounted
    <2>3. QED
      BY <1>12, <2>1, <2>2, Types, NextTypes DEF CountTask, rtcVars, flags, history
  <1>13. ASSUME NEW i \in Slots, CallRemoveTask(i)
         PROVE  TypeOK'
    <2>1. main' \in MainState
      BY <1>0, <1>13 DEF CallRemoveTask, GoesTo, MainState, Labels
    <2>2. tasks' \in [Slots -> Task]
      <3>1. [tasks[i] EXCEPT !.inUse = FALSE] \in Task
        BY <1>0, TaskSet
      <3>2. tasks' = [tasks EXCEPT ![i] = [tasks[i] EXCEPT !.inUse = FALSE]]
        BY <1>13 DEF CallRemoveTask
      <3>3. QED
        BY <1>0, <3>1, <3>2
    <2>3. QED
      BY <1>13, <2>1, <2>2, Types, NextTypes DEF CallRemoveTask, rtcVars, flags, history
  <1>14. CASE UncountTask
    <2>1. main' \in MainState
      BY <1>0, <1>14 DEF UncountTask, GoesTo, MainState, Labels
    <2>2. tasksInUse \in 0 .. MaxTasks /\ Cardinality(Counts) + 1 <= tasksInUse
      BY <1>14, Types DEF UncountTask, MainAt, CountInv
    <2>3. tasksInUse' = tasksInUse - 1 /\ tasksInUse' \in 0 .. MaxTasks
      BY <1>14, <2>2, CountsFinite, TaskManagerAssumption DEF UncountTask
    <2>4. QED
      BY <1>14, <2>1, <2>3, Types, NextTypes DEF UncountTask, rtcVars, flags, history
  <1>15. CASE DisableComp
    <2>1. main' \in MainState
      BY <1>0, <1>15 DEF DisableComp, GoesTo, MainState, Labels
    <2>2. compOn' \in BOOLEAN
      BY <1>15, Types DEF DisableComp
    <2>3. QED
      BY <1>15, <2>1, <2>2, Types, NextTypes DEF DisableComp, flags, taskVars, history
  <1>16. QED
    BY <1>1, <1>2, <1>2a, <1>3, <1>4, <1>5, <1>6, <1>7, <1>8, <1>9, <1>10, <1>11, <1>12,
       <1>13, <1>14, <1>15 DEF Main

LEMMA InterruptsType ==
    ASSUME TypeOK, Interrupts
    PROVE  TypeOK'
  <1>0. /\ isr \in IsrState /\ tasks \in [Slots -> Task] /\ calls \in [Slots -> Nat]
        /\ now \in Nat /\ Cnt \in Nat /\ TimeOf(Cnt) \in Nat
    BY Types, TimeType, Sizes
  <1>1. CASE OvfInterrupt
    <2>1. timeOvf' \in Nat /\ lag' \in Nat
      BY <1>1, Types DEF OvfInterrupt, Counted
    <2>a. ovfFlag' \in BOOLEAN
      BY <1>1 DEF OvfInterrupt
    <2>2. QED
      BY <1>1, <2>1, <2>a, Types, NextTypes DEF OvfInterrupt, taskVars, history
  <1>2. CASE CompInterrupt
    <2>1. isr' \in IsrState
      <3>1. NoIsr \in IsrState
        BY Sizes DEF NoIsr, IsrState
      <3>2. isr' = [NoIsr EXCEPT !.at = "task", !.time = TimeOf(Cnt)]
        BY <1>2 DEF CompInterrupt
      <3>3. QED
        BY <1>0, <3>1, <3>2 DEF IsrState
    <2>2. compFlag' \in BOOLEAN
      BY <1>2 DEF CompInterrupt
    <2>3. QED
      BY <1>2, <2>1, <2>2, Types, NextTypes DEF CompInterrupt, taskVars, history
  <1>a. ASSUME AtTask
        PROVE  /\ isr.turn \in Slots /\ tasks[isr.turn] \in Task
               /\ [isr EXCEPT !.turn = isr.turn + 1] \in IsrState
               /\ [calls EXCEPT ![isr.turn] = calls[isr.turn] + 1] \in [Slots -> Nat]
    <2>1. isr.turn \in Slots
      BY <1>0, <1>a, Sizes DEF AtTask, IsrState, Slots
    <2>2. isr.turn + 1 \in 0 .. MaxTasks
      BY <2>1, Sizes DEF Slots
    <2>3. calls[isr.turn] + 1 \in Nat
      BY <1>0, <2>1
    <2>4. QED
      BY <1>0, <2>1, <2>2, <2>3 DEF IsrState
  <1>3. CASE PassTask
    <2>1. isr' \in IsrState
      BY <1>3, <1>a DEF PassTask, NextTurn
    <2>2. QED
      BY <1>3, <2>1, Types, NextTypes DEF PassTask, rtcVars, flags, taskVars, history
  <1>4. CASE CallOnce
    <2>1. isr' \in IsrState /\ calls' \in [Slots -> Nat]
      BY <1>4, <1>a DEF CallOnce, NextTurn, Called
    <2>2. tasks' \in [Slots -> Task]
      <3>1. [tasks[isr.turn] EXCEPT !.inUse = FALSE] \in Task
        BY <1>4, <1>a, TaskSet DEF CallOnce
      <3>2. tasks' = [tasks EXCEPT ![isr.turn] = [tasks[isr.turn] EXCEPT !.inUse = FALSE]]
        BY <1>4 DEF CallOnce
      <3>3. QED
        BY <1>0, <3>1, <3>2
    <2>3. compOn' \in BOOLEAN
      BY <1>4, Types DEF CallOnce
    <2>4. QED
      BY <1>4, <2>1, <2>2, <2>3, Types, NextTypes DEF CallOnce, flags
  <1>5. CASE CallPeriodic
    <2>1. isr' \in IsrState /\ calls' \in [Slots -> Nat]
      BY <1>5, <1>a DEF CallPeriodic, NextTurn, Called
    <2>2. tasks' \in [Slots -> Task]
      <3>1. Rescheduled(tasks[isr.turn]) \in Task
        BY <1>5, <1>a, RescheduledType DEF CallPeriodic
      <3>2. tasks' = [tasks EXCEPT ![isr.turn] = Rescheduled(tasks[isr.turn])]
        BY <1>5 DEF CallPeriodic
      <3>3. QED
        BY <1>0, <3>1, <3>2
    <2>3. QED
      BY <1>5, <2>1, <2>2, Types, NextTypes DEF CallPeriodic, rtcVars, flags
  <1>6. CASE IsrReadsTime
    <2>1. InFuture(NextInterrupt, TimeOf(Cnt)) \in Nat
      BY <1>0, NextInterruptFirst, InFutureType
    <2>2. isr' \in IsrState
      BY <1>0, <1>6, <2>1, Sizes DEF IsrReadsTime, IsrState
    <2>3. QED
      BY <1>6, <2>2, Types, NextTypes DEF IsrReadsTime, rtcVars, flags, taskVars, history
  <1>7. CASE IsrWritesComp
    <2>1. comp' \in 0 .. Era - 1
      <3>1. isr.next \in Int
        BY <1>0 DEF IsrState
      <3>2. isr.next % Era \in 0 .. Era - 1
        BY <3>1, Sizes, ModRange
      <3>3. QED
        BY <1>7, <3>2 DEF IsrWritesComp
    <2>2. isr' \in IsrState /\ lag' \in Nat
      BY <1>7, Sizes DEF IsrWritesComp, NoIsr, IsrState
    <2>3. QED
      BY <1>7, <2>1, <2>2, Types, NextTypes DEF IsrWritesComp, flags, taskVars
  <1>8. QED
    BY <1>1, <1>2, <1>3, <1>4, <1>5, <1>6, <1>7 DEF Interrupts

LEMMA TickType ==
    ASSUME TypeOK, Tick
    PROVE  TypeOK'
  <1>1. now \in 0 .. Horizon /\ registered \in Nat /\ lag \in Nat
    BY Types
  <1>2. registered * CallTicks \in Nat
    BY <1>1, Sizes, ProductType
  <1>3. now' \in 0 .. Horizon
    BY <1>1, <1>2, Sizes DEF Tick
  <1>4. lag' \in Nat
    BY <1>1 DEF Tick
  <1>5. ovfFlag' \in BOOLEAN /\ compFlag' \in BOOLEAN
    BY Types DEF Tick
  <1>6. QED
    BY <1>3, <1>4, <1>5, Types, NextTypes DEF Tick, taskVars, history

LEMMA NextType ==
    ASSUME TypeOK, CountInv, [Next]_vars
    PROVE  TypeOK'
  <1>1. CASE Main
    BY <1>1, MainType
  <1>2. CASE Interrupts
    BY <1>2, InterruptsType
  <1>3. CASE Tick
    BY <1>3, TickType
  <1>4. CASE UNCHANGED vars
    BY <1>4, Types, NextTypes DEF vars, rtcVars, flags, taskVars, history
  <1>5. QED
    BY <1>1, <1>2, <1>3, <1>4 DEF Next

\* What the interrupt does when it calls a task, to that task and to others.
LEMMA CallEffect ==
    ASSUME TypeOK, CallOnce \/ CallPeriodic
    PROVE  /\ isr.at = "task" /\ isr.turn \in Slots
           /\ tasks[isr.turn].inUse /\ tasks[isr.turn].nextCallTime <= isr.time
           /\ calls'[isr.turn] = calls[isr.turn] + 1
           /\ \A i \in Slots \ {isr.turn} : tasks'[i] = tasks[i] /\ calls'[i] = calls[i]
           /\ \A i \in Slots :
                /\ tasks'[i].inUse => tasks[i].inUse
                /\ tasks'[i].singleShot = tasks[i].singleShot
                /\ tasks'[i].interval = tasks[i].interval
                /\ tasks'[i].nextCallTime >= tasks[i].nextCallTime
           /\ tasks'[isr.turn].inUse =>
                /\ ~tasks[isr.turn].singleShot
                /\ tasks'[isr.turn].nextCallTime >=
                     tasks[isr.turn].nextCallTime + tasks[isr.turn].interval
           /\ main' = main /\ isr'.at = "task" /\ now' = now /\ since' = since
  <1> DEFINE t == isr.turn
  <1>1. isr \in IsrState /\ tasks \in [Slots -> Task] /\ calls \in [Slots -> Nat]
    BY Types
  <1>2. isr.at = "task" /\ t \in Slots
    BY <1>1, Sizes DEF CallOnce, CallPeriodic, AtTask, IsrState, Slots
  <1>3. tasks[t].inUse /\ tasks[t].nextCallTime <= isr.time
    BY DEF CallOnce, CallPeriodic, Due
  <1>4. calls' = [calls EXCEPT ![t] = calls[t] + 1]
    BY DEF CallOnce, CallPeriodic, Called
  <1>5. main' = main /\ isr'.at = "task" /\ now' = now /\ since' = since
    BY <1>1, <1>2 DEF CallOnce, CallPeriodic, NextTurn, flags, rtcVars, IsrState
  <1>6. \A i \in Slots : tasks[i] \in Task /\ tasks[i].nextCallTime \in Nat
                          /\ tasks[i].interval \in Nat
    BY <1>1 DEF Task
  <1>7. CASE CallOnce
    <2>1. tasks' = [tasks EXCEPT ![t] = [tasks[t] EXCEPT !.inUse = FALSE]]
      BY <1>7 DEF CallOnce
    <2>2. /\ tasks'[t] = [tasks[t] EXCEPT !.inUse = FALSE]
          /\ \A i \in Slots \ {t} : tasks'[i] = tasks[i]
      BY <1>1, <1>2, <2>1
    <2>3. /\ ~tasks'[t].inUse
          /\ tasks'[t].singleShot = tasks[t].singleShot
          /\ tasks'[t].interval = tasks[t].interval
          /\ tasks'[t].nextCallTime = tasks[t].nextCallTime
      BY <1>2, <1>6, <2>2 DEF Task
    <2>4. \A i \in Slots :
            /\ tasks'[i].inUse => tasks[i].inUse
            /\ tasks'[i].singleShot = tasks[i].singleShot
            /\ tasks'[i].interval = tasks[i].interval
            /\ tasks'[i].nextCallTime >= tasks[i].nextCallTime
      <3>1. ASSUME NEW i \in Slots
            PROVE  /\ tasks'[i].inUse => tasks[i].inUse
                   /\ tasks'[i].singleShot = tasks[i].singleShot
                   /\ tasks'[i].interval = tasks[i].interval
                   /\ tasks'[i].nextCallTime = tasks[i].nextCallTime
        BY <2>2, <2>3
      <3>2. QED
        BY <1>6, <3>1
    <2>5. /\ calls'[t] = calls[t] + 1
          /\ \A i \in Slots \ {t} : calls'[i] = calls[i]
      BY <1>1, <1>2, <1>4
    <2>6. QED
      BY <1>2, <1>3, <1>5, <2>2, <2>3, <2>4, <2>5
  <1>8. CASE CallPeriodic
    <2>1. tasks' = [tasks EXCEPT ![t] = Rescheduled(tasks[t])] /\ ~tasks[t].singleShot
      BY <1>8 DEF CallPeriodic
    <2>2. /\ tasks'[t] = Rescheduled(tasks[t])
          /\ \A i \in Slots \ {t} : tasks'[i] = tasks[i]
      BY <1>1, <1>2, <2>1
    <2>3. /\ tasks'[t].inUse = tasks[t].inUse
          /\ tasks'[t].singleShot = tasks[t].singleShot
          /\ tasks'[t].interval = tasks[t].interval
          /\ tasks'[t].nextCallTime >= tasks[t].nextCallTime + tasks[t].interval
          /\ tasks'[t] \in Task
      BY <1>2, <1>6, <2>2, RescheduledType
    <2>4. tasks'[t].nextCallTime \in Nat
      BY <2>3 DEF Task
    <2>5. tasks'[t].nextCallTime >= tasks[t].nextCallTime
      BY <1>2, <1>6, <2>3, <2>4
    <2>6. QED
      BY <1>1, <1>2, <1>3, <1>4, <1>5, <1>6, <2>1, <2>2, <2>3, <2>5
  <1>9. QED
    BY <1>7, <1>8

-----------------------------------------------------------------------------
(* The count of tasks.                                                     *)

Registers == Uncounted \/ main.pc \in {"nextRtc", "nextLow", "nextHigh"}

\* No more tasks, and none that comes to be registered or uncounted.
LEMMA CountKept ==
    ASSUME TypeOK, CountInv,
           tasksInUse' = tasksInUse,
           Counts' \subseteq Counts,
           main'.pc = "uncount" => main.pc = "uncount",
           Registers' => Registers /\ main'.slot = main.slot,
           main'.pc = "take" => main'.turn < MaxTasks
    PROVE  CountInv'
  <1>1. Cardinality(Counts') <= Cardinality(Counts) /\ Cardinality(Counts') \in Nat
    BY CountsFinite, FS_Subset, FS_CardinalityType
  <1>2. tasksInUse \in Nat /\ Cardinality(Counts) \in Nat
    BY Types, Sizes, CountsFinite
  <1>3. Cardinality(Counts') + (IF main'.pc = "uncount" THEN 1 ELSE 0) <= tasksInUse'
    BY <1>1, <1>2 DEF CountInv
  <1>4. Registers' => tasksInUse' < MaxTasks /\ main'.slot \in Slots
    BY DEF CountInv, Registers
  <1>5. QED
    BY <1>3, <1>4 DEF CountInv, Registers

\* A step that leaves the tasks and which of them count.
LEMMA CountUnchanged ==
    ASSUME TypeOK, CountInv,
           tasks' = tasks, tasksInUse' = tasksInUse, Uncounted' <=> Uncounted,
           main'.slot = main.slot,
           main'.pc = "uncount" => main.pc = "uncount",
           Registers' => Registers,
           main'.pc = "take" => main'.turn < MaxTasks
    PROVE  CountInv'
  <1>1. Used' = Used
    BY DEF Used
  <1>2. Counts' = Counts
    BY <1>1 DEF Counts
  <1>3. QED
    BY <1>2, CountKept

\* As long as the count is below the maximum there is a free slot.
LEMMA RegisterFindsSlot ==
    ASSUME TypeOK, CountInv, NEW ms \in Intervals, NEW once \in BOOLEAN,
           RegisterTask(ms, once)
    PROVE  main'.slot \in FreeSlots
  <1>1. Cardinality(Used) < MaxTasks
    <2>1. Counts = Used /\ main.pc = "idle" /\ tasksInUse # MaxTasks
      BY DEF RegisterTask, MainAt, Counts, Uncounted
    <2>2. tasksInUse \in 0 .. MaxTasks /\ Cardinality(Used) \in Nat
      BY Types, CountsFinite
    <2>3. QED
      BY <2>1, <2>2, Sizes DEF CountInv
  <1>2. PICK i \in Slots : ~tasks[i].inUse
    <2>1. SUFFICES ASSUME \A i \in Slots : tasks[i].inUse PROVE FALSE
      OBVIOUS
    <2>2. Used = Slots
      BY <2>1 DEF Used
    <2>3. QED
      BY <1>1, <2>2, CountsFinite, Sizes
  <1>3. i \in FreeSlots /\ i < MaxTasks /\ i \in Nat
    BY <1>2, Sizes DEF FreeSlots, Slots
  <1>4. FreeSlots \cup {MaxTasks} \subseteq Nat
    <2>1. FreeSlots \subseteq Slots
      BY DEF FreeSlots
    <2>2. QED
      BY <2>1, Sizes
  <1>5. Min(FreeSlots \cup {MaxTasks}) <= i /\ Min(FreeSlots \cup {MaxTasks}) \in Nat
    BY <1>3, <1>4, MinOfNats
  <1>6. main'.slot # MaxTasks
    <2>1. main'.slot = Min(FreeSlots \cup {MaxTasks})
      BY RegisterType
    <2>2. QED
      BY <1>3, <1>5, <2>1, Sizes
  <1>7. QED
    BY <1>6, RegisterType

LEMMA InitCount == Init => CountInv
  <1> SUFFICES ASSUME Init PROVE CountInv
    OBVIOUS
  <1>1. main.pc = "idle" /\ tasksInUse = 0
    BY DEF Init, Idle
  <1>2. Counts = {}
    BY <1>1 DEF Init, NoTask, Counts, Uncounted, Used
  <1>3. Cardinality(Counts) = 0
    BY <1>2, FS_EmptySet
  <1>4. QED
    BY <1>1, <1>3 DEF CountInv, Uncounted

LEMMA CountStep ==
    ASSUME TypeOK, CountInv, [Next]_vars
    PROVE  CountInv'
  <1>0. main \in MainState /\ tasks \in [Slots -> Task] /\ tasksInUse \in 0 .. MaxTasks
    BY Types
  <1>a. ASSUME tasks' = tasks, tasksInUse' = tasksInUse, main' = main
        PROVE  CountInv'
    BY <1>a, CountUnchanged DEF Uncounted, Registers, CountInv
  <1>1. CASE CallGetTime
    BY <1>0, <1>1, CountUnchanged
    DEF CallGetTime, MainAt, Local, taskVars, Uncounted, Registers, MainState
  <1>2. CASE ReadRtc
    BY <1>0, <1>2, CountUnchanged
    DEF ReadRtc, MainAt, Local, taskVars, Uncounted, Registers, MainState
  <1>2a. CASE ReadLow
    BY <1>0, <1>2a, CountUnchanged
    DEF ReadLow, MainAt, Local, taskVars, Uncounted, Registers, MainState
  <1>3. CASE TimeIsRead
    BY <1>0, <1>3, CountUnchanged
    DEF TimeIsRead, MainAt, Local, taskVars, Uncounted, Registers, MainState
  <1>4. CASE GetTimeReturns
    BY <1>0, <1>4, CountUnchanged
    DEF GetTimeReturns, MainAt, Local, taskVars, Uncounted, Registers, MainState
  <1>5. ASSUME NEW ms \in Intervals, NEW once \in BOOLEAN, RegisterTask(ms, once)
        PROVE  CountInv'
    <2>1. main'.slot \in FreeSlots /\ main'.slot \in Slots
      BY <1>5, RegisterFindsSlot DEF FreeSlots
    <2>2. main.pc = "idle" /\ main'.pc = "nextRtc" /\ tasksInUse' = tasksInUse
          /\ tasksInUse # MaxTasks
      BY <1>5, RegisterType DEF RegisterTask, MainAt
    <2>3. Used' \subseteq Used
      <3>1. ASSUME NEW i \in Slots, tasks'[i].inUse PROVE tasks[i].inUse
        <4>1. CASE i = main'.slot
          BY <1>5, <3>1, <4>1, RegisterType DEF NoTask
        <4>2. CASE i # main'.slot
          BY <1>5, <3>1, <4>2, RegisterType
        <4>3. QED
          BY <4>1, <4>2
      <3>2. QED
        BY <3>1 DEF Used
    <2>4. Counts = Used /\ Counts' = Used'
      BY <2>2 DEF Counts, Uncounted
    <2>5. Cardinality(Counts') <= Cardinality(Counts) /\ Cardinality(Counts') \in Nat
      BY <2>3, <2>4, CountsFinite, FS_Subset, FS_CardinalityType
    <2>6. Cardinality(Counts) <= tasksInUse /\ Cardinality(Counts) \in Nat
      BY <2>2, CountsFinite, <1>0 DEF CountInv
    <2>7. QED
      BY <1>0, <2>1, <2>2, <2>5, <2>6, Sizes DEF CountInv, Uncounted
  <1>6. CASE TaskInUse
    <2>1. main.pc = "nextHigh" /\ main'.pc = "scan" /\ main'.slot = main.slot
          /\ tasksInUse' = tasksInUse
      BY <1>0, <1>6 DEF TaskInUse, MainAt, MainState
    <2>2. \A i \in Slots : i # main.slot => tasks'[i] = tasks[i]
      BY <1>6 DEF TaskInUse
    <2>3. Counts' \subseteq Counts
      BY <2>1, <2>2 DEF Counts, Used, Uncounted
    <2>4. QED
      BY <2>1, <2>3, CountKept DEF Registers, Uncounted
  <1>7. CASE Scan
    BY <1>0, <1>7, CountUnchanged
    DEF Scan, LookAtTask, TakeCallTime, MainAt, Local, taskVars, Uncounted,
        Registers, MainState
  <1>8. CASE EnterAtomic
    BY <1>0, <1>8, CountUnchanged
    DEF EnterAtomic, MainAt, GoesTo, taskVars, Uncounted, Registers, MainState
  <1>9. CASE ReadInAtomic
    BY <1>0, <1>9, CountUnchanged
    DEF ReadInAtomic, MainAt, Local, taskVars, Uncounted, Registers, MainState
  <1>10. CASE WriteComp
    BY <1>0, <1>10, CountUnchanged
    DEF WriteComp, MainAt, taskVars, Uncounted, Registers, MainState
  <1>11. CASE EnableComp
    BY <1>0, <1>11, CountUnchanged
    DEF EnableComp, MainAt, GoesTo, taskVars, Uncounted, Registers, MainState
  <1>12. CASE CountTask
    <2>1. main.pc = "count" /\ main'.pc = "idle" /\ tasksInUse' = tasksInUse + 1
          /\ Used' = Used
      BY <1>0, <1>12 DEF CountTask, MainAt, GoesTo, MainState, Used
    <2>2. Used \subseteq Counts \cup {main.slot}
      BY <2>1 DEF Counts, Uncounted
    <2>3. /\ IsFiniteSet(Counts \cup {main.slot})
          /\ Cardinality(Counts \cup {main.slot}) \in Nat
          /\ Cardinality(Counts \cup {main.slot}) <= Cardinality(Counts) + 1
      <3>1. /\ IsFiniteSet(Counts \cup {main.slot})
            /\ Cardinality(Counts \cup {main.slot}) =
                 IF main.slot \in Counts THEN Cardinality(Counts)
                                         ELSE Cardinality(Counts) + 1
        BY CountsFinite, FS_AddElement
      <3>2. QED
        BY <3>1, CountsFinite
    <2>4. Cardinality(Used) <= Cardinality(Counts) + 1
      <3>1. Cardinality(Used) <= Cardinality(Counts \cup {main.slot})
        BY <2>2, <2>3, FS_Subset
      <3>2. QED
        BY <2>3, <3>1, CountsFinite
    <2>5. Counts' = Used
      BY <2>1 DEF Counts, Uncounted
    <2>6. Cardinality(Counts) <= tasksInUse
      BY <1>0, <2>1, CountsFinite DEF CountInv
    <2>7. QED
      BY <1>0, <2>1, <2>4, <2>5, <2>6, CountsFinite DEF CountInv, Uncounted
  <1>13. ASSUME NEW i \in Slots, CallRemoveTask(i)
         PROVE  CountInv'
    <2>1. /\ main.pc = "idle" /\ tasksInUse' = tasksInUse
          /\ main'.pc = IF tasks[i].inUse THEN "uncount" ELSE "disable"
          /\ tasks' = [tasks EXCEPT ![i] = [tasks[i] EXCEPT !.inUse = FALSE]]
      BY <1>0, <1>13 DEF CallRemoveTask, MainAt, GoesTo, MainState
    <2>2. Used' = Used \ {i}
      <3>1. \A j \in Slots : j # i => tasks'[j] = tasks[j]
        BY <1>0, <2>1
      <3>2. ~tasks'[i].inUse
        <4>1. tasks[i] \in Task
          BY <1>0
        <4>2. tasks'[i] = [tasks[i] EXCEPT !.inUse = FALSE]
          BY <1>0, <2>1
        <4>3. QED
          BY <4>1, <4>2 DEF Task
      <3>3. QED
        BY <3>1, <3>2 DEF Used
    <2>3. Counts = Used /\ Counts' = Used'
      BY <2>1 DEF Counts, Uncounted
    <2>4. CASE tasks[i].inUse
      <3>1. i \in Used
        BY <2>4 DEF Used
      <3>2. Cardinality(Used') = Cardinality(Used) - 1
        BY <2>2, <3>1, CountsFinite, FS_RemoveElement
      <3>3. Cardinality(Counts) <= tasksInUse
        BY <1>0, <2>1, CountsFinite DEF CountInv
      <3>4. QED
        BY <1>0, <2>1, <2>3, <2>4, <3>2, <3>3, CountsFinite DEF CountInv, Uncounted
    <2>5. CASE ~tasks[i].inUse
      <3>1. Counts' \subseteq Counts
        BY <2>2, <2>3
      <3>2. QED
        BY <2>1, <2>5, <3>1, CountKept DEF Registers, Uncounted
    <2>6. QED
      BY <2>4, <2>5
  <1>14. CASE UncountTask
    <2>1. main.pc = "uncount" /\ main'.pc = "disable" /\ tasks' = tasks
      BY <1>0, <1>14 DEF UncountTask, MainAt, GoesTo, MainState
    <2>2. Cardinality(Counts) + 1 <= tasksInUse
      BY <2>1 DEF CountInv
    <2>3. tasksInUse' = tasksInUse - 1
      BY <1>0, <1>14, <2>2, CountsFinite, TaskManagerAssumption DEF UncountTask
    <2>4. Counts' = Counts
      BY <2>1 DEF Counts, Uncounted, Used
    <2>5. QED
      BY <1>0, <2>1, <2>2, <2>3, <2>4, CountsFinite DEF CountInv, Uncounted
  <1>15. CASE DisableComp
    BY <1>0, <1>15, CountUnchanged
    DEF DisableComp, MainAt, GoesTo, taskVars, Uncounted, Registers, MainState
  <1>16. CASE CallOnce \/ CallPeriodic
    <2>1. tasksInUse' = tasksInUse /\ main' = main
      BY <1>16 DEF CallOnce, CallPeriodic
    <2>2. Counts' \subseteq Counts
      BY <1>16, <2>1, CallEffect DEF Counts, Used, Uncounted
    <2>3. main'.pc = "take" => main'.turn < MaxTasks
      BY <2>1 DEF CountInv
    <2>4. QED
      BY <2>1, <2>2, <2>3, CountKept DEF Registers, Uncounted
  <1>17. CASE OvfInterrupt \/ CompInterrupt \/ PassTask \/ IsrReadsTime \/ IsrWritesComp \/ Tick
    BY <1>17, <1>a
    DEF OvfInterrupt, CompInterrupt, PassTask, IsrReadsTime, IsrWritesComp, Tick,
        taskVars
  <1>18. CASE UNCHANGED vars
    BY <1>18, <1>a DEF vars, taskVars
  <1>19. QED
    BY <1>1, <1>2, <1>2a, <1>3, <1>4, <1>5, <1>6, <1>7, <1>8, <1>9, <1>10, <1>11, <1>12,
       <1>13, <1>14, <1>15, <1>16, <1>17, <1>18 DEF Next, Main, Interrupts

(* The types hold, and with them the count: removeTask subtracts only what *)
(* registerTask has added.                                                 *)
THEOREM TypesHold == Spec => []TypeOK
  <1>1. Init => TypeOK /\ CountInv
    BY InitType, InitCount
  <1>2. TypeOK /\ CountInv /\ [Next]_vars => TypeOK' /\ CountInv'
    BY NextType, CountStep
  <1>3. QED
    BY <1>1, <1>2, PTL DEF Spec

\* Only registerTask puts a task into use, and no call is moved to an earlier
\* time.
LEMMA NoneAdded ==
    ASSUME TypeOK, [Next]_vars, ~TaskInUse, NEW i \in Slots, tasks'[i].inUse
    PROVE  tasks[i].inUse /\ tasks'[i].nextCallTime >= tasks[i].nextCallTime
  <1>0. tasks \in [Slots -> Task] /\ tasks[i] \in Task /\ tasks[i].nextCallTime \in Nat
    BY Types DEF Task
  <1>1. CASE tasks'[i] = tasks[i]
    BY <1>0, <1>1
  <1>2. ASSUME NEW ms \in Intervals, NEW once \in BOOLEAN, RegisterTask(ms, once)
        PROVE  tasks'[i] = tasks[i]
    <2>1. CASE i = main'.slot
      BY <1>2, <2>1, RegisterType DEF NoTask
    <2>2. CASE i # main'.slot
      BY <1>2, <2>2, RegisterType
    <2>3. QED
      BY <2>1, <2>2
  <1>3. ASSUME NEW j \in Slots, CallRemoveTask(j)
        PROVE  tasks'[i] = tasks[i]
    <2>1. tasks' = [tasks EXCEPT ![j] = [tasks[j] EXCEPT !.inUse = FALSE]]
      BY <1>3 DEF CallRemoveTask
    <2>2. QED
      BY <1>0, <2>1 DEF Task
  <1>4. CASE CallOnce \/ CallPeriodic
    BY <1>4, CallEffect
  <1>5. QED
    BY <1>1, <1>2, <1>3, <1>4
    DEF Next, Main, Interrupts, CallGetTime, ReadRtc, ReadLow, TimeIsRead,
        GetTimeReturns, Scan, LookAtTask, TakeCallTime,
        EnterAtomic, ReadInAtomic, WriteComp, EnableComp, CountTask, UncountTask,
        DisableComp, OvfInterrupt, CompInterrupt, PassTask, IsrReadsTime,
        IsrWritesComp, Tick, Local, taskVars, vars

LEMMA SlotStep ==
    ASSUME TypeOK, CountInv, RegistersInArray, [Next]_vars
    PROVE  RegistersInArray'
  <1>0. main \in MainState
    BY Types
  <1>1. SUFFICES ASSUME main'.pc \in {"nextRtc", "nextLow", "nextHigh"}
                 PROVE  main'.slot \in FreeSlots'
    BY DEF RegistersInArray
  <1>2. ASSUME NEW ms \in Intervals, NEW once \in BOOLEAN, RegisterTask(ms, once)
        PROVE  main'.slot \in FreeSlots'
    <2>1. main'.slot \in Slots
      BY <1>2, RegisterFindsSlot DEF FreeSlots
    <2>2. ~tasks'[main'.slot].inUse
      BY <1>2, <2>1, RegisterType DEF NoTask
    <2>3. QED
      BY <2>1, <2>2 DEF FreeSlots
  <1>3. CASE main.pc \in {"nextRtc", "nextLow", "nextHigh"} /\ main'.slot = main.slot /\ ~TaskInUse
    BY <1>3, NoneAdded DEF RegistersInArray, FreeSlots
  <1>4. CASE main' = main
    <2>1. ~TaskInUse
      BY <1>0, <1>4 DEF TaskInUse, MainAt, MainState
    <2>2. QED
      BY <1>1, <1>3, <1>4, <2>1
  <1>5. CASE ReadRtc
    <2>1. main.pc \in {"timeRtc", "nextRtc"} /\ main'.slot = main.slot
      BY <1>0, <1>5 DEF ReadRtc, MainAt, MainState
    <2>2. main.pc = "timeRtc" => main'.pc = "timeLow"
      BY <1>0, <1>5 DEF ReadRtc, MainAt, MainState
    <2>3. ~TaskInUse
      BY <2>1 DEF TaskInUse, MainAt
    <2>4. QED
      BY <1>1, <1>3, <2>1, <2>2, <2>3
  <1>5a. CASE ReadLow
    <2>1. main.pc \in {"timeLow", "nextLow"} /\ main'.slot = main.slot
      BY <1>0, <1>5a DEF ReadLow, MainAt, MainState
    <2>2. main.pc = "timeLow" => main'.pc = "timeHigh"
      BY <1>0, <1>5a DEF ReadLow, MainAt, MainState
    <2>3. ~TaskInUse
      BY <2>1 DEF TaskInUse, MainAt
    <2>4. QED
      BY <1>1, <1>3, <2>1, <2>2, <2>3
  <1>5b. CASE Scan
    <2>1. main'.pc \in {"scan", "take"}
      BY <1>0, <1>5b DEF Scan, LookAtTask, TakeCallTime, MainAt, MainState
    <2>2. QED
      BY <1>1, <2>1
  <1>6. CASE Main
    BY <1>0, <1>1, <1>2, <1>5, <1>5a, <1>5b, <1>6
    DEF Main, CallGetTime, TimeIsRead, GetTimeReturns, TaskInUse, EnterAtomic,
        ReadInAtomic, WriteComp, EnableComp, CountTask, CallRemoveTask, UncountTask,
        DisableComp, GoesTo, MainState
  <1>7. CASE Interrupts \/ Tick \/ UNCHANGED vars
    BY <1>4, <1>7
    DEF Interrupts, OvfInterrupt, CompInterrupt, PassTask, CallOnce, CallPeriodic,
        IsrReadsTime, IsrWritesComp, Tick, vars
  <1>8. QED
    BY <1>6, <1>7 DEF Next

(* registerTask always finds a free slot when tasksInUse says there is     *)
(* room: it never writes behind tasks[].                                   *)
THEOREM StaysInArray == Spec => []RegistersInArray
  <1>1. Init => TypeOK /\ CountInv /\ RegistersInArray
    BY InitType, InitCount DEF Init, Idle, RegistersInArray
  <1>2. TypeOK /\ CountInv /\ RegistersInArray /\ [Next]_vars
        => TypeOK' /\ CountInv' /\ RegistersInArray'
    BY NextType, CountStep, SlotStep
  <1>3. QED
    BY <1>1, <1>2, PTL DEF Spec

-----------------------------------------------------------------------------
(* The compare interrupt is on.                                            *)

\* When the count is zero, only a task on its way to the count may be in use.
LEMMA NoneLeft ==
    ASSUME TypeOK, CountInv, tasksInUse = 0, NEW i \in Slots, tasks[i].inUse
    PROVE  Uncounted /\ i = main.slot
  <1>1. Cardinality(Counts) <= 0
    BY CountsFinite DEF CountInv
  <1>2. Counts = {}
    <2>1. Cardinality(Counts) = 0
      BY <1>1, CountsFinite
    <2>2. QED
      BY <2>1, CountsFinite, FS_EmptySet
  <1>3. i \notin Counts /\ i \in Used
    BY <1>2 DEF Used
  <1>4. QED
    BY <1>3 DEF Counts

LEMMA ArmedStep ==
    ASSUME TypeOK, CountInv, Armed, [Next]_vars
    PROVE  Armed'
  <1>0. main \in MainState /\ compOn \in BOOLEAN
    BY Types
  <1>1. SUFFICES ASSUME NEW i \in Slots, tasks'[i].inUse, ~compOn'
                 PROVE  i = main'.slot /\ Registering'
    BY DEF Armed
  <1>2. CASE TaskInUse
    <2>1. main.pc = "nextHigh" /\ main'.pc = "scan" /\ main'.slot = main.slot /\ compOn' = compOn
      BY <1>0, <1>2 DEF TaskInUse, MainAt, MainState, rtcVars
    <2>2. CASE i = main.slot
      BY <2>1, <2>2 DEF Registering
    <2>3. CASE i # main.slot
      <3>1. tasks'[i] = tasks[i]
        BY <1>2, <2>3 DEF TaskInUse
      <3>2. QED
        BY <1>1, <2>1, <2>3, <3>1 DEF Armed
    <2>4. QED
      BY <2>2, <2>3
  <1>3. ASSUME ~TaskInUse PROVE tasks[i].inUse
    BY <1>1, <1>3, NoneAdded
  <1>4. ASSUME ~TaskInUse, compOn' = compOn PROVE i = main.slot /\ Registering
    BY <1>1, <1>3, <1>4 DEF Armed
  <1>5. CASE CallOnce
    <2>1. main' = main /\ ~TaskInUse
      BY <1>5 DEF CallOnce, TaskInUse, MainAt, AtTask
    <2>2. CASE tasksInUse = 0
      <3>1. Uncounted /\ i = main.slot
        BY <1>3, <2>1, <2>2, NoneLeft
      <3>2. isr.turn \in Slots /\ tasks[isr.turn].inUse /\ ~tasks'[isr.turn].inUse
        BY <1>5, CallEffect DEF CallOnce
      <3>3. isr.turn = main.slot
        BY <2>2, <3>2, NoneLeft
      <3>4. QED
        BY <1>1, <3>1, <3>2, <3>3
    <2>3. CASE tasksInUse # 0
      <3>1. compOn' = compOn
        BY <1>0, <1>5, <2>3 DEF CallOnce
      <3>2. QED
        BY <1>4, <2>1, <3>1 DEF Registering
    <2>4. QED
      BY <2>2, <2>3
  <1>6. CASE DisableComp
    <2>1. main.pc = "disable" /\ ~TaskInUse
      BY <1>6 DEF DisableComp, TaskInUse, MainAt
    <2>2. tasksInUse # 0
      BY <1>3, <2>1, NoneLeft DEF Uncounted
    <2>3. compOn' = compOn
      BY <1>0, <1>6, <2>2 DEF DisableComp
    <2>4. QED
      BY <1>4, <2>1, <2>3 DEF Registering
  <1>7. CASE EnableComp
    BY <1>1, <1>7 DEF EnableComp, Enabled
  <1>8. CASE main' = main /\ compOn' = compOn
    <2>1. ~TaskInUse
      BY <1>0, <1>8 DEF TaskInUse, MainAt, MainState
    <2>2. QED
      BY <1>4, <1>8, <2>1 DEF Registering
  <1>9. CASE CallGetTime \/ ReadRtc \/ TimeIsRead \/ GetTimeReturns \/ CountTask
             \/ UncountTask \/ (\E j \in Slots : CallRemoveTask(j))
             \/ (\E ms \in Intervals, once \in BOOLEAN : RegisterTask(ms, once))
    <2>1. /\ main.pc \in {"idle", "timeRtc", "timeLow", "timeHigh", "answered", "nextRtc",
                          "count", "uncount"}
          /\ compOn' = compOn
      BY <1>9
      DEF CallGetTime, ReadRtc, ReadLow, TimeIsRead, GetTimeReturns, CountTask,
          UncountTask,
          CallRemoveTask, RegisterTask, MainAt, Local, rtcVars
    <2>2. ~TaskInUse
      BY <2>1 DEF TaskInUse, MainAt
    <2>3. QED
      BY <1>4, <2>1, <2>2 DEF Registering
  <1>10. CASE ReadLow \/ Scan \/ EnterAtomic \/ ReadInAtomic \/ WriteComp
    <2>1. /\ main'.slot = main.slot /\ compOn' = compOn /\ main.pc # "nextHigh"
          /\ Registering => Registering'
      BY <1>0, <1>10
      DEF ReadLow, Scan, LookAtTask, TakeCallTime, EnterAtomic, ReadInAtomic, WriteComp,
          MainAt, Local, rtcVars, MainState, Registering
    <2>2. ~TaskInUse
      BY <2>1 DEF TaskInUse, MainAt
    <2>3. QED
      BY <1>4, <2>1, <2>2
  <1>11. CASE Interrupts \/ Tick \/ UNCHANGED vars
    BY <1>5, <1>8, <1>11
    DEF Interrupts, OvfInterrupt, CompInterrupt, PassTask, CallPeriodic,
        IsrReadsTime, IsrWritesComp, Tick, vars, rtcVars
  <1>12. QED
    BY <1>2, <1>6, <1>7, <1>9, <1>10, <1>11 DEF Next, Main

(* No task in use is left with the compare interrupt switched off, whoever *)
(* removes which task when: only registerTask may still be about to switch *)
(* it on for its own.                                                      *)
THEOREM StaysArmed == Spec => []Armed
  <1>1. Init => TypeOK /\ CountInv /\ Armed
    BY InitType, InitCount DEF Init, NoTask, Armed
  <1>2. TypeOK /\ CountInv /\ Armed /\ [Next]_vars => TypeOK' /\ CountInv' /\ Armed'
    BY NextType, CountStep, ArmedStep
  <1>3. QED
    BY <1>1, <1>2, PTL DEF Spec

-----------------------------------------------------------------------------
(* The clock.                                                              *)

\* The main program goes on only when no interrupt is waiting for it.
LEMMA NothingWaits ==
    ASSUME NEW label, MainAt(label), label \notin {"read", "write"}
    PROVE  main.pc = label /\ isr.at = "none" /\ ~Atomic /\ ~ovfFlag /\ ~(compFlag /\ compOn)
  BY DEF MainAt, OvfServed, CompServed, Atomic

\* What getTime makes of the counter is the time, or an era less.
LEMMA TimeOfCounter ==
    ASSUME TypeOK, ClockInv
    PROVE  /\ ~ovfFlag => TimeOf(Cnt) = now
           /\ ovfFlag => TimeOf(Cnt) + Era = now
  <1>1. timeOvf \in Nat /\ Cnt \in Nat /\ Era \in Nat
    BY Types, TimeType, Sizes
  <1>2. timeOvf * Era \in Nat /\ (timeOvf + 1) * Era = timeOvf * Era + Era
    BY <1>1, ProductType
  <1>3. now = (IF ovfFlag THEN timeOvf + 1 ELSE timeOvf + 0) * Era + Cnt
    BY DEF ClockInv, Turns
  <1>4. timeOvf + 0 = timeOvf
    BY <1>1
  <1>5. QED
    BY <1>1, <1>2, <1>3, <1>4 DEF TimeOf

\* The counter a tick later.
LEMMA CounterTicks ==
    ASSUME TypeOK, now' = now + 1
    PROVE  Cnt' = IF Cnt = Era - 1 THEN 0 ELSE Cnt + 1
  <1>1. now \in Int /\ Cnt \in 0 .. Era - 1
    BY TimeType, Sizes
  <1>2. 1 \in 0 .. Era - 1
    BY Sizes
  <1>3. Cnt' = (now + 1) % Era
    BY DEF Cnt
  <1>4. (now + 1) % Era = IF Cnt + 1 < Era THEN Cnt + 1 ELSE Cnt + 1 - Era
    BY <1>1, <1>2, Sizes, ModAdd DEF Cnt
  <1>5. QED
    BY <1>1, <1>3, <1>4, Sizes

LEMMA InitClock == Init => ClockInv
  <1> SUFFICES ASSUME Init PROVE ClockInv
    OBVIOUS
  <1>1. now = 0 /\ timeOvf = 0 /\ ~ovfFlag /\ lag = 0 /\ isr.at = "none"
    BY DEF Init, NoIsr
  <1>2. Cnt = 0 /\ (0 + 0) * Era + 0 = 0
    BY <1>1, Sizes, ModRange DEF Cnt
  <1>3. Turns = 0 + 0
    BY <1>1 DEF Turns
  <1>4. QED
    BY <1>1, <1>2, <1>3, Sizes DEF ClockInv

LEMMA ClockStep ==
    ASSUME TypeOK, ClockInv, [Next]_vars
    PROVE  ClockInv'
  <1>0. /\ main \in MainState /\ isr \in IsrState /\ timeOvf \in Nat
        /\ now \in Nat /\ lag \in Nat /\ Cnt \in 0 .. Era - 1
    BY Types, TimeType
  \* a step that leaves the counter and its turns as they are
  <1>a. ASSUME now' = now, Turns' = Turns
        PROVE  Cnt' = Cnt /\ now' = Turns' * Era + Cnt'
    BY <1>a DEF ClockInv, Cnt
  <1>b. ASSUME now' = now, timeOvf' = timeOvf, ovfFlag' = ovfFlag
        PROVE  Cnt' = Cnt /\ now' = Turns' * Era + Cnt'
    BY <1>a, <1>b DEF Turns
  <1>1. CASE CallGetTime \/ ReadRtc \/ ReadLow \/ TimeIsRead \/ GetTimeReturns \/ TaskInUse
             \/ Scan \/ EnableComp \/ CountTask \/ UncountTask \/ DisableComp
             \/ (\E j \in Slots : CallRemoveTask(j))
             \/ (\E ms \in Intervals, once \in BOOLEAN : RegisterTask(ms, once))
    <2>1. /\ now' = now /\ timeOvf' = timeOvf /\ ovfFlag' = ovfFlag
          /\ isr' = isr /\ lag' = lag
      BY <1>1
      DEF CallGetTime, ReadRtc, ReadLow, TimeIsRead, GetTimeReturns, TaskInUse, Scan,
          LookAtTask, TakeCallTime, EnableComp,
          CountTask, UncountTask, DisableComp, CallRemoveTask, RegisterTask, Local,
          rtcVars, flags
    <2>2. isr.at = "none" /\ ~ovfFlag
      BY <1>1, NothingWaits
      DEF CallGetTime, ReadRtc, ReadLow, TimeIsRead, GetTimeReturns, TaskInUse, Scan,
          LookAtTask, TakeCallTime, EnableComp,
          CountTask, UncountTask, DisableComp, CallRemoveTask, RegisterTask
    <2>3. QED
      BY <1>b, <2>1, <2>2 DEF ClockInv
  <1>2. CASE EnterAtomic
    <2>1. isr.at = "none" /\ ~ovfFlag
      BY <1>2, NothingWaits DEF EnterAtomic
    <2>2. /\ now' = now /\ timeOvf' = timeOvf /\ ovfFlag' = ovfFlag
          /\ isr' = isr /\ lag' = 0
      BY <1>2 DEF EnterAtomic, rtcVars, flags
    <2>3. QED
      BY <1>b, <2>1, <2>2, Sizes DEF ClockInv
  <1>3. CASE ReadInAtomic
    <2>1. /\ now' = now /\ timeOvf' = timeOvf /\ ovfFlag' = ovfFlag
          /\ isr' = isr /\ lag' = lag /\ isr.at = "none"
      BY <1>3 DEF ReadInAtomic, Local, MainAt, rtcVars, flags
    <2>2. Atomic /\ Atomic'
      BY <1>0, <1>3 DEF ReadInAtomic, MainAt, Atomic, MainState
    <2>3. QED
      BY <1>b, <2>1, <2>2 DEF ClockInv
  <1>4. CASE WriteComp
    <2>1. /\ now' = now /\ timeOvf' = timeOvf /\ ovfFlag' = ovfFlag
          /\ isr' = isr /\ lag' = 0 /\ isr.at = "none"
      BY <1>4 DEF WriteComp, MainAt, flags
    <2>2. Atomic /\ ~Atomic'
      BY <1>0, <1>4 DEF WriteComp, MainAt, Atomic, MainState
    <2>3. ovfFlag => Cnt <= Longest + 0
      BY <1>0, <2>1, <2>2, Sizes DEF ClockInv
    <2>4. QED
      BY <1>b, <2>1, <2>2, <2>3, Sizes DEF ClockInv
  <1>5. CASE OvfInterrupt
    <2>1. /\ now' = now /\ ovfFlag /\ ~ovfFlag' /\ timeOvf' = timeOvf + 1
          /\ isr' = isr /\ lag' = 0 /\ isr.at = "none"
      BY <1>5 DEF OvfInterrupt, Counted, OvfServed
    <2>2. Turns' = Turns
      <3>1. Turns' = (timeOvf + 1) + 0
        BY <2>1 DEF Turns
      <3>2. Turns = timeOvf + 1
        BY <2>1 DEF Turns
      <3>3. QED
        BY <1>0, <3>1, <3>2
    <2>3. QED
      BY <1>a, <2>1, <2>2, Sizes DEF ClockInv
  <1>6. CASE CompInterrupt
    <2>1. /\ now' = now /\ timeOvf' = timeOvf /\ ovfFlag' = ovfFlag /\ lag' = lag
          /\ isr.at = "none" /\ isr'.at = "task" /\ ~Atomic /\ ~Atomic' /\ ~ovfFlag
      BY <1>6 DEF CompInterrupt, CompServed, NoIsr, Atomic
    <2>2. QED
      BY <1>b, <2>1 DEF ClockInv
  <1>7. CASE PassTask \/ CallOnce \/ CallPeriodic \/ IsrReadsTime
    <2>1. /\ now' = now /\ timeOvf' = timeOvf /\ ovfFlag' = ovfFlag /\ lag' = lag
          /\ main' = main /\ isr.at = "task"
      BY <1>7
      DEF PassTask, CallOnce, CallPeriodic, IsrReadsTime, AtTask, rtcVars, flags
    <2>2. isr'.at \in {"task", "write"}
      BY <1>0, <1>7, <2>1
      DEF PassTask, CallOnce, CallPeriodic, IsrReadsTime, NextTurn, IsrState
    <2>3. QED
      BY <1>b, <2>1, <2>2 DEF ClockInv, Atomic
  <1>8. CASE IsrWritesComp
    <2>1. /\ now' = now /\ timeOvf' = timeOvf /\ ovfFlag' = ovfFlag /\ lag' = 0
          /\ main' = main /\ isr.at = "write" /\ isr'.at = "none"
      BY <1>8 DEF IsrWritesComp, NoIsr, flags
    <2>2. ovfFlag => Cnt <= Longest + 0
      BY <1>0, <2>1, Sizes DEF ClockInv
    <2>3. ~Atomic'
      BY <2>1 DEF ClockInv, Atomic
    <2>4. QED
      BY <1>b, <2>1, <2>2, <2>3, Sizes DEF ClockInv
  <1>9. CASE Tick
    <2>1. /\ now' = now + 1 /\ timeOvf' = timeOvf /\ main' = main /\ isr' = isr
          /\ ovfFlag' = (ovfFlag \/ Cnt = Era - 1)
          /\ lag' = IF Busy THEN lag + 1 ELSE 0
          /\ Busy => lag < LagMax
      BY <1>9 DEF Tick
    <2>2. Cnt' = IF Cnt = Era - 1 THEN 0 ELSE Cnt + 1
      BY <2>1, CounterTicks
    <2>3. Atomic' = Atomic
      BY <2>1 DEF Atomic
    <2>4. /\ lag' \in Nat /\ lag' <= Longest /\ (isr.at = "none" => lag' <= 1)
          /\ Busy => lag < Longest
      BY <1>0, <2>1, Sizes DEF LagMax
    <2>5. CASE ovfFlag
      <3>1. Busy /\ lag' = lag + 1
        BY <2>1, <2>5 DEF Busy
      <3>2. Cnt < Era - 1
        BY <1>0, <2>4, <2>5, <3>1, Sizes DEF ClockInv, LagMax
      <3>3. Cnt' = Cnt + 1 /\ ovfFlag'
        <4>1. ovfFlag'
          BY <2>1, <2>5
        <4>2. Cnt' = Cnt + 1
          BY <2>2, <3>2, Sizes
        <4>3. QED
          BY <4>1, <4>2
      <3>4. Turns' = Turns
        BY <2>1, <2>5, <3>3 DEF Turns
      <3>5. now' = Turns' * Era + Cnt'
        <4>1. now = Turns * Era + Cnt /\ Turns \in Nat
          BY <1>0, <2>5 DEF ClockInv, Turns
        <4>2. Turns * Era \in Nat
          BY <4>1, Sizes, ProductType
        <4>3. QED
          BY <1>0, <2>1, <3>3, <3>4, <4>1, <4>2
      <3>6. Cnt' <= IF Atomic \/ isr.at # "none" THEN lag' ELSE Longest + lag'
        BY <1>0, <2>5, <3>1, <3>3, Sizes DEF ClockInv
      <3>7. QED
        BY <2>1, <2>3, <2>4, <3>5, <3>6 DEF ClockInv
    <2>6. CASE ~ovfFlag /\ Cnt = Era - 1
      <3>1. Cnt' = 0 /\ ovfFlag'
        BY <2>1, <2>2, <2>6
      <3>2. now' = Turns' * Era + Cnt'
        <4>1. now = (timeOvf + 0) * Era + Cnt
          BY <2>6 DEF ClockInv, Turns
        <4>2. Turns' = timeOvf + 1
          BY <2>1, <3>1 DEF Turns
        <4>3. timeOvf * Era \in Nat /\ (timeOvf + 1) * Era = timeOvf * Era + Era
              /\ timeOvf + 0 = timeOvf
          BY <1>0, Sizes, ProductType
        <4>4. QED
          BY <1>0, <2>1, <2>6, <3>1, <4>1, <4>2, <4>3, Sizes
      <3>3. Cnt' <= IF Atomic \/ isr.at # "none" THEN lag' ELSE Longest + lag'
        <4>1. lag' \in Nat /\ Longest \in Nat
          BY <2>4, Sizes
        <4>2. Longest + lag' \in Nat
          BY <4>1, SumType
        <4>3. \A n \in Nat : 0 <= n
          OBVIOUS
        <4>4. QED
          BY <3>1, <4>1, <4>2, <4>3
      <3>4. QED
        BY <2>1, <2>3, <2>4, <3>2, <3>3 DEF ClockInv
    <2>7. CASE ~ovfFlag /\ Cnt # Era - 1
      <3>1. Cnt' = Cnt + 1 /\ ~ovfFlag'
        BY <2>1, <2>2, <2>7
      <3>2. now' = Turns' * Era + Cnt'
        <4>1. now = Turns * Era + Cnt /\ Turns \in Nat
          BY <1>0, <2>7 DEF ClockInv, Turns
        <4>2. Turns' = Turns
          BY <2>1, <2>7, <3>1 DEF Turns
        <4>3. Turns * Era \in Nat
          BY <4>1, Sizes, ProductType
        <4>4. QED
          BY <1>0, <2>1, <3>1, <4>1, <4>2, <4>3
      <3>3. QED
        BY <2>1, <2>3, <2>4, <3>1, <3>2 DEF ClockInv
    <2>8. QED
      BY <2>5, <2>6, <2>7
  <1>10. CASE UNCHANGED vars
    <2>1. /\ now' = now /\ timeOvf' = timeOvf /\ ovfFlag' = ovfFlag /\ lag' = lag
          /\ main' = main /\ isr' = isr
      BY <1>10 DEF vars, rtcVars, flags
    <2>2. QED
      BY <1>b, <2>1 DEF ClockInv, Atomic
  <1>11. QED
    BY <1>1, <1>2, <1>3, <1>4, <1>5, <1>6, <1>7, <1>8, <1>9, <1>10
    DEF Next, Main, Interrupts

-----------------------------------------------------------------------------
(* The times of calls.                                                     *)

\* With no overflow waiting, time_ovf counts them all.
LEMMA OvfIsTurns ==
    ASSUME TypeOK, ClockInv, ~ovfFlag
    PROVE  timeOvf = now \div Era
  <1>1. now = timeOvf * Era + Cnt
    BY TimeOfCounter DEF TimeOf
  <1>2. timeOvf \in Int /\ Cnt \in 0 .. Era - 1 /\ Era \in Nat
    BY Types, TimeType, Sizes
  <1>3. (timeOvf * Era + Cnt) \div Era = timeOvf
    BY <1>2, DivUnique
  <1>4. QED
    BY <1>1, <1>3

\* The lower byte is that of the turns when it is read.
LEMMA LowIsRead ==
    ASSUME TypeOK, ClockInv, ReadLow, NEW t \in Nat, ReadAt(t)
    PROVE  ReadAt(t)'
  <1>0. main \in MainState /\ now \in Nat
    BY Types, TimeType
  <1>1. /\ main.pc \in {"timeLow", "nextLow"} /\ ~ovfFlag
        /\ main'.pc \in {"timeHigh", "nextHigh"} /\ now' = now
        /\ main'.time = WithLow(main.time)
    BY <1>0, NothingWaits DEF ReadLow, Local, rtcVars, flags, MainState
  <1>2. main.time = t % Era /\ t <= now /\ timeOvf = now \div Era
    BY <1>1, OvfIsTurns DEF ReadAt
  <1>3. now \in t .. now /\ main'.time = ((now \div Era) % Base) * Era + (t % Era)
    BY <1>0, <1>1, <1>2 DEF WithLow
  <1>4. QED
    BY <1>1, <1>2, <1>3 DEF ReadAt

LEMMA ReadAtKept ==
    ASSUME NEW t \in Nat, ReadAt(t), main' = main, now \in Nat, now' \in Nat, now <= now'
    PROVE  ReadAt(t)'
  <1>1. t .. now \subseteq t .. now'
    OBVIOUS
  <1>2. QED
    BY <1>1 DEF ReadAt

\* With the upper byte it is the time when the counter was read or later: by
\* as many eras as the overflow of an era and its carry make.
LEMMA TimeRead ==
    ASSUME TypeOK, ClockInv, ~ovfFlag, main.pc \in {"timeHigh", "nextHigh"},
           NEW t \in Nat, ReadAt(t)
    PROVE  /\ WithHigh(main.time) >= t
           /\ \A a \in 0 .. t : now - a <= Era =>
                \/ WithHigh(main.time) = t
                \/ /\ a \div Era < now \div Era
                   /\ WithHigh(main.time) = t + Era
                \/ /\ (a \div Era) \div Base < (now \div Era) \div Base
                   /\ WithHigh(main.time) = t + Base * Era
  <1> DEFINE k == t \div Era
             r == t % Era
             f == now \div Era
  <1>0. now \in Nat /\ Era \in Nat /\ Era > 0 /\ Base \in Nat /\ Base > 0
    BY TimeType, Sizes
  <1>1. PICK m \in t .. now : main.time = ((m \div Era) % Base) * Era + r
    BY DEF ReadAt
  <1> DEFINE l == m \div Era
             u == f \div Base
             x == u * Base + (l % Base)
  <1>2. f = timeOvf
    BY OvfIsTurns
  <1>3. k \in Int /\ r \in 0 .. Era - 1 /\ t = k * Era + r
    BY <1>0, ModRange
  <1>4. k <= l /\ l <= f
    BY <1>0, DivMonotone
  <1>5. k \in Nat /\ l \in Nat /\ f \in Nat
    <2>1. m \in Nat
      BY <1>0
    <2>2. QED
      BY <1>0, <2>1
  <1>6. u \in Nat /\ l % Base \in Nat
    <2> HIDE DEF f, l
    <2>1. QED
      BY <1>0, <1>5
  <1>7. /\ x >= l
        /\ l = f => x = f
        /\ f = l + 1 => x = l \/ (l \div Base < u /\ x = l + Base)
    <2> HIDE DEF f, l
    <2>1. QED
      BY <1>0, <1>4, <1>5, Torn
  <1>8. WithHigh(main.time) = u * Base * Era + ((l % Base) * Era + r)
    BY <1>1, <1>2 DEF WithHigh
  <1> DEFINE w == WithHigh(main.time)
  <1> HIDE DEF k, r, f, l, u, w
  <1>9. w = x * Era + r
    <2> DEFINE p == l % Base
    <2>1. p \in Nat
      BY <1>6
    <2> HIDE DEF p
    <2>2. (u * Base + p) * Era = u * Base * Era + p * Era
      BY <1>0, <1>6, <2>1
    <2>3. w = u * Base * Era + (p * Era + r)
      BY <1>8 DEF p, w
    <2>4. u * Base * Era \in Nat /\ p * Era \in Nat
      BY <1>0, <1>6, <2>1, ProductType
    <2>5. QED
      BY <1>3, <2>2, <2>3, <2>4 DEF p
  <1>10. x \in Nat
    BY <1>0, <1>6, ProductType
  <1> HIDE DEF x
  <1>11. w >= t
    <2>1. k * Era <= x * Era
      BY <1>0, <1>4, <1>5, <1>7, <1>10, TimesMonotone
    <2>2. k * Era \in Nat /\ x * Era \in Nat
      BY <1>0, <1>5, <1>10, ProductType
    <2>3. QED
      BY <1>3, <1>9, <2>1, <2>2
  <1>12. ASSUME NEW a \in 0 .. t, now - a <= Era
         PROVE  \/ w = t
                \/ a \div Era < f /\ w = t + Era
                \/ (a \div Era) \div Base < u /\ w = t + Base * Era
    <2> DEFINE b == a \div Era
    <2>1. b \in Nat
      BY <1>0
    <2>2. b <= k /\ f <= b + 1
      <3>1. a <= t /\ a <= now /\ now <= a + Era /\ a \in Int /\ t \in Int /\ now \in Int
        BY <1>0, <1>12, <1>1
      <3>2. QED
        BY <1>0, <3>1, DivMonotone DEF k, f
    <2> HIDE DEF b
    <2>3. k * Era \in Nat
      BY <1>0, <1>5, ProductType
    <2>4. CASE x = k
      BY <1>3, <1>9, <2>4
    <2>5. CASE x = k + 1 /\ b < f
      <3>1. (k + 1) * Era = k * Era + Era
        BY <1>0, <1>5
      <3>2. w = t + Era
        BY <1>0, <1>3, <1>9, <2>3, <2>5, <3>1
      <3>3. QED
        BY <2>5, <3>2 DEF b
    <2>6. CASE x = k + Base /\ b \div Base < u
      <3>1. (k + Base) * Era = k * Era + Base * Era
        BY <1>0, <1>5
      <3>2. w = t + Base * Era
        <4>1. Base * Era \in Nat
          BY <1>0, ProductType
        <4>2. QED
          BY <1>3, <1>9, <2>3, <2>6, <3>1, <4>1
      <3>3. QED
        BY <2>6, <3>2 DEF b
    <2>7. CASE l = f
      BY <1>4, <1>5, <1>7, <2>1, <2>2, <2>4, <2>5, <2>7
    <2>8. CASE l # f
      <3>1. b = k /\ k = l /\ f = l + 1
        BY <1>4, <1>5, <2>1, <2>2, <2>8
      <3>2. x = l \/ (l \div Base < u /\ x = l + Base)
        BY <1>7, <3>1
      <3>3. QED
        BY <2>4, <2>6, <3>1, <3>2
    <2>9. QED
      BY <2>7, <2>8
  <1>13. QED
    BY <1>11, <1>12 DEF w, f, u

\* Time may pass, and a task may be removed.
LEMMA OnTimeKept ==
    ASSUME TypeOK, TypeOK', NEW i \in Slots, OnTime(i), now <= now',
           tasks'[i].inUse => tasks[i].inUse,
           tasks'[i].singleShot = tasks[i].singleShot,
           tasks'[i].interval = tasks[i].interval,
           tasks'[i].nextCallTime = tasks[i].nextCallTime,
           calls'[i] = calls[i], since'[i] = since[i]
    PROVE  OnTime(i)'
  <1> DEFINE a == calls[i] * tasks[i].interval
             b == (calls[i] + 1) * tasks[i].interval
  <1>1. /\ now \in Nat /\ now' \in Nat /\ calls[i] \in Nat /\ since[i] \in Nat
        /\ tasks[i].interval \in Nat
    BY Types, NextTypes, Sizes DEF Task
  <1>2. a \in Nat /\ b \in Nat
    <2>1. calls[i] + 1 \in Nat
      BY <1>1
    <2>2. QED
      BY <1>1, <2>1, ProductType
  <1>3. /\ since[i] <= now /\ a <= now - since[i]
        /\ tasks[i].inUse => tasks[i].nextCallTime >= since[i] + b
    BY DEF OnTime
  <1>4. a' = a /\ b' = b
    OBVIOUS
  <1> HIDE DEF a, b
  <1>5. since'[i] <= now' /\ a' <= now' - since'[i]
    BY <1>1, <1>2, <1>3, <1>4
  <1>6. tasks'[i].inUse => tasks'[i].nextCallTime >= since'[i] + b'
    BY <1>3, <1>4
  <1>7. /\ tasks'[i].singleShot => calls'[i] <= 1
        /\ tasks'[i].inUse /\ tasks'[i].singleShot => calls'[i] = 0
    BY DEF OnTime
  <1>8. QED
    BY <1>5, <1>6, <1>7 DEF OnTime, a, b

\* A task that is due is called in its time, and so it will be the next time.
LEMMA OnTimeCalled ==
    ASSUME TypeOK, TypeOK', CallInv, CallOnce \/ CallPeriodic,
           NEW i \in Slots, i = isr.turn
    PROVE  OnTime(i)'
  <1> DEFINE n == calls[i]
             v == tasks[i].interval
  <1>1. /\ isr.at = "task" /\ tasks[i].inUse
        /\ tasks[i].nextCallTime <= isr.time
        /\ calls'[i] = n + 1
        /\ tasks'[i].singleShot = tasks[i].singleShot
        /\ tasks'[i].interval = v
        /\ now' = now /\ since' = since
    BY CallEffect
  <1>2. tasks'[i].inUse => /\ ~tasks[i].singleShot
                           /\ tasks'[i].nextCallTime >= tasks[i].nextCallTime + v
    BY CallEffect
  <1>3. OnTime(i) /\ isr.time <= now
    BY <1>1 DEF CallInv
  <1>4. /\ now \in Nat /\ n \in Nat /\ since[i] \in Nat /\ v \in Nat /\ isr.time \in Nat
        /\ tasks[i].nextCallTime \in Nat /\ tasks'[i].nextCallTime \in Nat
    BY <1>1, Types, NextTypes, Sizes DEF Task, IsrState
  <1>5. /\ since[i] <= now
        /\ tasks[i].nextCallTime >= since[i] + (n + 1) * v
        /\ tasks[i].singleShot => n = 0
    BY <1>1, <1>3 DEF OnTime
  <1> HIDE DEF n, v
  <1>6. (n + 1) * v \in Nat /\ ((n + 1) + 1) * v = (n + 1) * v + v
    BY <1>4, ProductType
  <1>7. (n + 1) * v <= now - since[i]
    BY <1>1, <1>3, <1>4, <1>5, <1>6
  <1>8. tasks'[i].inUse => tasks'[i].nextCallTime >= since[i] + ((n + 1) + 1) * v
    BY <1>2, <1>4, <1>5, <1>6
  <1>9. tasks'[i].singleShot => n + 1 <= 1
    BY <1>1, <1>4, <1>5
  <1>10. tasks'[i].inUse => ~tasks'[i].singleShot
    BY <1>1, <1>2
  <1>11. QED
    BY <1>1, <1>5, <1>7, <1>8, <1>9, <1>10 DEF OnTime

LEMMA InitCalls == Init => CallInv
  <1> SUFFICES ASSUME Init PROVE CallInv
    OBVIOUS
  <1>1. \A i \in Slots : tasks[i] = NoTask /\ calls[i] = 0 /\ since[i] = 0
    BY DEF Init
  <1>2. now = 0 /\ main.pc = "idle" /\ isr.at = "none"
    BY DEF Init, Idle, NoIsr
  <1>3. QED
    BY <1>1, <1>2 DEF CallInv, OnTime, NoTask

LEMMA CallStep ==
    ASSUME TypeOK, TypeOK', CountInv, RegistersInArray, ClockInv, CallInv, [Next]_vars
    PROVE  CallInv'
  <1>0. /\ main \in MainState /\ isr \in IsrState /\ tasks \in [Slots -> Task]
        /\ calls \in [Slots -> Nat] /\ since \in [Slots -> Nat] /\ now \in Nat
    BY Types, TimeType
  <1>a. ASSUME tasks' = tasks, calls' = calls, since' = since, now <= now'
        PROVE  \A i \in Slots : OnTime(i)'
    BY <1>a, OnTimeKept DEF CallInv
  \* the main program goes on elsewhere
  <1>b. ASSUME tasks' = tasks, calls' = calls, since' = since, now' = now, isr' = isr,
               main'.pc \notin {"nextRtc", "nextLow", "nextHigh"}
        PROVE  CallInv'
    BY <1>0, <1>a, <1>b DEF CallInv
  \* another step, in which no task is called
  <1>c. ASSUME tasks' = tasks, calls' = calls, since' = since, main' = main, now' = now,
               isr'.at = "task" => isr'.time <= now
        PROVE  CallInv'
    <2>1. \A i \in Slots : OnTime(i)'
      BY <1>0, <1>a, <1>c
    <2>2. ReadAt(main.asked) => ReadAt(main.asked)'
      BY <1>c DEF ReadAt
    <2>3. QED
      BY <1>c, <2>1, <2>2 DEF CallInv
  <1>1. CASE CallGetTime \/ TimeIsRead \/ GetTimeReturns \/ Scan \/ EnterAtomic
             \/ ReadInAtomic \/ WriteComp \/ EnableComp \/ CountTask \/ UncountTask
             \/ DisableComp
    <2>1. /\ tasks' = tasks /\ calls' = calls /\ since' = since /\ now' = now /\ isr' = isr
      BY <1>1
      DEF CallGetTime, TimeIsRead, GetTimeReturns, Scan, LookAtTask, TakeCallTime,
          EnterAtomic, ReadInAtomic,
          WriteComp, EnableComp, CountTask, UncountTask, DisableComp, Local, rtcVars,
          flags, taskVars, history
    <2>2. main'.pc \notin {"nextRtc", "nextLow", "nextHigh"}
      <3>1. ASSUME Scan PROVE main'.pc \in {"scan", "take"}
        BY <1>0, <3>1 DEF Scan, LookAtTask, TakeCallTime, MainAt, MainState
      <3>2. QED
        BY <1>0, <1>1, <3>1
        DEF CallGetTime, TimeIsRead, GetTimeReturns, EnterAtomic, ReadInAtomic,
            WriteComp, EnableComp, CountTask, UncountTask, DisableComp, GoesTo,
            MainState
    <2>3. QED
      BY <1>b, <2>1, <2>2
  <1>2. CASE ReadRtc
    <2>1. tasks' = tasks /\ calls' = calls /\ since' = since /\ now' = now /\ isr' = isr
      BY <1>2 DEF ReadRtc, Local, rtcVars, flags, taskVars, history
    <2>2. CASE MainAt("timeRtc")
      <3>1. main'.pc = "timeLow"
        BY <1>0, <1>2, <2>2 DEF ReadRtc, MainAt, MainState
      <3>2. QED
        BY <1>b, <2>1, <3>1
    <2>3. CASE MainAt("nextRtc")
      <3>1. /\ main.pc = "nextRtc" /\ main'.pc = "nextLow" /\ main'.slot = main.slot
            /\ main'.asked = now /\ main'.time = now % Era
        BY <1>0, <1>2, <2>3 DEF ReadRtc, MainAt, MainState, Cnt
      <3>2. \A i \in Slots : OnTime(i)'
        BY <1>0, <1>a, <2>1
      <3>3. (main.pc \in {"nextLow", "nextHigh"} => ReadAt(main.asked))'
        BY <1>0, <2>1, <3>1 DEF ReadAt
      <3>4. QED
        BY <2>1, <3>1, <3>2, <3>3 DEF CallInv
    <2>4. QED
      BY <1>2, <2>2, <2>3 DEF ReadRtc
  <1>2a. CASE ReadLow
    <2>1. tasks' = tasks /\ calls' = calls /\ since' = since /\ now' = now /\ isr' = isr
      BY <1>2a DEF ReadLow, Local, rtcVars, flags, taskVars, history
    <2>2. CASE MainAt("timeLow")
      <3>1. main'.pc = "timeHigh"
        BY <1>0, <1>2a, <2>2 DEF ReadLow, MainAt, MainState
      <3>2. QED
        BY <1>b, <2>1, <3>1
    <2>3. CASE MainAt("nextLow")
      <3>1. /\ main.pc = "nextLow" /\ main'.pc = "nextHigh" /\ main'.slot = main.slot
            /\ main'.asked = main.asked /\ main.asked \in Nat
        BY <1>0, <1>2a, <2>3 DEF ReadLow, MainAt, MainState
      <3>2. \A i \in Slots : OnTime(i)'
        BY <1>0, <1>a, <2>1
      <3>3. ReadAt(main.asked)
        BY <3>1 DEF CallInv
      <3>4. \A t \in Nat : ReadAt(t) => ReadAt(t)'
        BY <1>2a, LowIsRead
      <3>5. ReadAt(main.asked)'
        BY <3>1, <3>3, <3>4
      <3>6. QED
        BY <2>1, <3>1, <3>2, <3>5 DEF CallInv
    <2>4. QED
      BY <1>2a, <2>2, <2>3 DEF ReadLow
  <1>3. ASSUME NEW ms \in Intervals, NEW once \in BOOLEAN, RegisterTask(ms, once)
        PROVE  CallInv'
    <2> DEFINE slot == main'.slot
    <2>1. slot \in Slots /\ main'.pc = "nextRtc"
      BY <1>3, RegisterFindsSlot, RegisterType DEF FreeSlots
    <2>2. /\ calls' = [calls EXCEPT ![slot] = 0] /\ since' = [since EXCEPT ![slot] = now]
          /\ now' = now /\ isr' = isr
      BY <1>3 DEF RegisterTask, rtcVars, flags
    <2>3. /\ tasks'[slot].inUse = FALSE
          /\ \A i \in Slots : i # slot => tasks'[i] = tasks[i]
      BY <1>3, <2>1, RegisterType DEF NoTask
    <2>4. calls'[slot] = 0 /\ since'[slot] = now
      BY <1>0, <2>1, <2>2
    <2>5. ASSUME NEW i \in Slots, i = slot PROVE OnTime(i)'
      <3>1. tasks'[i].interval \in Nat
        BY NextTypes DEF Task
      <3>2. 0 * tasks'[i].interval = 0
        BY <3>1
      <3>3. calls'[i] * tasks'[i].interval <= now' - since'[i]
            /\ since'[i] <= now' /\ calls'[i] <= 1
        BY <1>0, <2>2, <2>4, <2>5, <3>2
      <3>4. ~tasks'[i].inUse
        BY <2>3, <2>5
      <3>5. QED
        BY <3>3, <3>4 DEF OnTime
    <2>6. ASSUME NEW i \in Slots, i # slot PROVE OnTime(i)'
      <3>1. tasks'[i] = tasks[i] /\ calls'[i] = calls[i] /\ since'[i] = since[i]
        BY <1>0, <2>1, <2>2, <2>3, <2>6
      <3>2. OnTime(i) /\ now <= now'
        BY <1>0, <2>2 DEF CallInv
      <3>3. QED
        BY <3>1, <3>2, OnTimeKept
    <2>7. QED
      BY <2>1, <2>2, <2>4, <2>5, <2>6 DEF CallInv
  <1>4. CASE TaskInUse
    <2> DEFINE slot == main.slot
    <2>1. /\ main.pc = "nextHigh" /\ main'.pc = "scan" /\ ~ovfFlag
          /\ slot \in Slots /\ calls[slot] = 0 /\ tasks[slot].inUse = FALSE
      <3>1. main.pc = "nextHigh" /\ ~ovfFlag
        BY <1>4, NothingWaits DEF TaskInUse
      <3>2. slot \in FreeSlots /\ calls[slot] = 0
        BY <3>1 DEF RegistersInArray, CallInv
      <3>3. main'.pc = "scan"
        BY <1>0, <1>4 DEF TaskInUse, MainState
      <3>4. tasks[slot].inUse \in BOOLEAN
        BY <1>0, <3>2 DEF FreeSlots, Task
      <3>5. QED
        BY <3>1, <3>2, <3>3, <3>4 DEF FreeSlots
    <2>2. /\ calls' = calls /\ since' = [since EXCEPT ![slot] = main.asked]
          /\ now' = now /\ isr' = isr
      BY <1>4 DEF TaskInUse, rtcVars, flags
    <2>3. /\ tasks'[slot].nextCallTime = WithHigh(main.time) + tasks[slot].interval
          /\ tasks'[slot].interval = tasks[slot].interval
          /\ \A i \in Slots : i # slot => tasks'[i] = tasks[i]
      <3>1. tasks[slot] \in Task
        BY <1>0, <2>1
      <3>2. tasks'[slot] = [tasks[slot] EXCEPT !.inUse = TRUE,
                              !.nextCallTime = WithHigh(main.time) + tasks[slot].interval]
        BY <1>4, <2>1 DEF TaskInUse
      <3>3. \A i \in Slots : i # slot => tasks'[i] = tasks[i]
        BY <1>4 DEF TaskInUse
      <3>4. QED
        BY <3>1, <3>2, <3>3 DEF Task
    <2>4. /\ main.asked \in Nat /\ main.asked <= now
          /\ WithHigh(main.time) >= main.asked
      <3>1. main.asked \in Nat /\ ReadAt(main.asked)
        BY <1>0, <2>1 DEF CallInv, MainState
      <3>2. QED
        BY <2>1, <3>1, TimeRead DEF ReadAt
    <2>5. ASSUME NEW i \in Slots, i = slot PROVE OnTime(i)'
      <3>1. since'[i] = main.asked /\ calls'[i] = 0
        BY <1>0, <2>1, <2>2, <2>5
      <3>2. tasks[i].interval \in Nat /\ WithHigh(main.time) \in Nat
        BY <1>0, TimeType DEF Task, MainState
      <3>3. 0 * tasks[i].interval = 0 /\ (0 + 1) * tasks[i].interval = tasks[i].interval
        BY <3>2
      <3>4. calls'[i] * tasks'[i].interval = 0
            /\ (calls'[i] + 1) * tasks'[i].interval = tasks[i].interval
        BY <2>3, <2>5, <3>1, <3>3
      <3>5. /\ since'[i] <= now'
            /\ 0 <= now' - since'[i]
            /\ tasks'[i].nextCallTime >= since'[i] + tasks[i].interval
            /\ calls'[i] <= 1
        BY <1>0, <2>2, <2>3, <2>4, <2>5, <3>1, <3>2
      <3>6. QED
        BY <3>1, <3>4, <3>5 DEF OnTime
    <2>6. ASSUME NEW i \in Slots, i # slot PROVE OnTime(i)'
      <3>1. tasks'[i] = tasks[i] /\ calls'[i] = calls[i] /\ since'[i] = since[i]
        BY <1>0, <2>1, <2>2, <2>3, <2>6
      <3>2. OnTime(i) /\ now <= now'
        BY <1>0, <2>2 DEF CallInv
      <3>3. QED
        BY <3>1, <3>2, OnTimeKept
    <2>7. QED
      BY <2>1, <2>2, <2>5, <2>6 DEF CallInv
  <1>5. ASSUME NEW j \in Slots, CallRemoveTask(j)
        PROVE  CallInv'
    <2>1. /\ tasks' = [tasks EXCEPT ![j] = [tasks[j] EXCEPT !.inUse = FALSE]]
          /\ calls' = calls /\ since' = since /\ now' = now /\ isr' = isr
          /\ main'.pc \in {"uncount", "disable"}
      BY <1>0, <1>5 DEF CallRemoveTask, rtcVars, flags, history, GoesTo, MainState
    <2>2. ASSUME NEW i \in Slots
          PROVE  OnTime(i)'
      <3>1. /\ tasks'[i].inUse => tasks[i].inUse
            /\ tasks'[i].singleShot = tasks[i].singleShot
            /\ tasks'[i].interval = tasks[i].interval
            /\ tasks'[i].nextCallTime = tasks[i].nextCallTime
        BY <1>0, <2>1 DEF Task
      <3>2. OnTime(i) /\ now <= now'
        BY <1>0, <2>1 DEF CallInv
      <3>3. QED
        BY <2>1, <3>1, <3>2, OnTimeKept
    <2>3. QED
      BY <2>1, <2>2 DEF CallInv
  <1>6. CASE CompInterrupt
    <2>1. /\ tasks' = tasks /\ calls' = calls /\ since' = since /\ main' = main
          /\ now' = now /\ isr'.time = TimeOf(Cnt) /\ ~ovfFlag
      BY <1>6 DEF CompInterrupt, CompServed, NoIsr, taskVars, history
    <2>2. QED
      BY <1>0, <1>c, <2>1, TimeOfCounter
  <1>7. CASE CallOnce \/ CallPeriodic
    <2>1. /\ isr.at = "task" /\ isr.turn \in Slots /\ tasks[isr.turn].inUse
          /\ main' = main /\ isr'.at = "task" /\ now' = now /\ since' = since
          /\ \A i \in Slots \ {isr.turn} : tasks'[i] = tasks[i] /\ calls'[i] = calls[i]
      BY <1>7, CallEffect
    <2>2. isr'.time = isr.time
      BY <1>0, <1>7 DEF CallOnce, CallPeriodic, NextTurn, IsrState
    <2>3. ASSUME NEW i \in Slots PROVE OnTime(i)'
      <3>1. CASE i = isr.turn
        BY <1>7, <3>1, OnTimeCalled
      <3>2. CASE i # isr.turn
        <4>1. OnTime(i) /\ now <= now'
          BY <1>0, <2>1 DEF CallInv
        <4>2. QED
          BY <2>1, <3>2, <4>1, OnTimeKept
      <3>3. QED
        BY <3>1, <3>2
    <2>4. main.pc \in {"nextRtc", "nextLow", "nextHigh"} => calls'[main.slot] = 0
      <3>1. SUFFICES ASSUME main.pc \in {"nextRtc", "nextLow", "nextHigh"} PROVE calls'[main.slot] = 0
        OBVIOUS
      <3>2. main.slot \in Slots /\ main.slot # isr.turn
        BY <2>1, <3>1 DEF RegistersInArray, FreeSlots
      <3>3. QED
        BY <2>1, <3>1, <3>2 DEF CallInv
    <2>5. ReadAt(main.asked) => ReadAt(main.asked)'
      BY <2>1 DEF ReadAt
    <2>6. QED
      BY <2>1, <2>2, <2>3, <2>4, <2>5 DEF CallInv
  <1>8. CASE OvfInterrupt \/ PassTask \/ IsrReadsTime \/ IsrWritesComp
    <2>1. /\ tasks' = tasks /\ calls' = calls /\ since' = since /\ main' = main
          /\ now' = now
      BY <1>8
      DEF OvfInterrupt, PassTask, IsrReadsTime, IsrWritesComp, rtcVars, flags,
          taskVars, history
    <2>2. isr'.at = "task" => isr.at = "task" /\ isr'.time = isr.time
      BY <1>0, <1>8
      DEF OvfInterrupt, PassTask, AtTask, NextTurn, IsrReadsTime, IsrWritesComp,
          NoIsr, IsrState
    <2>3. QED
      BY <1>c, <2>1, <2>2 DEF CallInv
  <1>9. CASE Tick
    <2>1. /\ tasks' = tasks /\ calls' = calls /\ since' = since /\ main' = main
          /\ now' = now + 1 /\ isr' = isr
      BY <1>9 DEF Tick, taskVars, history
    <2>3. \A i \in Slots : OnTime(i)'
      BY <1>0, <1>a, <2>1
    <2>4. main.asked \in Nat /\ isr.time \in Nat
      BY <1>0 DEF MainState, IsrState
    <2>5. main.pc \in {"nextLow", "nextHigh"} => ReadAt(main.asked)'
      <3>1. now' \in Nat /\ now <= now'
        BY <1>0, <2>1
      <3>2. \A t \in Nat : ReadAt(t) => ReadAt(t)'
        BY <1>0, <2>1, <3>1, ReadAtKept
      <3>3. main.asked' = main.asked
        BY <2>1
      <3>4. QED
        BY <2>1, <2>4, <3>2, <3>3 DEF CallInv
    <2>6. isr.at = "task" => isr.time <= now'
      BY <1>0, <2>1, <2>4 DEF CallInv
    <2>7. QED
      BY <2>1, <2>3, <2>5, <2>6 DEF CallInv
  <1>10. CASE UNCHANGED vars
    <2>1. /\ tasks' = tasks /\ calls' = calls /\ since' = since /\ main' = main
          /\ now' = now /\ isr' = isr
      BY <1>10 DEF vars, rtcVars, flags, taskVars, history
    <2>2. QED
      BY <1>c, <2>1 DEF CallInv
  <1>11. QED
    BY <1>1, <1>2, <1>2a, <1>3, <1>4, <1>5, <1>6, <1>7, <1>8, <1>9, <1>10
    DEF Next, Main, Interrupts

(* No task is called before its time: its calls are never more than the    *)
(* intervals since it was registered, and a single shot is called once,    *)
(* for every interval, interleaving and turn of the counter.               *)
THEOREM NeverEarly == Spec => []NotEarly
  <1> DEFINE Inv == TypeOK /\ CountInv /\ RegistersInArray /\ ClockInv /\ CallInv
  <1>1. Init => Inv
    BY InitType, InitCount, InitClock, InitCalls DEF Init, Idle, RegistersInArray
  <1>2. Inv /\ [Next]_vars => Inv'
    BY NextType, CountStep, SlotStep, ClockStep, CallStep
  <1>3. Inv => NotEarly
    BY DEF CallInv, OnTime, NotEarly
  <1>4. QED
    BY <1>1, <1>2, <1>3, PTL DEF Spec

-----------------------------------------------------------------------------
(* getTime.                                                                *)

LEMMA InitTime == Init => TimeInv
  BY DEF Init, Idle, TimeInv, Asking, TimeNotBehind

LEMMA TimeStep ==
    ASSUME TypeOK, ClockInv, TimeInv, [Next]_vars
    PROVE  TimeInv'
  <1>0. /\ main \in MainState /\ now \in Nat /\ main.asked \in Nat /\ main.time \in Nat
        /\ Era \in Nat
    BY Types, TimeType, Sizes DEF MainState
  <1>1. CASE CallGetTime
    <2>1. main'.pc = "timeRtc" /\ main'.asked = now /\ now' = now
      BY <1>0, <1>1 DEF CallGetTime, MainState, Local, rtcVars, flags
    <2>2. QED
      BY <1>0, <2>1 DEF TimeInv, Asking, TimeNotBehind
  <1>2. CASE ReadRtc
    <2>1. now' = now
      BY <1>2 DEF ReadRtc, Local, rtcVars, flags
    <2>2. CASE MainAt("timeRtc")
      <3>1. /\ main.pc = "timeRtc" /\ main'.pc = "timeLow" /\ main'.asked = main.asked
            /\ main'.time = now % Era
        BY <1>0, <1>2, <2>2 DEF ReadRtc, MainAt, MainState, Cnt
      <3>2. main.asked <= now /\ now - main.asked <= Era
        BY <3>1 DEF TimeInv, Asking
      <3>3. now \in main.asked .. now /\ ReadAt(now)'
        BY <1>0, <2>1, <3>1, <3>2 DEF ReadAt
      <3>4. QED
        BY <2>1, <3>1, <3>2, <3>3 DEF TimeInv, Asking, TimeNotBehind
    <2>3. CASE MainAt("nextRtc")
      <3>1. main'.pc = "nextLow"
        BY <1>0, <1>2, <2>3 DEF ReadRtc, MainAt, MainState
      <3>2. QED
        BY <3>1 DEF TimeInv, Asking, TimeNotBehind
    <2>4. QED
      BY <1>2, <2>2, <2>3 DEF ReadRtc
  <1>2a. CASE ReadLow
    <2>1. now' = now
      BY <1>2a DEF ReadLow, Local, rtcVars, flags
    <2>2. CASE MainAt("timeLow")
      <3>1. main.pc = "timeLow" /\ main'.pc = "timeHigh" /\ main'.asked = main.asked
        BY <1>0, <1>2a, <2>2 DEF ReadLow, MainAt, MainState
      <3>2. PICK t \in main.asked .. now : ReadAt(t)
        BY <3>1 DEF TimeInv
      <3>3. t \in Nat
        BY <1>0
      <3>4. ReadAt(t)'
        BY <1>2a, <3>2, <3>3, LowIsRead
      <3>5. main.asked <= now /\ now - main.asked <= Era
        BY <3>1 DEF TimeInv, Asking
      <3>6. QED
        BY <2>1, <3>1, <3>4, <3>5 DEF TimeInv, Asking, TimeNotBehind
    <2>3. CASE MainAt("nextLow")
      <3>1. main'.pc = "nextHigh"
        BY <1>0, <1>2a, <2>3 DEF ReadLow, MainAt, MainState
      <3>2. QED
        BY <3>1 DEF TimeInv, Asking, TimeNotBehind
    <2>4. QED
      BY <1>2a, <2>2, <2>3 DEF ReadLow
  <1>3. CASE TimeIsRead
    <2>1. /\ main.pc = "timeHigh" /\ ~ovfFlag /\ now' = now /\ main'.pc = "answered"
          /\ main'.time = WithHigh(main.time) /\ main'.asked = main.asked
      BY <1>0, <1>3, NothingWaits DEF ReadLow, TimeIsRead, Local, rtcVars, flags, MainState
    <2>2. PICK t \in main.asked .. now : ReadAt(t)
      BY <2>1 DEF TimeInv
    <2>3. t \in Nat /\ t <= now /\ main.asked \in 0 .. t /\ now - main.asked <= Era
      BY <1>0, <2>1, <2>2 DEF TimeInv
    <2> DEFINE w == WithHigh(main.time)
               before == main.asked \div Era
               after == now \div Era
    <2>4. \/ w = t
          \/ before < after /\ w = t + Era
          \/ before \div Base < after \div Base /\ w = t + Base * Era
      BY <2>1, <2>2, <2>3, TimeRead
    <2> HIDE DEF w, before, after
    <2>5. \A d \in Nat : t + d \in main.asked + d .. now + d
      BY <1>0, <2>2, <2>3
    <2>6. 0 \in Nat /\ Era \in Nat /\ Base * Era \in Nat /\ t + 0 = t
      BY <1>0, <2>3, Sizes, ProductType
    <2>7. \/ w \in main.asked + 0 .. now + 0
          \/ before < after /\ w \in main.asked + Era .. now + Era
          \/ before \div Base < after \div Base
             /\ w \in main.asked + Base * Era .. now + Base * Era
      BY <2>4, <2>5, <2>6
    <2>8. main.asked <= now
      BY <2>1 DEF TimeInv, Asking
    <2>9. QED
      BY <2>1, <2>7, <2>8 DEF TimeInv, Asking, TimeNotBehind, w, before, after
  <1>4. CASE Main /\ ~CallGetTime /\ ~ReadRtc /\ ~ReadLow /\ ~TimeIsRead
    <2>1. main'.pc \notin {"timeRtc", "timeLow", "timeHigh", "answered"}
      <3>1. ASSUME NEW ms \in Intervals, NEW once \in BOOLEAN, RegisterTask(ms, once)
            PROVE  main'.pc = "nextRtc"
        BY <3>1, RegisterType
      <3>2. ASSUME NEW i \in Slots, CallRemoveTask(i)
            PROVE  main'.pc \in {"uncount", "disable"}
        BY <1>0, <3>2 DEF CallRemoveTask, GoesTo, MainState
      <3>3. ASSUME Scan PROVE main'.pc \in {"scan", "take"}
        BY <1>0, <3>3 DEF Scan, LookAtTask, TakeCallTime, MainAt, MainState
      <3>4. QED
        BY <1>0, <1>4, <3>1, <3>2, <3>3
        DEF Main, GetTimeReturns, TaskInUse, EnterAtomic, ReadInAtomic, WriteComp,
            EnableComp, CountTask, UncountTask, DisableComp, GoesTo, MainState
    <2>2. QED
      BY <2>1 DEF TimeInv, Asking, TimeNotBehind
  <1>5. CASE main' = main /\ now' = now
    BY <1>5 DEF TimeInv, Asking, ReadAt, TimeNotBehind
  <1>6. CASE Tick
    <2>1. /\ main' = main /\ now' = now + 1
          /\ main.pc \in {"timeRtc", "timeLow", "timeHigh"} => now - main.asked < Era
      BY <1>6 DEF Tick
    <2>2. Asking => main.asked <= now'
      BY <1>0, <2>1 DEF TimeInv
    <2>2a. main.pc \in {"timeRtc", "timeLow", "timeHigh"} => now' - main.asked <= Era
      BY <1>0, <2>1
    <2>3. ASSUME main.pc \in {"timeLow", "timeHigh"}
          PROVE  \E t \in main.asked .. now' : ReadAt(t)'
      <3>1. PICK t \in main.asked .. now : ReadAt(t)
        BY <2>3 DEF TimeInv
      <3>2. t \in Nat /\ t \in main.asked .. now'
        BY <1>0, <2>1, <2>3, <3>1
      <3>3. now' \in Nat /\ now <= now'
        BY <1>0, <2>1
      <3>4. ReadAt(t)'
        BY <1>0, <2>1, <3>1, <3>2, <3>3, ReadAtKept
      <3>5. QED
        BY <3>2, <3>4
    <2>4. ASSUME main.pc = "answered"
          PROVE  TimeNotBehind'
      <3> DEFINE before == main.asked \div Era
                 after == now \div Era
                 later == now' \div Era
      <3>1. after <= later /\ after \in Int /\ later \in Int /\ before \in Int
        BY <1>0, <2>1, Sizes, DivMonotone
      <3> HIDE DEF before, after, later
      <3>2. after \div Base <= later \div Base /\ after \div Base \in Int
            /\ later \div Base \in Int /\ before \div Base \in Int
        BY <3>1, Sizes, DivMonotone
      <3>3. \A d \in Nat : main.asked + d .. now + d \subseteq main.asked + d .. now' + d
        BY <1>0, <2>1
      <3>4. Era \in Nat /\ Base * Era \in Nat /\ 0 \in Nat
        BY Sizes, ProductType
      <3>5. \/ main.time \in main.asked + 0 .. now + 0
            \/ before < after /\ main.time \in main.asked + Era .. now + Era
            \/ before \div Base < after \div Base
               /\ main.time \in main.asked + Base * Era .. now + Base * Era
        BY <2>4 DEF TimeInv, TimeNotBehind, before, after
      <3>6. \/ main.time \in main.asked + 0 .. now' + 0
            \/ before < later /\ main.time \in main.asked + Era .. now' + Era
            \/ before \div Base < later \div Base
               /\ main.time \in main.asked + Base * Era .. now' + Base * Era
        BY <3>1, <3>2, <3>3, <3>4, <3>5
      <3>7. QED
        BY <2>1, <3>6 DEF TimeNotBehind, before, later
    <2>5. ASSUME main.pc # "answered"
          PROVE  TimeNotBehind'
      BY <2>1, <2>5 DEF TimeNotBehind
    <2>6. QED
      BY <2>1, <2>2, <2>2a, <2>3, <2>4, <2>5 DEF TimeInv, Asking
  <1>7. CASE Interrupts \/ UNCHANGED vars
    BY <1>5, <1>7
    DEF Interrupts, OvfInterrupt, CompInterrupt, PassTask, CallOnce, CallPeriodic,
        IsrReadsTime, IsrWritesComp, vars, rtcVars, flags
  <1>8. QED
    BY <1>1, <1>2, <1>2a, <1>3, <1>4, <1>6, <1>7 DEF Next

(* getTime returns a time between its call and its return; or, if the      *)
(* counter overflowed meanwhile, one an era ahead of such a time; or, if   *)
(* the overflow carried into the upper byte of time_ovf, one as many eras  *)
(* ahead as a byte has values.  No interleaving makes it fall behind.      *)
THEOREM TimeIsReliable == Spec => []TimeNotBehind
  <1> DEFINE Inv == TypeOK /\ CountInv /\ ClockInv /\ TimeInv
  <1>1. Init => Inv
    BY InitType, InitCount, InitClock, InitTime
  <1>2. Inv /\ [Next]_vars => Inv'
    BY NextType, CountStep, ClockStep, TimeStep
  <1>3. Inv => TimeNotBehind
    BY DEF TimeInv
  <1>4. QED
    BY <1>1, <1>2, <1>3, PTL DEF Spec

-----------------------------------------------------------------------------
(* What is on its way to COMP.                                             *)

\* The value that either caller computes, with the tasks as they are.
LEMMA InFutureWritable ==
    ASSUME TypeOK, ClockInv, NEW n \in Nat, BeforeAll(n)
    PROVE  Writable(InFuture(n, TimeOf(Cnt)), now)
  <1>1. now \in Nat /\ Era \in Nat /\ TimeOf(Cnt) \in Nat
    BY TimeType, Sizes
  <1>2. TimeOf(Cnt) = now \/ TimeOf(Cnt) + Era = now
    BY TimeOfCounter
  <1>3. CASE n <= TimeOf(Cnt)
    <2>1. InFuture(n, TimeOf(Cnt)) = TimeOf(Cnt) + 2
      BY <1>3 DEF InFuture
    <2>2. TimeOf(Cnt) + 2 = now + 2 \/ (TimeOf(Cnt) + 2) + Era = now + 2
      BY <1>1, <1>2
    <2>3. QED
      BY <2>1, <2>2 DEF Writable
  <1>4. CASE ~(n <= TimeOf(Cnt))
    <2>1. InFuture(n, TimeOf(Cnt)) = n
      BY <1>4 DEF InFuture
    <2>2. n + Era > now
      BY <1>1, <1>2, <1>4
    <2>3. QED
      BY <2>1, <2>2 DEF Writable
  <1>5. QED
    BY <1>3, <1>4

LEMMA InitWrite == Init => WriteInv
  BY DEF Init, Idle, NoIsr, WriteInv

LEMMA WriteStep ==
    ASSUME TypeOK, TypeOK', CountInv, ClockInv, WriteInv, [Next]_vars
    PROVE  WriteInv'
  <1>0. /\ main \in MainState /\ isr \in IsrState /\ now \in Nat /\ main.next \in Nat
        /\ lag \in Nat /\ Cnt \in 0 .. Era - 1
    BY Types, TimeType DEF MainState
  <1>a. \A i \in Slots : tasks[i].nextCallTime \in Nat /\ tasks'[i].nextCallTime \in Nat
    BY Types, NextTypes DEF Task
  \* what was before every call, and what could be written, still is
  <1>b. ASSUME ~TaskInUse, NEW n \in Nat, NEW t \in Int
        PROVE  /\ \A k \in Int : BeforeFirst(k, n) => BeforeFirst(k, n)'
               /\ BeforeAll(n) => BeforeAll(n)'
               /\ Writable(n, t) => Writable(n, t)'
    <2>1. BeforeAll(n) => BeforeAll(n)'
      <3>1. SUFFICES ASSUME BeforeAll(n), NEW i \in Slots, tasks'[i].inUse
                     PROVE  n <= tasks'[i].nextCallTime
        BY DEF BeforeAll
      <3>2. tasks[i].inUse /\ tasks'[i].nextCallTime >= tasks[i].nextCallTime
        BY <1>b, <3>1, NoneAdded
      <3>3. n <= tasks[i].nextCallTime
        BY <3>1, <3>2 DEF BeforeAll
      <3>4. QED
        BY <1>a, <3>2, <3>3
    <2>2. ASSUME NEW k \in Int, BeforeFirst(k, n) PROVE BeforeFirst(k, n)'
      <3>1. SUFFICES ASSUME NEW i \in Slots, i < k, tasks'[i].inUse
                     PROVE  n <= tasks'[i].nextCallTime
        BY DEF BeforeFirst
      <3>2. tasks[i].inUse /\ tasks'[i].nextCallTime >= tasks[i].nextCallTime
        BY <1>b, <3>1, NoneAdded
      <3>3. n <= tasks[i].nextCallTime
        BY <2>2, <3>1, <3>2 DEF BeforeFirst
      <3>4. QED
        BY <1>a, <3>2, <3>3
    <2>3. QED
      BY <2>1, <2>2 DEF Writable
  <1>1. CASE main'.pc \notin {"scan", "take", "read", "write"} /\ isr'.at # "write"
    BY <1>1 DEF WriteInv
  <1>1a. CASE TaskInUse
    <2>1. main'.pc = "scan" /\ main'.turn = 0 /\ isr'.at # "write"
      <3>1. isr' = isr /\ isr.at = "none"
        BY <1>1a DEF TaskInUse, MainAt
      <3>2. QED
        BY <1>0, <1>1a, <3>1 DEF TaskInUse, MainState
    <2>2. BeforeFirst(main.turn, main.next)'
      BY <2>1, Sizes DEF BeforeFirst, Slots
    <2>3. QED
      BY <2>1, <2>2 DEF WriteInv
  <1>2. CASE LookAtTask
    <2>1. /\ main.pc = "scan" /\ main.turn \in Slots /\ tasks' = tasks
          /\ main'.next = main.next /\ main'.raised = main.raised /\ isr'.at # "write"
      BY <1>0, <1>2, Sizes DEF LookAtTask, MainAt, Local, taskVars, MainState, Slots
    <2>2. CASE main'.pc = "take" /\ main'.turn = main.turn
      BY <2>1, <2>2 DEF WriteInv, BeforeFirst
    <2>3. CASE /\ main'.pc = "scan" /\ main'.turn = main.turn + 1
               /\ ~(tasks[main.turn].inUse /\ tasks[main.turn].nextCallTime < main.next)
      <3>1. ASSUME BeforeFirst(main.turn, main.next), NEW i \in Slots, i < main.turn + 1,
                   tasks[i].inUse
            PROVE  main.next <= tasks[i].nextCallTime
        <4>1. CASE i < main.turn
          BY <3>1, <4>1 DEF BeforeFirst
        <4>2. CASE i = main.turn
          BY <1>0, <1>a, <2>3, <3>1, <4>2
        <4>3. QED
          BY <2>1, <3>1, <4>1, <4>2 DEF Slots
      <3>2. ~main.raised => BeforeFirst(main.turn, main.next)'
        BY <2>1, <2>3, <3>1 DEF WriteInv, BeforeFirst
      <3>3. QED
        BY <2>1, <2>3, <3>2 DEF WriteInv
    <2>4. QED
      BY <1>0, <1>2, <2>2, <2>3 DEF LookAtTask, MainAt, MainState
  <1>2a. CASE TakeCallTime
    <2> DEFINE call == tasks[main.turn].nextCallTime
    <2>1. /\ main.pc = "take" /\ main.turn \in Slots /\ tasks' = tasks
          /\ main'.pc = "scan" /\ main'.turn = main.turn + 1 /\ main'.next = call
          /\ main'.raised = (main.raised \/ call > main.next) /\ isr'.at # "write"
      <3>1. main.pc = "take" /\ main.turn \in Slots
        BY <1>0, <1>2a, Sizes DEF TakeCallTime, MainAt, CountInv, MainState, Slots
      <3>2. QED
        BY <1>0, <1>2a, <3>1 DEF TakeCallTime, MainAt, Local, taskVars, MainState
    <2>2. ASSUME ~main'.raised, NEW i \in Slots, i < main.turn + 1, tasks[i].inUse
          PROVE  call <= tasks[i].nextCallTime
      <3>1. ~main.raised /\ call <= main.next /\ BeforeFirst(main.turn, main.next)
        <4>1. call \in Nat /\ main.next \in Nat
          BY <1>0, <1>a, <2>1
        <4>2. ~main.raised /\ ~(call > main.next)
          BY <2>1, <2>2
        <4> HIDE DEF call
        <4>3. QED
          BY <2>1, <4>1, <4>2 DEF WriteInv
      <3>2. CASE i < main.turn
        BY <1>0, <1>a, <2>1, <2>2, <3>1, <3>2 DEF BeforeFirst
      <3>3. CASE i = main.turn
        BY <1>a, <2>1, <3>3
      <3>4. QED
        BY <2>1, <2>2, <3>2, <3>3 DEF Slots
    <2>3. ~main'.raised => BeforeFirst(main.turn, main.next)'
      BY <2>1, <2>2 DEF BeforeFirst
    <2>4. QED
      BY <2>1, <2>3 DEF WriteInv
  <1>3. CASE EnterAtomic
    <2>1. /\ main.pc = "scan" /\ main.turn = MaxTasks /\ main'.pc = "read"
          /\ main'.next = main.next /\ main'.raised = main.raised
          /\ tasks' = tasks /\ isr'.at # "write"
      BY <1>0, <1>3 DEF EnterAtomic, MainAt, taskVars, MainState
    <2>2. BeforeFirst(main.turn, main.next) => BeforeAll(main.next)
      BY <2>1, Sizes DEF BeforeFirst, BeforeAll, Slots
    <2>3. QED
      BY <2>1, <2>2 DEF WriteInv, BeforeAll, BeforeFirst
  <1>4. CASE ReadInAtomic
    <2>1. /\ main.pc = "read" /\ main'.pc = "write" /\ now' = now
          /\ main'.next = InFuture(main.next, TimeOf(Cnt)) /\ main'.raised = main.raised
          /\ tasks' = tasks /\ isr'.at # "write"
      BY <1>0, <1>4 DEF ReadInAtomic, MainAt, Local, rtcVars, flags, taskVars, MainState
    <2>2. ~main.raised => Writable(InFuture(main.next, TimeOf(Cnt)), now)
      BY <1>0, <2>1, InFutureWritable DEF WriteInv
    <2>3. QED
      BY <2>1, <2>2 DEF WriteInv, Writable, BeforeAll, BeforeFirst
  <1>5. CASE Main /\ ~TaskInUse /\ ~Scan /\ ~EnterAtomic /\ ~ReadInAtomic
    <2>1. main'.pc \notin {"scan", "take", "read", "write"}
      <3>1. ASSUME NEW ms \in Intervals, NEW once \in BOOLEAN, RegisterTask(ms, once)
            PROVE  main'.pc = "nextRtc"
        BY <3>1, RegisterType
      <3>2. ASSUME NEW i \in Slots, CallRemoveTask(i)
            PROVE  main'.pc \in {"uncount", "disable"}
        BY <1>0, <3>2 DEF CallRemoveTask, GoesTo, MainState
      <3>3. ASSUME ReadRtc \/ ReadLow
            PROVE  main'.pc \in {"timeLow", "nextLow", "timeHigh", "nextHigh"}
        BY <1>0, <3>3 DEF ReadRtc, ReadLow, MainState
      <3>4. QED
        BY <1>0, <1>5, <3>1, <3>2, <3>3
        DEF Main, CallGetTime, TimeIsRead, GetTimeReturns, WriteComp,
            EnableComp, CountTask, UncountTask, DisableComp, GoesTo, MainState
    <2>2. isr' = isr /\ isr.at = "none"
      BY <1>5
      DEF Main, CallGetTime, ReadRtc, ReadLow, TimeIsRead, GetTimeReturns, RegisterTask,
          WriteComp, EnableComp, CountTask, CallRemoveTask, UncountTask, DisableComp,
          MainAt, Local
    <2>3. QED
      BY <1>1, <2>1, <2>2
  <1>6. CASE Interrupts
    <2>1. main' = main /\ now' = now /\ ~Atomic
      BY <1>6
      DEF Interrupts, OvfInterrupt, CompInterrupt, PassTask, CallOnce, CallPeriodic,
          IsrReadsTime, IsrWritesComp, OvfServed, CompServed, AtTask, ClockInv,
          rtcVars, flags
    <2>2. ~TaskInUse
      BY <1>0, <2>1 DEF TaskInUse, MainAt, MainState
    <2>3. ~main'.raised =>
             /\ main'.pc \in {"scan", "take"} => BeforeFirst(main.turn, main.next)'
             /\ main'.pc = "read" => BeforeAll(main.next)'
      <3>1. main.turn \in Int
        BY <1>0 DEF MainState
      <3>2. QED
        BY <1>0, <1>b, <2>1, <2>2, <3>1 DEF WriteInv
    <2>4. main'.pc # "write"
      BY <2>1 DEF Atomic
    <2>5. CASE IsrReadsTime
      <3>1. /\ isr'.time = Cnt /\ tasks' = tasks /\ Cnt' = Cnt
            /\ isr'.next = InFuture(NextInterrupt, TimeOf(Cnt))
        BY <2>1, <2>5 DEF IsrReadsTime, taskVars, Cnt
      <3>2. Writable(InFuture(NextInterrupt, TimeOf(Cnt)), now)
        BY NextInterruptFirst, InFutureWritable
      <3>3. QED
        BY <2>1, <2>3, <2>4, <3>1, <3>2 DEF WriteInv, Writable, BeforeAll, BeforeFirst
    <2>6. CASE ~IsrReadsTime
      <3>1. isr'.at # "write"
        <4>1. CASE OvfInterrupt
          BY <4>1 DEF OvfInterrupt, OvfServed
        <4>2. CASE CompInterrupt
          BY <4>2 DEF CompInterrupt, NoIsr
        <4>3. CASE PassTask \/ CallOnce \/ CallPeriodic
          BY <1>0, <4>3 DEF PassTask, CallOnce, CallPeriodic, AtTask, NextTurn, IsrState
        <4>4. CASE IsrWritesComp
          BY <4>4 DEF IsrWritesComp, NoIsr
        <4>5. QED
          BY <1>6, <2>6, <4>1, <4>2, <4>3, <4>4 DEF Interrupts
      <3>2. QED
        BY <2>1, <2>3, <2>4, <3>1 DEF WriteInv, BeforeAll, BeforeFirst
    <2>7. QED
      BY <2>5, <2>6
  <1>7. CASE Tick
    <2>1. /\ main' = main /\ isr' = isr /\ tasks' = tasks /\ now' = now + 1
          /\ isr.at = "write" => Cnt = isr.time
          /\ Busy => lag < LagMax
          /\ lag' = IF Busy THEN lag + 1 ELSE 0
      BY <1>7 DEF Tick, taskVars
    <2>2. Cnt' # Cnt /\ now = now' - 1
      <3>1. Cnt' = IF Cnt = Era - 1 THEN 0 ELSE Cnt + 1
        BY <2>1, CounterTicks
      <3>2. QED
        BY <1>0, <2>1, <3>1, Sizes
    <2>3. ASSUME main.pc = "write", ~main.raised
          PROVE  lag' = 1 /\ Writable(main.next, now' - 1)
      <3>1. Atomic /\ isr.at = "none"
        BY <2>3 DEF Atomic, ClockInv
      <3>2. lag = 0 /\ lag' = 1
        BY <1>0, <2>1, <3>1 DEF Busy, LagMax
      <3>3. Writable(main.next, now)
        BY <2>3, <3>2 DEF WriteInv
      <3>4. QED
        BY <2>2, <3>2, <3>3
    <2>4. ASSUME isr.at = "write"
          PROVE  Cnt' # isr.time /\ Writable(isr.next, now' - 1)
      <3>1. Writable(isr.next, now) /\ Cnt = isr.time
        BY <2>1, <2>4 DEF WriteInv
      <3>2. QED
        BY <2>2, <3>1
    <2>5. QED
      BY <2>1, <2>3, <2>4 DEF WriteInv, Writable, BeforeAll, BeforeFirst
  <1>8. CASE UNCHANGED vars
    <2>1. /\ main' = main /\ isr' = isr /\ tasks' = tasks /\ now' = now /\ lag' = lag
      BY <1>8 DEF vars, rtcVars, flags, taskVars
    <2>2. QED
      BY <2>1 DEF WriteInv, Writable, BeforeAll, BeforeFirst, Cnt
  <1>9. QED
    BY <1>1a, <1>2, <1>2a, <1>3, <1>4, <1>5, <1>6, <1>7, <1>8 DEF Next, Scan

-----------------------------------------------------------------------------
(* COMP.                                                                   *)

\* Once it is written the counter meets it in time for a task in use.
LEMMA CompareSet ==
    ASSUME TypeOK, NEW n \in Nat, Writable(n, now) \/ Writable(n, now - 1),
           NEW i \in Slots, tasks[i].inUse
    PROVE  \/ ((n % Era) - Cnt) % Era <= 2
           \/ now + (((n % Era) - Cnt) % Era) <= tasks[i].nextCallTime + Era
  <1> DEFINE u == ((n % Era) - Cnt) % Era
  <1>1. /\ now \in Nat /\ Era \in Nat /\ Era > 2 /\ tasks[i].nextCallTime \in Nat
        /\ Cnt = now % Era
    BY TimeType, Sizes, Types DEF Task, Cnt
  <1>2. ASSUME NEW d \in 0 .. Era - 1, n = now + d \/ n + Era = now + d
        PROVE  u = d
    <2>1. n % Era = (now + d) % Era
      <3>1. CASE n = now + d
        BY <3>1
      <3>2. CASE n + Era = now + d
        BY <1>1, <3>2, ModEra
      <3>3. QED
        BY <1>2, <3>1, <3>2
    <2>2. (((now + d) % Era) - (now % Era)) % Era = d
      <3>1. now \in Int /\ Era \in Nat /\ Era > 0
        BY <1>1
      <3>2. QED
        BY <3>1, ModAhead
    <2>3. QED
      BY <1>1, <2>1, <2>2
  <1>3. u \in 0 .. Era - 1
    <2>1. n % Era \in 0 .. Era - 1 /\ Cnt \in 0 .. Era - 1
      BY <1>1, ModRange
    <2>2. (n % Era) - Cnt \in Int
      BY <2>1
    <2>3. QED
      BY <1>1, <2>2, ModRange
  <1> HIDE DEF u
  <1>4. CASE n = now + 2 \/ n + Era = now + 2
    <2>1. u = 2
      BY <1>1, <1>2, <1>4
    <2>2. QED
      BY <2>1 DEF u
  <1>5. CASE n = (now - 1) + 2 \/ n + Era = (now - 1) + 2
    <2>1. 1 \in 0 .. Era - 1 /\ (n = now + 1 \/ n + Era = now + 1)
      BY <1>1, <1>5
    <2>2. u = 1
      BY <1>2, <2>1
    <2>3. QED
      BY <2>2 DEF u
  <1>6. CASE n + Era >= now /\ n <= tasks[i].nextCallTime
    <2>1. CASE n >= now /\ n - now < Era
      <3>1. n - now \in 0 .. Era - 1 /\ n = now + (n - now)
        BY <1>1, <2>1
      <3>2. u = n - now
        BY <1>2, <3>1
      <3>3. now + u <= tasks[i].nextCallTime + Era
        BY <1>1, <1>3, <1>6, <3>2
      <3>4. QED
        BY <3>3 DEF u
    <2>2. CASE n >= now /\ n - now >= Era
      <3>1. now + u <= tasks[i].nextCallTime + Era
        BY <1>1, <1>3, <1>6, <2>2
      <3>2. QED
        BY <3>1 DEF u
    <2>3. CASE n < now
      <3>1. (n + Era) - now \in 0 .. Era - 1 /\ n + Era = now + ((n + Era) - now)
        BY <1>1, <1>6, <2>3
      <3>2. u = (n + Era) - now
        BY <1>2, <3>1
      <3>3. now + u <= tasks[i].nextCallTime + Era
        BY <1>1, <1>6, <3>2
      <3>4. QED
        BY <3>3 DEF u
    <2>4. QED
      BY <1>1, <2>1, <2>2, <2>3
  <1>7. ASSUME NEW t \in {now, now - 1}, n + Era > t, BeforeAll(n)
        PROVE  n + Era >= now /\ n <= tasks[i].nextCallTime
    BY <1>1, <1>7 DEF BeforeAll
  <1>8. QED
    BY <1>4, <1>5, <1>6, <1>7 DEF Writable

\* A step that leaves COMP and the counter, and no task to wait longer for it.
LEMMA CompKept ==
    ASSUME TypeOK, TypeOK', [Next]_vars, CompInv, ~TaskInUse,
           comp' = comp, astray' = astray, now' = now,
           isr'.at = "none" /\ ~compFlag' => isr.at = "none" /\ ~compFlag,
           main.pc \in {"scan", "take", "read", "write"} =>
               main'.slot = main.slot /\ main'.pc \in {"scan", "take", "read", "write"}
    PROVE  CompInv'
  <1>1. SUFFICES ASSUME isr.at = "none", ~compFlag, ~astray, NEW i \in Slots, tasks'[i].inUse,
                        ~(i = main'.slot /\ main'.pc \in {"scan", "take", "read", "write"})
                 PROVE  \/ UntilCompare' <= 2
                        \/ now' + UntilCompare' <= tasks'[i].nextCallTime + Era
    BY DEF CompInv
  <1>2. tasks[i].inUse /\ tasks'[i].nextCallTime >= tasks[i].nextCallTime
    BY <1>1, NoneAdded
  <1>3. UntilCompare' = UntilCompare
    BY DEF UntilCompare, Cnt
  <1>4. /\ tasks[i].nextCallTime \in Nat /\ tasks'[i].nextCallTime \in Nat
        /\ now \in Nat /\ Era \in Nat /\ UntilCompare \in Nat
    <2>1. comp - Cnt \in Int
      BY Types, TimeType, Sizes
    <2>2. UntilCompare \in 0 .. Era - 1
      BY <2>1, Sizes, ModRange DEF UntilCompare
    <2>3. QED
      BY <2>2, Types, NextTypes, Sizes DEF Task
  <1>5. UntilCompare <= 2 \/ now + UntilCompare <= tasks[i].nextCallTime + Era
    BY <1>1, <1>2 DEF CompInv
  <1>6. CASE UntilCompare <= 2
    BY <1>3, <1>6
  <1>7. CASE now + UntilCompare <= tasks[i].nextCallTime + Era
    <2>1. now + UntilCompare <= tasks'[i].nextCallTime + Era
      BY <1>2, <1>4, <1>7
    <2>2. QED
      BY <1>3, <2>1
  <1>8. QED
    BY <1>5, <1>6, <1>7

\* A tick brings the counter nearer to COMP, or it was there.
LEMMA CompTicks ==
    ASSUME TypeOK, now' = now + 1, comp' = comp, Cnt # comp
    PROVE  /\ UntilCompare \in Nat /\ UntilCompare' \in Nat
           /\ UntilCompare' = UntilCompare - 1
  <1>1. /\ comp \in 0 .. Era - 1 /\ Cnt \in 0 .. Era - 1 /\ Era \in Nat
    BY Types, TimeType, Sizes
  <1>2. Cnt' = IF Cnt = Era - 1 THEN 0 ELSE Cnt + 1
    BY CounterTicks
  <1>3. Cnt' \in 0 .. Era - 1
    BY <1>1, <1>2, Sizes
  <1>4. UntilCompare = IF comp >= Cnt THEN comp - Cnt ELSE comp - Cnt + Era
    BY <1>1, ModDistance DEF UntilCompare
  <1>5. UntilCompare' = IF comp >= Cnt' THEN comp - Cnt' ELSE comp - Cnt' + Era
    <2>1. UntilCompare' = (comp - Cnt') % Era
      BY DEF UntilCompare
    <2>2. (comp - Cnt') % Era = IF comp >= Cnt' THEN comp - Cnt' ELSE comp - Cnt' + Era
      BY <1>1, <1>3, ModDistance
    <2>3. QED
      BY <2>1, <2>2
  <1>6. QED
    BY <1>1, <1>2, <1>3, <1>4, <1>5

LEMMA InitComp == Init => CompInv
  BY DEF Init, NoTask, CompInv

LEMMA CompStep ==
    ASSUME TypeOK, TypeOK', ClockInv, WriteInv, CompInv, [Next]_vars
    PROVE  CompInv'
  <1>0. /\ main \in MainState /\ isr \in IsrState /\ now \in Nat
        /\ main.next \in Nat /\ isr.next \in Nat
    BY Types, TimeType DEF MainState, IsrState
  <1>1. CASE isr'.at # "none"
    BY <1>1 DEF CompInv
  <1>2. CASE TaskInUse
    <2>1. /\ main.pc = "nextHigh" /\ main'.pc = "scan" /\ main'.slot = main.slot
          /\ comp' = comp /\ now' = now /\ isr' = isr /\ compFlag' = compFlag
          /\ astray' = astray
          /\ \A i \in Slots : i # main.slot => tasks'[i] = tasks[i]
      BY <1>0, <1>2 DEF TaskInUse, MainAt, MainState, rtcVars, flags
    <2>2. UntilCompare' = UntilCompare
      BY <2>1 DEF UntilCompare, Cnt
    <2>3. QED
      BY <2>1, <2>2 DEF CompInv
  <1>3. CASE CallGetTime \/ ReadRtc \/ ReadLow \/ TimeIsRead \/ GetTimeReturns \/ EnableComp
             \/ CountTask \/ UncountTask \/ DisableComp
             \/ (\E j \in Slots : CallRemoveTask(j))
             \/ (\E ms \in Intervals, once \in BOOLEAN : RegisterTask(ms, once))
    <2>1. /\ comp' = comp /\ now' = now /\ isr' = isr /\ compFlag' = compFlag
          /\ astray' = astray
      BY <1>3
      DEF CallGetTime, ReadRtc, ReadLow, TimeIsRead, GetTimeReturns, EnableComp,
          CountTask,
          UncountTask, DisableComp, CallRemoveTask, RegisterTask, Local, rtcVars,
          flags, history
    <2>2. main.pc \notin {"scan", "take", "read", "write", "nextHigh"}
      BY <1>3
      DEF CallGetTime, ReadRtc, ReadLow, TimeIsRead, GetTimeReturns, EnableComp,
          CountTask,
          UncountTask, DisableComp, CallRemoveTask, RegisterTask, MainAt
    <2>3. ~TaskInUse
      BY <2>2 DEF TaskInUse, MainAt
    <2>4. QED
      BY <2>1, <2>2, <2>3, CompKept
  <1>4. CASE Scan \/ EnterAtomic \/ ReadInAtomic
    <2>1. /\ comp' = comp /\ now' = now /\ isr' = isr /\ compFlag' = compFlag
          /\ astray' = astray
          /\ main'.slot = main.slot /\ main'.pc \in {"scan", "take", "read", "write"}
          /\ main.pc # "nextHigh"
      BY <1>0, <1>4
      DEF Scan, LookAtTask, TakeCallTime, EnterAtomic, ReadInAtomic, MainAt, Local,
          rtcVars, flags, history, MainState
    <2>2. ~TaskInUse
      BY <2>1 DEF TaskInUse, MainAt
    <2>3. QED
      BY <2>1, <2>2, CompKept
  <1>5. CASE WriteComp \/ IsrWritesComp
    <2>0. SUFFICES ASSUME ~astray' PROVE CompInv'
      BY DEF CompInv
    <2>1. PICK n \in Nat : /\ comp' = n % Era
                           /\ Writable(n, now) \/ Writable(n, now - 1)
      <3>1. CASE WriteComp
        <4>1. main.pc = "write" /\ comp' = main.next % Era /\ ~main.raised
          BY <2>0, <3>1 DEF WriteComp, MainAt
        <4>2. QED
          BY <1>0, <4>1 DEF WriteInv
      <3>2. CASE IsrWritesComp
        <4>1. isr.at = "write" /\ comp' = isr.next % Era
          BY <3>2 DEF IsrWritesComp
        <4>2. QED
          BY <1>0, <4>1 DEF WriteInv
      <3>3. QED
        BY <1>5, <3>1, <3>2
    <2>2. tasks' = tasks /\ now' = now
      BY <1>5 DEF WriteComp, IsrWritesComp, flags, taskVars
    <2>3. UntilCompare' = ((n % Era) - Cnt) % Era
      BY <2>1, <2>2 DEF UntilCompare, Cnt
    <2>4. QED
      BY <2>1, <2>2, <2>3, CompareSet DEF CompInv
  <1>6. CASE OvfInterrupt \/ UNCHANGED vars
    <2>1. /\ comp' = comp /\ now' = now /\ isr' = isr /\ compFlag' = compFlag
          /\ astray' = astray
          /\ main' = main
      BY <1>6 DEF OvfInterrupt, vars, rtcVars, flags, history
    <2>2. ~TaskInUse
      BY <1>0, <2>1 DEF TaskInUse, MainAt, MainState
    <2>3. QED
      BY <2>1, <2>2, CompKept
  <1>7. CASE CompInterrupt \/ PassTask \/ CallOnce \/ CallPeriodic \/ IsrReadsTime
    <2>1. isr'.at # "none"
      <3>1. CASE CompInterrupt
        BY <3>1 DEF CompInterrupt, NoIsr
      <3>2. CASE PassTask \/ CallOnce \/ CallPeriodic
        BY <1>0, <3>2 DEF PassTask, CallOnce, CallPeriodic, AtTask, NextTurn, IsrState
      <3>3. CASE IsrReadsTime
        BY <3>3 DEF IsrReadsTime
      <3>4. QED
        BY <1>7, <3>1, <3>2, <3>3
    <2>2. QED
      BY <1>1, <2>1
  <1>8. CASE Tick
    <2>1. /\ main' = main /\ isr' = isr /\ tasks' = tasks /\ now' = now + 1 /\ comp' = comp
          /\ compFlag' = (compFlag \/ Cnt = comp) /\ astray' = astray
      BY <1>8 DEF Tick, taskVars, history
    <2>2. SUFFICES ASSUME isr.at = "none", ~compFlag, ~astray, Cnt # comp,
                          NEW i \in Slots, tasks[i].inUse,
                          ~(i = main.slot /\ main.pc \in {"scan", "take", "read", "write"})
                   PROVE  \/ UntilCompare' <= 2
                          \/ now' + UntilCompare' <= tasks[i].nextCallTime + Era
      BY <2>1 DEF CompInv
    <2>3. UntilCompare <= 2 \/ now + UntilCompare <= tasks[i].nextCallTime + Era
      BY <2>2 DEF CompInv
    <2>4. UntilCompare \in Nat /\ UntilCompare' = UntilCompare - 1
      BY <2>1, <2>2, CompTicks
    <2>5. now' + UntilCompare' = now + UntilCompare
      BY <1>0, <2>1, <2>4
    <2>6. UntilCompare <= 2 => UntilCompare' <= 2
      BY <2>4
    <2>7. QED
      BY <2>3, <2>5, <2>6
  <1>9. QED
    BY <1>2, <1>3, <1>4, <1>5, <1>6, <1>7, <1>8 DEF Next, Main, Interrupts

(* No task is lost: whenever the compare interrupt neither waits nor runs, *)
(* the counter meets COMP within two ticks or within an era of the call    *)
(* time of every task, although COMP may have been computed from a time an *)
(* era behind or before call times moved.  Only where setNextInterrupt     *)
(* compared a call time and then took a later one is COMP left out, until  *)
(* the compare interrupt sets it again.                                    *)
THEOREM NoTaskLost == Spec => []ComparesInTime
  <1> DEFINE Inv == TypeOK /\ CountInv /\ ClockInv /\ WriteInv /\ CompInv
  <1>1. Init => Inv
    BY InitType, InitCount, InitClock, InitWrite, InitComp
  <1>2. Inv /\ [Next]_vars => Inv'
    BY NextType, CountStep, ClockStep, WriteStep, CompStep
  <1>3. Inv => ComparesInTime
    BY DEF CompInv, ComparesInTime, Registering
  <1>4. QED
    BY <1>1, <1>2, <1>3, PTL DEF Spec
=============================================================================
