---------------------------- MODULE TaskManager ----------------------------
(***************************************************************************)
(* taskmanager.cpp: timed tasks on the 16-bit real-time counter (RTC).     *)
(* The main program registers and removes tasks and asks for the time; the *)
(* compare interrupt calls the tasks that are due and programs the next    *)
(* compare; the overflow interrupt counts the turns of the counter.  Both  *)
(* interrupts have the low level: neither interrupts the other, and the    *)
(* overflow goes first when both wait.  They fall between any two steps of *)
(* the main program that do not run under ATOMIC_BLOCK, and the counter    *)
(* goes on between any two steps.                                          *)
(* A pending interrupt that is not masked is served before the next step   *)
(* of the main program.  time_ovf is read a byte at a time where an        *)
(* interrupt can come between, the lower one first, as avr-gcc does.  A    *)
(* member of a task is read in one step.                                   *)
(***************************************************************************)
EXTENDS Integers, FiniteSets, FiniteSetsExt

CONSTANTS MaxTasks,    \* TASKMANAGER_MAX_TASKS
          Era,         \* 2^16, the modulus of RTC.CNT, smaller in the runs
          Base,        \* 256, the values of a byte, fewer in the runs
          Intervals,   \* the intervals registered, in milliseconds
          IsrTicks,    \* ticks the compare interrupt may take
          Horizon,     \* ticks in a behaviour (bound; so far below 2^32 that
                       \* no time wraps) ...
          CallTicks,   \* ... less this for each call of registerTask (bound)
          CallMax      \* calls of registerTask in a behaviour (bound)

ASSUME TaskManagerAssumption ==
    /\ MaxTasks \in 1 .. 127 /\ Era \in Nat /\ Era > 2
    /\ Base \in Nat \ {0}
    /\ Intervals \subseteq Nat
    /\ {IsrTicks, Horizon, CallTicks, CallMax} \subseteq Nat
    /\ IsrTicks + 1 < Era   \* or an overflow would wait for the next one

Slots == 0 .. MaxTasks - 1

VARIABLES now,          \* ticks since initialize(); RTC.CNT is now % Era
          ovfFlag,      \* the overflow interrupt is pending
          compFlag,     \* the compare interrupt is pending
          comp,         \* RTC.COMP
          compOn,       \* RTC.INTCTRL: the compare interrupt has a level
          timeOvf,      \* time_ovf
          tasks,        \* tasks[]
          tasksInUse,   \* tasksInUse
          main,         \* the main program: where it stands (pc), with which
                        \* task (slot), `rtc` or what getTime returns (time),
                        \* the loop index (turn) and `nextInterrupt` (next)
                        \* of setNextInterrupt, and as history when it
                        \* called getTime or read the counter (asked) and
                        \* whether `nextInterrupt` ever went up (raised)
          isr,          \* the compare interrupt: where it stands (at), its
                        \* loop index (turn), `time` and `nextInterrupt`
          lag,          \* ticks since the interrupts were last done
          calls,        \* history: calls of each slot's function ...
          since,        \* history: ... since it was registered
          astray,       \* history: COMP is a `nextInterrupt` that went up
          registered    \* calls of registerTask so far

flags == <<now, ovfFlag, compFlag>>
rtcVars == <<flags, comp, compOn, timeOvf>>
taskVars == <<tasks, tasksInUse>>
history == <<calls, since, astray, registered>>
vars == <<rtcVars, taskVars, main, isr, lag, history>>

Cnt == now % Era
NoTask == [inUse |-> FALSE, singleShot |-> FALSE, interval |-> 0,
           nextCallTime |-> 0, error |-> 0, currentError |-> 0]

\* muldiv(interval, 2048, 1000, roundingError), and the remainder cut to the
\* uint8_t member.
Scaled(ms) == (ms * 2048) \div 1000
Rounding(ms) == ((ms * 2048) % 1000) % 256

Idle == [pc |-> "idle", slot |-> 0, time |-> 0, turn |-> 0, next |-> 0,
         asked |-> 0, raised |-> FALSE]
NoIsr == [at |-> "none", turn |-> 0, time |-> 0, next |-> 0]

\* initialize().  The flags and COMP are those of the reset counter.
Init ==
    /\ now = 0 /\ timeOvf = 0
    /\ ovfFlag = FALSE /\ compFlag = FALSE /\ comp = 0 /\ compOn = FALSE
    /\ tasks = [i \in Slots |-> NoTask] /\ tasksInUse = 0
    /\ main = Idle /\ isr = NoIsr /\ lag = 0
    /\ calls = [i \in Slots |-> 0] /\ since = [i \in Slots |-> 0]
    /\ astray = FALSE /\ registered = 0

-----------------------------------------------------------------------------
(* setNextInterrupt(), for either caller.                                  *)

Forever == 2 * Horizon + Era   \* stands for 0xFFFFFFFF

\* The loop over the tasks, with nothing between its turns.
NextInterrupt == Min({Forever} \cup {tasks[i].nextCallTime : i \in
                                       {j \in Slots : tasks[j].inUse}})

\* What getTime() makes of a value of the counter, with nothing between.
TimeOf(rtc) == timeOvf * Era + rtc

\* A call time that has passed is moved to two ticks from now.
InFuture(call, t) == IF call <= t THEN t + 2 ELSE call

-----------------------------------------------------------------------------
(* The main program.                                                       *)

Atomic == main.pc \in {"read", "write"}   \* inside ATOMIC_BLOCK
OvfServed == ovfFlag /\ ~Atomic /\ isr.at = "none"
CompServed == compFlag /\ compOn /\ ~Atomic /\ isr.at = "none" /\ ~ovfFlag

MainAt(label) == main.pc = label /\ isr.at = "none" /\ ~OvfServed /\ ~CompServed
GoesTo(label) == main' = [main EXCEPT !.pc = label]

\* A step of the main program that writes its locals only.
Local == UNCHANGED <<rtcVars, taskVars, isr, lag, history>>

\* getTimeMs() calls getTime() and scales what it gets; so does the main loop.
CallGetTime ==
    /\ MainAt("idle") /\ Local
    /\ main' = [main EXCEPT !.pc = "timeRtc", !.asked = now]

\* getTime(), for getTimeMs() or registerTask: the counter, atomic ...
ReadRtc ==
    /\ Local
    /\ \/ MainAt("timeRtc") /\ main' = [main EXCEPT !.pc = "timeLow", !.time = Cnt]
       \/ /\ MainAt("nextRtc")
          /\ main' = [main EXCEPT !.pc = "nextLow", !.time = Cnt, !.asked = now]

\* ... then, no longer atomic, the lower byte of time_ovf ...
WithLow(rtc) == (timeOvf % Base) * Era + rtc

ReadLow ==
    /\ Local
    /\ \/ /\ MainAt("timeLow")
          /\ main' = [main EXCEPT !.pc = "timeHigh", !.time = WithLow(@)]
       \/ /\ MainAt("nextLow")
          /\ main' = [main EXCEPT !.pc = "nextHigh", !.time = WithLow(@)]

\* ... and the upper byte.
WithHigh(time) == (timeOvf \div Base) * Base * Era + time

TimeIsRead ==
    /\ MainAt("timeHigh") /\ Local
    /\ main' = [main EXCEPT !.pc = "answered", !.time = WithHigh(@)]

GetTimeReturns ==
    /\ MainAt("answered") /\ Local
    /\ main' = [main EXCEPT !.pc = "idle", !.time = 0, !.asked = 0]

FreeSlots == {i \in Slots : ~tasks[i].inUse}

\* registerTask() while tasksInUse says there is room: the first free slot.
\* Its members are written while it is not in use, out of sight of the ISR.
RegisterTask(ms, onlyOnce) ==
    /\ MainAt("idle") /\ registered < CallMax
    /\ now + (registered + 1) * CallTicks <= Horizon
    /\ tasksInUse # MaxTasks
    /\ registered' = registered + 1
    /\ main' = [main EXCEPT !.pc = "nextRtc", !.slot = Min(FreeSlots \cup {MaxTasks})]
    /\ tasks' = [i \in Slots |->
          IF i = main'.slot
            THEN [NoTask EXCEPT !.singleShot = onlyOnce,
                                !.interval = Scaled(ms), !.error = Rounding(ms)]
            ELSE tasks[i]]
    /\ calls' = [calls EXCEPT ![main'.slot] = 0]
    /\ since' = [since EXCEPT ![main'.slot] = now]
    /\ UNCHANGED <<rtcVars, tasksInUse, isr, lag, astray>>

\* nextCallTime = getTime() + intervalScaled, and inUse = 1.
TaskInUse ==
    /\ MainAt("nextHigh")
    /\ tasks' = [i \in Slots |->
          IF i = main.slot
            THEN [tasks[i] EXCEPT !.inUse = TRUE,
                                  !.nextCallTime = WithHigh(main.time) + tasks[i].interval]
            ELSE tasks[i]]
    /\ since' = [since EXCEPT ![main.slot] = main.asked]
    /\ main' = [main EXCEPT !.pc = "scan", !.time = 0, !.turn = 0, !.next = Forever,
                             !.asked = 0, !.raised = FALSE]
    /\ UNCHANGED <<rtcVars, tasksInUse, isr, lag, calls, astray, registered>>

\* setNextInterrupt() in the main program: the loop, a slot at a time ...
LookAtTask ==
    /\ MainAt("scan") /\ main.turn < MaxTasks /\ Local
    /\ main' = IF tasks[main.turn].inUse /\ tasks[main.turn].nextCallTime < main.next
                THEN [main EXCEPT !.pc = "take"]
                ELSE [main EXCEPT !.turn = @ + 1]

\* ... whose volatile call time is read again to be taken ...
TakeCallTime ==
    /\ MainAt("take") /\ Local
    /\ LET call == tasks[main.turn].nextCallTime
       IN  main' = [main EXCEPT !.pc = "scan", !.turn = @ + 1, !.next = call,
                                !.raised = @ \/ call > main.next]

Scan == LookAtTask \/ TakeCallTime

\* ... then ATOMIC_BLOCK, with getTime() ...
EnterAtomic ==
    /\ MainAt("scan") /\ main.turn = MaxTasks /\ lag' = 0
    /\ main' = [main EXCEPT !.pc = "read", !.turn = 0]
    /\ UNCHANGED <<rtcVars, taskVars, isr, history>>

ReadInAtomic ==
    /\ MainAt("read") /\ Local
    /\ main' = [main EXCEPT !.pc = "write", !.next = InFuture(@, TimeOf(Cnt))]

\* ... and the compare register.
WriteComp ==
    /\ MainAt("write")
    /\ comp' = main.next % Era /\ astray' = main.raised /\ lag' = 0
    /\ main' = [main EXCEPT !.pc = "enable", !.next = 0]
    /\ UNCHANGED <<flags, compOn, timeOvf, taskVars, isr, calls, since, registered>>

Enabled == compOn' = TRUE

EnableComp ==
    /\ MainAt("enable") /\ Enabled /\ GoesTo("count")
    /\ UNCHANGED <<flags, comp, timeOvf, taskVars, isr, lag, history>>

\* Mutant: a task registered twice in a row counts once.
CountTask_Once ==
    /\ MainAt("count") /\ tasksInUse' = 1 /\ GoesTo("idle")
    /\ UNCHANGED <<rtcVars, tasks, isr, lag, history>>

CountTask ==
    /\ MainAt("count") /\ tasksInUse' = tasksInUse + 1 /\ GoesTo("idle")
    /\ UNCHANGED <<rtcVars, tasks, isr, lag, history>>

\* Mutant: removeTask does not ask whether the task is in use.
CallRemoveTask_Unchecked(i) ==
    /\ MainAt("idle")
    /\ tasks' = [tasks EXCEPT ![i].inUse = FALSE]
    /\ GoesTo("uncount")
    /\ UNCHANGED <<rtcVars, tasksInUse, isr, lag, history>>

\* removeTask(): the task, the count and the interrupt, one after the other.
CallRemoveTask(i) ==
    /\ MainAt("idle")
    /\ tasks' = [tasks EXCEPT ![i].inUse = FALSE]
    /\ GoesTo(IF tasks[i].inUse THEN "uncount" ELSE "disable")
    /\ UNCHANGED <<rtcVars, tasksInUse, isr, lag, history>>

UncountTask ==
    /\ MainAt("uncount") /\ GoesTo("disable")
    /\ tasksInUse' = (tasksInUse - 1) % 256
    /\ UNCHANGED <<rtcVars, tasks, isr, lag, history>>

\* Mutant: the interrupt goes off with a task left.
DisableComp_TooSoon ==
    /\ MainAt("disable") /\ GoesTo("idle")
    /\ compOn' = (compOn /\ tasksInUse > 1)
    /\ UNCHANGED <<flags, comp, timeOvf, taskVars, isr, lag, history>>

DisableComp ==
    /\ MainAt("disable") /\ GoesTo("idle")
    /\ compOn' = (compOn /\ tasksInUse # 0)
    /\ UNCHANGED <<flags, comp, timeOvf, taskVars, isr, lag, history>>

Main == \/ CallGetTime \/ ReadRtc \/ ReadLow \/ TimeIsRead \/ GetTimeReturns
        \/ \E ms \in Intervals, once \in BOOLEAN : RegisterTask(ms, once)
        \/ TaskInUse \/ Scan \/ EnterAtomic \/ ReadInAtomic \/ WriteComp
        \/ EnableComp \/ CountTask
        \/ \E i \in Slots : CallRemoveTask(i)
        \/ UncountTask \/ DisableComp

-----------------------------------------------------------------------------
(* The interrupts.                                                         *)

\* Mutant: the overflow is not counted.
Counted_Not == UNCHANGED timeOvf

Counted == timeOvf' = timeOvf + 1

\* ISR(RTC_OVF_vect).
OvfInterrupt ==
    /\ OvfServed /\ Counted
    /\ ovfFlag' = FALSE /\ lag' = 0
    /\ UNCHANGED <<now, compFlag, comp, compOn, taskVars, main, isr, history>>

\* ISR(RTC_COMP_vect) begins, and its flag is cleared.
CompInterrupt ==
    /\ CompServed
    /\ compFlag' = FALSE
    /\ isr' = [NoIsr EXCEPT !.at = "task", !.time = TimeOf(Cnt)]
    /\ UNCHANGED <<now, ovfFlag, comp, compOn, timeOvf, taskVars, main, lag, history>>

AtTask == isr.at = "task" /\ isr.turn < MaxTasks
NextTurn == isr' = [isr EXCEPT !.turn = @ + 1]
Due(i) == tasks[i].inUse /\ tasks[i].nextCallTime <= isr.time
Called == calls' = [calls EXCEPT ![isr.turn] = @ + 1]

PassTask ==
    /\ AtTask /\ ~Due(isr.turn) /\ NextTurn
    /\ UNCHANGED <<rtcVars, taskVars, main, lag, history>>

\* A single shot is marked as not in use before removeTask() looks, which
\* therefore only sees to the interrupt.
CallOnce ==
    /\ AtTask /\ Due(isr.turn) /\ tasks[isr.turn].singleShot
    /\ tasks' = [tasks EXCEPT ![isr.turn].inUse = FALSE]
    /\ compOn' = (compOn /\ tasksInUse # 0)
    /\ Called /\ NextTurn
    /\ UNCHANGED <<flags, comp, timeOvf, tasksInUse, main, lag, since, astray, registered>>

\* currentError += error, in a uint8_t.
SummedError(t) == (t.currentError + t.error) % 256

\* Mutant: the next call counts from the interrupt.
Rescheduled_FromZero(t) ==
    [t EXCEPT !.nextCallTime = t.interval, !.currentError = SummedError(t)]

Rescheduled(t) ==
    LET more == IF SummedError(t) > 100 THEN 1 ELSE 0
    IN  [t EXCEPT !.nextCallTime = @ + t.interval + more,
                  !.currentError = SummedError(t) - 100 * more]

CallPeriodic ==
    /\ AtTask /\ Due(isr.turn) /\ ~tasks[isr.turn].singleShot
    /\ tasks' = [tasks EXCEPT ![isr.turn] = Rescheduled(@)]
    /\ Called /\ NextTurn
    /\ UNCHANGED <<rtcVars, tasksInUse, main, lag, since, astray, registered>>

\* setNextInterrupt() at the end of the loop, in its two steps.
IsrReadsTime ==
    /\ isr.at = "task" /\ isr.turn = MaxTasks
    /\ isr' = [at |-> "write", turn |-> 0, time |-> Cnt,
               next |-> InFuture(NextInterrupt, TimeOf(Cnt))]
    /\ UNCHANGED <<rtcVars, taskVars, main, lag, history>>

IsrWritesComp ==
    /\ isr.at = "write"
    /\ comp' = isr.next % Era /\ astray' = FALSE
    /\ isr' = NoIsr /\ lag' = 0
    /\ UNCHANGED <<flags, compOn, timeOvf, taskVars, main, calls, since, registered>>

Interrupts == \/ OvfInterrupt \/ CompInterrupt \/ PassTask \/ CallOnce
              \/ CallPeriodic \/ IsrReadsTime \/ IsrWritesComp

-----------------------------------------------------------------------------
(* The counter.  A pending interrupt waits at most one tick, the compare   *)
(* interrupt with the tasks it calls takes at most IsrTicks, and the few   *)
(* instructions from reading the counter to writing COMP, or under         *)
(* ATOMIC_BLOCK, at most one.  The main program may take any time, but     *)
(* registerTask and getTime less than an era.                              *)

Busy == Atomic \/ isr.at # "none" \/ ovfFlag \/ (compFlag /\ compOn)
LagMax == IF isr.at = "none" THEN 1 ELSE IsrTicks
Registering ==
    main.pc \in {"nextLow", "nextHigh", "scan", "take", "read", "write", "enable"}
RegisteredFor ==
    IF main.pc \in {"nextLow", "nextHigh"} THEN now - main.asked ELSE now - since[main.slot]

Tick ==
    /\ now + registered * CallTicks < Horizon
    /\ Busy => lag < LagMax
    /\ isr.at = "write" => Cnt = isr.time
    /\ Registering => RegisteredFor < Era
    /\ main.pc \in {"timeRtc", "timeLow", "timeHigh"} => now - main.asked < Era
    /\ now' = now + 1
    /\ ovfFlag' = (ovfFlag \/ Cnt = Era - 1)
    /\ compFlag' = (compFlag \/ Cnt = comp)   \* with the count after a match
    /\ lag' = IF Busy THEN lag + 1 ELSE 0
    /\ UNCHANGED <<comp, compOn, timeOvf, taskVars, main, isr, history>>

Next == Main \/ Interrupts \/ Tick

Spec == Init /\ [][Next]_vars

-----------------------------------------------------------------------------
(* Type invariant.                                                         *)
TypeOK ==
    /\ now \in 0 .. Horizon /\ timeOvf \in Nat /\ comp \in 0 .. Era - 1
    /\ {ovfFlag, compFlag, compOn, astray} \subseteq BOOLEAN
    /\ tasks \in [Slots -> [inUse : BOOLEAN, singleShot : BOOLEAN,
                            interval : Nat, nextCallTime : Nat,
                            error : 0 .. 255, currentError : 0 .. 255]]
    /\ tasksInUse \in 0 .. MaxTasks
    /\ main \in [pc : {"idle", "timeRtc", "timeLow", "timeHigh", "answered",
                       "nextRtc", "nextLow", "nextHigh", "scan", "take", "read",
                       "write", "enable", "count", "uncount", "disable"},
                 slot : 0 .. MaxTasks, time : Nat, turn : 0 .. MaxTasks,
                 next : Nat, asked : Nat, raised : BOOLEAN]
    /\ isr \in [at : {"none", "task", "write"}, turn : 0 .. MaxTasks,
                time : Nat, next : Nat]
    /\ {lag, registered} \subseteq Nat
    /\ calls \in [Slots -> Nat] /\ since \in [Slots -> Nat]

(* registerTask looks at tasksInUse and not at the slots: whatever single  *)
(* shots the interrupt removed meanwhile, a count below the maximum means  *)
(* a free slot, and it never writes behind tasks[].                        *)
RegistersInArray ==
    main.pc \in {"nextRtc", "nextLow", "nextHigh"} => main.slot \in FreeSlots

(* A task in use has its interrupt on, except while registerTask is on its *)
(* way there: neither removeTask of the main program nor that of a single  *)
(* shot in the interrupt switches it off over another task.                *)
Armed ==
    \A i \in Slots : tasks[i].inUse =>
        compOn \/ (i = main.slot /\ Registering)

(* No task is called before its time: a slot's function has not been       *)
(* called more often than intervals have passed since it was registered,   *)
(* and a single shot at most once, however the time was read.              *)
NotEarly ==
    \A i \in Slots :
        /\ calls[i] * tasks[i].interval <= now - since[i]
        /\ tasks[i].singleShot => calls[i] <= 1

(* No task is lost: as long as the compare interrupt neither waits nor     *)
(* runs, the counter meets COMP within two ticks, or not later than an era *)
(* after the call time of every task, even if the time that COMP was       *)
(* computed from was an era behind or the call times moved meanwhile.  But *)
(* for one way to move: setNextInterrupt compares a call time with the     *)
(* earliest one and reads it again to take it, and if the interrupt moves  *)
(* it between past the earliest one, COMP is astray until the interrupt    *)
(* runs next.                                                              *)
UntilCompare == (comp - Cnt) % Era
ComparesInTime ==
    isr.at = "none" /\ ~compFlag /\ ~astray =>
        \A i \in Slots : tasks[i].inUse /\ ~(i = main.slot /\ Registering) =>
            \/ UntilCompare <= 2
            \/ now + UntilCompare <= tasks[i].nextCallTime + Era

(* getTime returns a time between its call and its return, unless the      *)
(* counter overflows meanwhile.  Then it may be one era ahead, and where   *)
(* the overflow carries into the upper byte of time_ovf, 256 of them; but  *)
(* never behind, however the interrupts fall.                              *)
TimeNotBehind ==
    main.pc = "answered" =>
        LET Ahead(d) == main.time \in main.asked + d .. now + d
            before == main.asked \div Era
            after == now \div Era
        IN  \/ Ahead(0)
            \/ before < after /\ Ahead(Era)
            \/ before \div Base < after \div Base /\ Ahead(Base * Era)

(* taskmanager.cpp:99 of setNextInterrupt: "If we are already past call    *)
(* time, we set next interrupt 2 ms from this moment.  One milli second    *)
(* could be enough, but to be sure that we don't skip it we set it to 2    *)
(* milli seconds."  So when nothing is pending or being registered and a   *)
(* task is past its time, the compare is at most two ticks ahead.          *)
NotSkipped ==
    \A i \in Slots :
        main.pc = "idle" /\ ~Busy /\ tasks[i].inUse /\ tasks[i].nextCallTime < now
            => UntilCompare <= 2
=============================================================================
