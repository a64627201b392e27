-------------------------- MODULE ThreadLifeProofs --------------------------
(***************************************************************************)
(* Proofs about ThreadLife, for every frequency of the clock and every     *)
(* width of jiffies: its type invariant, that the module's code stays      *)
(* until the thread has ended, and that a thread does not count early.     *)
(***************************************************************************)
EXTENDS ThreadLife, TLAPS

\* A thread that spins does not get to the code of one that sleeps.
KindInv ==
    /\ thread \in {"test", "set_state", "schedule_timeout", "schedule"} =>
           driver.sleeps # "never"
    /\ thread = "schedule_timeout" => driver.sleeps = "schedule_timeout"

\* kthread_stop sets the flag before it wakes the thread.
StopInv == module = "stopping" => should_stop

\* A thread that sleeps for a period is awake when the period is over or
\* kthread_stop was called.
SleepInv ==
    driver.sleeps = "schedule_timeout" /\ thread \in {"schedule_timeout", "schedule"} =>
        \/ state = Interruptible
        \/ should_stop
        \/ thread = "schedule" /\ since >= driver.period

\* Two numbers are the same modulo Word.
Same(a, b) == a - b \in {-Word, 0, Word}

\* While it sleeps, timeout is a period later than the moment, elapsed ticks
\* ago, when the timer was started, and it has not counted since.
TimerInv ==
    driver.sleeps = "schedule_timeout" /\ thread = "schedule" /\ state = Interruptible =>
        \E elapsed \in 0..driver.period :
            elapsed <= since /\ Same(timeout - jiffies, driver.period - elapsed)

\* For a thread that spins, timeout is a second later than its last count.
SpinInv ==
    thread \in {"turn", "count"} =>
        /\ driver.sleeps = "never"
        /\ Same(timeout - jiffies, HZ - since)
        /\ thread = "count" => since > HZ

IInv == TypeOK /\ KindInv /\ UnloadWaits /\ StopInv /\ SleepInv /\ TimerInv /\ SpinInv

-----------------------------------------------------------------------------
(* The drivers, and the arithmetic of jiffies *)

LEMMA HalfFacts ==
    /\ Half \in Nat /\ Word = 2 * Half
    /\ HZ \in Nat /\ HZ > 0 /\ 3 * HZ < Half
    /\ Word \in Nat \ {0}
    /\ MaxLag = Half + HZ
BY TimeAssumption DEF Half, MaxLag

LEMMA DriverFacts ==
    ASSUME NEW d \in Drivers
    PROVE  /\ d.sleeps \in {"schedule", "schedule_timeout", "never"}
           /\ d.exit \in {"kthread_stop", "wait_for_completion", "none"}
           /\ d.period \in Nat /\ d.period < Half
           /\ d.sleeps = "never" => d.period = HZ
           /\ d.sleeps = "schedule_timeout" => d.period > 0
           /\ d.waker \/ d.tests => d.sleeps = "schedule"
<1> USE DEF Drivers, KthreadShoudStop, Completion, Mythread, WakeUpInterruptible,
        ScheduleTimeout, KernelThread, Pid, TimeAfter, TimeAfterStopped
<1>1. d.sleeps \in {"schedule", "schedule_timeout", "never"}
  OBVIOUS
<1>2. d.exit \in {"kthread_stop", "wait_for_completion", "none"}
  OBVIOUS
<1>3. d.waker \/ d.tests => d.sleeps = "schedule"
  OBVIOUS
<1>4. d.sleeps = "never" => d.period = HZ
  OBVIOUS
<1>5. d.sleeps = "schedule_timeout" => d.period \in {HZ, 3 * HZ}
  OBVIOUS
<1>6. d.period \in {0, HZ, 3 * HZ}
  OBVIOUS
<1> QED
  <2> HIDE DEF Drivers
  <2> QED
    BY <1>1, <1>2, <1>3, <1>4, <1>5, <1>6, HalfFacts

LEMMA MinFacts ==
    ASSUME NEW a \in Int, NEW b \in Int
    PROVE  Min({a, b}) = IF a <= b THEN a ELSE b
<1>1. PICK m \in {a, b} : \A y \in {a, b} : m <= y
  OBVIOUS
<1>2. \A x, y \in {a, b} : x <= y /\ y <= x => x = y
  OBVIOUS
<1>3. Min({a, b}) = CHOOSE x \in {a, b} : \A y \in {a, b} : x <= y
  BY DEF Min
<1> QED
  BY <1>1, <1>2, <1>3

LEMMA ModFacts ==
    ASSUME NEW w \in Nat \ {0}, NEW a \in 0..(w - 1), NEW b \in 0..(w - 1)
    PROVE  /\ (a + b) % w = IF a + b < w THEN a + b ELSE a + b - w
           /\ (a - b) % w = IF a < b THEN a - b + w ELSE a - b
<1>1. (a + b) % w = IF a + b < w THEN a + b ELSE a + b - w
  OBVIOUS
<1>2. (a - b) % w = IF a < b THEN a - b + w ELSE a - b
  OBVIOUS
<1> QED
  BY <1>1, <1>2

\* The next tick, and a time that lies some ticks ahead.
LEMMA TickNext ==
    ASSUME NEW j \in 0..(Word - 1)
    PROVE  (j + 1) % Word = IF j = Word - 1 THEN 0 ELSE j + 1
<1>1. (j + 1) % Word = IF j + 1 < Word THEN j + 1 ELSE j + 1 - Word
  BY HalfFacts, ModFacts
<1> QED
  BY <1>1, HalfFacts

LEMMA TickFacts ==
    ASSUME NEW j \in 0..(Word - 1), NEW p \in 0..Half
    PROVE  (j + p) % Word \in 0..(Word - 1) /\ Same(((j + p) % Word) - j, p)
<1>1. (j + p) % Word = IF j + p < Word THEN j + p ELSE j + p - Word
  BY HalfFacts, ModFacts
<1> QED
  BY <1>1, HalfFacts DEF Same

\* time_after tells the sign of a difference that is less than half the range.
LEMMA TimeAfterFacts ==
    ASSUME NEW t \in 0..(Word - 1), jiffies \in 0..(Word - 1),
           NEW d \in (-Half)..(Half - 1), Same(t - jiffies, d)
    PROVE  /\ TimeAfterJiffies(t) <=> d < 0
           /\ TimeReached(t) <=> d <= 0
<1>1. (t - jiffies) % Word = IF t < jiffies THEN t - jiffies + Word ELSE t - jiffies
  BY HalfFacts, ModFacts
<1>2. d < 0 <=> (t - jiffies) % Word >= Half
  BY <1>1, HalfFacts DEF Same
<1>3. jiffies = t <=> d = 0
  BY HalfFacts DEF Same
<1> QED
  BY <1>2, <1>3, HalfFacts DEF TimeAfterJiffies, TimeReached

-----------------------------------------------------------------------------

LEMMA InitIInv == Init => IInv
<1> SUFFICES ASSUME Init PROVE IInv
  OBVIOUS
<1>1. TypeOK
  <2>1. {jiffies, timeout} \subseteq 0..(Word - 1) /\ count \in 0..1 /\ since \in 0..MaxLag
    BY HalfFacts DEF Init
  <2> QED
    BY <2>1 DEF Init, TypeOK, ModulePc, ThreadPc, TaskState
<1>2. thread = "none" /\ module = "absent"
  BY DEF Init
<1> QED
  BY <1>1, <1>2 DEF IInv, KindInv, UnloadWaits, StopInv, SleepInv, TimerInv, SpinInv, Gone

LEMMA StepTypeOK ==
    ASSUME TypeOK, KindInv, [Next]_vars
    PROVE  TypeOK'
<1> USE DEF TypeOK, moduleVars, threadVars, clockVars, ModulePc, ThreadPc, TaskState
<1>1. CASE Load \/ StopWakes \/ StopReturned \/ WakeThreadDown
  BY <1>1 DEF Load, StopWakes, StopReturned, WakeThreadDown
<1>2. CASE LoadFails
  BY <1>2 DEF LoadFails
<1>3. CASE Exit
  <2>1. module' \in ModulePc /\ should_stop' \in BOOLEAN /\ oops' \in BOOLEAN
    BY <1>3 DEF Exit
  <2> QED
    BY <1>3, <2>1 DEF Exit
<1>4. CASE WakeThreadUp
  BY <1>4 DEF WakeThreadUp
<1>5. CASE Kthread \/ TestStop \/ Turn \/ Leave \/ RunsGoneCode
  BY <1>5 DEF Kthread, TestStop, Turn, Leave, RunsGoneCode
<1>6. CASE Enter
  <2>1. timeout' \in 0..(Word - 1)
    <3>1. HZ \in 0..Half
      BY HalfFacts
    <3> QED
      BY <1>6, <3>1, TickFacts DEF Enter
  <2>2. since' \in 0..MaxLag
    BY <1>6, HalfFacts DEF Enter
  <2> QED
    BY <1>6, <2>1, <2>2 DEF Enter, LoopHead
<1>7. CASE SetState
  <2>1. thread' \in {"schedule", "schedule_timeout"}
    BY <1>7, DriverFacts DEF SetState, KindInv
  <2> QED
    BY <1>7, <2>1 DEF SetState
<1>8. CASE SetTimer
  <2>1. driver.period \in 0..Half
    BY DriverFacts, HalfFacts
  <2>2. timeout' \in 0..(Word - 1)
    BY <1>8, <2>1, TickFacts DEF SetTimer
  <2> QED
    BY <1>8, <2>2 DEF SetTimer
<1>9. CASE Resume
  BY <1>9 DEF Resume, LoopHead
<1>10. CASE ResumeTimeout
  <2>1. since' \in 0..MaxLag /\ count' \in 0..1
    BY <1>10, HalfFacts DEF ResumeTimeout
  <2> QED
    BY <1>10, <2>1 DEF ResumeTimeout, LoopHead
<1>11. CASE Count
  <2>1. timeout' \in 0..(Word - 1)
    <3>1. HZ \in 0..Half
      BY HalfFacts
    <3> QED
      BY <1>11, <3>1, TickFacts DEF Count
  <2>2. since' \in 0..MaxLag /\ count' \in 0..1
    BY <1>11, HalfFacts DEF Count
  <2> QED
    BY <1>11, <2>1, <2>2 DEF Count
<1>12. CASE TimerFires
  BY <1>12 DEF TimerFires
<1>13. CASE Tick
  <2>1. jiffies' \in 0..(Word - 1)
    <3>1. jiffies' = IF jiffies = Word - 1 THEN 0 ELSE jiffies + 1
      BY <1>13, TickNext DEF Tick
    <3> QED
      BY <3>1, HalfFacts
  <2>2. since' \in 0..MaxLag
    BY <1>13, HalfFacts, MinFacts DEF Tick
  <2> QED
    BY <1>13, <2>1, <2>2 DEF Tick
<1>14. CASE UNCHANGED vars
  BY <1>14 DEF vars
<1> QED
  BY <1>1, <1>2, <1>3, <1>4, <1>5, <1>6, <1>7, <1>8, <1>9, <1>10, <1>11, <1>12, <1>13,
     <1>14 DEF Next, ThreadStep

LEMMA StepKind ==
    ASSUME IInv, [Next]_vars
    PROVE  KindInv' /\ StopInv' /\ UnloadWaits'
<1>1. TypeOK /\ KindInv /\ StopInv /\ UnloadWaits
  BY DEF IInv
<1> USE <1>1 DEF KindInv, StopInv, UnloadWaits, moduleVars, threadVars, clockVars, Gone
<1>2. CASE Load \/ LoadFails \/ StopWakes \/ StopReturned \/ WakeThreadUp \/ WakeThreadDown
  BY <1>2 DEF Load, LoadFails, StopWakes, StopReturned, WakeThreadUp, WakeThreadDown
<1>3. CASE Exit
  BY <1>3 DEF Exit
<1>4. CASE module # "absent" /\ (Kthread \/ SetState \/ SetTimer \/ Turn \/ Count \/ Leave)
  BY <1>4 DEF Kthread, SetState, SetTimer, Turn, Count, Leave
<1>5. CASE module # "absent" /\ (Enter \/ TestStop \/ Resume \/ ResumeTimeout)
  <2>1. driver.tests => driver.sleeps = "schedule"
    BY DriverFacts DEF TypeOK
  <2> QED
    BY <1>5, <2>1 DEF Enter, TestStop, Resume, ResumeTimeout, LoopHead
<1>6. CASE RunsGoneCode
  BY <1>6 DEF RunsGoneCode
<1>7. CASE TimerFires \/ Tick
  BY <1>7 DEF TimerFires, Tick
<1>8. CASE UNCHANGED vars
  BY <1>8 DEF vars
<1> QED
  BY <1>2, <1>3, <1>4, <1>5, <1>6, <1>7, <1>8 DEF Next, ThreadStep

\* A tick brings jiffies one nearer to a time that lies ahead, also when it wraps.
LEMMA SameTick ==
    ASSUME TypeOK, Tick, NEW d \in (1 - Half)..Half, Same(timeout - jiffies, d)
    PROVE  Same(timeout' - jiffies', d - 1)
<1>1. jiffies' = IF jiffies = Word - 1 THEN 0 ELSE jiffies + 1
  BY TickNext DEF Tick, TypeOK
<1>2. timeout' = timeout /\ timeout \in 0..(Word - 1) /\ jiffies \in 0..(Word - 1)
  BY DEF Tick, TypeOK
<1> QED
  BY <1>1, <1>2, HalfFacts DEF Same

\* Ticks do not turn the count of ticks back.
LEMMA SinceTick ==
    ASSUME TypeOK, Tick
    PROVE  /\ since' \in Nat /\ since' >= since
           /\ since < MaxLag => since' = since + 1
           /\ since >= MaxLag => since' >= MaxLag
<1>1. since' = IF since + 1 <= MaxLag THEN since + 1 ELSE MaxLag
  BY MinFacts, HalfFacts DEF Tick, TypeOK
<1> QED
  BY <1>1, HalfFacts DEF TypeOK

LEMMA StepSpin ==
    ASSUME IInv, [Next]_vars
    PROVE  SpinInv'
<1>1. TypeOK /\ KindInv /\ SpinInv
  BY DEF IInv
<1> USE DEF moduleVars, threadVars, clockVars
<1>2. CASE Load \/ LoadFails \/ StopWakes \/ StopReturned \/ WakeThreadUp \/ WakeThreadDown
  BY <1>1, <1>2 DEF SpinInv, Same, Load, LoadFails, StopWakes, StopReturned, WakeThreadUp, WakeThreadDown
<1>3. CASE Exit \/ RunsGoneCode \/ TimerFires
  BY <1>1, <1>3 DEF SpinInv, Same, Exit, RunsGoneCode, TimerFires
<1>4. CASE Kthread \/ TestStop \/ SetState \/ SetTimer \/ Leave
  <2>1. thread' \notin {"turn", "count"}
    BY <1>1, <1>4, DriverFacts DEF TypeOK, Kthread, TestStop, SetState, SetTimer, Leave
  <2> QED
    BY <2>1 DEF SpinInv
<1>5. CASE Resume \/ ResumeTimeout
  <2>1. thread' \notin {"turn", "count"}
    BY <1>5 DEF Resume, ResumeTimeout, LoopHead
  <2> QED
    BY <2>1 DEF SpinInv
<1>6. ASSUME Enter \/ Count PROVE SpinInv'
  <2>1. timeout' = (jiffies + HZ) % Word /\ jiffies' = jiffies /\ since' = 0
    BY <1>6 DEF Enter, Count
  <2>2. HZ \in 0..Half /\ HZ - 0 = HZ
    BY HalfFacts
  <2>3. Same(timeout' - jiffies', HZ - since')
    BY <1>1, <2>1, <2>2, TickFacts DEF TypeOK
  <2>4. thread' \in {"turn", "count"} => thread' = "turn" /\ driver'.sleeps = "never"
    BY <1>1, <1>6 DEF Enter, Count, LoopHead, SpinInv
  <2> QED
    BY <2>3, <2>4 DEF SpinInv
<1>7. CASE Turn
  <2>1. thread = "turn" /\ UNCHANGED <<driver, timeout, jiffies, since>>
    BY <1>7 DEF Turn
  <2>2. driver.sleeps = "never" /\ Same(timeout - jiffies, HZ - since)
    BY <1>1, <2>1 DEF SpinInv
  <2>3. HZ - since \in (-Half)..(Half - 1) /\ since \in Nat
    BY <1>1, HalfFacts DEF TypeOK
  <2>4. TimeAfterJiffies(timeout) => HZ - since < 0
    BY <1>1, <2>2, <2>3, TimeAfterFacts DEF TypeOK
  <2>5. TimeAfterJiffies(timeout) => since > HZ
    BY <2>3, <2>4, HalfFacts
  <2> QED
    BY <1>7, <2>1, <2>2, <2>5 DEF Turn, SpinInv, Same
<1>8. CASE Tick
  <2> SUFFICES ASSUME thread' \in {"turn", "count"}
               PROVE  SpinInv'
    BY DEF SpinInv
  <2>1. thread \in {"turn", "count"} /\ UNCHANGED <<driver, thread>>
    BY <1>8 DEF Tick
  <2>2. /\ driver.sleeps = "never" /\ Same(timeout - jiffies, HZ - since)
        /\ thread = "count" => since > HZ
    BY <1>1, <2>1 DEF SpinInv
  <2>3. since < MaxLag /\ since \in Nat /\ since' = since + 1
    BY <1>1, <1>8, <2>2, SinceTick DEF Tick, TypeOK
  <2>4. HZ - since \in (1 - Half)..Half
    BY <2>3, HalfFacts
  <2>5. Same(timeout' - jiffies', (HZ - since) - 1)
    BY <1>1, <1>8, <2>2, <2>4, SameTick
  <2>6. (HZ - since) - 1 = HZ - since'
    BY <2>3, HalfFacts
  <2>7. since > HZ => since' > HZ
    BY <2>3, HalfFacts
  <2> QED
    BY <2>1, <2>2, <2>5, <2>6, <2>7 DEF SpinInv
<1>9. CASE UNCHANGED vars
  BY <1>1, <1>9 DEF vars, SpinInv, Same
<1> QED
  BY <1>2, <1>3, <1>4, <1>5, <1>6, <1>7, <1>8, <1>9 DEF Next, ThreadStep

LEMMA StepSleep ==
    ASSUME IInv, [Next]_vars
    PROVE  SleepInv'
<1>1. TypeOK /\ KindInv /\ StopInv /\ SleepInv /\ TimerInv
  BY DEF IInv
<1>p. driver.period \in Nat
  BY <1>1, DriverFacts DEF TypeOK
<1> USE DEF moduleVars, threadVars, clockVars
<1>2. CASE Load \/ LoadFails \/ StopReturned \/ WakeThreadDown
  BY <1>1, <1>2 DEF SleepInv, Load, LoadFails, StopReturned, WakeThreadDown
<1>3. CASE StopWakes
  BY <1>1, <1>3 DEF SleepInv, StopInv, StopWakes
<1>4. CASE WakeThreadUp
  BY <1>1, <1>4, DriverFacts DEF TypeOK, SleepInv, WakeThreadUp
<1>5. CASE Exit \/ RunsGoneCode
  BY <1>1, <1>5 DEF SleepInv, Exit, RunsGoneCode
<1>6. CASE Kthread \/ Enter \/ TestStop \/ Resume \/ ResumeTimeout \/ Turn \/ Count \/ Leave
  <2>1. thread' \notin {"schedule_timeout", "schedule"}
    BY <1>6 DEF Kthread, Enter, TestStop, Resume, ResumeTimeout, Turn, Count, Leave, LoopHead
  <2> QED
    BY <2>1 DEF SleepInv
<1>7. CASE SetState
  BY <1>7 DEF SetState, SleepInv
<1>8. CASE SetTimer
  BY <1>1, <1>8 DEF SetTimer, SleepInv
<1>9. CASE TimerFires
  <2>1. driver.sleeps = "schedule_timeout" /\ thread = "schedule" /\ state = Interruptible
    BY <1>1, <1>9 DEF TimerFires, TimerDue, TypeOK, TaskState
  <2>2. PICK elapsed \in 0..driver.period :
            elapsed <= since /\ Same(timeout - jiffies, driver.period - elapsed)
    BY <1>1, <2>1 DEF TimerInv
  <2>3. driver.period - elapsed \in (-Half)..(Half - 1)
    BY <1>1, <1>p, <2>2, DriverFacts, HalfFacts DEF TypeOK
  <2>4. driver.period - elapsed <= 0
    BY <1>1, <1>9, <2>2, <2>3, TimeAfterFacts DEF TypeOK, TimerFires, TimerDue
  <2>5. since >= driver.period
    BY <1>1, <1>p, <2>2, <2>4 DEF TypeOK
  <2> QED
    BY <1>9, <2>1, <2>5 DEF TimerFires, SleepInv
<1>10. CASE Tick
  <2>1. since' >= since /\ since' \in Nat /\ since \in Nat
    BY <1>1, <1>10, SinceTick DEF TypeOK
  <2>2. since >= driver.period => since' >= driver.period
    BY <1>p, <2>1
  <2> QED
    BY <1>1, <1>10, <2>2 DEF Tick, SleepInv
<1>11. CASE UNCHANGED vars
  BY <1>1, <1>11 DEF vars, SleepInv
<1> QED
  BY <1>2, <1>3, <1>4, <1>5, <1>6, <1>7, <1>8, <1>9, <1>10, <1>11 DEF Next, ThreadStep

LEMMA StepTimer ==
    ASSUME IInv, [Next]_vars
    PROVE  TimerInv'
<1>1. TypeOK /\ KindInv /\ TimerInv
  BY DEF IInv
<1>p. driver.period \in Nat /\ driver.period < Half
  BY <1>1, DriverFacts DEF TypeOK
<1> USE DEF moduleVars, threadVars, clockVars, Running, Interruptible
<1>2. CASE Load \/ LoadFails \/ StopWakes \/ StopReturned \/ WakeThreadUp \/ WakeThreadDown
  BY <1>1, <1>2 DEF TimerInv, Same, Load, LoadFails, StopWakes, StopReturned, WakeThreadUp,
     WakeThreadDown
<1>3. CASE Exit \/ RunsGoneCode \/ TimerFires
  BY <1>1, <1>3 DEF TimerInv, Same, Exit, RunsGoneCode, TimerFires
<1>4. CASE Kthread \/ Enter \/ TestStop \/ Resume \/ ResumeTimeout \/ Turn \/ Count \/ Leave
  <2>1. thread' # "schedule"
    BY <1>4 DEF Kthread, Enter, TestStop, Resume, ResumeTimeout, Turn, Count, Leave, LoopHead
  <2> QED
    BY <2>1 DEF TimerInv
<1>5. CASE SetState
  BY <1>5 DEF SetState, TimerInv
<1>6. CASE SetTimer
  <2>1. driver.period \in 0..Half /\ 0 \in 0..driver.period /\ 0 <= since
    BY <1>1, <1>p, HalfFacts DEF TypeOK
  <2>2. Same(timeout' - jiffies', driver.period)
    BY <1>1, <1>6, <2>1, TickFacts DEF SetTimer, TypeOK
  <2>3. driver.period = driver.period - 0 /\ UNCHANGED <<driver, since>>
    BY <1>p, <1>6 DEF SetTimer
  <2> QED
    BY <2>1, <2>2, <2>3 DEF TimerInv
<1>7. CASE Tick
  <2> SUFFICES ASSUME driver'.sleeps = "schedule_timeout", thread' = "schedule",
                      state' = Interruptible
               PROVE  \E e \in 0..driver'.period :
                          e <= since' /\ Same(timeout' - jiffies', driver'.period - e)
    BY DEF TimerInv
  <2>1. /\ driver.sleeps = "schedule_timeout" /\ thread = "schedule" /\ state = Interruptible
        /\ driver' = driver
    BY <1>7 DEF Tick
  <2>2. PICK elapsed \in 0..driver.period :
            elapsed <= since /\ Same(timeout - jiffies, driver.period - elapsed)
    BY <1>1, <2>1 DEF TimerInv
  <2>3. ~TimeReached(timeout)
    BY <1>7, <2>1 DEF Tick, TimerDue
  <2>4. /\ driver.period - elapsed \in (-Half)..(Half - 1)
        /\ driver.period - elapsed \in (1 - Half)..Half
    BY <1>p, HalfFacts
  <2>5. driver.period - elapsed > 0
    BY <1>1, <2>2, <2>3, <2>4, TimeAfterFacts DEF TypeOK
  <2>6. elapsed + 1 \in 0..driver.period
    BY <1>p, <2>5
  <2>7. Same(timeout' - jiffies', (driver.period - elapsed) - 1)
    BY <1>1, <1>7, <2>2, <2>4, SameTick
  <2>8. (driver.period - elapsed) - 1 = driver.period - (elapsed + 1)
    BY <1>p
  <2>9. elapsed + 1 <= since'
    BY <1>1, <1>p, <1>7, <2>2, <2>6, SinceTick, HalfFacts DEF TypeOK
  <2> QED
    BY <2>1, <2>6, <2>7, <2>8, <2>9
<1>8. CASE UNCHANGED vars
  BY <1>1, <1>8 DEF vars, TimerInv, Same
<1> QED
  BY <1>2, <1>3, <1>4, <1>5, <1>6, <1>7, <1>8 DEF Next, ThreadStep

-----------------------------------------------------------------------------

\* The strengthened invariant holds of every reachable state.
THEOREM Invariance == Spec => []IInv
<1>1. IInv /\ [Next]_vars => IInv'
  BY StepTypeOK, StepKind, StepSpin, StepSleep, StepTimer DEF IInv
<1> QED
  BY InitIInv, <1>1, PTL DEF Spec

\* Every variable always has its type.
THEOREM TypeCorrect == Spec => []TypeOK
<1>1. IInv => TypeOK
  BY DEF IInv
<1> QED
  BY Invariance, <1>1, PTL

\* The code of a driver that waits for its thread is there until the thread has
\* ended.
THEOREM CodeOutlivesThread == Spec => []UnloadWaits
<1>1. IInv => UnloadWaits
  BY DEF IInv
<1> QED
  BY Invariance, <1>1, PTL

\* Threads do not count early, for every HZ and every width of jiffies.
THEOREM NeverEarly == Spec => CountsApart
<1>1. IInv /\ [Next]_vars => [count' # count => since >= driver.period \/ should_stop]_vars
  <2> SUFFICES ASSUME IInv, Next, count' # count
               PROVE  since >= driver.period \/ should_stop
    BY DEF vars
  <2>1. ResumeTimeout \/ Count
    BY DEF Next, ThreadStep, Load, LoadFails, Exit, StopWakes, StopReturned, WakeThreadUp,
       WakeThreadDown, Kthread, Enter, TestStop, SetState, SetTimer, Resume, Turn, Leave,
       RunsGoneCode, TimerFires, Tick, moduleVars, threadVars, clockVars
  <2>2. TypeOK /\ SleepInv /\ SpinInv
    BY DEF IInv
  <2>3. CASE ResumeTimeout
    BY <2>2, <2>3 DEF ResumeTimeout, SleepInv, Running, Interruptible
  <2>4. CASE Count
    <3>1. since > HZ /\ driver.period = HZ /\ since \in Nat
      BY <2>2, <2>4, DriverFacts DEF Count, SpinInv, TypeOK
    <3> QED
      BY <3>1, HalfFacts
  <2> QED
    BY <2>1, <2>3, <2>4
<1> QED
  BY Invariance, <1>1, PTL DEF Spec, CountsApart
=============================================================================
