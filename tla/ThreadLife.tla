----------------------------- MODULE ThreadLife -----------------------------
(***************************************************************************)
(* The drivers whose point is the life of one kernel thread, which is made *)
(* by the init function, sleeps, spins or counts in mythread, and is to be *)
(* gone when the exit function returns.  They are kthread_shoud_stop,      *)
(* completion, kernel_thread, pid, time_after and those under 3.14.  What  *)
(* a driver's mythread, init and exit do is a record below, and the        *)
(* variable driver says which one is loaded.                               *)
(*                                                                         *)
(* kthread_create, kthread_stop, schedule_timeout and the timer tick are   *)
(* the kernel's.                                                           *)
(***************************************************************************)
EXTENDS KernelSync, Integers

CONSTANTS
    HZ,     \* ticks in a second
    Word    \* jiffies is a number modulo Word, 2^32 on the board

ASSUME TimeAssumption ==
    /\ HZ \in Nat \ {0}
    /\ Word \in Nat /\ Word % 2 = 0
    /\ 3 * HZ < Word \div 2

-----------------------------------------------------------------------------
(* The drivers.  A thread                                                  *)
(*   queued : adds itself to the driver's wait queue;                      *)
(*   tests  : leaves its loop when kthread_should_stop();                  *)
(*   loops  : does not return after its first sleep;                       *)
(*   sleeps : "schedule", "schedule_timeout", or "never", spinning;        *)
(*   period : counts once in that many ticks, if it does not sleep for     *)
(*            an unlimited time.                                           *)
(* The driver                                                              *)
(*   create : calls kthread_create and wake_up_process, not kthread_run;   *)
(*   waker  : has another module that wakes the wait queue;                *)
(*   exit   : what the exit function waits with.                           *)

KthreadShoudStop ==
    [queued |-> TRUE, tests |-> TRUE, loops |-> TRUE, sleeps |-> "schedule", period |-> 0,
     create |-> TRUE, waker |-> FALSE, exit |-> "kthread_stop"]

Completion ==
    [queued |-> TRUE, tests |-> FALSE, loops |-> TRUE, sleeps |-> "schedule", period |-> 0,
     create |-> FALSE, waker |-> FALSE, exit |-> "wait_for_completion"]

Mythread ==
    [queued |-> TRUE, tests |-> FALSE, loops |-> FALSE, sleeps |-> "schedule", period |-> 0,
     create |-> TRUE, waker |-> FALSE, exit |-> "kthread_stop"]

WakeUpInterruptible ==
    [queued |-> TRUE, tests |-> FALSE, loops |-> FALSE, sleeps |-> "schedule", period |-> 0,
     create |-> TRUE, waker |-> TRUE, exit |-> "kthread_stop"]

ScheduleTimeout ==
    [queued |-> TRUE, tests |-> FALSE, loops |-> TRUE, sleeps |-> "schedule_timeout",
     period |-> HZ, create |-> FALSE, waker |-> FALSE, exit |-> "kthread_stop"]

KernelThread ==
    [queued |-> FALSE, tests |-> FALSE, loops |-> TRUE, sleeps |-> "schedule_timeout",
     period |-> 3 * HZ, create |-> FALSE, waker |-> FALSE, exit |-> "kthread_stop"]

\* As KernelThread, but that it prints its ids and not a count.
Pid == KernelThread

TimeAfter ==
    [queued |-> FALSE, tests |-> FALSE, loops |-> TRUE, sleeps |-> "never",
     period |-> HZ, create |-> FALSE, waker |-> FALSE, exit |-> "none"]

TimeAfterStopped ==
    [queued |-> TRUE, tests |-> FALSE, loops |-> TRUE, sleeps |-> "never",
     period |-> HZ, create |-> TRUE, waker |-> FALSE, exit |-> "kthread_stop"]

Drivers == {KthreadShoudStop, Completion, Mythread, WakeUpInterruptible, ScheduleTimeout,
            KernelThread, Pid, TimeAfter, TimeAfterStopped}

-----------------------------------------------------------------------------

VARIABLES
    driver,         \* the driver this behaviour is of
    module,         \* where the driver's init and exit functions are
    waker,          \* the module wake_up_interruptible is loaded
    thread,         \* the point the thread has reached
    state,          \* the thread's task state
    should_stop,    \* kthread_stop has told the thread
    jiffies,
    timeout,        \* what the thread, or the timer of its sleep, waits for
    count,          \* how often it has counted, modulo 2
    since,          \* ticks since it counted last, or began
    oops            \* the kernel has used a pointer to nothing, and stops

moduleVars == <<driver, module, waker>>
threadVars == <<thread, state, should_stop>>
clockVars == <<jiffies, timeout, count, since>>
vars == <<moduleVars, threadVars, clockVars, oops>>

ModulePc == {"absent", "loaded", "stopping", "waiting", "hung"}
ThreadPc == {"none", "error", "created", "enter", "test", "set_state", "schedule_timeout",
             "schedule", "turn", "count", "leave", "ended"}

Gone == {"none", "error", "ended"}

Half == Word \div 2

\* time_after(jiffies, t) and time_after_eq: the sign of a difference.
TimeAfterJiffies(t) == (t - jiffies) % Word >= Half
TimeReached(t) == jiffies = t \/ TimeAfterJiffies(t)

\* A thread that spins is given the processor before the clock is half way round.
MaxLag == Half + HZ

Init ==
    /\ driver \in Drivers
    /\ module = "absent" /\ waker = FALSE
    /\ thread = "none" /\ state = Running /\ should_stop = FALSE
    /\ jiffies \in 0..(Word - 1) /\ timeout = 0
    /\ count = 0 /\ since = 0
    /\ oops = FALSE

-----------------------------------------------------------------------------
(* The driver's module, and the one that wakes its thread *)

\* The init function makes the thread.
Load ==
    /\ module = "absent" /\ thread \in Gone
    /\ module' = "loaded"
    /\ thread' = "created" /\ should_stop' = FALSE
    /\ UNCHANGED <<driver, waker, state, clockVars, oops>>

\* There is no memory for the thread.  wake_up_process is called all the same.
LoadFails ==
    /\ module = "absent" /\ thread \in Gone
    /\ module' = "loaded"
    /\ thread' = "error"
    /\ IF driver.create THEN oops' = TRUE ELSE UNCHANGED oops
    /\ UNCHANGED <<driver, waker, state, should_stop, clockVars>>

\* rmmod, once no other module uses this one: the exit function up to the first
\* half of kthread_stop.  A thread that has returned is no more, and what
\* kthread_stop does with what is left of it is anybody's guess.
Exit ==
    /\ module = "loaded" /\ ~waker
    /\ CASE driver.exit = "none" ->
              module' = "absent" /\ UNCHANGED <<should_stop, oops>>
         [] driver.exit = "wait_for_completion" ->
              module' = "waiting" /\ UNCHANGED <<should_stop, oops>>
         [] thread = "error" ->
              oops' = TRUE /\ UNCHANGED <<module, should_stop>>
         [] thread = "ended" ->
              /\ module' \in {"absent", "hung"} /\ oops' \in BOOLEAN
              /\ UNCHANGED should_stop
         [] OTHER ->
              module' = "stopping" /\ should_stop' = TRUE /\ UNCHANGED oops
    /\ UNCHANGED <<driver, waker, thread, state, clockVars>>

\* The second half of kthread_stop wakes the thread and waits for it.
StopWakes ==
    /\ module = "stopping"
    /\ module' = "waiting"
    /\ state' = Running
    /\ UNCHANGED <<driver, waker, thread, should_stop, clockVars, oops>>

\* Mutant: the exit function does not wait for the thread.
StopReturnsEarly ==
    /\ module = "waiting" /\ driver.exit = "kthread_stop"
    /\ module' = "absent"
    /\ UNCHANGED <<driver, waker, threadVars, clockVars, oops>>

\* kthread_stop returns.  The completion my_com is never completed, as the
\* thread of Completion has no way out of its loop.
StopReturned ==
    /\ module = "waiting" /\ driver.exit = "kthread_stop"
    /\ thread = "ended"
    /\ module' = "absent"
    /\ UNCHANGED <<driver, waker, threadVars, clockVars, oops>>

\* The thread is on the driver's wait queue.
Queued == driver.queued /\ thread \notin Gone \cup {"created", "enter"}

\* insmod and rmmod of wake_up_interruptible, which uses the driver's queue.
WakeThreadUp ==
    /\ module = "loaded" /\ driver.waker /\ ~waker
    /\ waker' = TRUE
    /\ state' = IF Queued THEN Running ELSE state
    /\ UNCHANGED <<driver, module, thread, should_stop, clockVars, oops>>

WakeThreadDown ==
    /\ waker /\ waker' = FALSE
    /\ UNCHANGED <<driver, module, threadVars, clockVars, oops>>

-----------------------------------------------------------------------------
(* The thread.  Its code must still be there. *)

\* The kernel's part: a thread that was stopped before it ran does not call
\* mythread.
Kthread ==
    /\ thread = "created"
    /\ thread' = IF should_stop THEN "ended" ELSE "enter"
    /\ state' = Running
    /\ UNCHANGED <<moduleVars, should_stop, clockVars, oops>>

\* Where a turn of the loop begins.
LoopHead ==
    IF driver.tests THEN "test"
    ELSE IF driver.sleeps = "never" THEN "turn"
    ELSE "set_state"

Enter ==
    /\ thread = "enter"
    /\ thread' = LoopHead
    /\ timeout' = (jiffies + HZ) % Word
    /\ since' = 0
    /\ UNCHANGED <<moduleVars, state, should_stop, jiffies, count, oops>>

TestStop ==
    /\ thread = "test"
    /\ thread' = IF should_stop THEN "leave" ELSE "set_state"
    /\ UNCHANGED <<moduleVars, state, should_stop, clockVars, oops>>

\* Mutant: the state is one that is not looked for.
SetStateUninterruptible ==
    /\ thread = "set_state"
    /\ state' = "TASK_UNINTERRUPTIBLE"
    /\ thread' = driver.sleeps
    /\ UNCHANGED <<moduleVars, should_stop, clockVars, oops>>

SetState ==
    /\ thread = "set_state"
    /\ state' = Interruptible
    /\ thread' = driver.sleeps
    /\ UNCHANGED <<moduleVars, should_stop, clockVars, oops>>

\* Mutant: the timer is due at once.
SetTimerNow ==
    /\ thread = "schedule_timeout"
    /\ timeout' = jiffies
    /\ thread' = "schedule"
    /\ UNCHANGED <<moduleVars, state, should_stop, jiffies, count, since, oops>>

\* schedule_timeout starts a timer and calls schedule.
SetTimer ==
    /\ thread = "schedule_timeout"
    /\ timeout' = (jiffies + driver.period) % Word
    /\ thread' = "schedule"
    /\ UNCHANGED <<moduleVars, state, should_stop, jiffies, count, since, oops>>

\* Mutant: the thread that was woken does not test again.
ResumeUntested ==
    /\ thread = "schedule" /\ state = Running /\ driver.sleeps = "schedule"
    /\ thread' = IF driver.loops THEN "set_state" ELSE "leave"
    /\ UNCHANGED <<moduleVars, state, should_stop, clockVars, oops>>

\* schedule() returns.
Resume ==
    /\ thread = "schedule" /\ state = Running /\ driver.sleeps = "schedule"
    /\ thread' = IF driver.loops THEN LoopHead ELSE "leave"
    /\ UNCHANGED <<moduleVars, state, should_stop, clockVars, oops>>

\* schedule_timeout() returns, and the thread counts.
ResumeTimeout ==
    /\ thread = "schedule" /\ state = Running /\ driver.sleeps = "schedule_timeout"
    /\ thread' = LoopHead
    /\ count' = (count + 1) % 2 /\ since' = 0
    /\ UNCHANGED <<moduleVars, state, should_stop, jiffies, timeout, oops>>

\* Mutant: jiffies is compared as a number.
TurnUnwrapped ==
    /\ thread = "turn"
    /\ thread' = IF jiffies > timeout THEN "count" ELSE "turn"
    /\ UNCHANGED <<moduleVars, state, should_stop, clockVars, oops>>

\* A thread that does not sleep looks at the clock,
Turn ==
    /\ thread = "turn"
    /\ thread' = IF TimeAfterJiffies(timeout) THEN "count" ELSE "turn"
    /\ UNCHANGED <<moduleVars, state, should_stop, clockVars, oops>>

\* and once the time is over counts and looks again, for the next one.
Count ==
    /\ thread = "count"
    /\ timeout' = (jiffies + HZ) % Word
    /\ count' = (count + 1) % 2 /\ since' = 0
    /\ thread' = "turn"
    /\ UNCHANGED <<moduleVars, state, should_stop, jiffies, oops>>

\* Behind the loop: the entry is removed and mythread returns.
Leave ==
    /\ thread = "leave"
    /\ state' = Running
    /\ thread' = "ended"
    /\ UNCHANGED <<moduleVars, should_stop, clockVars, oops>>

\* The thread goes on in memory that the module has left.
RunsGoneCode ==
    /\ module = "absent" /\ thread \notin Gone
    /\ oops' = TRUE
    /\ UNCHANGED <<moduleVars, threadVars, clockVars>>

ThreadStep ==
    \/ /\ module # "absent"
       /\ \/ Kthread \/ Enter \/ TestStop \/ SetState \/ SetTimer \/ Resume
          \/ ResumeTimeout \/ Turn \/ Count \/ Leave
    \/ RunsGoneCode

-----------------------------------------------------------------------------
(* The clock *)

TimerDue ==
    thread = "schedule" /\ driver.sleeps = "schedule_timeout" /\ TimeReached(timeout)

TimerFires ==
    /\ TimerDue /\ state # Running
    /\ state' = Running
    /\ UNCHANGED <<moduleVars, thread, should_stop, clockVars, oops>>

\* Timers that are due run before the next tick.
Tick ==
    /\ ~(TimerDue /\ state # Running)
    /\ driver.sleeps = "never" => since < MaxLag
    /\ jiffies' = (jiffies + 1) % Word
    /\ since' = Min({since + 1, MaxLag})
    /\ UNCHANGED <<moduleVars, threadVars, timeout, count, oops>>

Next ==
    /\ ~oops
    /\ \/ Load \/ LoadFails \/ Exit \/ StopWakes \/ StopReturned
       \/ WakeThreadUp \/ WakeThreadDown
       \/ ThreadStep \/ TimerFires \/ Tick

Spec == Init /\ [][Next]_vars

\* The thread, a call of kthread_stop, the clock and its timers go on.  Nobody
\* need load, unload or wake anything.
FairSpec ==
    /\ Spec
    /\ WF_vars(~oops /\ ThreadStep)
    /\ WF_vars(~oops /\ (StopWakes \/ StopReturned))
    /\ WF_vars(~oops /\ TimerFires)
    /\ WF_vars(~oops /\ Tick)

-----------------------------------------------------------------------------
(* Properties *)

\* Every variable has its type.
TypeOK ==
    /\ driver \in Drivers
    /\ module \in ModulePc /\ waker \in BOOLEAN
    /\ thread \in ThreadPc /\ state \in TaskState /\ should_stop \in BOOLEAN
    /\ {jiffies, timeout} \subseteq 0..(Word - 1)
    /\ count \in 0..1 /\ since \in 0..MaxLag
    /\ oops \in BOOLEAN

\* When the exit function of a driver that waits for its thread has returned,
\* the thread has: none of its steps is left to be made in the module's code.
\* Only time_after lets its thread run on.
UnloadWaits ==
    module = "absent" /\ driver.exit # "none" => thread \in Gone

\* The thread has tested, or does not test at all, and is on its way into a
\* sleep that kthread_stop's wake-up has come too early for.
WokenTooEarly ==
    \/ thread = "set_state"
    \/ thread = "enter" /\ ~driver.tests
    \/ thread = "schedule" /\ state = Interruptible

\* kthread_stop of a thread that comes to an end returns, unless it has fallen
\* between the thread's kthread_should_stop() and its set_current_state()
\* (kthread_shoud_stop/cdev.c:24-25), in 3.14 before the latter.
StopReturns ==
    (/\ module = "waiting" /\ driver.exit = "kthread_stop"
     /\ driver.tests \/ ~driver.loops
     /\ ~WokenTooEarly) ~> module = "absent"

\* A thread counts no sooner than a period after it counted last, whatever
\* jiffies was and although it wraps, unless kthread_stop ends its sleep.
CountsApart ==
    [][count' # count => since >= driver.period \/ should_stop]_vars

\* A counting thread goes on counting: neither the wrap of jiffies nor a
\* kthread_stop, which it does not heed, ends that.
KeepsCounting ==
    \A c \in 0..1 :
        (/\ driver.sleeps # "schedule" /\ thread \notin Gone
         /\ module # "absent" /\ ~oops
         /\ thread # "created" /\ count = c) ~> (count # c \/ module = "absent")
=============================================================================
