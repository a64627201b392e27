----------------------------- MODULE KernelSync -----------------------------
(***************************************************************************)
(* The kernel services the drivers under code/ are built from: the state   *)
(* of a task and the wake-up of a wait queue.  They are not part of the    *)
(* repository; each operator is what the drivers rely on.                  *)
(*                                                                         *)
(* A task inside schedule() is one whose next step waits for its state to  *)
(* be Running: with any other state it is asleep until somebody wakes it.  *)
(***************************************************************************)
EXTENDS Naturals, Sequences, FiniteSetsExt

Running == "TASK_RUNNING"
Interruptible == "TASK_INTERRUPTIBLE"
TaskState == {Running, Interruptible}

\* wake_up(q) on a queue q of non-exclusive entries: it makes every task of q
\* runnable.
WakeUpAll(state, q) ==
    [t \in DOMAIN state |-> IF t \in q THEN Running ELSE state[t]]

\* wake_up(q) on a sequence q of exclusive entries, oldest first: it makes the
\* first sleeping task runnable and passes over those that are awake already.
WakeUpOne(state, q) ==
    LET asleep == {i \in DOMAIN q : state[q[i]] = Interruptible}
    IN  IF asleep = {} THEN state
                       ELSE [state EXCEPT ![q[Min(asleep)]] = Running]
=============================================================================
