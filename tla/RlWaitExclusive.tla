--------------------------- MODULE RlWaitExclusive ---------------------------
(***************************************************************************)
(* code/add_wait_queue_exclusive/wait_queue.c: readers wait, on exclusive   *)
(* entries of r_wait_head, for r_flag to be set; each write sets it and    *)
(* wakes one of them.  There is no lock: the test of r_flag and the sleep   *)
(* are two steps of the reader, with the setting of its state between them. *)
(***************************************************************************)
EXTENDS KernelSync, SequencesExt

CONSTANTS
    Reader,     \* the tasks that read the device
    Writer      \* the tasks that write it

ASSUME TaskAssumption == Reader \cap Writer = {}

Task == Reader \cup Writer

VARIABLES
    r_flag,         \* has the device been written?  Never reset
    r_wait_head,    \* the tasks that have an entry on the queue, oldest first
    state,          \* each task's state
    signalled,      \* the readers that have a signal pending
    pc              \* the point each task has reached

vars == <<r_flag, r_wait_head, state, signalled, pc>>

ReaderPc == {"idle", "test", "set_state", "schedule", "remove_wait"}
WriterPc == {"idle", "wake"}

Init ==
    /\ r_flag = FALSE
    /\ r_wait_head = <<>>
    /\ state = [t \in Task |-> Running]
    /\ signalled = {}
    /\ pc = [t \in Task |-> "idle"]

At(t, point) == pc[t] = point
Goto(t, point) == pc' = [pc EXCEPT ![t] = point]
SetCurrentState(t, s) == state' = [state EXCEPT ![t] = s]

-----------------------------------------------------------------------------
(* rlwait_read, called by r *)

\* Mutant: the reader does not add its entry to the queue.
ReadUnqueued(r) ==
    /\ At(r, "idle")
    /\ Goto(r, "test")
    /\ UNCHANGED <<r_flag, r_wait_head, state, signalled>>

\* add_wait_queue_exclusive
Read(r) ==
    /\ At(r, "idle")
    /\ r_wait_head' = Append(r_wait_head, r)
    /\ Goto(r, "test")
    /\ UNCHANGED <<r_flag, state, signalled>>

TestFlag(r) ==
    /\ At(r, "test")
    /\ Goto(r, IF r_flag THEN "remove_wait" ELSE "set_state")
    /\ UNCHANGED <<r_flag, r_wait_head, state, signalled>>

SetState(r) ==
    /\ At(r, "set_state")
    /\ SetCurrentState(r, Interruptible)
    /\ Goto(r, "schedule")
    /\ UNCHANGED <<r_flag, r_wait_head, signalled>>

\* schedule() returns once the task is runnable.  It does not put a task to
\* sleep that has a signal pending, and the loop never looks at signals.
Resume(r) ==
    /\ At(r, "schedule")
    /\ state[r] = Running \/ r \in signalled
    /\ SetCurrentState(r, Running)
    /\ Goto(r, "test")
    /\ UNCHANGED <<r_flag, r_wait_head, signalled>>

\* Mutant: the reader leaves its entry on the queue.
LeaveQueued(r) ==
    /\ At(r, "remove_wait")
    /\ SetCurrentState(r, Running)
    /\ Goto(r, "idle")
    /\ signalled' = signalled \ {r}
    /\ UNCHANGED <<r_flag, r_wait_head>>

\* remove_wait_queue, TASK_RUNNING, return; a signal is handled then.
Leave(r) ==
    /\ At(r, "remove_wait")
    /\ r_wait_head' = RemoveFirst(r_wait_head, r)
    /\ SetCurrentState(r, Running)
    /\ Goto(r, "idle")
    /\ signalled' = signalled \ {r}
    /\ UNCHANGED r_flag

ReadStep(r) == TestFlag(r) \/ SetState(r) \/ Resume(r) \/ Leave(r)

-----------------------------------------------------------------------------
(* rlwait_write, called by w *)

\* Mutant: the queue is woken, the flag is not set.
WriteNoFlag(w) ==
    /\ At(w, "idle")
    /\ Goto(w, "wake")
    /\ UNCHANGED <<r_flag, r_wait_head, state, signalled>>

Write(w) ==
    /\ At(w, "idle")
    /\ r_flag' = TRUE
    /\ Goto(w, "wake")
    /\ UNCHANGED <<r_wait_head, state, signalled>>

WakeUp(w) ==
    /\ At(w, "wake")
    /\ state' = WakeUpOne(state, r_wait_head)
    /\ Goto(w, "idle")
    /\ UNCHANGED <<r_flag, r_wait_head, signalled>>

\* A signal for a reader: it ends an interruptible sleep.
Signal(r) ==
    /\ ~At(r, "idle") /\ r \notin signalled
    /\ signalled' = signalled \cup {r}
    /\ SetCurrentState(r, Running)
    /\ UNCHANGED <<r_flag, r_wait_head, pc>>

Next ==
    \/ \E r \in Reader : Read(r) \/ ReadStep(r) \/ Signal(r)
    \/ \E w \in Writer : Write(w) \/ WakeUp(w)

Spec == Init /\ [][Next]_vars

\* A call that can go on does; clients need not call, signals need not come.
FairSpec ==
    /\ Spec
    /\ \A r \in Reader : WF_vars(ReadStep(r))
    /\ \A w \in Writer : WF_vars(WakeUp(w))

-----------------------------------------------------------------------------
(* Properties *)

\* Every variable has its type; a task has at most one entry on the queue.
TypeOK ==
    /\ r_flag \in BOOLEAN
    /\ r_wait_head \in Seq(Reader) /\ IsInjective(r_wait_head)
    /\ state \in [Task -> TaskState]
    /\ signalled \subseteq Reader
    /\ pc \in [Task -> ReaderPc \cup WriterPc]
    /\ \A r \in Reader : pc[r] \in ReaderPc
    /\ \A w \in Writer : pc[w] \in WriterPc

\* The flag is set before the queue is woken, so no wake-up is spent on a reader
\* that goes back to sleep: one that comes out of schedule() finds the flag set
\* and returns, unless a signal is what woke it (lines 70-75, 88-89).
WokenReaderReturns ==
    \A r \in Reader :
        At(r, "schedule") /\ state[r] = Running => r_flag \/ r \in signalled

\* A write wakes the reader that has waited longest, so no reader is overtaken
\* for ever: if writes keep coming every read returns (lines 68, 89).
ReadsReturn ==
    ([]<> \E w \in Writer : At(w, "wake")) =>
        \A r \in Reader : At(r, "schedule") ~> At(r, "idle")

\* What lines 2-4 say: read processes block until the buffer is not empty, and
\* the writer that fills it wakes one of them.  A reader that is alone is
\* therefore not kept waiting by a device that has been written.
ReadReturnsOnceWritten ==
    \A r \in Reader : r_flag /\ ~At(r, "idle") ~> At(r, "idle")
=============================================================================
