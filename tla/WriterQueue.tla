---------------------------- MODULE WriterQueue ----------------------------
(***************************************************************************)
(* code/wait_queue/cdev.c: the writers of the device wait, readers wake    *)
(* them.  my_write sleeps on the wait queue todo, once, if the list is not *)
(* empty, and appends its node whatever it finds after it wakes up;        *)
(* my_read takes the oldest node, if there is one, and wakes every writer. *)
(* my_write returns with the task's state set to TASK_INTERRUPTIBLE, so    *)
(* that the next reschedule in user mode puts the task to sleep, on no     *)
(* queue, until a signal comes.                                            *)
(***************************************************************************)
EXTENDS KernelSync

CONSTANTS
    Reader,     \* the tasks that read(2) from the device
    Writer,     \* the tasks that write(2) to it
    Free,       \* the lock is free: not a task
    MaxWrites   \* bound: the writes each writer makes

ASSUME TaskAssumption == Reader \cap Writer = {} /\ Free \notin Reader \cup Writer
ASSUME BoundAssumption == MaxWrites \in Nat

Task == Reader \cup Writer

\* A node: the one the n-th write of w allocated.
Node == Writer \X (1..MaxWrites)

VARIABLES
    list,       \* work_head.head
    lock,       \* work_head.lock: who holds it, or Free
    todo,       \* work_head.todo: the tasks that have an entry on it
    state,      \* each task's state
    pc,         \* the point each task has reached
    taken,      \* the nodes the readers were given, in order
    writes      \* the writes each writer has started

vars == <<list, lock, todo, state, pc, taken, writes>>

ReaderPc == {"idle", "read", "take", "wake"}
WriterPc == {"idle", "set_state", "test", "schedule", "remove_wait", "copy",
             "append", "off_cpu"}

Init ==
    /\ list = <<>> /\ taken = <<>>
    /\ lock = Free
    /\ todo = {}
    /\ state = [t \in Task |-> Running]
    /\ pc = [t \in Task |-> "idle"]
    /\ writes = [w \in Writer |-> 0]

At(t, point) == pc[t] = point
Goto(t, point) == pc' = [pc EXCEPT ![t] = point]
SetCurrentState(t, s) == state' = [state EXCEPT ![t] = s]

-----------------------------------------------------------------------------
(* my_read, called by r *)

Read(r) ==
    /\ At(r, "idle")
    /\ Goto(r, "read")
    /\ UNCHANGED <<list, lock, todo, state, taken, writes>>

\* Under the lock: an empty list, so unlock and wake the queue anyway ...
FindEmpty(r) ==
    /\ At(r, "read") /\ lock = Free
    /\ list = <<>>
    /\ Goto(r, "wake")
    /\ UNCHANGED <<list, lock, todo, state, taken, writes>>

FindNode(r) ==
    /\ At(r, "read") /\ lock = Free
    /\ list # <<>>
    /\ lock' = r
    /\ Goto(r, "take")
    /\ UNCHANGED <<list, todo, state, taken, writes>>

\* Mutant: the queue is not woken.
TakeNoWakeUp(r) ==
    /\ At(r, "take")
    /\ taken' = Append(taken, Head(list))
    /\ list' = Tail(list)
    /\ lock' = Free
    /\ Goto(r, "idle")
    /\ UNCHANGED <<todo, state, writes>>

\* ... or a node: copy it to the user, unlink it, unlock.
Take(r) ==
    /\ At(r, "take")
    /\ taken' = Append(taken, Head(list))
    /\ list' = Tail(list)
    /\ lock' = Free
    /\ Goto(r, "wake")
    /\ UNCHANGED <<todo, state, writes>>

\* The user's buffer is bad: my_read returns -1, with the lock held.
TakeFault(r) ==
    /\ At(r, "take")
    /\ Goto(r, "idle")
    /\ UNCHANGED <<list, lock, todo, state, taken, writes>>

\* Mutant: one writer is woken, as if the entries were exclusive.
WakeUpAny(r) ==
    /\ At(r, "wake")
    /\ IF todo = {} THEN UNCHANGED state
                    ELSE \E w \in todo : SetCurrentState(w, Running)
    /\ Goto(r, "idle")
    /\ UNCHANGED <<list, lock, todo, taken, writes>>

WakeUp(r) ==
    /\ At(r, "wake")
    /\ state' = WakeUpAll(state, todo)
    /\ Goto(r, "idle")
    /\ UNCHANGED <<list, lock, todo, taken, writes>>

ReadStep(r) == FindEmpty(r) \/ FindNode(r) \/ Take(r) \/ TakeFault(r) \/ WakeUp(r)

-----------------------------------------------------------------------------
(* my_write, called by w *)

\* kmalloc and add_wait_queue.
Write(w) ==
    /\ At(w, "idle") /\ writes[w] < MaxWrites
    /\ writes' = [writes EXCEPT ![w] = @ + 1]
    /\ todo' = todo \cup {w}
    /\ Goto(w, "set_state")
    /\ UNCHANGED <<list, lock, state, taken>>

SetState(w) ==
    /\ At(w, "set_state")
    /\ SetCurrentState(w, Interruptible)
    /\ Goto(w, "test")
    /\ UNCHANGED <<list, lock, todo, taken, writes>>

\* The test takes no lock.
TestList(w) ==
    /\ At(w, "test")
    /\ IF list = <<>>
         THEN SetCurrentState(w, Running) /\ Goto(w, "remove_wait")
         ELSE Goto(w, "schedule") /\ UNCHANGED state
    /\ UNCHANGED <<list, lock, todo, taken, writes>>

\* schedule() returns once the task is runnable; the list is not tested again.
Resume(w) ==
    /\ At(w, "schedule") /\ state[w] = Running
    /\ Goto(w, "remove_wait")
    /\ UNCHANGED <<list, lock, todo, state, taken, writes>>

RemoveWait(w) ==
    /\ At(w, "remove_wait")
    /\ todo' = todo \ {w}
    /\ Goto(w, "copy")
    /\ UNCHANGED <<list, lock, state, taken, writes>>

CopyFromUser(w) ==
    /\ At(w, "copy")
    /\ \/ Goto(w, "append")
       \/ Goto(w, "idle")       \* a bad user pointer: my_write returns -1
    /\ UNCHANGED <<list, lock, todo, state, taken, writes>>

\* Mutant: the lock is not dropped.
AppendNodeLocked(w) ==
    /\ At(w, "append") /\ lock = Free
    /\ list' = Append(list, <<w, writes[w]>>)
    /\ lock' = w
    /\ SetCurrentState(w, Interruptible)
    /\ Goto(w, "idle")
    /\ UNCHANGED <<todo, taken, writes>>

\* Mutant: list_add for list_add_tail.
AppendNodeAtHead(w) ==
    /\ At(w, "append") /\ lock = Free
    /\ list' = <<<<w, writes[w]>>>> \o list
    /\ SetCurrentState(w, Interruptible)
    /\ Goto(w, "idle")
    /\ UNCHANGED <<lock, todo, taken, writes>>

\* Append under the lock, then set_current_state(TASK_INTERRUPTIBLE) and return.
AppendNode(w) ==
    /\ At(w, "append") /\ lock = Free
    /\ list' = Append(list, <<w, writes[w]>>)
    /\ SetCurrentState(w, Interruptible)
    /\ Goto(w, "idle")
    /\ UNCHANGED <<lock, todo, taken, writes>>

WriteStep(w) ==
    \/ SetState(w) \/ TestList(w) \/ Resume(w) \/ RemoveWait(w)
    \/ CopyFromUser(w) \/ AppendNode(w)

-----------------------------------------------------------------------------
(* The scheduler and signals *)

\* A reschedule in user mode takes a task off the processor for good when its
\* state is not TASK_RUNNING.
Deschedule(w) ==
    /\ At(w, "idle") /\ state[w] = Interruptible
    /\ Goto(w, "off_cpu")
    /\ UNCHANGED <<list, lock, todo, state, taken, writes>>

GetBack(w) ==
    /\ At(w, "off_cpu") /\ state[w] = Running
    /\ Goto(w, "idle")
    /\ UNCHANGED <<list, lock, todo, state, taken, writes>>

\* A signal wakes a task out of an interruptible sleep.
Signal(w) ==
    /\ pc[w] \in {"schedule", "off_cpu"} /\ state[w] = Interruptible
    /\ SetCurrentState(w, Running)
    /\ UNCHANGED <<list, lock, todo, pc, taken, writes>>

Next ==
    \/ \E r \in Reader : Read(r) \/ ReadStep(r)
    \/ \E w \in Writer :
        Write(w) \/ WriteStep(w) \/ Deschedule(w) \/ GetBack(w) \/ Signal(w)

Spec == Init /\ [][Next]_vars

\* A call that can go on does; clients need not call, signals need not come.
FairSpec ==
    /\ Spec
    /\ \A r \in Reader : WF_vars(ReadStep(r))
    /\ \A w \in Writer : WF_vars(WriteStep(w)) /\ WF_vars(GetBack(w))

-----------------------------------------------------------------------------
(* Properties *)

\* Every variable has its type.
TypeOK ==
    /\ list \in Seq(Node) /\ taken \in Seq(Node)
    /\ lock \in Reader \cup {Free}
    /\ todo \subseteq Writer
    /\ state \in [Task -> TaskState]
    /\ pc \in [Task -> ReaderPc \cup WriterPc]
    /\ \A r \in Reader : pc[r] \in ReaderPc
    /\ \A w \in Writer : pc[w] \in WriterPc
    /\ writes \in [Writer -> 0..MaxWrites]

\* No lost wake-up: a writer sleeps in my_write with the list empty only while
\* the reader that emptied it is about to wake it.  It holds because the entry
\* is added and the state is set before list_empty() (lines 88-97).
NoLostWakeup ==
    \A w \in Writer :
        At(w, "schedule") /\ state[w] = Interruptible /\ list = <<>> =>
            w \in todo /\ \E r \in Reader : At(r, "wake")

\* One wake-up wakes every writer that sleeps in my_write (line 3), whatever
\* the lock is worth: a reader at wake_up() gets each of them out of schedule().
WakesAll ==
    \A w \in Writer :
        At(w, "schedule") /\ (\E r \in Reader : At(r, "wake")) ~> ~At(w, "schedule")

\* Readers are given each node once, in the order the writers appended them.
Fifo == INSTANCE WorkFifo WITH Item <- Node, pending <- list, done <- taken
DeliversInOrder == Fifo!Spec
=============================================================================
