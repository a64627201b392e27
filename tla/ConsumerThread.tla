--------------------------- MODULE ConsumerThread ---------------------------
(***************************************************************************)
(* code/wait_queue_consumer/cdev.c and code/wait_queue_list/cdev.c: a      *)
(* kernel thread that handles the work items written to a character        *)
(* device.  The thread sleeps on the wait queue todo, takes itself off it   *)
(* when it is woken, drains the list and goes back to sleep.  The two       *)
(* drivers differ in how they drain (a while loop on list_empty, or         *)
(* list_for_each_entry_safe with the lock dropped inside the loop) and in   *)
(* what my_write does after the wake-up; the variable drain says which of   *)
(* the two is running.                                                      *)
(***************************************************************************)
EXTENDS KernelSync

CONSTANTS
    Writer,     \* the tasks that write(2) to the device
    MyThread,   \* the kernel thread
    Free,       \* the lock is free: not a task
    ListHead,   \* &work_head.head, the list's sentinel: not a node
    Drains,     \* the drivers to check: "while", "safe", or both
    MaxWrites   \* bound: the writes each writer makes

ASSUME WriterAssumption == MyThread \notin Writer /\ IsFiniteSet(Writer)
ASSUME LockAssumption == Free \notin Writer \cup {MyThread}
ASSUME BoundAssumption == MaxWrites \in Nat
ASSUME DrainsAssumption == Drains \subseteq {"while", "safe"}

Task == Writer \cup {MyThread}

\* A work node: the n-th one that the writer w allocated.
Node == Writer \X (1..MaxWrites)
ASSUME HeadAssumption == ListHead \notin Node

VARIABLES
    drain,      \* which driver this is; never changes
    list,       \* work_head.head
    lock,       \* work_head.lock: who holds it, or Free
    todo,       \* work_head.todo: the tasks that have an entry on it
    state,      \* each task's state
    pc,         \* the point each task has reached
    entry,      \* work_entry of the "safe" drain
    temp,       \* temp of the "safe" drain: the node it visits next
    printed,    \* the nodes handled, in order
    writes      \* the writes each writer has started

vars == <<drain, list, lock, todo, state, pc, entry, temp, printed, writes>>
drainVars == <<entry, temp>>

ThreadPc == {"set_state", "add_wait", "test", "schedule", "remove_wait",
             "drain", "drain_lock"}
WriterPc == {"idle", "append", "wake", "timeout"}

Init ==
    /\ drain \in Drains
    /\ list = <<>> /\ printed = <<>>
    /\ lock = Free
    /\ todo = {}
    /\ state = [t \in Task |-> Running]
    /\ pc = [t \in Task |-> IF t = MyThread THEN "set_state" ELSE "idle"]
    /\ entry = ListHead /\ temp = ListHead
    /\ writes = [w \in Writer |-> 0]

\* work_head.head.next: the oldest node, or the sentinel of an empty list.
First == IF list = <<>> THEN ListHead ELSE Head(list)

\* The next field of a node on the list.
Position(node) == CHOOSE i \in DOMAIN list : list[i] = node
NextOf(node) ==
    IF node = ListHead THEN First
    ELSE IF Position(node) = Len(list) THEN ListHead
    ELSE list[Position(node) + 1]

Goto(t, point) == pc' = [pc EXCEPT ![t] = point]
At(t, point) == pc[t] = point
SetCurrentState(t, s) == state' = [state EXCEPT ![t] = s]

-----------------------------------------------------------------------------
(* mythread *)

\* Mutant: an uninterruptible sleep.
SetStateUninterruptible ==
    /\ At(MyThread, "set_state")
    /\ SetCurrentState(MyThread, "TASK_UNINTERRUPTIBLE")
    /\ Goto(MyThread, "add_wait")
    /\ UNCHANGED <<drain, list, lock, todo, drainVars, printed, writes>>

SetState ==
    /\ At(MyThread, "set_state")
    /\ SetCurrentState(MyThread, Interruptible)
    /\ Goto(MyThread, "add_wait")
    /\ UNCHANGED <<drain, list, lock, todo, drainVars, printed, writes>>

\* Mutant: the loop does not add its entry to the queue again.
AddWaitMissing ==
    /\ At(MyThread, "add_wait")
    /\ Goto(MyThread, "test")
    /\ UNCHANGED <<drain, list, lock, todo, state, drainVars, printed, writes>>

AddWait ==
    /\ At(MyThread, "add_wait")
    /\ todo' = todo \cup {MyThread}
    /\ Goto(MyThread, "test")
    /\ UNCHANGED <<drain, list, lock, state, drainVars, printed, writes>>

\* Mutant: schedule() is called with the lock held.
FindEmptyLocked ==
    /\ At(MyThread, "test") /\ lock = Free
    /\ list = <<>>
    /\ lock' = MyThread
    /\ Goto(MyThread, "schedule")
    /\ UNCHANGED <<drain, list, todo, state, drainVars, printed, writes>>

\* The list is tested under the lock: empty, so unlock and call schedule() ...
FindEmpty ==
    /\ At(MyThread, "test") /\ lock = Free
    /\ list = <<>>
    /\ Goto(MyThread, "schedule")
    /\ UNCHANGED <<drain, list, lock, todo, state, drainVars, printed, writes>>

\* Mutant: the state is not set back to TASK_RUNNING.
FindWorkNotRunning ==
    /\ At(MyThread, "test") /\ lock = Free
    /\ list # <<>>
    /\ lock' = MyThread
    /\ Goto(MyThread, "remove_wait")
    /\ UNCHANGED <<drain, list, todo, state, drainVars, printed, writes>>

\* ... or not, so keep the lock and stay awake.
FindWork ==
    /\ At(MyThread, "test") /\ lock = Free
    /\ list # <<>>
    /\ lock' = MyThread
    /\ SetCurrentState(MyThread, Running)
    /\ Goto(MyThread, "remove_wait")
    /\ UNCHANGED <<drain, list, todo, drainVars, printed, writes>>

\* schedule() returns once the thread is runnable; then it takes the lock.
Resume ==
    /\ At(MyThread, "schedule") /\ state[MyThread] = Running
    /\ lock = Free
    /\ lock' = MyThread
    /\ Goto(MyThread, "remove_wait")
    /\ UNCHANGED <<drain, list, todo, state, drainVars, printed, writes>>

\* The loop is entered in the same step: the "safe" one reads its first two
\* nodes here, with the lock held.
RemoveWait ==
    /\ At(MyThread, "remove_wait")
    /\ todo' = todo \ {MyThread}
    /\ IF drain = "safe"
         THEN entry' = First /\ temp' = NextOf(First)
         ELSE UNCHANGED drainVars
    /\ Goto(MyThread, "drain")
    /\ UNCHANGED <<drain, list, lock, state, printed, writes>>

\* The node the loop body prints and frees.
Current == IF drain = "safe" THEN entry ELSE First

\* Mutant: list_del is forgotten.
DrainOneNotUnlinked ==
    /\ At(MyThread, "drain")
    /\ Current # ListHead
    /\ printed' = Append(printed, Current)
    /\ lock' = Free
    /\ Goto(MyThread, "drain_lock")
    /\ UNCHANGED <<drain, list, todo, state, drainVars, writes>>

\* What the body unlinks is always work_head.head.next.
DrainOne ==
    /\ At(MyThread, "drain")
    /\ Current # ListHead
    /\ printed' = Append(printed, Current)
    /\ list' = Tail(list)
    /\ lock' = Free
    /\ Goto(MyThread, "drain_lock")
    /\ UNCHANGED <<drain, todo, state, drainVars, writes>>

\* The lock is taken again; the "safe" loop moves on to the node it had noted.
DrainLock ==
    /\ At(MyThread, "drain_lock") /\ lock = Free
    /\ lock' = MyThread
    /\ IF drain = "safe"
         THEN entry' = temp /\ temp' = NextOf(temp)
         ELSE UNCHANGED drainVars
    /\ Goto(MyThread, "drain")
    /\ UNCHANGED <<drain, list, todo, state, printed, writes>>

DrainDone ==
    /\ At(MyThread, "drain")
    /\ Current = ListHead
    /\ lock' = Free
    /\ Goto(MyThread, "set_state")
    /\ UNCHANGED <<drain, list, todo, state, drainVars, printed, writes>>

Thread ==
    \/ SetState \/ AddWait \/ FindEmpty \/ FindWork \/ Resume
    \/ RemoveWait \/ DrainOne \/ DrainLock \/ DrainDone

-----------------------------------------------------------------------------
(* my_write, called by the writer w.  A call that fails (no memory, a bad    *)
(* user pointer) changes none of this state and is left out.                 *)

Write(w) ==
    /\ At(w, "idle") /\ writes[w] < MaxWrites
    /\ writes' = [writes EXCEPT ![w] = @ + 1]
    /\ Goto(w, "append")
    /\ UNCHANGED <<drain, list, lock, todo, state, drainVars, printed>>

\* Mutant: list_add for list_add_tail.
AppendNodeAtHead(w) ==
    /\ At(w, "append") /\ lock = Free
    /\ list' = <<<<w, writes[w]>>>> \o list
    /\ Goto(w, "wake")
    /\ UNCHANGED <<drain, lock, todo, state, drainVars, printed, writes>>

AppendNode(w) ==
    /\ At(w, "append") /\ lock = Free
    /\ list' = Append(list, <<w, writes[w]>>)
    /\ Goto(w, "wake")
    /\ UNCHANGED <<drain, lock, todo, state, drainVars, printed, writes>>

\* wake_up(&work_head.todo); the "while" driver then sleeps for five seconds,
\* on no queue, the other one returns.
WakeUp(w) ==
    /\ At(w, "wake")
    /\ IF drain = "while"
         THEN /\ state' = [WakeUpAll(state, todo) EXCEPT ![w] = Interruptible]
              /\ Goto(w, "timeout")
         ELSE /\ state' = WakeUpAll(state, todo)
              /\ Goto(w, "idle")
    /\ UNCHANGED <<drain, list, lock, todo, drainVars, printed, writes>>

\* schedule_timeout() returns, with the task in the state TASK_RUNNING.
Timeout(w) ==
    /\ At(w, "timeout")
    /\ SetCurrentState(w, Running)
    /\ Goto(w, "idle")
    /\ UNCHANGED <<drain, list, lock, todo, drainVars, printed, writes>>

WriteStep(w) == AppendNode(w) \/ WakeUp(w) \/ Timeout(w)

Next == Thread \/ \E w \in Writer : Write(w) \/ WriteStep(w)

Spec == Init /\ [][Next]_vars

\* The scheduler runs every task that can run; nothing makes a client write.
FairSpec ==
    /\ Spec
    /\ WF_vars(Thread)
    /\ \A w \in Writer : WF_vars(WriteStep(w))

-----------------------------------------------------------------------------
(* Properties *)

\* Every variable has its type.
TypeOK ==
    /\ drain \in Drains
    /\ list \in Seq(Node) /\ printed \in Seq(Node)
    /\ lock \in {Free, MyThread}
    /\ todo \subseteq {MyThread}
    /\ state \in [Task -> TaskState]
    /\ pc \in [Task -> ThreadPc \cup WriterPc]
    /\ pc[MyThread] \in ThreadPc
    /\ \A w \in Writer : pc[w] \in WriterPc
    /\ entry \in Node \cup {ListHead} /\ temp \in Node \cup {ListHead}
    /\ writes \in [Writer -> 0..MaxWrites]

\* The thread has given up the processor and waits to be woken.
Asleep == At(MyThread, "schedule") /\ state[MyThread] = Interruptible

\* No lost wake-up: whenever the thread sleeps while the list holds work, a
\* writer is about to call wake_up() and the thread is on the queue it wakes.
\* This is what adding the entry and setting the state before the test of
\* list_empty() buys (lines 42-50).
NoLostWakeup ==
    Asleep /\ list # <<>> =>
        MyThread \in todo /\ \E w \in Writer : At(w, "wake")

\* The thread holds the spinlock exactly while it unlinks nodes: it never calls
\* schedule() with it, and it drops it once per node (lines 47-70).
LockDiscipline ==
    lock = MyThread <=> pc[MyThread] \in {"remove_wait", "drain"}

\* While it drains the thread is runnable and off the queue, so no wake-up can
\* be spent on it: a writer that appends during the drain is seen by the next
\* test instead (lines 53, 56, 71).
DrainsAwake ==
    pc[MyThread] \in {"drain", "drain_lock"} =>
        state[MyThread] = Running /\ MyThread \notin todo

\* The loop prints and frees work_entry but unlinks work_head.head.next: they
\* are the same node each time, although the lock was dropped since the
\* iterator noted it (wait_queue_list lines 52-60).
UnlinksWhatItFrees ==
    At(MyThread, "drain") /\ Current # ListHead => Current = First

\* What the two drivers implement: a queue of work items, each handled once and
\* in the order of the writes, and none left behind.
Fifo == INSTANCE WorkFifo WITH Item <- Node, pending <- list, done <- printed
ImplementsFifo == Fifo!FairSpec
=============================================================================
