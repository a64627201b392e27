----------------------------- MODULE WorkQueue -----------------------------
(***************************************************************************)
(* code/work_queue/cdev.c: my_write appends a node to the list and queues  *)
(* a work on a single-threaded workqueue; the function of every work,      *)
(* mythread, drains the list.  One work handles the nodes of many writes,  *)
(* so most works find the list empty: what matters is that a node is never *)
(* on the list without a work to come for it.                              *)
(***************************************************************************)
EXTENDS Naturals, Sequences, FiniteSets

CONSTANTS
    Writer,     \* the tasks that write(2) to the device
    Worker,     \* the thread of the workqueue wq
    Free,       \* the lock is free: not a task
    MaxWrites   \* bound: the writes each writer makes

ASSUME WriterAssumption == IsFiniteSet(Writer) /\ Worker \notin Writer
ASSUME LockAssumption == Free \notin Writer \cup {Worker}
ASSUME BoundAssumption == MaxWrites \in Nat

Task == Writer \cup {Worker}

\* A node: the one the n-th write of w allocated.
Node == Writer \X (1..MaxWrites)

VARIABLES
    list,       \* work_head.head
    lock,       \* work_head.lock: who holds it, or Free
    works,      \* how many works are queued on wq: all of them run mythread
    pc,         \* the point each task has reached
    printed,    \* the nodes handled, in order
    writes      \* the writes each writer has started

vars == <<list, lock, works, pc, printed, writes>>

WorkerPc == {"wait", "lock", "drain", "drain_lock"}
WriterPc == {"idle", "append", "queue"}

Init ==
    /\ list = <<>> /\ printed = <<>>
    /\ lock = Free
    /\ works = 0
    /\ pc = [t \in Task |-> IF t = Worker THEN "wait" ELSE "idle"]
    /\ writes = [w \in Writer |-> 0]

At(t, point) == pc[t] = point
Goto(t, point) == pc' = [pc EXCEPT ![t] = point]

-----------------------------------------------------------------------------
(* The workqueue's thread, and mythread *)

\* Mutant: the thread does not look whether there is a work.
RunWorkUnguarded ==
    /\ At(Worker, "wait")
    /\ works' = works - 1
    /\ Goto(Worker, "lock")
    /\ UNCHANGED <<list, lock, printed, writes>>

\* The thread takes the oldest work off the queue and calls its function.
RunWork ==
    /\ At(Worker, "wait") /\ works > 0
    /\ works' = works - 1
    /\ Goto(Worker, "lock")
    /\ UNCHANGED <<list, lock, printed, writes>>

\* mythread takes the lock, on entry and again after each node.
TakeLock ==
    /\ pc[Worker] \in {"lock", "drain_lock"} /\ lock = Free
    /\ lock' = Worker
    /\ Goto(Worker, "drain")
    /\ UNCHANGED <<list, works, printed, writes>>

\* Mutant: a run takes every queued work and handles one node.
DrainOneOnly ==
    /\ At(Worker, "drain") /\ list # <<>>
    /\ printed' = Append(printed, Head(list))
    /\ list' = Tail(list)
    /\ lock' = Free
    /\ works' = 0
    /\ Goto(Worker, "wait")
    /\ UNCHANGED writes

DrainOne ==
    /\ At(Worker, "drain") /\ list # <<>>
    /\ printed' = Append(printed, Head(list))
    /\ list' = Tail(list)
    /\ lock' = Free
    /\ Goto(Worker, "drain_lock")
    /\ UNCHANGED <<works, writes>>

DrainDone ==
    /\ At(Worker, "drain") /\ list = <<>>
    /\ lock' = Free
    /\ Goto(Worker, "wait")
    /\ UNCHANGED <<list, works, printed, writes>>

Thread == RunWork \/ TakeLock \/ DrainOne \/ DrainDone

-----------------------------------------------------------------------------
(* my_write.  A call that fails (no memory, a bad user pointer) changes none *)
(* of this state and is left out.                                            *)

Write(w) ==
    /\ At(w, "idle") /\ writes[w] < MaxWrites
    /\ writes' = [writes EXCEPT ![w] = @ + 1]
    /\ Goto(w, "append")
    /\ UNCHANGED <<list, lock, works, printed>>

\* Mutant: list_add for list_add_tail.
AppendNodeAtHead(w) ==
    /\ At(w, "append") /\ lock = Free
    /\ list' = <<<<w, writes[w]>>>> \o list
    /\ Goto(w, "queue")
    /\ UNCHANGED <<lock, works, printed, writes>>

AppendNode(w) ==
    /\ At(w, "append") /\ lock = Free
    /\ list' = Append(list, <<w, writes[w]>>)
    /\ Goto(w, "queue")
    /\ UNCHANGED <<lock, works, printed, writes>>

\* INIT_WORK and queue_work: the work is a new one, so it is never refused.
QueueWork(w) ==
    /\ At(w, "queue")
    /\ works' = works + 1
    /\ Goto(w, "idle")
    /\ UNCHANGED <<list, lock, printed, writes>>

WriteStep(w) == AppendNode(w) \/ QueueWork(w)

Next == Thread \/ \E w \in Writer : Write(w) \/ WriteStep(w)

Spec == Init /\ [][Next]_vars

\* The scheduler runs every task that can run; nothing makes a client write.
FairSpec ==
    /\ Spec
    /\ WF_vars(Thread)
    /\ \A w \in Writer : WF_vars(WriteStep(w))

-----------------------------------------------------------------------------
(* Properties *)

\* Every variable has its type.
TypeOK ==
    /\ list \in Seq(Node) /\ printed \in Seq(Node)
    /\ lock \in {Free, Worker}
    /\ works \in Nat
    /\ pc \in [Task -> WorkerPc \cup WriterPc]
    /\ pc[Worker] \in WorkerPc
    /\ \A w \in Writer : pc[w] \in WriterPc
    /\ writes \in [Writer -> 0..MaxWrites]

\* A node on the list has a work coming for it: one that is queued, one that a
\* writer is about to queue, or the one that is draining.  It rests on the
\* order append, queue_work in my_write, and on mythread testing the list
\* under the lock before it returns (lines 45-58 and 87-92).
WorkComes ==
    list # <<>> =>
        \/ works > 0
        \/ \E w \in Writer : At(w, "queue")
        \/ pc[Worker] # "wait"

\* The driver is a queue of work items: each is handled once, in the order of
\* the writes, and none is left behind.
Fifo == INSTANCE WorkFifo WITH Item <- Node, pending <- list, done <- printed
ImplementsFifo == Fifo!FairSpec
=============================================================================
