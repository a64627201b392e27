------------------------- MODULE WriterQueueProofs -------------------------
(***************************************************************************)
(* Proofs about WriterQueue, for every number of readers, writers and      *)
(* writes: its type invariant, that no writer's wake-up is lost, and that  *)
(* readers are given the nodes as a queue gives its items.                 *)
(***************************************************************************)
EXTENDS WriterQueue, TLAPS

\* A writer has its entry on todo from add_wait_queue to remove_wait_queue.
QueuedInv ==
    \A w \in Writer :
        w \in todo <=> pc[w] \in {"set_state", "test", "schedule", "remove_wait"}

\* A reader that copies a node to the user holds the lock, so the node is still
\* the first of the list when it is unlinked.
TakeInv == \A r \in Reader : At(r, "take") => lock = r /\ list # <<>>

\* A writer that is about to append has started a write.
StartedInv == \A w \in Writer : ~At(w, "idle") /\ ~At(w, "off_cpu") => writes[w] > 0

IInv == TypeOK /\ QueuedInv /\ TakeInv /\ StartedInv /\ NoLostWakeup

-----------------------------------------------------------------------------

LEMMA InitIInv == Init => IInv
BY TaskAssumption, BoundAssumption DEF Init, IInv, TypeOK, QueuedInv, TakeInv,
   StartedInv, NoLostWakeup, At, Task, ReaderPc, WriterPc, TaskState, Running,
   Interruptible

\* What WakeUp does to the state of each task.
LEMMA WakeUpAllState ==
    ASSUME state \in [Task -> TaskState]
    PROVE  /\ WakeUpAll(state, todo) \in [Task -> TaskState]
           /\ \A t \in Task :
                WakeUpAll(state, todo)[t] = IF t \in todo THEN Running ELSE state[t]
BY DEF WakeUpAll, TaskState

LEMMA StepTypeOK ==
    ASSUME IInv, [Next]_vars
    PROVE  TypeOK'
<1> USE TaskAssumption, BoundAssumption
    DEF Task, ReaderPc, WriterPc, TaskState, At, Goto, SetCurrentState
<1>1. TypeOK /\ StartedInv /\ TakeInv
  BY DEF IInv
<1>2. ASSUME NEW r \in Reader, Read(r) \/ FindEmpty(r) \/ FindNode(r) \/ TakeFault(r)
      PROVE  TypeOK'
  BY <1>1, <1>2 DEF TypeOK, Read, FindEmpty, FindNode, TakeFault
<1>3. ASSUME NEW r \in Reader, Take(r) PROVE TypeOK'
  <2>1. list # <<>>
    BY <1>1, <1>3 DEF TakeInv, Take
  <2>2. Head(list) \in Node /\ Tail(list) \in Seq(Node)
    BY <1>1, <2>1 DEF TypeOK
  <2> QED
    BY <1>1, <1>3, <2>2 DEF TypeOK, Take
<1>4. ASSUME NEW r \in Reader, WakeUp(r) PROVE TypeOK'
  <2>1. state' \in [Task -> TaskState]
    BY <1>1, <1>4, WakeUpAllState DEF TypeOK, WakeUp
  <2> QED
    BY <1>1, <1>4, <2>1 DEF TypeOK, WakeUp
<1>5. ASSUME NEW w \in Writer, Write(w) PROVE TypeOK'
  BY <1>1, <1>5 DEF TypeOK, Write
<1>6. ASSUME NEW w \in Writer, SetState(w) \/ TestList(w) \/ Resume(w) PROVE TypeOK'
  BY <1>1, <1>6 DEF TypeOK, SetState, TestList, Resume
<1>7. ASSUME NEW w \in Writer, RemoveWait(w) \/ CopyFromUser(w) PROVE TypeOK'
  BY <1>1, <1>7 DEF TypeOK, RemoveWait, CopyFromUser
<1>8. ASSUME NEW w \in Writer, AppendNode(w) PROVE TypeOK'
  <2>1. writes[w] > 0 /\ writes[w] \in 0..MaxWrites
    BY <1>1, <1>8 DEF TypeOK, AppendNode, StartedInv
  <2>2. <<w, writes[w]>> \in Node
    BY <2>1 DEF Node
  <2> QED
    BY <1>1, <1>8, <2>2 DEF TypeOK, AppendNode
<1>9. ASSUME NEW w \in Writer, Deschedule(w) \/ GetBack(w) \/ Signal(w) PROVE TypeOK'
  BY <1>1, <1>9 DEF TypeOK, Deschedule, GetBack, Signal
<1>10. CASE UNCHANGED vars
  BY <1>1, <1>10 DEF TypeOK, vars
<1> QED
  BY <1>2, <1>3, <1>4, <1>5, <1>6, <1>7, <1>8, <1>9, <1>10 DEF Next, ReadStep, WriteStep

\* The queue follows each writer's place in my_write, and a writer is inside a
\* call only when it has started one.
LEMMA StepControl ==
    ASSUME IInv, [Next]_vars
    PROVE  (QueuedInv /\ StartedInv)'
<1> USE TaskAssumption, BoundAssumption DEF Task, At, Goto, QueuedInv, StartedInv
<1>1. /\ QueuedInv /\ StartedInv
      /\ todo \subseteq Writer
      /\ pc \in [Task -> ReaderPc \cup WriterPc]
      /\ writes \in [Writer -> 0..MaxWrites]
  BY DEF IInv, TypeOK
<1>2. ASSUME NEW r \in Reader, Read(r) \/ ReadStep(r) PROVE (QueuedInv /\ StartedInv)'
  BY <1>1, <1>2 DEF Read, ReadStep, FindEmpty, FindNode, Take, TakeFault, WakeUp
<1>3. ASSUME NEW w \in Writer, Write(w) PROVE (QueuedInv /\ StartedInv)'
  BY <1>1, <1>3 DEF Write
<1>4. ASSUME NEW w \in Writer, WriteStep(w) PROVE (QueuedInv /\ StartedInv)'
  BY <1>1, <1>4 DEF WriteStep, SetState, TestList, Resume, RemoveWait, CopyFromUser,
     AppendNode
<1>5. ASSUME NEW w \in Writer, Deschedule(w) \/ GetBack(w) \/ Signal(w)
      PROVE  (QueuedInv /\ StartedInv)'
  BY <1>1, <1>5 DEF Deschedule, GetBack, Signal
<1>6. CASE UNCHANGED vars
  BY <1>1, <1>6 DEF vars
<1> QED
  BY <1>2, <1>3, <1>4, <1>5, <1>6 DEF Next

\* The lock keeps a node where a reader found it: appends need the lock, and
\* so does the reader that would take it.
LEMMA StepTake ==
    ASSUME IInv, [Next]_vars
    PROVE  TakeInv'
<1> USE TaskAssumption DEF Task, At, Goto, TakeInv
<1>1. /\ TakeInv /\ list \in Seq(Node)
      /\ pc \in [Task -> ReaderPc \cup WriterPc]
      /\ \A r \in Reader : r # Free
      /\ \A r \in Reader, w \in Writer : r # w
  BY DEF IInv, TypeOK
<1>2. ASSUME NEW r \in Reader, Read(r) \/ ReadStep(r) PROVE TakeInv'
  BY <1>1, <1>2 DEF Read, ReadStep, FindEmpty, FindNode, Take, TakeFault, WakeUp
<1>3. ASSUME NEW w \in Writer, AppendNode(w) PROVE TakeInv'
  <2>1. \A r \in Reader : ~At(r, "take")
    BY <1>1, <1>3 DEF AppendNode
  <2> QED
    BY <1>1, <1>3, <2>1 DEF AppendNode
<1>4. ASSUME NEW w \in Writer,
             \/ Write(w) \/ SetState(w) \/ TestList(w) \/ Resume(w) \/ RemoveWait(w)
             \/ CopyFromUser(w) \/ Deschedule(w) \/ GetBack(w) \/ Signal(w)
      PROVE  TakeInv'
  <2>1. /\ UNCHANGED <<list, lock>>
        /\ \A r \in Reader : pc'[r] = pc[r]
    BY <1>1, <1>4 DEF Write, SetState, TestList, Resume, RemoveWait, CopyFromUser,
       Deschedule, GetBack, Signal
  <2> QED
    BY <1>1, <2>1
<1>5. CASE UNCHANGED vars
  BY <1>1, <1>5 DEF vars
<1> QED
  BY <1>2, <1>3, <1>4, <1>5 DEF Next, WriteStep

\* A writer goes to sleep with a node on the list; the reader that takes the
\* last one is then about to wake the queue, where the writer still is.
LEMMA StepNoLostWakeup ==
    ASSUME IInv, [Next]_vars
    PROVE  NoLostWakeup'
<1> USE TaskAssumption DEF Task, At, Goto, SetCurrentState
<1>1. /\ NoLostWakeup /\ QueuedInv /\ list \in Seq(Node)
      /\ pc \in [Task -> ReaderPc \cup WriterPc]
      /\ state \in [Task -> TaskState]
      /\ \A r \in Reader, w \in Writer : r # w
      /\ Running # Interruptible
  BY DEF IInv, TypeOK, Running, Interruptible
<1> SUFFICES ASSUME NEW v \in Writer, At(v, "schedule")',
                    state'[v] = Interruptible, list' = <<>>
             PROVE  v \in todo' /\ \E r \in Reader : At(r, "wake")'
  BY DEF NoLostWakeup
<1>2. ASSUME NEW r \in Reader, Take(r)
      PROVE  v \in todo' /\ At(r, "wake")'
  BY <1>1, <1>2 DEF Take, QueuedInv
<1>3. ASSUME NEW r \in Reader, WakeUp(r) PROVE FALSE
  <2>1. v \in todo
    BY <1>1, <1>3 DEF WakeUp, QueuedInv
  <2>2. state'[v] = Running
    BY <1>1, <1>3, <2>1, WakeUpAllState DEF WakeUp
  <2> QED
    BY <1>1, <2>2
<1>4. ASSUME NEW r \in Reader, Read(r) \/ FindEmpty(r) \/ FindNode(r) \/ TakeFault(r)
      PROVE  v \in todo' /\ \E q \in Reader : At(q, "wake")'
  <2>1. /\ UNCHANGED <<list, todo, state>> /\ pc'[v] = pc[v]
        /\ \A q \in Reader : At(q, "wake") => At(q, "wake")'
    BY <1>1, <1>4 DEF Read, FindEmpty, FindNode, TakeFault
  <2> QED
    BY <1>1, <2>1 DEF NoLostWakeup
<1>5. ASSUME NEW w \in Writer, TestList(w)
      PROVE  v \in todo' /\ \E r \in Reader : At(r, "wake")'
  <2>1. v # w
    BY <1>1, <1>5 DEF TestList
  <2>2. /\ UNCHANGED <<list, todo>> /\ pc'[v] = pc[v] /\ state'[v] = state[v]
        /\ \A r \in Reader : pc'[r] = pc[r]
    BY <1>1, <1>5, <2>1 DEF TestList
  <2> QED
    BY <1>1, <2>2 DEF NoLostWakeup
<1>6. ASSUME NEW w \in Writer, AppendNode(w) PROVE FALSE
  BY <1>1, <1>6 DEF AppendNode
<1>7. ASSUME NEW w \in Writer,
             \/ Write(w) \/ SetState(w) \/ Resume(w) \/ RemoveWait(w)
             \/ CopyFromUser(w) \/ Deschedule(w) \/ GetBack(w) \/ Signal(w)
      PROVE  v \in todo' /\ \E r \in Reader : At(r, "wake")'
  <2>1. /\ list' = list /\ At(v, "schedule") /\ state[v] = Interruptible
        /\ v \in todo => v \in todo'
        /\ \A r \in Reader : pc'[r] = pc[r]
    BY <1>1, <1>7 DEF Write, SetState, Resume, RemoveWait, CopyFromUser, Deschedule,
       GetBack, Signal
  <2> QED
    BY <1>1, <2>1 DEF NoLostWakeup
<1>8. CASE UNCHANGED vars
  BY <1>1, <1>8 DEF vars, NoLostWakeup
<1> QED
  BY <1>2, <1>3, <1>4, <1>5, <1>6, <1>7, <1>8 DEF Next, ReadStep, WriteStep

-----------------------------------------------------------------------------
(* The theorems *)

\* The inductive invariant holds in every reachable state of my_read and
\* my_write.
THEOREM Invariance == Spec => []IInv
<1>1. Init => IInv
  BY InitIInv
<1>2. IInv /\ [Next]_vars => IInv'
  BY StepTypeOK, StepControl, StepTake, StepNoLostWakeup DEF IInv
<1> QED
  BY <1>1, <1>2, PTL DEF Spec

\* Every variable of the driver keeps its type: in particular, my_read unlinks
\* a node only of a list that has one.
THEOREM TypeCorrect == Spec => []TypeOK
<1>1. IInv => TypeOK
  BY DEF IInv
<1> QED
  BY <1>1, Invariance, PTL

\* No writer is left asleep in my_write with the list empty, unless a reader is
\* about to wake it; also when a fault has leaked the lock.
THEOREM WakeupsAreNotLost == Spec => []NoLostWakeup
<1>1. IInv => NoLostWakeup
  BY DEF IInv
<1> QED
  BY <1>1, Invariance, PTL

\* Readers are given each node at most once and in the order of the appends.
THEOREM Delivery == Spec => DeliversInOrder
<1>1. Init => Fifo!Init
  BY DEF Init, Fifo!Init
<1>2. ASSUME IInv, [Next]_vars
      PROVE  [Fifo!Next]_(Fifo!fifoVars)
  <2> USE DEF Fifo!fifoVars, Fifo!Next
  <2>1. ASSUME NEW r \in Reader, Take(r) PROVE Fifo!Handle
    <3>1. list # <<>>
      BY <1>2, <2>1 DEF IInv, TakeInv, Take
    <3> QED
      BY <2>1, <3>1 DEF Take, Fifo!Handle
  <2>2. ASSUME NEW r \in Reader,
               Read(r) \/ FindEmpty(r) \/ FindNode(r) \/ TakeFault(r) \/ WakeUp(r)
        PROVE  UNCHANGED Fifo!fifoVars
    BY <2>2 DEF Read, FindEmpty, FindNode, TakeFault, WakeUp
  <2>3. ASSUME NEW w \in Writer, AppendNode(w)
        PROVE  \E item \in Node : Fifo!Accept(item)
    <3>1. <<w, writes[w]>> \in Node
      BY <1>2, <2>3, BoundAssumption DEF IInv, TypeOK, StartedInv, AppendNode, Node, At
    <3> QED
      BY <2>3, <3>1 DEF AppendNode, Fifo!Accept
  <2>4. ASSUME NEW w \in Writer,
               \/ Write(w) \/ SetState(w) \/ TestList(w) \/ Resume(w) \/ RemoveWait(w)
               \/ CopyFromUser(w) \/ Deschedule(w) \/ GetBack(w) \/ Signal(w)
        PROVE  UNCHANGED Fifo!fifoVars
    BY <2>4 DEF Write, SetState, TestList, Resume, RemoveWait, CopyFromUser,
       Deschedule, GetBack, Signal
  <2>5. CASE UNCHANGED vars
    BY <2>5 DEF vars
  <2> QED
    BY <1>2, <2>1, <2>2, <2>3, <2>4, <2>5 DEF Next, ReadStep, WriteStep
<1> QED
  BY <1>1, <1>2, Invariance, PTL DEF Spec, DeliversInOrder, Fifo!Spec
=============================================================================
