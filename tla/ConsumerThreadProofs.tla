------------------------ MODULE ConsumerThreadProofs ------------------------
(***************************************************************************)
(* Proofs about ConsumerThread, for every number of writers and of writes: *)
(* its type invariant, the safety invariants that MCConsumerThread checks  *)
(* on a small instance, and that both drivers implement a work queue.      *)
(***************************************************************************)
EXTENDS ConsumerThread, SequenceTheorems, TLAPS

\* The thread is on the queue from add_wait_queue to remove_wait_queue.
QueuedInv ==
    MyThread \in todo <=> pc[MyThread] \in {"test", "schedule", "remove_wait"}

\* The thread is awake from the return of schedule() to the end of the drain.
AwakeInv ==
    pc[MyThread] \in {"remove_wait", "drain", "drain_lock"} =>
        state[MyThread] = Running

\* The nodes of w on the list are of writes it has started, and the node that w
\* is about to append is not one of them.
FreshInv ==
    /\ \A w \in Writer : At(w, "append") => writes[w] > 0
    /\ \A i \in DOMAIN list, w \in Writer :
        list[i][1] = w =>
            list[i][2] <= writes[w] /\ (At(w, "append") => list[i][2] < writes[w])

DistinctInv == \A i, j \in DOMAIN list : list[i] = list[j] => i = j

\* The nodes that the "safe" drain has noted: inside the loop body the node it
\* visits is the first one and temp is what follows it; while the lock is
\* dropped temp is the first node that is left, unless it was the sentinel.
SafeInv ==
    drain = "safe" =>
        /\ At(MyThread, "drain") /\ entry # ListHead =>
            /\ list # <<>> /\ entry = list[1]
            /\ temp = IF Len(list) = 1 THEN ListHead ELSE list[2]
        /\ At(MyThread, "drain_lock") /\ temp # ListHead =>
            list # <<>> /\ temp = list[1]

IInv ==
    /\ TypeOK
    /\ LockDiscipline /\ QueuedInv /\ AwakeInv
    /\ FreshInv /\ DistinctInv /\ SafeInv
    /\ NoLostWakeup

-----------------------------------------------------------------------------

\* The next field of the sentinel, and of the first node of a list without
\* duplicates.
LEMMA NextOfFirst ==
    ASSUME list \in Seq(Node), DistinctInv
    PROVE  /\ NextOf(ListHead) = First
           /\ list # <<>> =>
                NextOf(list[1]) = IF Len(list) = 1 THEN ListHead ELSE list[2]
<1>1. NextOf(ListHead) = First
  BY DEF NextOf
<1>2. ASSUME list # <<>>
      PROVE  NextOf(list[1]) = IF Len(list) = 1 THEN ListHead ELSE list[2]
  <2>1. list[1] \in Node /\ 1 \in DOMAIN list
    BY <1>2
  <2>2. list[1] # ListHead
    BY <2>1, HeadAssumption
  <2>3. Position(list[1]) = 1
    BY <2>1 DEF DistinctInv, Position
  <2>4. NextOf(list[1]) = IF 1 = Len(list) THEN ListHead ELSE list[1 + 1]
    BY <2>2, <2>3 DEF NextOf
  <2> QED
    BY <2>4
<1> QED
  BY <1>1, <1>2

LEMMA SecondType ==
    ASSUME NEW S, NEW s \in Seq(S), s # <<>>, Len(s) # 1
    PROVE  s[2] \in S
<1>1. Len(s) \in Nat /\ Len(s) # 0
  BY EmptySeq
<1>2. \A n \in Nat : n # 0 /\ n # 1 => 2 \in 1..n
  OBVIOUS
<1>3. 2 \in 1..Len(s)
  BY <1>1, <1>2
<1> QED
  BY <1>3

LEMMA FirstType ==
    ASSUME list \in Seq(Node)
    PROVE  /\ First \in Node \cup {ListHead}
           /\ First = ListHead <=> list = <<>>
           /\ list # <<>> => First = list[1]
BY HeadAssumption DEF First

LEMMA InitIInv == Init => IInv
BY WriterAssumption, LockAssumption, BoundAssumption DEF Init, IInv, TypeOK,
   LockDiscipline, QueuedInv, AwakeInv, FreshInv, DistinctInv, SafeInv,
   NoLostWakeup, Asleep, At, Task, ThreadPc, WriterPc, TaskState, Running,
   Interruptible

-----------------------------------------------------------------------------
(* Each conjunct of the invariant, preserved by every step *)

LEMMA StepTypeOK ==
    ASSUME IInv, [Next]_vars
    PROVE  TypeOK'
<1> USE WriterAssumption, LockAssumption, BoundAssumption
    DEF Task, ThreadPc, WriterPc, TaskState, Running, Interruptible, At, Goto,
        SetCurrentState, drainVars
<1>1. TypeOK
  BY DEF IInv
<1>2. /\ First \in Node \cup {ListHead}
      /\ First = ListHead <=> list = <<>>
      /\ list # <<>> => First = list[1]
  BY <1>1, FirstType DEF TypeOK
<1>3. ASSUME list # <<>> PROVE Head(list) \in Node /\ Tail(list) \in Seq(Node)
  BY <1>1, <1>3 DEF TypeOK
<1>4. CASE SetState
  BY <1>1, <1>4 DEF TypeOK, SetState
<1>5. CASE AddWait
  BY <1>1, <1>5 DEF TypeOK, AddWait
<1>6. CASE FindEmpty
  BY <1>1, <1>6 DEF TypeOK, FindEmpty
<1>7. CASE FindWork
  BY <1>1, <1>7 DEF TypeOK, FindWork
<1>8. CASE Resume
  BY <1>1, <1>8 DEF TypeOK, Resume
<1>9. CASE RemoveWait
  <2>1. First = ListHead => NextOf(First) = ListHead
    BY <1>1, <1>2, NextOfFirst DEF TypeOK, IInv
  <2>2. First # ListHead => NextOf(First) \in Node \cup {ListHead}
    <3>1. CASE Len(list) = 1
      BY <3>1, <1>1, <1>2, NextOfFirst DEF TypeOK, IInv
    <3>2. CASE Len(list) # 1
      <4>1. list # <<>> => list[2] \in Node
        BY <3>2, <1>1, SecondType DEF TypeOK
      <4> QED
        BY <4>1, <3>2, <1>1, <1>2, NextOfFirst DEF TypeOK, IInv
    <3> QED
      BY <3>1, <3>2
  <2> QED
    BY <2>1, <2>2, <1>1, <1>2, <1>9 DEF TypeOK, RemoveWait
<1>10. CASE DrainOne
  <2>1. list # <<>> /\ Current \in Node
    BY <1>1, <1>2, <1>10 DEF TypeOK, DrainOne, Current, IInv, SafeInv
  <2> QED
    BY <2>1, <1>1, <1>3, <1>10 DEF TypeOK, DrainOne
<1>11. CASE DrainLock
  <2>1. drain = "safe" => NextOf(temp) \in Node \cup {ListHead}
    <3>1. CASE temp = ListHead
      BY <3>1, <1>1, <1>2, NextOfFirst DEF TypeOK, IInv
    <3>2. CASE temp # ListHead /\ drain = "safe"
      <4>1. list # <<>> /\ temp = list[1]
        BY <3>2, <1>11 DEF IInv, SafeInv, DrainLock
      <4>2. Len(list) # 1 => list[2] \in Node
        BY <4>1, <1>1, SecondType DEF TypeOK
      <4> QED
        BY <4>1, <4>2, <1>1, NextOfFirst DEF TypeOK, IInv
    <3> QED
      BY <3>1, <3>2
  <2> QED
    BY <2>1, <1>1, <1>11 DEF TypeOK, DrainLock
<1>12. CASE DrainDone
  BY <1>1, <1>12 DEF TypeOK, DrainDone
<1>13. ASSUME NEW w \in Writer, Write(w) PROVE TypeOK'
  BY <1>1, <1>13 DEF TypeOK, Write
<1>14. ASSUME NEW w \in Writer, AppendNode(w) PROVE TypeOK'
  <2>1. <<w, writes[w]>> \in Node
    BY <1>1, <1>14 DEF TypeOK, AppendNode, IInv, FreshInv, Node
  <2> QED
    BY <2>1, <1>1, <1>14 DEF TypeOK, AppendNode
<1>15. ASSUME NEW w \in Writer, WakeUp(w) PROVE TypeOK'
  <2>1. WakeUpAll(state, todo) \in [Task -> TaskState]
    BY <1>1 DEF TypeOK, WakeUpAll
  <2>2. state' \in [Task -> TaskState]
    BY <2>1, <1>15 DEF WakeUp
  <2>3. pc' \in [Task -> ThreadPc \cup WriterPc] /\ pc'[MyThread] \in ThreadPc
        /\ \A v \in Writer : pc'[v] \in WriterPc
    BY <1>1, <1>15 DEF TypeOK, WakeUp
  <2> QED
    BY <2>2, <2>3, <1>1, <1>15 DEF TypeOK, WakeUp
<1>16. ASSUME NEW w \in Writer, Timeout(w) PROVE TypeOK'
  BY <1>1, <1>16 DEF TypeOK, Timeout
<1>17. CASE UNCHANGED vars
  BY <1>1, <1>17 DEF TypeOK, vars
<1> QED
  BY <1>4, <1>5, <1>6, <1>7, <1>8, <1>9, <1>10, <1>11, <1>12, <1>13, <1>14,
     <1>15, <1>16, <1>17 DEF Next, Thread, WriteStep

\* The lock, the queue and the thread's state follow the thread's place in the
\* code; no writer holds the lock between two steps, or touches the queue.
LEMMA StepControl ==
    ASSUME IInv, [Next]_vars
    PROVE  (LockDiscipline /\ QueuedInv /\ AwakeInv)'
<1> USE WriterAssumption, LockAssumption
    DEF LockDiscipline, QueuedInv, AwakeInv, Task, At, Goto, SetCurrentState
<1>1. /\ TypeOK /\ LockDiscipline /\ QueuedInv /\ AwakeInv
      /\ MyThread \in Task /\ MyThread # Free
      /\ \A w \in Writer : w # MyThread
      /\ state \in [Task -> TaskState] /\ pc \in [Task -> ThreadPc \cup WriterPc]
  BY DEF IInv, TypeOK
<1>2. CASE Thread
  <2>1. CASE SetState \/ AddWait \/ FindEmpty \/ FindWork
    BY <1>1, <2>1 DEF SetState, AddWait, FindEmpty, FindWork
  <2>2. CASE Resume \/ RemoveWait
    BY <1>1, <2>2 DEF Resume, RemoveWait
  <2>3. CASE DrainOne \/ DrainLock \/ DrainDone
    BY <1>1, <2>3 DEF DrainOne, DrainLock, DrainDone
  <2> QED
    BY <1>2, <2>1, <2>2, <2>3 DEF Thread
<1>3. ASSUME NEW w \in Writer, Write(w) \/ WriteStep(w)
      PROVE  (LockDiscipline /\ QueuedInv /\ AwakeInv)'
  <2>1. lock' = lock /\ todo' = todo /\ pc'[MyThread] = pc[MyThread]
    BY <1>1, <1>3 DEF Write, WriteStep, AppendNode, WakeUp, Timeout
  <2>2. state[MyThread] = Running => state'[MyThread] = Running
    <3>1. CASE WakeUp(w)
      <4>1. MyThread \in DOMAIN WakeUpAll(state, todo)
            /\ (state[MyThread] = Running => WakeUpAll(state, todo)[MyThread] = Running)
        BY <1>1 DEF WakeUpAll
      <4> QED
        BY <1>1, <3>1, <4>1 DEF WakeUp
    <3>2. CASE Write(w) \/ AppendNode(w) \/ Timeout(w)
      BY <1>1, <3>2 DEF Write, AppendNode, Timeout
    <3> QED
      BY <1>3, <3>1, <3>2 DEF WriteStep
  <2> QED
    BY <1>1, <2>1, <2>2
<1>4. CASE UNCHANGED vars
  BY <1>1, <1>4 DEF vars
<1> QED
  BY <1>2, <1>3, <1>4 DEF Next

\* No node is on the list twice: an append adds one that is newer than every
\* node of its writer, and the drain only removes the first.
LEMMA StepNodes ==
    ASSUME IInv, [Next]_vars
    PROVE  (FreshInv /\ DistinctInv)'
<1> USE WriterAssumption, BoundAssumption DEF Task, At, Goto
<1>1. /\ TypeOK /\ FreshInv /\ DistinctInv
      /\ list \in Seq(Node) /\ writes \in [Writer -> 0..MaxWrites]
      /\ pc \in [Task -> ThreadPc \cup WriterPc]
  BY DEF IInv, TypeOK
<1>2. \A i \in DOMAIN list : list[i] \in Node /\ list[i][1] \in Writer
                              /\ list[i][2] \in 1..MaxWrites
  BY <1>1 DEF Node
<1>3. ASSUME UNCHANGED <<list, writes>>, \A w \in Writer : pc'[w] = pc[w]
      PROVE  (FreshInv /\ DistinctInv)'
  BY <1>1, <1>2, <1>3 DEF FreshInv, DistinctInv
<1>4. CASE Thread
  <2>1. CASE DrainOne
    <3>1. list # <<>>
      BY <1>1, <2>1, FirstType DEF DrainOne, Current, IInv, SafeInv
    <3>2. /\ list' \in Seq(Node)
          /\ \A i \in DOMAIN list' : i + 1 \in DOMAIN list /\ list'[i] = list[i + 1]
      BY <1>1, <3>1, <2>1 DEF DrainOne
    <3>3. writes' = writes /\ \A w \in Writer : pc'[w] = pc[w]
      BY <1>1, <2>1 DEF DrainOne
    <3>4. FreshInv'
      <4>1. \A w \in Writer : At(w, "append")' => writes'[w] > 0
        BY <1>1, <3>3 DEF FreshInv
      <4>2. ASSUME NEW i \in DOMAIN list', NEW w \in Writer, list'[i][1] = w
            PROVE  list'[i][2] <= writes'[w]
                   /\ (At(w, "append")' => list'[i][2] < writes'[w])
        <5>1. i + 1 \in DOMAIN list /\ list'[i] = list[i + 1]
          BY <3>2
        <5> QED
          BY <1>1, <3>3, <4>2, <5>1 DEF FreshInv
      <4> QED
        BY <4>1, <4>2 DEF FreshInv
    <3>5. DistinctInv'
      <4> SUFFICES ASSUME NEW i \in DOMAIN list', NEW j \in DOMAIN list',
                          list'[i] = list'[j]
                   PROVE  i = j
        BY DEF DistinctInv
      <4>1. i \in Nat /\ j \in Nat
        BY <3>2
      <4>2. i + 1 = j + 1
        BY <1>1, <3>2 DEF DistinctInv
      <4> QED
        BY <4>1, <4>2
    <3> QED
      BY <3>4, <3>5
  <2>2. CASE Thread /\ ~DrainOne
    <3>1. UNCHANGED <<list, writes>> /\ \A w \in Writer : pc'[w] = pc[w]
      BY <1>1, <2>2 DEF Thread, SetState, AddWait, FindEmpty, FindWork, Resume,
         RemoveWait, DrainLock, DrainDone
    <3> QED
      BY <3>1, <1>3
  <2> QED
    BY <1>4, <2>1, <2>2
<1>5. ASSUME NEW w \in Writer, Write(w) PROVE (FreshInv /\ DistinctInv)'
  <2>1. /\ list' = list /\ writes'[w] = writes[w] + 1 /\ writes[w] \in Nat
        /\ \A v \in Writer : v # w => writes'[v] = writes[v] /\ pc'[v] = pc[v]
    BY <1>1, <1>5 DEF Write
  <2>2. DistinctInv'
    BY <1>1, <2>1 DEF DistinctInv
  <2>3. \A v \in Writer : At(v, "append")' => writes'[v] > 0
    BY <1>1, <2>1 DEF FreshInv
  <2>4. ASSUME NEW i \in DOMAIN list, NEW v \in Writer, list[i][1] = v
        PROVE  list[i][2] <= writes'[v] /\ (At(v, "append")' => list[i][2] < writes'[v])
    <3>1. CASE v = w
      BY <1>1, <1>2, <2>1, <2>4, <3>1 DEF FreshInv
    <3>2. CASE v # w
      BY <1>1, <1>2, <2>1, <2>4, <3>2 DEF FreshInv
    <3> QED
      BY <3>1, <3>2
  <2> QED
    BY <2>1, <2>2, <2>3, <2>4 DEF FreshInv
<1>6. ASSUME NEW w \in Writer, AppendNode(w) PROVE (FreshInv /\ DistinctInv)'
  <2> DEFINE node == <<w, writes[w]>>
  <2>1. /\ writes' = writes /\ writes[w] \in 0..MaxWrites /\ node \in Node
        /\ ~At(w, "append")' /\ \A v \in Writer : v # w => pc'[v] = pc[v]
    BY <1>1, <1>6 DEF AppendNode, FreshInv, Node
  <2>2. \A i \in DOMAIN list : list[i] # node
    BY <1>1, <1>2, <1>6, <2>1 DEF FreshInv, AppendNode
  <2>3. \A i \in DOMAIN list' :
            \/ i \in DOMAIN list /\ list'[i] = list[i]
            \/ i = Len(list) + 1 /\ list'[i] = node
    <3>1. list' = Append(list, node) /\ Len(list) \in Nat
      BY <1>1, <1>6 DEF AppendNode
    <3> QED
      BY <1>1, <2>1, <3>1, AppendProperties
  <2>4. DistinctInv'
    BY <1>1, <2>2, <2>3 DEF DistinctInv
  <2>5. FreshInv'
    <3>1. \A v \in Writer : At(v, "append")' => writes'[v] > 0
      BY <1>1, <2>1 DEF FreshInv
    <3>2. ASSUME NEW i \in DOMAIN list', NEW v \in Writer, list'[i][1] = v
          PROVE  list'[i][2] <= writes'[v]
                 /\ (At(v, "append")' => list'[i][2] < writes'[v])
      <4>1. CASE i \in DOMAIN list /\ list'[i] = list[i]
        BY <1>1, <1>2, <2>1, <3>2, <4>1 DEF FreshInv
      <4>2. CASE list'[i] = node
        BY <2>1, <3>2, <4>2
      <4> QED
        BY <2>3, <4>1, <4>2
    <3> QED
      BY <3>1, <3>2 DEF FreshInv
  <2> QED
    BY <2>4, <2>5
<1>7. ASSUME NEW w \in Writer, WakeUp(w) \/ Timeout(w)
      PROVE  (FreshInv /\ DistinctInv)'
  <2>1. /\ UNCHANGED <<list, writes>> /\ ~At(w, "append")'
        /\ \A v \in Writer : v # w => pc'[v] = pc[v]
    BY <1>1, <1>7 DEF WakeUp, Timeout
  <2> QED
    BY <1>1, <1>2, <2>1 DEF FreshInv, DistinctInv
<1>8. CASE UNCHANGED vars
  BY <1>3, <1>8 DEF vars
<1> QED
  BY <1>4, <1>5, <1>6, <1>7, <1>8 DEF Next, WriteStep

\* The nodes noted by the "safe" drain stay the first ones of the list: nobody
\* else unlinks nodes, and an append goes to the other end.
LEMMA StepSafe ==
    ASSUME IInv, [Next]_vars
    PROVE  SafeInv'
<1> USE WriterAssumption DEF Task, At, Goto, drainVars
<1>1. /\ TypeOK /\ SafeInv /\ DistinctInv /\ LockDiscipline
      /\ list \in Seq(Node) /\ pc \in [Task -> ThreadPc \cup WriterPc]
      /\ MyThread \in Task
  BY DEF IInv, TypeOK
<1>2. ASSUME UNCHANGED <<drain, list, entry, temp>>, pc'[MyThread] = pc[MyThread]
      PROVE  SafeInv'
  BY <1>1, <1>2 DEF SafeInv
<1>3. CASE Thread
  <2>1. CASE RemoveWait
    BY <1>1, <2>1, FirstType, NextOfFirst DEF RemoveWait, SafeInv
  <2>2. CASE DrainOne
    <3> SUFFICES ASSUME drain = "safe", temp # ListHead
                 PROVE  list' # <<>> /\ temp = list'[1]
      BY <1>1, <2>2 DEF DrainOne, SafeInv
    <3>1. list # <<>> /\ temp = list[2] /\ Len(list) # 1
      BY <2>2 DEF DrainOne, Current, SafeInv, IInv
    <3>2. Len(list) \in Nat /\ Len(list) # 0
      BY <1>1, <3>1, EmptySeq
    <3>3. \A n \in Nat : n # 0 /\ n # 1 => 1 \in 1..(n - 1)
      OBVIOUS
    <3>4. Len(list') = Len(list) - 1 /\ \A i \in 1..Len(list') : list'[i] = list[i + 1]
      BY <1>1, <3>1, <2>2, HeadTailProperties DEF DrainOne
    <3>5. 1 \in 1..Len(list')
      BY <3>1, <3>2, <3>3, <3>4
    <3> QED
      BY <3>1, <3>4, <3>5
  <2>3. CASE DrainLock
    BY <1>1, <2>3, NextOfFirst DEF DrainLock, SafeInv
  <2>4. CASE SetState \/ AddWait \/ FindEmpty \/ FindWork \/ Resume \/ DrainDone
    BY <1>1, <2>4 DEF SetState, AddWait, FindEmpty, FindWork, Resume, DrainDone,
       SafeInv
  <2> QED
    BY <1>3, <2>1, <2>2, <2>3, <2>4 DEF Thread
<1>4. ASSUME NEW w \in Writer, AppendNode(w) PROVE SafeInv'
  <2>1. /\ ~At(MyThread, "drain")' /\ pc'[MyThread] = pc[MyThread]
        /\ drain' = drain /\ temp' = temp
    BY <1>1, <1>4, LockAssumption DEF AppendNode, LockDiscipline
  <2>2. list # <<>> => list' # <<>> /\ list'[1] = list[1]
    BY <1>1, <1>4 DEF AppendNode
  <2> QED
    BY <1>1, <2>1, <2>2 DEF SafeInv
<1>5. ASSUME NEW w \in Writer, Write(w) \/ WakeUp(w) \/ Timeout(w)
      PROVE  SafeInv'
  <2>1. UNCHANGED <<drain, list, entry, temp>> /\ pc'[MyThread] = pc[MyThread]
    BY <1>1, <1>5 DEF Write, WakeUp, Timeout
  <2> QED
    BY <2>1, <1>2
<1>6. CASE UNCHANGED vars
  BY <1>2, <1>6 DEF vars
<1> QED
  BY <1>3, <1>4, <1>5, <1>6 DEF Next, WriteStep

\* The thread goes to sleep with an empty list, on the queue; a writer that
\* makes the list non-empty is about to wake it, and does.
LEMMA StepNoLostWakeup ==
    ASSUME IInv, [Next]_vars
    PROVE  NoLostWakeup'
<1> USE WriterAssumption DEF Task, At, Goto, SetCurrentState, Asleep
<1>1. /\ TypeOK /\ NoLostWakeup /\ QueuedInv
      /\ pc \in [Task -> ThreadPc \cup WriterPc] /\ state \in [Task -> TaskState]
      /\ MyThread \in Task /\ todo \subseteq {MyThread}
      /\ \A w \in Writer : w # MyThread
      /\ Running # Interruptible
  BY DEF IInv, TypeOK, Running, Interruptible
<1> SUFFICES ASSUME Asleep', list' # <<>>
             PROVE  (MyThread \in todo /\ \E w \in Writer : At(w, "wake"))'
  BY DEF NoLostWakeup
<1>2. CASE Thread
  <2>1. FindEmpty
    BY <1>1, <1>2 DEF Thread, SetState, AddWait, FindWork, Resume, RemoveWait,
       DrainOne, DrainLock, DrainDone
  <2> QED
    BY <1>1, <2>1 DEF FindEmpty
<1>3. ASSUME NEW w \in Writer, AppendNode(w)
      PROVE  (MyThread \in todo /\ \E v \in Writer : At(v, "wake"))'
  <2>1. At(w, "wake")'
    BY <1>1, <1>3 DEF AppendNode
  <2>2. MyThread \in todo'
    BY <1>1, <1>3 DEF AppendNode, QueuedInv
  <2> QED
    BY <2>1, <2>2
<1>4. ASSUME NEW w \in Writer, WakeUp(w) PROVE FALSE
  <2>1. MyThread \in todo
    BY <1>1, <1>4 DEF WakeUp, QueuedInv
  <2>2. /\ MyThread \in DOMAIN WakeUpAll(state, todo)
        /\ WakeUpAll(state, todo)[MyThread] = Running
    BY <1>1, <2>1 DEF WakeUpAll
  <2>3. state'[MyThread] = Running
    BY <1>1, <1>4, <2>2 DEF WakeUp
  <2> QED
    BY <1>1, <2>3
<1>5. ASSUME NEW w \in Writer, Write(w) \/ Timeout(w)
      PROVE  (MyThread \in todo /\ \E v \in Writer : At(v, "wake"))'
  <2>1. /\ UNCHANGED <<list, todo>> /\ Asleep /\ ~At(w, "wake")
        /\ \A v \in Writer : v # w => pc'[v] = pc[v]
    BY <1>1, <1>5 DEF Write, Timeout
  <2> QED
    BY <1>1, <2>1 DEF NoLostWakeup
<1>6. CASE UNCHANGED vars
  BY <1>1, <1>6 DEF vars, NoLostWakeup
<1> QED
  BY <1>2, <1>3, <1>4, <1>5, <1>6 DEF Next, WriteStep

-----------------------------------------------------------------------------
(* The theorems *)

\* The invariant is inductive.
THEOREM Invariance == Spec => []IInv
<1>1. Init => IInv
  BY InitIInv
<1>2. IInv /\ [Next]_vars => IInv'
  BY StepTypeOK, StepControl, StepNodes, StepSafe, StepNoLostWakeup DEF IInv
<1> QED
  BY <1>1, <1>2, PTL DEF Spec

\* Every variable has its type, for any number of writers and writes.
THEOREM TypeCorrect == Spec => []TypeOK
<1>1. IInv => TypeOK
  BY DEF IInv
<1> QED
  BY <1>1, Invariance, PTL

\* The thread never sleeps on a list that holds work unless a wake-up is on its
\* way to it.
THEOREM WakeupsAreNotLost == Spec => []NoLostWakeup
<1>1. IInv => NoLostWakeup
  BY DEF IInv
<1> QED
  BY <1>1, Invariance, PTL

\* The spinlock is held exactly while nodes are unlinked, never across
\* schedule().
THEOREM LockIsHeldToUnlink == Spec => []LockDiscipline
<1>1. IInv => LockDiscipline
  BY DEF IInv
<1> QED
  BY <1>1, Invariance, PTL

\* The thread drains awake and off the queue.
THEOREM DrainIsAwake == Spec => []DrainsAwake
<1>1. IInv => DrainsAwake
  BY DEF IInv, QueuedInv, AwakeInv, DrainsAwake
<1> QED
  BY <1>1, Invariance, PTL

\* The node that is freed is the node that is unlinked.
THEOREM FreesWhatItUnlinks == Spec => []UnlinksWhatItFrees
<1>1. IInv => UnlinksWhatItFrees
  BY FirstType DEF IInv, TypeOK, SafeInv, UnlinksWhatItFrees, Current
<1> QED
  BY <1>1, Invariance, PTL

\* Both drivers implement the work queue: what is handled is what was accepted,
\* once and in order.  (That nothing is left behind is checked by TLC.)
THEOREM Refinement == Spec => Fifo!Spec
<1>1. Init => Fifo!Init
  BY DEF Init, Fifo!Init
<1>2. IInv /\ [Next]_vars => [Fifo!Next]_(Fifo!fifoVars)
  <2> SUFFICES ASSUME IInv, [Next]_vars
               PROVE  Fifo!Next \/ UNCHANGED <<list, printed>>
    BY DEF Fifo!fifoVars
  <2>1. CASE DrainOne
    <3>1. list # <<>> /\ Current = Head(list)
      BY <2>1, FirstType DEF DrainOne, Current, IInv, TypeOK, SafeInv
    <3> QED
      BY <2>1, <3>1 DEF DrainOne, Fifo!Next, Fifo!Handle
  <2>2. ASSUME NEW w \in Writer, AppendNode(w) PROVE Fifo!Next
    <3>1. <<w, writes[w]>> \in Node
      BY <2>2, BoundAssumption DEF AppendNode, IInv, TypeOK, FreshInv, Node
    <3> QED
      BY <2>2, <3>1 DEF AppendNode, Fifo!Next, Fifo!Accept
  <2>3. CASE Thread /\ ~DrainOne
    BY <2>3 DEF Thread, SetState, AddWait, FindEmpty, FindWork, Resume,
       RemoveWait, DrainLock, DrainDone
  <2>4. ASSUME NEW w \in Writer, Write(w) \/ WakeUp(w) \/ Timeout(w)
        PROVE  UNCHANGED <<list, printed>>
    BY <2>4 DEF Write, WakeUp, Timeout
  <2>5. CASE UNCHANGED vars
    BY <2>5 DEF vars
  <2> QED
    BY <2>1, <2>2, <2>3, <2>4, <2>5 DEF Next, WriteStep
<1> QED
  BY <1>1, <1>2, Invariance, PTL DEF Spec, Fifo!Spec
=============================================================================
