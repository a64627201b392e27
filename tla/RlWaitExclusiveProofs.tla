----------------------- MODULE RlWaitExclusiveProofs -----------------------
(***************************************************************************)
(* Proofs about RlWaitExclusive, for every number of readers and writers:  *)
(* its type invariant, with each reader on the queue once, and that a      *)
(* reader that is woken finds the flag set.                                *)
(***************************************************************************)
EXTENDS RlWaitExclusive, SequenceTheorems, TLAPS

\* A writer that is about to wake the queue has set the flag.
FlagInv == \A w \in Writer : At(w, "wake") => r_flag = TRUE

\* The readers on the queue are those inside rlwait_read.
QueuedInv == \A r \in Reader : At(r, "idle") <=> \A i \in DOMAIN r_wait_head : r_wait_head[i] # r

IInv == TypeOK /\ FlagInv /\ QueuedInv /\ WokenReaderReturns

-----------------------------------------------------------------------------
(* The queue *)

\* add_wait_queue_exclusive of a reader that is not on the queue.
LEMMA AppendOnce ==
    ASSUME NEW S, NEW q \in Seq(S), IsInjective(q), NEW e \in S,
           \A i \in DOMAIN q : q[i] # e
    PROVE  /\ Append(q, e) \in Seq(S) /\ IsInjective(Append(q, e))
           /\ \A s \in S : (\E i \in DOMAIN Append(q, e) : Append(q, e)[i] = s)
                             <=> s = e \/ \E i \in DOMAIN q : q[i] = s
<1>1. /\ Append(q, e) \in Seq(S) /\ Len(Append(q, e)) = Len(q) + 1 /\ Len(q) \in Nat
      /\ DOMAIN q = 1..Len(q) /\ DOMAIN Append(q, e) = 1..(Len(q) + 1)
      /\ \A i \in 1..Len(q) : Append(q, e)[i] = q[i]
      /\ Append(q, e)[Len(q) + 1] = e
  OBVIOUS
<1>2. IsInjective(Append(q, e))
  BY <1>1 DEF IsInjective
<1>3. \A i \in 1..(Len(q) + 1) : i \in 1..Len(q) \/ i = Len(q) + 1
  BY <1>1
<1> QED
  BY <1>1, <1>2, <1>3

\* remove_wait_queue of a reader that is on it.
LEMMA RemoveOnce ==
    ASSUME NEW S, NEW q \in Seq(S), IsInjective(q), NEW k \in DOMAIN q
    PROVE  /\ RemoveFirst(q, q[k]) \in Seq(S) /\ IsInjective(RemoveFirst(q, q[k]))
           /\ \A s \in S : (\E i \in DOMAIN RemoveFirst(q, q[k]) : RemoveFirst(q, q[k])[i] = s)
                             <=> s # q[k] /\ \E i \in DOMAIN q : q[i] = s
<1> DEFINE n == Len(q)
           p == SubSeq(q, 1, k - 1)
           s == SubSeq(q, k + 1, n)
           f == p \o s
<1>1. n \in Nat /\ k \in 1..n /\ DOMAIN q = 1..n /\ \A i \in 1..n : q[i] \in S
  OBVIOUS
<1>2. RemoveFirst(q, q[k]) = f
  <2>1. {i \in 1..n : q[i] = q[k]} = {k}
    BY <1>1 DEF IsInjective
  <2>2. Min({k}) = k
    BY DEF Min
  <2>3. SelectInSeq(q, LAMBDA v : v = q[k]) = k
    BY <2>1, <2>2 DEF SelectInSeq
  <2> QED
    BY <1>1, <2>3 DEF RemoveFirst, RemoveAt
<1>3. /\ p \in Seq(S) /\ Len(p) = k - 1
      /\ \A i \in 1..(k - 1) : p[i] = q[i]
  <2>1. /\ p \in Seq(S) /\ Len(p) = IF 1 <= k - 1 THEN (k - 1) - 1 + 1 ELSE 0
        /\ \A i \in 1..((k - 1) - 1 + 1) : p[i] = q[1 + i - 1]
    BY <1>1, SubSeqProperties
  <2> HIDE DEF p
  <2> QED
    BY <1>1, <2>1
<1>4. /\ s \in Seq(S) /\ Len(s) = n - k
      /\ \A i \in 1..(n - k) : s[i] = q[k + i]
  <2>1. /\ s \in Seq(S) /\ Len(s) = IF k + 1 <= n THEN n - (k + 1) + 1 ELSE 0
        /\ \A i \in 1..(n - (k + 1) + 1) : s[i] = q[(k + 1) + i - 1]
    BY <1>1, SubSeqProperties
  <2> HIDE DEF s
  <2>2. \A i \in 1..(n - k) : i \in 1..(n - (k + 1) + 1) /\ (k + 1) + i - 1 = k + i
    BY <1>1
  <2> QED
    BY <1>1, <2>1, <2>2
<1> HIDE DEF p, s
<1>5. /\ f \in Seq(S) /\ Len(f) = n - 1 /\ DOMAIN f = 1..(n - 1)
      /\ \A i \in 1..(n - 1) : f[i] = IF i < k THEN q[i] ELSE q[i + 1]
  <2>1. /\ f \in Seq(S) /\ Len(f) = Len(p) + Len(s)
        /\ \A i \in 1..(Len(p) + Len(s)) : f[i] = IF i <= Len(p) THEN p[i] ELSE s[i - Len(p)]
    BY <1>3, <1>4, ConcatProperties
  <2> HIDE DEF f
  <2>2. ASSUME NEW i \in 1..(n - 1) PROVE f[i] = IF i < k THEN q[i] ELSE q[i + 1]
    <3>1. CASE i < k
      BY <1>1, <1>3, <2>1, <1>4, <3>1
    <3>2. CASE ~(i < k)
      <4>1. i - (k - 1) \in 1..(n - k) /\ k + (i - (k - 1)) = i + 1
        BY <1>1, <3>2
      <4>2. s[i - (k - 1)] = q[i + 1]
        BY <1>4, <4>1
      <4>3. i \in 1..(Len(p) + Len(s)) /\ ~(i <= Len(p))
        BY <1>1, <1>3, <1>4, <3>2
      <4> QED
        BY <1>3, <2>1, <3>2, <4>2, <4>3
    <3> QED
      BY <3>1, <3>2
  <2> QED
    BY <1>1, <1>3, <1>4, <2>1, <2>2
<1> HIDE DEF f
<1>6. IsInjective(f)
  <2> DEFINE from(i) == IF i < k THEN i ELSE i + 1
  <2>1. ASSUME NEW i \in 1..(n - 1) PROVE from(i) \in 1..n /\ f[i] = q[from(i)]
    BY <1>1, <1>5, <2>1
  <2>2. ASSUME NEW i \in 1..(n - 1), NEW j \in 1..(n - 1), from(i) = from(j) PROVE i = j
    BY <1>1, <2>2
  <2>3. ASSUME NEW i \in 1..n, NEW j \in 1..n, q[i] = q[j] PROVE i = j
    BY <1>1, <2>3 DEF IsInjective
  <2> HIDE DEF from
  <2>4. ASSUME NEW i \in 1..(n - 1), NEW j \in 1..(n - 1), f[i] = f[j] PROVE i = j
    BY <2>1, <2>2, <2>3, <2>4
  <2>5. DOMAIN f = 1..(n - 1)
    BY <1>5
  <2> QED
    BY <2>4, <2>5 DEF IsInjective
<1>7. ASSUME NEW e \in S
      PROVE  (\E i \in 1..(n - 1) : f[i] = e) <=> e # q[k] /\ \E i \in 1..n : q[i] = e
  <2>1. ASSUME NEW i \in 1..(n - 1), f[i] = e PROVE e # q[k] /\ \E j \in 1..n : q[j] = e
    <3>1. CASE i < k
      <4>1. i \in 1..n /\ i # k /\ q[i] = e
        BY <1>1, <1>5, <2>1, <3>1
      <4> QED
        BY <1>1, <4>1 DEF IsInjective
    <3>2. CASE ~(i < k)
      <4>1. i + 1 \in 1..n /\ i + 1 # k /\ q[i + 1] = e
        BY <1>1, <1>5, <2>1, <3>2
      <4> QED
        BY <1>1, <4>1 DEF IsInjective
    <3> QED
      BY <3>1, <3>2
  <2>2. ASSUME NEW i \in 1..n, q[i] = e, e # q[k] PROVE \E j \in 1..(n - 1) : f[j] = e
    <3>1. CASE i < k
      BY <1>1, <1>5, <2>2, <3>1
    <3>2. CASE i > k
      <4>1. i - 1 \in 1..(n - 1) /\ ~(i - 1 < k) /\ (i - 1) + 1 = i
        BY <1>1, <3>2
      <4> QED
        BY <1>5, <2>2, <4>1
    <3> QED
      BY <1>1, <2>2, <3>1, <3>2
  <2> QED
    BY <2>1, <2>2
<1> QED
  BY <1>1, <1>2, <1>5, <1>6, <1>7

\* A wake-up leaves every task a state.
LEMMA WakeUpOneState ==
    ASSUME NEW q, state \in [Task -> TaskState]
    PROVE  WakeUpOne(state, q) \in [Task -> TaskState]
BY DEF WakeUpOne, TaskState

-----------------------------------------------------------------------------

LEMMA InitIInv == Init => IInv
<1> SUFFICES ASSUME Init PROVE IInv
  OBVIOUS
<1>1. <<>> \in Seq(Reader) /\ DOMAIN <<>> = {}
  OBVIOUS
<1>2. r_wait_head = <<>>
  BY DEF Init
<1>3. r_wait_head \in Seq(Reader) /\ IsInjective(r_wait_head)
  BY <1>1, <1>2 DEF IsInjective
<1>4. TypeOK
  BY <1>3 DEF Init, TypeOK, Task, ReaderPc, WriterPc, TaskState
<1>5. QueuedInv
  BY <1>1, <1>2 DEF Init, QueuedInv, At, Task
<1> QED
  BY <1>4, <1>5 DEF Init, IInv, FlagInv, WokenReaderReturns, At, Task

LEMMA StepIInv == ASSUME IInv, [Next]_vars PROVE IInv'
<1> USE TaskAssumption
    DEF IInv, TypeOK, FlagInv, QueuedInv, WokenReaderReturns, At, Goto, SetCurrentState, Task,
        ReaderPc, WriterPc, TaskState, Running, Interruptible
<1>1. ASSUME NEW r \in Reader, Read(r) PROVE IInv'
  <2>1. \A i \in DOMAIN r_wait_head : r_wait_head[i] # r
    BY <1>1 DEF Read
  <2>2. /\ r_wait_head' \in Seq(Reader) /\ IsInjective(r_wait_head')
        /\ \A s \in Reader : (\E i \in DOMAIN r_wait_head' : r_wait_head'[i] = s)
                             <=> s = r \/ \E i \in DOMAIN r_wait_head : r_wait_head[i] = s
    BY <1>1, <2>1, AppendOnce DEF Read
  <2>3. pc' = [pc EXCEPT ![r] = "test"] /\ UNCHANGED <<r_flag, state, signalled>>
    BY <1>1 DEF Read
  <2>4. QueuedInv'
    BY <2>2, <2>3
  <2> QED
    BY <2>2, <2>3, <2>4
<1>2. ASSUME NEW r \in Reader, TestFlag(r) PROVE IInv'
  BY <1>2 DEF TestFlag
<1>3. ASSUME NEW r \in Reader, SetState(r) PROVE IInv'
  BY <1>3 DEF SetState
<1>4. ASSUME NEW r \in Reader, Resume(r) PROVE IInv'
  BY <1>4 DEF Resume
<1>5. ASSUME NEW r \in Reader, Leave(r) PROVE IInv'
  <2>1. PICK k \in DOMAIN r_wait_head : r_wait_head[k] = r
    BY <1>5 DEF Leave
  <2>2. /\ r_wait_head' \in Seq(Reader) /\ IsInjective(r_wait_head')
        /\ \A s \in Reader : (\E i \in DOMAIN r_wait_head' : r_wait_head'[i] = s)
                             <=> s # r /\ \E i \in DOMAIN r_wait_head : r_wait_head[i] = s
    BY <1>5, <2>1, RemoveOnce DEF Leave
  <2>3. /\ pc' = [pc EXCEPT ![r] = "idle"] /\ state' = [state EXCEPT ![r] = Running]
        /\ signalled' = signalled \ {r} /\ UNCHANGED r_flag
    BY <1>5 DEF Leave
  <2>4. QueuedInv'
    BY <2>2, <2>3
  <2> QED
    BY <2>2, <2>3, <2>4
<1>6. ASSUME NEW r \in Reader, Signal(r) PROVE IInv'
  BY <1>6 DEF Signal
<1>7. ASSUME NEW w \in Writer, Write(w) PROVE IInv'
  BY <1>7 DEF Write
<1>8. ASSUME NEW w \in Writer, WakeUp(w) PROVE IInv'
  <2>1. r_flag = TRUE /\ UNCHANGED <<r_flag, r_wait_head, signalled>> /\ pc' = [pc EXCEPT ![w] = "idle"]
    BY <1>8 DEF WakeUp
  <2>2. state' \in [Task -> TaskState]
    BY <1>8, WakeUpOneState DEF WakeUp
  <2> QED
    BY <2>1, <2>2
<1>9. CASE UNCHANGED vars
  BY <1>9 DEF vars
<1> QED
  BY <1>1, <1>2, <1>3, <1>4, <1>5, <1>6, <1>7, <1>8, <1>9 DEF Next, ReadStep

\* Every variable keeps its type, and no reader has two entries on the queue.
THEOREM TypeCorrect == Spec => []TypeOK
<1>1. IInv => TypeOK
  BY DEF IInv
<1> QED
  BY <1>1, InitIInv, StepIInv, PTL DEF Spec

\* rlwait_write sets r_flag before it wakes the queue: a wake-up is not spent on
\* a reader that goes back to sleep.
THEOREM WakeupsAreUsed == Spec => []WokenReaderReturns
<1>1. IInv => WokenReaderReturns
  BY DEF IInv
<1> QED
  BY <1>1, InitIInv, StepIInv, PTL DEF Spec
=============================================================================
