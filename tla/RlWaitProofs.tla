---------------------------- MODULE RlWaitProofs ----------------------------
(***************************************************************************)
(* Proofs about RlWait, for every number of readers and writers, every     *)
(* buffer and every size and offset: its type invariant, that until a      *)
(* killed reader has unlocked the mutex of somebody else the mutex keeps   *)
(* tasks apart and the length never wraps, and that no wake-up is lost.    *)
(***************************************************************************)
EXTENDS RlWait, TLAPS

\* Until a killed reader unlocks it, the mutex is locked while a task is in it.
LockInv == ~unowned => \A t \in InMutex : r_lock

\* A reader has its entry on the queue from inside the mutex to its return.
QueuedInv ==
    \A r \in Reader : pc[r] \notin {"idle", "lock"} => r \in r_wait_head

IInv == TypeOK /\ LockedOut /\ LockInv /\ NoUnderflow /\ QueuedInv /\ NoLostWakeup

-----------------------------------------------------------------------------

LEMMA ModFacts == ASSUME NEW n \in Int PROVE n % Word \in 0..(Word - 1)
BY BufferAssumption

\* An r_len of Word - 1 at most does not wrap when less is taken from it.
LEMMA SmallMod == ASSUME NEW n \in 0..(Word - 1) PROVE n % Word = n
BY BufferAssumption

LEMMA InitIInv == Init => IInv
<1> SUFFICES ASSUME Init PROVE IInv
  OBVIOUS
<1> USE TaskAssumption, BufferAssumption, BoundAssumption
    DEF Init, At, Task, ReaderPc, WriterPc, TaskState, Result
<1>1. TypeOK
  <2>1. 0 \in 0..(Word - 1) /\ 0 \in 0..MaxCalls
    OBVIOUS
  <2>2. /\ pc \in [Task -> ReaderPc \cup WriterPc] /\ state \in [Task -> TaskState]
        /\ off \in [Task -> Nat] /\ size \in [Task -> Nat] /\ calls \in [Task -> 0..MaxCalls]
    BY <2>1
  <2>3. nonblock \in [Reader -> BOOLEAN] /\ ret \in [Reader -> Result]
    OBVIOUS
  <2> QED
    BY <2>1, <2>2, <2>3 DEF TypeOK
<1>2. LockedOut /\ LockInv /\ NoUnderflow
  BY DEF LockedOut, LockInv, NoUnderflow, MutualExclusion, InMutex
<1>3. QueuedInv /\ NoLostWakeup
  BY DEF QueuedInv, NoLostWakeup
<1> QED
  BY <1>1, <1>2, <1>3 DEF IInv

\* What WakeUp does to the state of each task.
LEMMA WakeUpAllState ==
    ASSUME state \in [Task -> TaskState]
    PROVE  /\ WakeUpAll(state, r_wait_head) \in [Task -> TaskState]
           /\ \A t \in Task :
                WakeUpAll(state, r_wait_head)[t] = IF t \in r_wait_head THEN Running ELSE state[t]
BY DEF WakeUpAll, TaskState

LEMMA StepTypeOK ==
    ASSUME TypeOK, [Next]_vars
    PROVE  TypeOK'
<1> USE TaskAssumption, BufferAssumption, BoundAssumption, OffsetAssumption
    DEF TypeOK, Task, ReaderPc, WriterPc, TaskState, Result, At, Goto, SetCurrentState,
        MutexLock, MutexUnlock, device, mutex, request
<1>1. ASSUME NEW t \in Task, NEW n \in Nat, Call(t, n)
      PROVE  /\ size' \in [Task -> Nat]
             /\ calls' \in [Task -> 0..MaxCalls]
  <2>1. calls[t] \in 0..MaxCalls /\ calls[t] < MaxCalls
    BY <1>1 DEF Call
  <2>2. calls[t] + 1 \in 0..MaxCalls
    BY <2>1
  <2> QED
    BY <1>1, <2>2 DEF Call
<1>2. ASSUME NEW r \in Reader, Read(r) PROVE TypeOK'
  <2>1. PICK n \in Size : Call(r, n)
    BY <1>2 DEF Read
  <2>2. n \in Nat /\ r \in Task
    OBVIOUS
  <2>3. size' \in [Task -> Nat] /\ calls' \in [Task -> 0..MaxCalls]
    BY <1>1, <2>1, <2>2
  <2>4. PICK b \in BOOLEAN : nonblock' = [nonblock EXCEPT ![r] = b]
    BY <1>2 DEF Read
  <2>5. nonblock' \in [Reader -> BOOLEAN]
    BY <2>4, Zenon DEF TypeOK
  <2>6. /\ pc' = [pc EXCEPT ![r] = "lock"]
        /\ UNCHANGED <<r_len, write_done, r_lock, unowned, r_wait_head, state, off, ret>>
    BY <1>2 DEF Read
  <2> QED
    BY <2>3, <2>5, <2>6
<1>3. ASSUME NEW r \in Reader, EnterRead(r) \/ FindData(r) \/ Sleep(r) \/ Resume(r) \/ Relock(r)
      PROVE  TypeOK'
  <2>1. CASE EnterRead(r)
    BY <2>1 DEF EnterRead
  <2>2. CASE FindData(r)
    BY <2>2 DEF FindData
  <2>3. CASE Sleep(r)
    BY <2>3 DEF Sleep
  <2>4. CASE Resume(r)
    BY <2>4 DEF Resume
  <2>5. CASE Relock(r)
    BY <2>5 DEF Relock
  <2> QED
    BY <1>3, <2>1, <2>2, <2>3, <2>4, <2>5
<1>4. ASSUME NEW r \in Reader, GiveUp(r) PROVE TypeOK'
  BY <1>4 DEF GiveUp
<1>5. ASSUME NEW r \in Reader, Abort(r) PROVE TypeOK'
  BY <1>5 DEF Abort
<1>6. ASSUME NEW r \in Reader, Clip(r) PROVE TypeOK'
  <2> DEFINE len == Least(r_len, BUFFER_SIZE)
  <2>1. len \in Nat
    BY DEF Least
  <2>2. CASE off[r] > len
    BY <1>6, <2>2 DEF Clip
  <2>3. CASE ~(off[r] > len)
    <3>1. Least(size[r], len - off[r]) \in Nat
      BY <2>1, <2>3 DEF Least
    <3>2. size' = [size EXCEPT ![r] = Least(@, len - off[r])] /\ pc' = [pc EXCEPT ![r] = "commit"]
          /\ UNCHANGED ret
      BY <1>6, <2>3 DEF Clip
    <3>3. size' \in [Task -> Nat]
      BY <3>1, <3>2
    <3> QED
      BY <1>6, <3>2, <3>3 DEF Clip
  <2> QED
    BY <2>2, <2>3
<1>7. ASSUME NEW r \in Reader, Commit(r) PROVE TypeOK'
  <2>1. (r_len - size[r]) % Word \in 0..(Word - 1) /\ off[r] + size[r] \in Nat
    <3>1. r_len \in Nat /\ size[r] \in Nat /\ off[r] \in Nat
      OBVIOUS
    <3>2. r_len - size[r] \in Int /\ off[r] + size[r] \in Nat
      BY <3>1
    <3> QED
      BY <3>2, ModFacts
  <2>2. \/ /\ off' = [off EXCEPT ![r] = @ + size[r]]
           /\ r_len' = (r_len - size[r]) % Word
           /\ ret' = [ret EXCEPT ![r] = "data"]
        \/ /\ ret' = [ret EXCEPT ![r] = "EIO"]
           /\ UNCHANGED <<off, r_len>>
    BY <1>7 DEF Commit
  <2>3. r_len' \in 0..(Word - 1) /\ off' \in [Task -> Nat] /\ ret' \in [Reader -> Result]
    BY <2>1, <2>2
  <2>4. /\ pc' = [pc EXCEPT ![r] = "out"]
        /\ UNCHANGED <<write_done, r_lock, unowned, r_wait_head, state, size, nonblock, calls>>
    BY <1>7 DEF Commit
  <2> QED
    BY <2>3, <2>4
<1>8. ASSUME NEW r \in Reader, LeaveRead(r) PROVE TypeOK'
  BY <1>8 DEF LeaveRead, Return
<1>9. ASSUME NEW w \in Writer, Write(w) PROVE TypeOK'
  <2>1. PICK n \in Size : Call(w, Least(n, BUFFER_SIZE - off[w]))
    BY <1>9 DEF Write
  <2>2. off[w] <= BUFFER_SIZE /\ off[w] \in Nat /\ n \in Nat /\ w \in Task
    BY <1>9 DEF Write
  <2>3. Least(n, BUFFER_SIZE - off[w]) \in Nat
    BY <2>2 DEF Least
  <2>4. size' \in [Task -> Nat] /\ calls' \in [Task -> 0..MaxCalls]
    BY <1>1, <2>1, <2>2, <2>3
  <2>5. /\ pc' = [pc EXCEPT ![w] = "lock"]
        /\ UNCHANGED <<r_len, write_done, r_lock, unowned, r_wait_head, state, off, nonblock, ret>>
    BY <1>9 DEF Write
  <2> QED
    BY <2>4, <2>5
<1>10. ASSUME NEW w \in Writer, EnterWrite(w) PROVE TypeOK'
  BY <1>10 DEF EnterWrite
<1>11. ASSUME NEW w \in Writer, Fill(w) PROVE TypeOK'
  <2>1. (r_len + size[w]) % Word \in 0..(Word - 1) /\ off[w] + size[w] \in Nat
    <3>1. r_len \in Nat /\ size[w] \in Nat /\ off[w] \in Nat
      OBVIOUS
    <3>2. r_len + size[w] \in Int /\ off[w] + size[w] \in Nat
      BY <3>1
    <3> QED
      BY <3>2, ModFacts
  <2> QED
    BY <1>11, <2>1 DEF Fill
<1>12. ASSUME NEW w \in Writer, FillFault(w) PROVE TypeOK'
  BY <1>12 DEF FillFault, Return
<1>13. ASSUME NEW w \in Writer, WakeUp(w) PROVE TypeOK'
  <2>1. state' \in [Task -> TaskState]
    BY <1>13, WakeUpAllState DEF WakeUp
  <2> QED
    BY <1>13, <2>1 DEF WakeUp, Return
<1>14. ASSUME NEW t \in Task, Seek(t) PROVE TypeOK'
  BY <1>14 DEF Seek
<1>15. CASE UNCHANGED vars
  BY <1>15 DEF vars
<1> QED
  BY <1>2, <1>3, <1>4, <1>5, <1>6, <1>7, <1>8, <1>9, <1>10, <1>11, <1>12, <1>13, <1>14, <1>15
     DEF Next, ReadStep, WriteStep

LEMMA StepQueuedInv ==
    ASSUME TypeOK, QueuedInv, [Next]_vars
    PROVE  QueuedInv'
<1> USE TaskAssumption DEF TypeOK, QueuedInv, Task, At, Goto
<1>1. ASSUME NEW r \in Reader, Read(r) \/ EnterRead(r) \/ FindData(r) \/ GiveUp(r) \/ Sleep(r)
      PROVE  QueuedInv'
  BY <1>1 DEF Read, EnterRead, FindData, GiveUp, Sleep
<1>2. ASSUME NEW r \in Reader, Resume(r) \/ Relock(r) \/ Abort(r) \/ Commit(r) PROVE QueuedInv'
  BY <1>2 DEF Resume, Relock, Abort, Commit
<1>3. ASSUME NEW r \in Reader, Clip(r) PROVE QueuedInv'
  BY <1>3 DEF Clip
<1>4. ASSUME NEW r \in Reader, LeaveRead(r) PROVE QueuedInv'
  BY <1>4 DEF LeaveRead, Return
<1>5. ASSUME NEW w \in Writer, Write(w) \/ WriteStep(w) PROVE QueuedInv'
  <2>1. /\ UNCHANGED r_wait_head
        /\ \E s \in {"lock", "copy", "wake", "idle"} : pc' = [pc EXCEPT ![w] = s]
    BY <1>5 DEF Write, WriteStep, EnterWrite, Fill, FillFault, WakeUp, Return
  <2>2. \A r \in Reader : pc'[r] = pc[r]
    BY <2>1
  <2> QED
    BY <2>1, <2>2
<1>6. ASSUME NEW t \in Task, Seek(t) PROVE QueuedInv'
  BY <1>6 DEF Seek
<1>7. CASE UNCHANGED vars
  BY <1>7 DEF vars
<1> QED
  BY <1>1, <1>2, <1>3, <1>4, <1>5, <1>6, <1>7 DEF Next, ReadStep

LEMMA StepNoLostWakeup ==
    ASSUME TypeOK, QueuedInv, NoLostWakeup, [Next]_vars
    PROVE  NoLostWakeup'
<1> USE TaskAssumption
    DEF TypeOK, NoLostWakeup, Task, At, Goto, SetCurrentState, device, mutex, request
<1>1. ASSUME NEW r \in Reader, Read(r) \/ EnterRead(r) \/ FindData(r) \/ GiveUp(r) \/ Resume(r)
      PROVE  NoLostWakeup'
  BY <1>1 DEF Read, EnterRead, FindData, GiveUp, Resume
<1>2. ASSUME NEW r \in Reader, Sleep(r) PROVE NoLostWakeup'
  BY <1>2 DEF Sleep
<1>3. ASSUME NEW r \in Reader, Relock(r) \/ Abort(r) \/ Commit(r) PROVE NoLostWakeup'
  BY <1>3 DEF Relock, Abort, Commit
<1>4. ASSUME NEW r \in Reader, Clip(r) PROVE NoLostWakeup'
  BY <1>4 DEF Clip
<1>5. ASSUME NEW r \in Reader, LeaveRead(r) PROVE NoLostWakeup'
  BY <1>5 DEF LeaveRead, Return
<1>6. ASSUME NEW w \in Writer, Write(w) \/ EnterWrite(w) PROVE NoLostWakeup'
  <2>1. /\ pc[w] # "wake" /\ UNCHANGED <<r_wait_head, state, unowned, write_done>>
        /\ pc' = [pc EXCEPT ![w] = "lock"] \/ pc' = [pc EXCEPT ![w] = "copy"]
    BY <1>6 DEF Write, EnterWrite, Call
  <2> QED
    BY <2>1
<1>7. ASSUME NEW w \in Writer, FillFault(w) PROVE NoLostWakeup'
  BY <1>7 DEF FillFault, Return
<1>8. ASSUME NEW w \in Writer, Fill(w) PROVE NoLostWakeup'
  <2>1. pc' = [pc EXCEPT ![w] = "wake"] /\ UNCHANGED <<r_wait_head, state, unowned>>
    BY <1>8 DEF Fill
  <2> QED
    BY <2>1 DEF QueuedInv
<1>9. ASSUME NEW w \in Writer, WakeUp(w) PROVE NoLostWakeup'
  <2>1. pc' = [pc EXCEPT ![w] = "idle"] /\ UNCHANGED r_wait_head
    BY <1>9 DEF WakeUp, Return
  <2>2. \A r \in Reader : r \in r_wait_head => state'[r] = Running
    BY <1>9, WakeUpAllState DEF WakeUp
  <2>3. \A r \in Reader : pc'[r] = "schedule" => r \in r_wait_head
    BY <2>1 DEF QueuedInv
  <2> QED
    BY <2>2, <2>3 DEF Running, Interruptible
<1>10. ASSUME NEW t \in Task, Seek(t) PROVE NoLostWakeup'
  BY <1>10 DEF Seek
<1>11. CASE UNCHANGED vars
  BY <1>11 DEF vars
<1> QED
  BY <1>1, <1>2, <1>3, <1>4, <1>5, <1>6, <1>7, <1>8, <1>9, <1>10, <1>11
     DEF Next, ReadStep, WriteStep

\* The mutex: who is in it is alone there, and what it has computed from r_len
\* stays true.
LEMMA StepLock ==
    ASSUME TypeOK, LockedOut, LockInv, [Next]_vars
    PROVE  LockedOut' /\ LockInv'
<1> USE TaskAssumption
    DEF TypeOK, Task, At, Goto, device, mutex, request, LockedOut, LockInv, MutualExclusion, InMutex
<1>1. ASSUME NEW t \in Task, MutexLock, UNCHANGED unowned, pc[t] \in {"lock", "relock"},
             pc' = [pc EXCEPT ![t] = "test"] \/ pc' = [pc EXCEPT ![t] = "copy"]
      PROVE  LockedOut' /\ LockInv'
  <2>1. ~unowned => InMutex = {}
    BY <1>1 DEF MutexLock
  <2>2. \A u \in Task : u # t => pc'[u] = pc[u]
    BY <1>1
  <2> QED
    BY <1>1, <2>1, <2>2 DEF MutexLock
<1>2. ASSUME NEW t \in Task, MutexUnlock, UNCHANGED unowned, t \in InMutex,
             NEW s, s \notin {"test", "clip", "commit", "out", "copy"}, pc' = [pc EXCEPT ![t] = s]
      PROVE  LockedOut' /\ LockInv'
  <2>1. ~unowned => \A u \in Task : u \in InMutex => u = t
    BY <1>2
  <2>2. \A u \in Task : u # t => pc'[u] = pc[u]
    BY <1>2
  <2>3. pc'[t] = s
    BY <1>2
  <2> QED
    BY <1>2, <2>1, <2>2, <2>3
<1>3. ASSUME UNCHANGED <<r_lock, unowned>>,
             \A t \in Task : t \in InMutex' => t \in InMutex
      PROVE  LockedOut' /\ LockInv'
  BY <1>3
<1>4. ASSUME NEW r \in Reader, Read(r) \/ FindData(r) \/ GiveUp(r) \/ Resume(r) \/ Abort(r)
      PROVE  LockedOut' /\ LockInv'
  <2>1. UNCHANGED <<r_lock, unowned>>
    BY <1>4 DEF Read, FindData, GiveUp, Resume, Abort
  <2>2. \A t \in Task : t \in InMutex' => t \in InMutex
    BY <1>4 DEF Read, FindData, GiveUp, Resume, Abort
  <2> QED
    BY <1>3, <2>1, <2>2
<1>5. ASSUME NEW r \in Reader, EnterRead(r) \/ Relock(r) PROVE LockedOut' /\ LockInv'
  <2>1. /\ pc[r] \in {"lock", "relock"} /\ UNCHANGED unowned /\ MutexLock
        /\ pc' = [pc EXCEPT ![r] = "test"]
    BY <1>5 DEF EnterRead, Relock
  <2> QED
    BY <1>1, <2>1
<1>6. ASSUME NEW r \in Reader, Sleep(r) PROVE LockedOut' /\ LockInv'
  <2>1. /\ pc[r] = "test" /\ UNCHANGED unowned /\ MutexUnlock
        /\ pc' = [pc EXCEPT ![r] = "schedule"]
    BY <1>6 DEF Sleep
  <2> QED
    BY <1>2, <2>1
<1>7. ASSUME NEW r \in Reader, Clip(r) \/ Commit(r) PROVE LockedOut' /\ LockInv'
  <2>1. /\ pc[r] \in {"clip", "commit"} /\ UNCHANGED <<r_lock, unowned>>
        /\ pc' = [pc EXCEPT ![r] = "commit"] \/ pc' = [pc EXCEPT ![r] = "out"]
    BY <1>7 DEF Clip, Commit
  <2>2. \A t \in Task : t \in InMutex' => t \in InMutex
    BY <2>1
  <2> QED
    BY <1>3, <2>1, <2>2
<1>8. ASSUME NEW r \in Reader, LeaveRead(r) PROVE LockedOut' /\ LockInv'
  <2>1. CASE pc[r] = "aborted"
    BY <1>8, <2>1 DEF LeaveRead
  <2>2. CASE pc[r] = "out"
    <3>1. UNCHANGED unowned /\ MutexUnlock /\ pc' = [pc EXCEPT ![r] = "idle"]
      BY <1>8, <2>2 DEF LeaveRead, Return
    <3> QED
      BY <1>2, <2>2, <3>1
  <2> QED
    BY <1>8, <2>1, <2>2 DEF LeaveRead
<1>9. ASSUME NEW w \in Writer, Write(w) PROVE LockedOut' /\ LockInv'
  <2>1. UNCHANGED <<r_lock, unowned>> /\ pc' = [pc EXCEPT ![w] = "lock"]
    BY <1>9 DEF Write
  <2>2. \A t \in Task : t \in InMutex' => t \in InMutex
    BY <2>1
  <2> QED
    BY <1>3, <2>1, <2>2
<1>10. ASSUME NEW w \in Writer, EnterWrite(w) PROVE LockedOut' /\ LockInv'
  BY <1>1, <1>10 DEF EnterWrite
<1>11. ASSUME NEW w \in Writer, Fill(w) \/ FillFault(w) PROVE LockedOut' /\ LockInv'
  <2>1. /\ pc[w] = "copy" /\ UNCHANGED unowned /\ MutexUnlock
        /\ pc' = [pc EXCEPT ![w] = "wake"] \/ pc' = [pc EXCEPT ![w] = "idle"]
    BY <1>11 DEF Fill, FillFault, Return
  <2> QED
    BY <1>2, <2>1
<1>12. ASSUME NEW w \in Writer, WakeUp(w) PROVE LockedOut' /\ LockInv'
  <2>1. UNCHANGED <<r_lock, unowned>> /\ pc' = [pc EXCEPT ![w] = "idle"]
    BY <1>12 DEF WakeUp, Return
  <2>2. \A t \in Task : t \in InMutex' => t \in InMutex
    BY <2>1
  <2> QED
    BY <1>3, <2>1, <2>2
<1>13. ASSUME NEW t \in Task, Seek(t) PROVE LockedOut' /\ LockInv'
  BY <1>13 DEF Seek
<1>14. CASE UNCHANGED vars
  BY <1>14 DEF vars
<1> QED
  BY <1>4, <1>5, <1>6, <1>7, <1>8, <1>9, <1>10, <1>11, <1>12, <1>13, <1>14
     DEF Next, ReadStep, WriteStep

LEMMA StepNoUnderflow ==
    ASSUME TypeOK, LockedOut, NoUnderflow, [Next]_vars
    PROVE  NoUnderflow'
<1> USE TaskAssumption DEF TypeOK, Task, At, Goto, device, mutex, request, NoUnderflow
<1>1. ASSUME NEW t \in Task, t \in InMutex, ~unowned,
             NEW r \in Reader, pc[r] = "commit"
      PROVE  r = t
  BY <1>1 DEF LockedOut, MutualExclusion, InMutex
<1>2. ASSUME NEW t \in Task, UNCHANGED r_len, unowned => unowned',
             NEW s, s # "commit", pc' = [pc EXCEPT ![t] = s],
             \A u \in Task : u # t => size'[u] = size[u]
      PROVE  NoUnderflow'
  <2>1. pc'[t] # "commit" /\ \A u \in Task : u # t => pc'[u] = pc[u]
    BY <1>2
  <2> QED
    BY <1>2, <2>1
<1>3. ASSUME NEW r \in Reader, Read(r) PROVE NoUnderflow'
  <2>1. pc' = [pc EXCEPT ![r] = "lock"] /\ UNCHANGED <<r_len, unowned>>
    BY <1>3 DEF Read
  <2>2. \A u \in Task : u # r => size'[u] = size[u]
    BY <1>3 DEF Read, Call
  <2> QED
    BY <1>2, <2>1, <2>2
<1>4. ASSUME NEW r \in Reader,
             EnterRead(r) \/ FindData(r) \/ GiveUp(r) \/ Sleep(r) \/ Resume(r) \/ Relock(r) \/ Abort(r)
      PROVE  NoUnderflow'
  <2>1. /\ UNCHANGED <<r_len, unowned, size>>
        /\ \E s \in {"test", "clip", "out", "schedule", "relock", "aborted"} :
              pc' = [pc EXCEPT ![r] = s]
    BY <1>4 DEF EnterRead, FindData, GiveUp, Sleep, Resume, Relock, Abort
  <2> QED
    BY <1>2, <2>1
<1>5. ASSUME NEW r \in Reader, Clip(r) PROVE NoUnderflow'
  <2> DEFINE len == Least(r_len, BUFFER_SIZE)
  <2>1. CASE off[r] > len
    <3>1. pc' = [pc EXCEPT ![r] = "out"] /\ UNCHANGED <<r_len, unowned, size>>
      BY <1>5, <2>1 DEF Clip
    <3> QED
      BY <1>2, <3>1
  <2>2. CASE ~(off[r] > len)
    <3>1. /\ size' = [size EXCEPT ![r] = Least(@, len - off[r])]
          /\ pc' = [pc EXCEPT ![r] = "commit"] /\ UNCHANGED <<r_len, unowned>>
      BY <1>5, <2>2 DEF Clip
    <3>2. Least(size[r], len - off[r]) <= r_len
      <4>1. r_len \in Nat /\ off[r] \in Nat /\ size[r] \in Nat
        BY BufferAssumption
      <4> QED
        BY <2>2, <4>1, BufferAssumption DEF Least
    <3>3. size'[r] = Least(size[r], len - off[r])
      BY <3>1
    <3>4. \A u \in Task : u # r => size'[u] = size[u] /\ pc'[u] = pc[u]
      BY <3>1
    <3> QED
      BY <3>1, <3>2, <3>3, <3>4
  <2> QED
    BY <2>1, <2>2
<1>6. ASSUME NEW r \in Reader, Commit(r) PROVE NoUnderflow'
  <2>1. pc[r] = "commit" /\ pc' = [pc EXCEPT ![r] = "out"] /\ UNCHANGED <<unowned, size>>
    BY <1>6 DEF Commit
  <2>2. ~unowned => \A q \in Reader : pc'[q] # "commit"
    BY <1>1, <2>1 DEF InMutex
  <2> QED
    BY <2>1, <2>2
<1>7. ASSUME NEW r \in Reader, LeaveRead(r) PROVE NoUnderflow'
  <2>1. pc' = [pc EXCEPT ![r] = "idle"] /\ UNCHANGED r_len /\ (unowned => unowned')
    BY <1>7 DEF LeaveRead, Return
  <2>2. \A u \in Task : u # r => size'[u] = size[u]
    BY <1>7 DEF LeaveRead, Return
  <2> QED
    BY <1>2, <2>1, <2>2
<1>8. ASSUME NEW w \in Writer, Write(w) \/ EnterWrite(w) \/ FillFault(w) \/ WakeUp(w)
      PROVE  NoUnderflow'
  <2>1. /\ UNCHANGED <<r_len, unowned>>
        /\ \E s \in {"lock", "copy", "idle"} : pc' = [pc EXCEPT ![w] = s]
    BY <1>8 DEF Write, EnterWrite, FillFault, WakeUp, Return
  <2>2. \A u \in Task : u # w => size'[u] = size[u]
    BY <1>8 DEF Write, Call, EnterWrite, FillFault, WakeUp, Return
  <2> QED
    BY <1>2, <2>1, <2>2
<1>9. ASSUME NEW w \in Writer, Fill(w) PROVE NoUnderflow'
  <2>1. pc[w] = "copy" /\ pc' = [pc EXCEPT ![w] = "wake"] /\ UNCHANGED unowned
    BY <1>9 DEF Fill
  <2>2. ~unowned => \A q \in Reader : pc'[q] # "commit"
    BY <1>1, <2>1 DEF InMutex
  <2> QED
    BY <2>1, <2>2
<1>10. ASSUME NEW t \in Task, Seek(t) PROVE NoUnderflow'
  BY <1>10 DEF Seek
<1>11. CASE UNCHANGED vars
  BY <1>11 DEF vars
<1> QED
  BY <1>3, <1>4, <1>5, <1>6, <1>7, <1>8, <1>9, <1>10, <1>11 DEF Next, ReadStep, WriteStep

-----------------------------------------------------------------------------

LEMMA StepIInv == IInv /\ [Next]_vars => IInv'
BY StepTypeOK, StepLock, StepNoUnderflow, StepQueuedInv, StepNoLostWakeup DEF IInv

\* What every reachable state satisfies.
THEOREM Invariance == Spec => []IInv
BY InitIInv, StepIInv, PTL DEF Spec

\* Every step of rlwait_read and rlwait_write leaves every variable its type.
THEOREM TypeCorrect == Spec => []TypeOK
<1>1. IInv => TypeOK
  BY DEF IInv
<1> QED
  BY <1>1, Invariance, PTL

\* rl_lock: every path of rlwait_read and rlwait_write that has not been killed
\* unlocks what it locked, so that no two tasks are inside.
THEOREM LocksOut == Spec => []LockedOut
<1>1. IInv => LockedOut
  BY DEF IInv
<1> QED
  BY <1>1, Invariance, PTL

\* rlwait_read: what it subtracts from the unsigned r_len is there, although it
\* computed it some steps earlier.
THEOREM NeverWraps == Spec => []NoUnderflow
<1>1. IInv => NoUnderflow
  BY DEF IInv
<1> QED
  BY <1>1, Invariance, PTL

\* rlwait_read and rlwait_write: no reader sleeps on after the first write but
\* with a wake-up on its way.
THEOREM WakeupsAreNotLost == Spec => []NoLostWakeup
<1>1. IInv => NoLostWakeup
  BY DEF IInv
<1> QED
  BY <1>1, Invariance, PTL
=============================================================================
