------------------------------- MODULE RlWait -------------------------------
(***************************************************************************)
(* code/wait_queue_demo/wait_queue.c and code/wait_queue_test/wait_queue.c *)
(* (they differ in comments and in a redundant set_current_state): a       *)
(* buffer behind a mutex.  A reader sleeps on r_wait_head while the buffer *)
(* is empty and has never been written; a writer adds to it and wakes      *)
(* every reader.                                                           *)
(*                                                                         *)
(* Each task has the device open on a file of its own.  The bytes of the   *)
(* buffer are left out: a read copies from the start of the buffer and a   *)
(* write copies to it, whatever the offset, so only the lengths relate     *)
(* one call to another.                                                    *)
(***************************************************************************)
EXTENDS KernelSync, Integers

CONSTANTS
    Reader,         \* the tasks that read the device
    Writer,         \* the tasks that write it
    Signalled,      \* the readers that may get a signal
    BUFFER_SIZE,
    Word,           \* an unsigned long holds 0..Word - 1
    Size,           \* the sizes that calls ask for
    Offset,         \* the offsets that clients seek to
    MaxCalls        \* bound: the calls each task makes

ASSUME TaskAssumption == Reader \cap Writer = {} /\ Signalled \subseteq Reader
ASSUME BufferAssumption ==
    /\ BUFFER_SIZE \in Nat \ {0} /\ Size \subseteq Nat
    /\ Word \in Nat /\ Word > BUFFER_SIZE
ASSUME OffsetAssumption == Offset \subseteq Nat
ASSUME BoundAssumption == MaxCalls \in Nat

Task == Reader \cup Writer

VARIABLES
    r_len,          \* the bytes said to be in the buffer
    write_done,     \* the bit RL_WR_DONE of r_flag: set once, never cleared
    r_lock,         \* is the mutex locked?
    unowned,        \* history: has a task unlocked a mutex it did not hold?
    r_wait_head,    \* the tasks that have an entry on the wait queue
    state,          \* each task's state
    pc,             \* the point each task has reached
    off,            \* the offset of each task's file
    calls,          \* the calls each task has made
    \* of the call each task is in:
    size,           \* its size
    nonblock,       \* is the reader's file O_NONBLOCK?
    ret             \* what the reader is about to return

vars == <<r_len, write_done, r_lock, unowned, r_wait_head, state, pc, off,
          calls, size, nonblock, ret>>
device == <<r_len, write_done>>
mutex == <<r_lock, unowned>>
request == <<off, size, nonblock, calls>>

\* "aborted" is the end of a read that a signal cut short: it never took the
\* mutex back.
ReaderPc == {"idle", "lock", "test", "schedule", "relock", "clip", "commit",
             "out", "aborted"}
WriterPc == {"idle", "lock", "copy", "wake"}
Result == {"none", "data", "empty", "end", "EAGAIN", "EIO", "ERESTARTSYS"}

Init ==
    /\ r_len = 0 /\ write_done = FALSE
    /\ r_lock = FALSE /\ unowned = FALSE
    /\ r_wait_head = {}
    /\ state = [t \in Task |-> Running]
    /\ pc = [t \in Task |-> "idle"]
    /\ off = [t \in Task |-> 0]
    /\ size = [t \in Task |-> 0]
    /\ nonblock = [t \in Reader |-> FALSE]
    /\ ret = [t \in Reader |-> "none"]
    /\ calls = [t \in Task |-> 0]

At(t, point) == pc[t] = point
Goto(t, point) == pc' = [pc EXCEPT ![t] = point]
SetCurrentState(t, s) == state' = [state EXCEPT ![t] = s]
Least(a, b) == IF a < b THEN a ELSE b

\* mutex_lock; mutex_unlock makes the mutex available whoever calls it.
MutexLock == ~r_lock /\ r_lock' = TRUE
MutexUnlock == r_lock' = FALSE

Call(t, n) ==
    /\ At(t, "idle") /\ calls[t] < MaxCalls
    /\ calls' = [calls EXCEPT ![t] = @ + 1]
    /\ size' = [size EXCEPT ![t] = n]

\* The call returns and its locals are gone.
Return(t) == Goto(t, "idle") /\ size' = [size EXCEPT ![t] = 0]

-----------------------------------------------------------------------------
(* rlwait_read, called by r *)

Read(r) ==
    /\ \E n \in Size : Call(r, n)
    /\ \E b \in BOOLEAN : nonblock' = [nonblock EXCEPT ![r] = b]
    /\ Goto(r, "lock")
    /\ UNCHANGED <<device, mutex, r_wait_head, state, off, ret>>

\* Mutant: the reader does not add its entry to the queue.
EnterReadUnqueued(r) ==
    /\ At(r, "lock")
    /\ MutexLock
    /\ Goto(r, "test")
    /\ UNCHANGED <<device, unowned, r_wait_head, state, request, ret>>

EnterRead(r) ==
    /\ At(r, "lock")
    /\ MutexLock
    /\ r_wait_head' = r_wait_head \cup {r}
    /\ Goto(r, "test")
    /\ UNCHANGED <<device, unowned, state, request, ret>>

\* The while loop: data, or the end of it, or nothing yet.
FindData(r) ==
    /\ At(r, "test") /\ r_len # 0
    /\ Goto(r, "clip")
    /\ UNCHANGED <<device, mutex, r_wait_head, state, request, ret>>

GiveUp(r) ==
    /\ At(r, "test") /\ r_len = 0
    /\ write_done \/ nonblock[r]
    /\ ret' = [ret EXCEPT ![r] = IF write_done THEN "empty" ELSE "EAGAIN"]
    /\ Goto(r, "out")
    /\ UNCHANGED <<device, mutex, r_wait_head, state, request>>

Sleep(r) ==
    /\ At(r, "test") /\ r_len = 0
    /\ ~write_done /\ ~nonblock[r]
    /\ SetCurrentState(r, Interruptible)
    /\ MutexUnlock
    /\ Goto(r, "schedule")
    /\ UNCHANGED <<device, unowned, r_wait_head, request, ret>>

\* schedule() returns once the task is runnable: go round the loop ...
Resume(r) ==
    /\ At(r, "schedule") /\ state[r] = Running
    /\ Goto(r, "relock")
    /\ UNCHANGED <<device, mutex, r_wait_head, state, request, ret>>

\* Mutant: the loop goes round without the mutex.
RelockMissing(r) ==
    /\ At(r, "relock")
    /\ Goto(r, "test")
    /\ UNCHANGED <<device, mutex, r_wait_head, state, request, ret>>

Relock(r) ==
    /\ At(r, "relock")
    /\ MutexLock
    /\ Goto(r, "test")
    /\ UNCHANGED <<device, unowned, r_wait_head, state, request, ret>>

\* ... or, with a signal pending, leave it without the mutex.
Abort(r) ==
    /\ At(r, "schedule") /\ r \in Signalled
    /\ SetCurrentState(r, Running)
    /\ ret' = [ret EXCEPT ![r] = "ERESTARTSYS"]
    /\ Goto(r, "aborted")
    /\ UNCHANGED <<device, mutex, r_wait_head, request>>

\* Mutant: the offset is checked, the size is not cut.
ClipOffsetOnly(r) ==
    /\ At(r, "clip")
    /\ IF off[r] > Least(r_len, BUFFER_SIZE)
         THEN /\ ret' = [ret EXCEPT ![r] = "end"]
              /\ Goto(r, "out")
         ELSE Goto(r, "commit") /\ UNCHANGED ret
    /\ UNCHANGED <<device, mutex, r_wait_head, state, request>>

\* How much the read gets: the offset is held against what the buffer holds.
Clip(r) ==
    LET len == Least(r_len, BUFFER_SIZE)
    IN  /\ At(r, "clip")
        /\ IF off[r] > len
             THEN /\ ret' = [ret EXCEPT ![r] = "end"]
                  /\ Goto(r, "out")
                  /\ UNCHANGED size
             ELSE /\ size' = [size EXCEPT ![r] = Least(@, len - off[r])]
                  /\ Goto(r, "commit")
                  /\ UNCHANGED ret
        /\ UNCHANGED <<device, mutex, r_wait_head, state, off, nonblock, calls>>

\* copy_to_user and the update of the lengths; a bad user pointer: -EIO.
Commit(r) ==
    /\ At(r, "commit")
    /\ \/ /\ off' = [off EXCEPT ![r] = @ + size[r]]
          /\ r_len' = (r_len - size[r]) % Word
          /\ ret' = [ret EXCEPT ![r] = "data"]
       \/ /\ ret' = [ret EXCEPT ![r] = "EIO"]
          /\ UNCHANGED <<off, r_len>>
    /\ Goto(r, "out")
    /\ UNCHANGED <<write_done, mutex, r_wait_head, state, size, nonblock, calls>>

\* The labels singal and nonblock: off the queue, unlock, return.
LeaveRead(r) ==
    /\ pc[r] \in {"out", "aborted"}
    /\ SetCurrentState(r, Running)
    /\ r_wait_head' = r_wait_head \ {r}
    /\ MutexUnlock /\ unowned' = (unowned \/ At(r, "aborted"))
    /\ Return(r)
    /\ nonblock' = [nonblock EXCEPT ![r] = FALSE]
    /\ ret' = [ret EXCEPT ![r] = "none"]
    /\ UNCHANGED <<device, off, calls>>

ReadStep(r) ==
    \/ EnterRead(r) \/ FindData(r) \/ GiveUp(r) \/ Sleep(r) \/ Resume(r)
    \/ Relock(r) \/ Clip(r) \/ Commit(r) \/ LeaveRead(r)

-----------------------------------------------------------------------------
(* rlwait_write, called by w *)

\* Mutant: the offset is not checked.
WriteUnchecked(w) ==
    /\ \E n \in Size : Call(w, Least(n, BUFFER_SIZE - off[w]))
    /\ Goto(w, "lock")
    /\ UNCHANGED <<device, mutex, r_wait_head, state, off, nonblock, ret>>

\* A write is cut to what fits behind its offset; one that starts beyond the
\* buffer returns zero and changes nothing.
Write(w) ==
    /\ off[w] <= BUFFER_SIZE
    /\ \E n \in Size : Call(w, Least(n, BUFFER_SIZE - off[w]))
    /\ Goto(w, "lock")
    /\ UNCHANGED <<device, mutex, r_wait_head, state, off, nonblock, ret>>

EnterWrite(w) ==
    /\ At(w, "lock")
    /\ MutexLock
    /\ Goto(w, "copy")
    /\ UNCHANGED <<device, unowned, r_wait_head, state, request, ret>>

Fill(w) ==
    /\ At(w, "copy")
    /\ off' = [off EXCEPT ![w] = @ + size[w]]
    /\ r_len' = (r_len + size[w]) % Word
    /\ write_done' = TRUE
    /\ MutexUnlock
    /\ Goto(w, "wake")
    /\ UNCHANGED <<unowned, r_wait_head, state, size, nonblock, ret, calls>>

\* Mutant: the error path does not unlock.
FillFaultLocked(w) ==
    /\ At(w, "copy")
    /\ Return(w)
    /\ UNCHANGED <<device, mutex, r_wait_head, state, off, nonblock, calls, ret>>

\* The user's pointer is bad: -EIO, and nothing changes.
FillFault(w) ==
    /\ At(w, "copy")
    /\ MutexUnlock
    /\ Return(w)
    /\ UNCHANGED <<device, unowned, r_wait_head, state, off, nonblock, calls, ret>>

WakeUp(w) ==
    /\ At(w, "wake")
    /\ state' = WakeUpAll(state, r_wait_head)
    /\ Return(w)
    /\ UNCHANGED <<device, mutex, r_wait_head, off, nonblock, calls, ret>>

WriteStep(w) == EnterWrite(w) \/ Fill(w) \/ FillFault(w) \/ WakeUp(w)

\* The client moves the offset of its file: it seeks, or opens the device anew.
Seek(t) ==
    /\ At(t, "idle")
    /\ \E n \in Offset \ {off[t]} : off' = [off EXCEPT ![t] = n]
    /\ UNCHANGED <<device, mutex, r_wait_head, state, pc, size, nonblock,
                   ret, calls>>

Next ==
    \/ \E r \in Reader : Read(r) \/ ReadStep(r) \/ Abort(r)
    \/ \E w \in Writer : Write(w) \/ WriteStep(w)
    \/ \E t \in Task : Seek(t)

Spec == Init /\ [][Next]_vars

\* A call that can go on does; clients need not call.  Signals are not fair.
FairSpec ==
    /\ Spec
    /\ \A r \in Reader : WF_vars(ReadStep(r))
    /\ \A w \in Writer : WF_vars(WriteStep(w))

-----------------------------------------------------------------------------
(* Properties *)

\* Every variable has its type.
TypeOK ==
    /\ r_len \in 0..(Word - 1)
    /\ write_done \in BOOLEAN /\ r_lock \in BOOLEAN /\ unowned \in BOOLEAN
    /\ r_wait_head \subseteq Reader
    /\ state \in [Task -> TaskState]
    /\ pc \in [Task -> ReaderPc \cup WriterPc]
    /\ \A r \in Reader : pc[r] \in ReaderPc
    /\ \A w \in Writer : pc[w] \in WriterPc
    /\ off \in [Task -> Nat]
    /\ size \in [Task -> Nat]
    /\ nonblock \in [Reader -> BOOLEAN] /\ ret \in [Reader -> Result]
    /\ calls \in [Task -> 0..MaxCalls]

\* The tasks that are between a mutex_lock of theirs and the mutex_unlock.
InMutex == {t \in Task : pc[t] \in {"test", "clip", "commit", "out", "copy"}}

\* No two tasks are inside the mutex (lines 70-119 and 132-142).
MutualExclusion == \A t, u \in InMutex : t = u

\* ... as long as no read was cut short by a signal: such a read unlocks a mutex
\* it does not hold (lines 88-91, 119), which lets a second task in.
LockedOut == ~unowned => MutualExclusion

\* What the comments of lines 82 and 87 want, "make sure this process can be
\* killed": the mutex is worth as much after a reader was.
KilledReaderIsHarmless == MutualExclusion

\* The length a reader computed is still in the buffer when it subtracts it:
\* r_len, which is unsigned, never wraps below zero (lines 96-112).
NoUnderflow ==
    ~unowned => \A r \in Reader : At(r, "commit") => size[r] <= r_len

\* No lost wake-up: a reader sleeps after the first write only while the writer
\* is about to wake it.  It holds because the state is set before the mutex is
\* dropped (lines 83-85).
NoLostWakeup ==
    ~unowned =>
        \A r \in Reader :
            At(r, "schedule") /\ state[r] = Interruptible /\ write_done =>
                r \in r_wait_head /\ \E w \in Writer : At(w, "wake")

\* Every read in progress returns, or sleeps beside an empty buffer: none sleeps
\* on where there are bytes, and none waits for ever for a mutex that a reader
\* who found the buffer empty, or a writer who failed, has kept.  A read that finds
\* the buffer emptied may do either.  Line 2 says that it blocks, the code returns
\* zero, for RL_WR_DONE is never cleared (lines 74-75).
ReadsReturn ==
    \A r \in Reader :
        ~At(r, "idle") ~> At(r, "idle") \/ (At(r, "schedule") /\ r_len = 0) \/ unowned
=============================================================================
