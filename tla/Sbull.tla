------------------------------- MODULE Sbull -------------------------------
(***************************************************************************)
(* code/sbull/sbull.c: a disk in memory.  Half a minute after the last     *)
(* user closed it a timer simulates the removal of the medium, and the     *)
(* next open finds the disk blank.  The module is loaded and unloaded, its *)
(* set-up may fail, and it has three ways to handle I/O.  The devices of   *)
(* the module share nothing: this is one of them.                          *)
(*                                                                         *)
(* Around the driver stands the kernel's block layer: it calls open and    *)
(* release of a device one at a time (bd_sem), lets the module go only     *)
(* when no device is open, and asks for sectors within the capacity only.  *)
(***************************************************************************)
EXTENDS Integers, Sequences

CONSTANTS
    User,       \* the tasks that open the device
    Free,       \* nobody holds the lock: not a user
    NoIo,       \* the user has no I/O under way
    Stale,      \* what vmalloc returns, or what lies behind a buffer
    Blank,      \* a sector of zeroes
    NSectors,   \* the capacity
    Shapes      \* the lengths of the segments of a bio, by request mode

Modes == {"simple", "full", "noqueue"}

ASSUME UserAssumption == Free \notin User
ASSUME CapacityAssumption == NSectors \in Nat \ {0}
ASSUME ShapesAssumption ==
    Shapes \in [Modes -> SUBSET (Seq(Nat \ {0}) \ {<<>>})]

Sector == 0..(NSectors - 1)

VARIABLES
    mode,           \* request_mode
    module,         \* "absent", "loaded", or "exit" inside sbull_exit
    data,           \* dev->data: "null", "held", "freed", or "freed_twice"
    content,        \* the bytes that data points to
    disk,           \* dev->queue and dev->gd are there
    users,          \* dev->users
    media_change,   \* dev->media_change
    pending,        \* dev->timer is on the kernel's list of timers
    running,        \* sbull_invalidate has been called
    lock,           \* dev->lock, the queue's lock too: who holds it, or Free
    bd_sem,         \* the block layer's lock around open and release
    pc,             \* the point each user has reached
    io              \* the bio each user has under way

deviceVars == <<mode, data, disk>>
timerVars == <<pending, running, media_change>>
vars == <<module, deviceVars, content, users, timerVars, lock, bd_sem, pc, io>>

UserPc == {"closed", "del_timer", "open", "opened", "xfer", "release"}

At(u, point) == pc[u] = point
Goto(u, point) == pc' = [pc EXCEPT ![u] = point]

Filled(v) == [x \in Sector |-> v]

Init ==
    /\ mode \in Modes
    /\ module = "absent"
    /\ data = "null" /\ content = Filled(Stale)
    /\ disk = [queue |-> FALSE, gd |-> FALSE]
    /\ users = 0 /\ media_change = FALSE
    /\ pending = FALSE /\ running = FALSE
    /\ lock = Free /\ bd_sem = Free
    /\ pc = [u \in User |-> "closed"]
    /\ io = [u \in User |-> NoIo]

-----------------------------------------------------------------------------
(* sbull_init and sbull_exit *)

\* sbull_init, when the registration and the allocation of Devices succeed (it
\* leaves nothing of this state if they do not), and setup_device, which clears
\* the device first.
SbullInit ==
    /\ module = "absent"
    /\ module' = "loaded"
    /\ users' = 0 /\ media_change' = FALSE /\ pending' = FALSE
    /\ content' = Filled(Stale)
    /\ \/ data' = "null" /\ disk' = [queue |-> FALSE, gd |-> FALSE]  \* no memory
       \/ data' = "freed" /\ disk' = [queue |-> FALSE, gd |-> FALSE] \* no queue
       \/ data' = "freed" /\ disk' = [queue |-> TRUE, gd |-> FALSE]  \* no gendisk
       \/ data' = "held" /\ disk' = [queue |-> TRUE, gd |-> TRUE]
    /\ UNCHANGED <<mode, running, lock, bd_sem, pc, io>>

\* Mutant: the timer is left to itself.
ExitDelTimerMissing ==
    /\ module = "loaded" /\ \A u \in User : At(u, "closed")
    /\ module' = "exit"
    /\ UNCHANGED <<deviceVars, content, users, timerVars, lock, bd_sem, pc, io>>

\* rmmod: del_timer_sync waits for a call of sbull_invalidate to end.
ExitDelTimer ==
    /\ module = "loaded" /\ \A u \in User : At(u, "closed")
    /\ ~running
    /\ module' = "exit"
    /\ pending' = FALSE
    /\ UNCHANGED <<deviceVars, content, users, running, media_change, lock, bd_sem,
                   pc, io>>

\* The rest of sbull_exit.  The data of a failed set-up is freed again.
TearDown ==
    /\ module = "exit"
    /\ module' = "absent"
    /\ disk' = [queue |-> FALSE, gd |-> FALSE]
    /\ data' = CASE data = "held" -> "freed"
                 [] data = "freed" -> "freed_twice"
                 [] OTHER -> data
    /\ UNCHANGED <<mode, content, users, timerVars, lock, bd_sem, pc, io>>

-----------------------------------------------------------------------------
(* sbull_open and sbull_release, called for the user u *)

Open(u) ==
    /\ At(u, "closed")
    /\ module = "loaded" /\ disk.gd
    /\ bd_sem = Free /\ bd_sem' = u
    /\ Goto(u, "del_timer")
    /\ UNCHANGED <<module, deviceVars, content, users, timerVars, lock, io>>

\* Mutant: the timer is not deleted.
OpenDelTimerMissing(u) ==
    /\ At(u, "del_timer")
    /\ Goto(u, "open")
    /\ UNCHANGED <<module, deviceVars, content, users, timerVars, lock, bd_sem, io>>

OpenDelTimer(u) ==
    /\ At(u, "del_timer")
    /\ ~running
    /\ pending' = FALSE
    /\ Goto(u, "open")
    /\ UNCHANGED <<module, deviceVars, content, users, running, media_change, lock,
                   bd_sem, io>>

\* Mutant: the first user is not counted.
OpenDeviceUncounted(u) ==
    /\ At(u, "open") /\ lock = Free
    /\ IF users = 0 /\ media_change
         THEN media_change' = FALSE /\ content' = Filled(Blank)
         ELSE UNCHANGED <<media_change, content>>
    /\ bd_sem' = Free
    /\ Goto(u, "opened")
    /\ UNCHANGED <<module, deviceVars, users, pending, running, lock, io>>

\* Mutant: sbull_revalidate does not clear media_change.
OpenDeviceChanged(u) ==
    /\ At(u, "open") /\ lock = Free
    /\ content' = IF users = 0 /\ media_change THEN Filled(Blank) ELSE content
    /\ users' = users + 1
    /\ bd_sem' = Free
    /\ Goto(u, "opened")
    /\ UNCHANGED <<module, deviceVars, timerVars, lock, io>>

\* Under the lock: the first user has check_disk_change call sbull_media_changed
\* and, if the medium was changed, sbull_revalidate.
OpenDevice(u) ==
    /\ At(u, "open") /\ lock = Free
    /\ IF users = 0 /\ media_change
         THEN media_change' = FALSE /\ content' = Filled(Blank)
         ELSE UNCHANGED <<media_change, content>>
    /\ users' = users + 1
    /\ bd_sem' = Free
    /\ Goto(u, "opened")
    /\ UNCHANGED <<module, deviceVars, pending, running, lock, io>>

Release(u) ==
    /\ At(u, "opened")
    /\ bd_sem = Free /\ bd_sem' = u
    /\ Goto(u, "release")
    /\ UNCHANGED <<module, deviceVars, content, users, timerVars, lock, io>>

\* Under the lock: the last user starts the timer.
ReleaseDevice(u) ==
    /\ At(u, "release") /\ lock = Free
    /\ users' = users - 1
    /\ pending' = (pending \/ users' = 0)
    /\ bd_sem' = Free
    /\ Goto(u, "closed")
    /\ UNCHANGED <<module, deviceVars, content, running, media_change, lock, io>>

-----------------------------------------------------------------------------
(* The timer *)

TimerFires ==
    /\ pending /\ ~running
    /\ pending' = FALSE /\ running' = TRUE
    /\ UNCHANGED <<module, deviceVars, content, users, media_change, lock, bd_sem, pc,
                   io>>

\* Mutant: the lock is kept.
InvalidateLocked ==
    /\ running /\ lock = Free
    /\ media_change' = (media_change \/ (users = 0 /\ data # "null"))
    /\ running' = FALSE
    /\ \E u \in User : lock' = u
    /\ UNCHANGED <<module, deviceVars, content, users, pending, bd_sem, pc, io>>

\* sbull_invalidate, under the lock.
Invalidate ==
    /\ running /\ lock = Free
    /\ media_change' = (media_change \/ (users = 0 /\ data # "null"))
    /\ running' = FALSE
    /\ UNCHANGED <<module, deviceVars, content, users, pending, lock, bd_sem, pc, io>>

-----------------------------------------------------------------------------
(* I/O of the user u.  A bio is a number of sectors from io[u].start on, whose *)
(* data lie in segments of memory; io[u].sector and io[u].segment are the      *)
(* variables sector and i of sbull_xfer_bio.  Requests that are not of a file  *)
(* system are ended at once, and left out.                                     *)

\* Before(lens)[i] is how many sectors the first i segments have.
Before(lens) ==
    LET before[i \in 0..Len(lens)] == IF i = 0 THEN 0 ELSE before[i - 1] + lens[i]
    IN  before

Total(lens) == Before(lens)[Len(lens)]

Bio == [start : Sector, lens : Shapes[mode], write : BOOLEAN]

\* In the modes with a queue the kernel calls the request function with the
\* queue's lock held, which is dev->lock; sbull_make_request takes no lock.
Submit(u, bio) ==
    /\ At(u, "opened")
    /\ bio.start + Total(bio.lens) <= NSectors
    /\ IF mode = "noqueue" THEN UNCHANGED lock
                           ELSE lock = Free /\ lock' = u
    /\ io' = [io EXCEPT ![u] = [start |-> bio.start, lens |-> bio.lens,
                                write |-> bio.write,
                                sector |-> bio.start, segment |-> 1]]
    /\ Goto(u, "xfer")
    /\ UNCHANGED <<module, deviceVars, content, users, timerVars, bd_sem>>

\* How many sectors are transferred for the current segment.  The block layer
\* keeps current_nr_sectors of a request up to date; bio_cur_sectors(bio) is
\* the length of the segment bi_idx, the first one, all along the loop.
Count(u) ==
    IF mode = "simple" THEN io[u].lens[io[u].segment] ELSE io[u].lens[1]

\* Mutant: the last sector is beyond the end.
MovesOffByOne(u) ==
    IF io[u].sector + Count(u) >= NSectors
      THEN {}
      ELSE {<<k, io[u].sector + k>> : k \in 0..(Count(u) - 1)}

\* sbull_transfer: which sector of the segment's memory goes to, or comes from,
\* which sector of the device.
Moves(u) ==
    IF io[u].sector + Count(u) > NSectors
      THEN {}
      ELSE {<<k, io[u].sector + k>> : k \in 0..(Count(u) - 1)}

\* The sector of the device where the current segment begins.
Due(u) == io[u].start + Before(io[u].lens)[io[u].segment - 1]

\* The k-th sector of the memory of the current segment, in a write.
Held(u, k) ==
    IF k < io[u].lens[io[u].segment] THEN <<u, Due(u) + k>> ELSE Stale

\* One turn of the loop over the segments, and after the last one the end of
\* the request or bio.
XferSegment(u) ==
    /\ At(u, "xfer")
    /\ content' = [x \in Sector |->
            IF io[u].write /\ \E move \in Moves(u) : move[2] = x
              THEN Held(u, x - io[u].sector)
              ELSE content[x]]
    /\ IF io[u].segment = Len(io[u].lens)
         THEN /\ io' = [io EXCEPT ![u] = NoIo]
              /\ lock' = IF lock = u THEN Free ELSE lock
              /\ Goto(u, "opened")
         ELSE /\ io' = [io EXCEPT ![u].segment = @ + 1, ![u].sector = @ + Count(u)]
              /\ UNCHANGED <<lock, pc>>
    /\ UNCHANGED <<module, deviceVars, users, timerVars, bd_sem>>

-----------------------------------------------------------------------------

Next ==
    \/ SbullInit \/ ExitDelTimer \/ TearDown
    \/ TimerFires \/ Invalidate
    \/ \E u \in User :
        \/ Open(u) \/ OpenDelTimer(u) \/ OpenDevice(u)
        \/ Release(u) \/ ReleaseDevice(u)
        \/ XferSegment(u)
        \/ \E bio \in Bio : Submit(u, bio)

Spec == Init /\ [][Next]_vars

\* A call goes on when it can.  The board has one processor, where a holder of
\* the spinlock is not preempted: whoever gets to spin_lock gets the lock.
FairSpec ==
    /\ Spec
    /\ WF_vars(Invalidate)
    /\ \A u \in User :
        /\ WF_vars(OpenDelTimer(u)) /\ SF_vars(OpenDevice(u))
        /\ WF_vars(XferSegment(u)) /\ SF_vars(ReleaseDevice(u))

-----------------------------------------------------------------------------
(* Properties *)

\* Every variable has its type.
TypeOK ==
    /\ mode \in Modes
    /\ module \in {"absent", "loaded", "exit"}
    /\ data \in {"null", "held", "freed", "freed_twice"}
    /\ content \in [Sector -> {Stale, Blank} \cup (User \X Sector)]
    /\ disk \in [queue : BOOLEAN, gd : BOOLEAN]
    /\ users \in Nat
    /\ {media_change, pending, running} \subseteq BOOLEAN
    /\ {lock, bd_sem} \subseteq User \cup {Free}
    /\ pc \in [User -> UserPc]
    /\ \A u \in User :
        IF At(u, "xfer")
          THEN /\ io[u].sector \in Nat /\ io[u].lens \in Shapes[mode]
               /\ io[u].segment \in DOMAIN io[u].lens
          ELSE io[u] = NoIo

\* The timer is started by the last release and stopped by the first open: it
\* is never on while somebody uses the device, so that the sanity check of
\* sbull_invalidate (lines 270-271) does not fail and add_timer is never given
\* a timer that is pending.
TimerIsSane == pending \/ running => users = 0 /\ data = "held"

\* Nothing of the device is left once the module is gone, after a failed set-up
\* as well: no timer that would fire into it, no gendisk, no queue, no data.
NothingIsLeft ==
    module = "absent" =>
        /\ ~pending /\ ~running
        /\ ~disk.queue /\ ~disk.gd
        /\ data # "held"

\* "Do each segment independently" (line 135): the turn of the loop that is for
\* a segment moves the sectors of this segment, all of them, to or from the
\* place where the bio has them.
TransfersEachSegment ==
    \A u \in User :
        At(u, "xfer") =>
            Moves(u) = {<<k, Due(u) + k>> : k \in 0..(io[u].lens[io[u].segment] - 1)}

\* The device is a removable disk: what a user writes stays, for as long as
\* somebody has it open, and after that until the timer has expired.
Disk == INSTANCE RemovableDisk WITH
    opened <- {u \in User : pc[u] \in {"opened", "xfer", "release"}},
    expired <- media_change
ImplementsDisk == Disk!Spec

\* Every open returns, although it waits for sbull_invalidate to end, which
\* itself waits for the lock.
OpensReturn == \A u \in User : At(u, "del_timer") ~> At(u, "opened")
=============================================================================
