# Verification of the drivers of nfsroot

The repository is the root file system of an ARM board (S3C6410), served over
NFS. Most of it is configuration, binaries and the Qtopia desktop. What is
programmed here is `code/`: some fifty small Linux kernel modules, each of which
explores one kernel mechanism. This directory holds TLA+ models of them, the TLC
configurations that check the models, and TLAPS proofs.

Paths below are relative to the repository's root, `src/`.

## Inventory

Each driver is a module of its own; two of them never share state. Inside a
driver the actors are the user tasks that make system calls, kernel threads,
the workqueue's thread, timers and interrupts. They interact through a wait
queue, a lock and a list or a buffer.

| component | state | operations | who interacts, and what is hard |
|---|---|---|---|
| consumer thread (`code/wait_queue_consumer`, `code/wait_queue_list`) | list of work nodes, spinlock, wait queue, the thread's state and its loop variables | `my_write`, `mythread` | writers append and wake, the thread sleeps and drains; lost wake-ups, the lock dropped inside the iteration |
| workqueue (`code/work_queue`) | list, spinlock, queued works | `my_write`, `mythread` as the work's function | one work handles many nodes; a node without a work would stay |
| waiting writers (`code/wait_queue`) | list, spinlock, wait queue, task states | `my_read`, `my_write` | an unlocked test, one wake-up that wakes all, a fault that leaks the lock, a task state that leaks to user mode |
| rlwait (`code/wait_queue_demo`, `code/wait_queue_test`) | `r_len`, `r_flag`, mutex, wait queue, file offsets | `rlwait_read`, `rlwait_write` | signals in the sleep, unlocking on every exit path, unsigned lengths |
| rlwait, exclusive (`code/add_wait_queue_exclusive`) | `r_flag`, wait queue of exclusive entries | `rlwait_read`, `rlwait_write` | no lock at all; a wake-up wakes one reader only |
| threads and completions (`code/kthread_shoud_stop`, `code/completion`, `code/3.14/*`, `code/kernel_thread`, `code/time_after`, `code/pid`) | the thread's life, stop flag, completion, jiffies | `mythread`, init, exit | `kthread_stop` against the thread's sleep, waiting for a thread that never ends, wrap of jiffies |
| sbull (`code/sbull`) | users, media_change, timer, data, queue | open, release, revalidate, invalidate, requests, set-up, tear-down | the timer against open and release; failures of the set-up |
| RAM disks (`code/ramdisk`, `code/ramhd_req`, `code/ramhd_mkreq`, `code/rock_disk`) | per disk its structure, data, queue, gendisk | set-up, tear-down, requests | a disk is reachable from `add_disk` on; unwinding of a set-up half done |
| rlfs (`code/rlfs_18`, `code/rlfs_32`) | one file, its buffer, its page, its size | load, open, read, write | opens, reads and writes without a lock, user copies that sleep or end early |
| debugfs trees (`code/anon_debug`, `code/anon_debug_32`) | dentry tree | create, walk, remove | a walk without a stack; creations whose failure is not found |
| buttons (`code/buttons`, `code/tasklet`) | irqs, a misc device, tasklet | irq handler, tasklet, init, exit | interrupts and tasklets during init and exit |
| plain devices (`code/cdev_demo`, `code/cdev`, `code/notifier_chains`) | registrations, a buffer | init, exit, calls | calls during init, failures half way |
| every driver above | what init has taken and exit gives back | init, exit | failures of any step; what is reached too early or too late |
| the rest (kobjects, namespaces, fork, rlimit) | none | straight-line calls | nothing |

What makes each correct: an item that is accepted is handled once, in order and
eventually; nobody sleeps while what he waits for is there and no wake-up is on
its way; locks exclude and are dropped on every path; every call returns that
should; a counter never wraps; what is set up is torn down once, and is there as
long as it can be reached; a file holds what was written.

## Modules

| module | what it is |
|---|---|
| `KernelSync` | the kernel services the drivers rest on: task states, `wake_up` on ordinary and on exclusive entries. Not in the repository: modelled from how the drivers use it |
| `WorkFifo` | abstract specification: a queue of work items, each handled once, in order; `FairSpec` adds that none is left |
| `ConsumerThread` | `wait_queue_consumer` and `wait_queue_list` |
| `MCConsumerThread` | its instance for TLC |
| `ConsumerThreadProofs` | its theorems |
| `WorkQueue` | `work_queue` |
| `WriterQueue` | `wait_queue` |
| `WriterQueueProofs` | its theorems |
| `RlWait` | `wait_queue_demo` and `wait_queue_test` |
| `RlWaitProofs` | its theorems |
| `RlWaitExclusive` | `add_wait_queue_exclusive` |
| `RlWaitExclusiveProofs` | its theorems |
| `ThreadLife` | the drivers about one thread: `kthread_shoud_stop`, `completion`, `kernel_thread`, `pid`, `time_after`, `3.14/*` |
| `ThreadLifeProofs` | its theorems |
| `RemovableDisk` | abstract specification: what is written stays until the medium is changed, which happens to a closed disk only |
| `Sbull` | `sbull` |
| `MCSbull` | its instances for TLC: bios whose segments have one length, and bios whose segments do not |
| `SbullProofs` | its theorems |
| `RlFs` | `rlfs_18` and `rlfs_32` |
| `MCRlFs` | its instance for TLC, with the symmetry and the view |
| `RlFsProofs` | its theorems |
| `DriverTable` | the init and exit functions of twenty drivers as sequences of steps, and what comes in through each thing they register |
| `DebugTree` | the walk `debugfs_tranverse` over a tree of dentries, and what a walk is to print |
| `DriverLife` | the life of each driver in the table: loading, failing, being called, unloading |
| `DriverProofs` | the theorems about the last two, and about `WorkQueue` |

Definitions whose comment begins with "Mutant" are not part of the model. Each is
a form of the definition after it with a plausible bug, and shows that some
property notices: `PROJECT.json` says which.

### How the models are cut into steps

`pc[t]` is the point that task t has reached, named after the call it is about
to make. A step runs up to the next point where another actor's step could make
a difference: the taking of a lock, an access to shared state outside one, the
setting of a task state, `schedule()`. Code between `spin_lock` and `spin_unlock`
that runs through without sleeping is one step, except where something in the
section is a hazard of its own (the drain, the copy to the user): there the lock
is a variable that holds its owner.

`schedule()` is a step whose guard is that the task's state is `TASK_RUNNING`.
A task whose state is `TASK_INTERRUPTIBLE` before `schedule()` is still running;
the kernel does not take a preempted task off the run queue whatever its state,
so preemption is just the interleaving of steps. On the way back to user mode
it does: that is the action `Deschedule` of `WriterQueue`.

Calls that fail before they touch shared state (no memory, a bad user pointer in
`my_write` of the two consumers) leave the modelled state as it was and are left
out; failures that do touch it (`TakeFault`, `FillFault`, the fault in `Commit`,
the fault in `CopyFromUser`) are in.

### ConsumerThread

`mythread` is `SetState`, `AddWait`, then `FindEmpty` or `FindWork`, `Resume`,
`RemoveWait`, and the drain `DrainOne`, `DrainLock`, `DrainDone`. `my_write` is
`Write`, `AppendNode`, `WakeUp` and, in the "while" driver, `Timeout`. The
variable `drain` is fixed by `Init` and says which driver runs: "while" is
`wait_queue_consumer`, whose loop tests `list_empty`, "safe" is `wait_queue_list`,
whose loop keeps `entry` and `temp` across the dropped lock. What is freed is
`Current`, what is unlinked is `head.next`: two expressions in the code, and two
in the model. A node is identified by its writer and a number; its data is not
looked at by the code but to print it.

### WorkQueue

`RunWork`, `TakeLock`, `DrainOne`, `DrainDone` are the workqueue's thread in
`mythread`; `Write`, `AppendNode`, `QueueWork` are `my_write`. Every work is a
fresh one with the same function, so the queue of works is a number.

### WriterQueue

`my_read` is `Read`, then `FindEmpty`, or `FindNode` and `Take` or `TakeFault`,
then `WakeUp`. `my_write` is `Write`, `SetState`, `TestList`, `Resume`,
`RemoveWait`, `CopyFromUser`, `AppendNode`. `Deschedule` and `GetBack` are what
the state left behind by line 113 does to the task in user mode; `Signal` ends a
sleep.

### RlWait

`rlwait_read` is `Read`, `EnterRead`, the loop `FindData`, `GiveUp`, `Sleep`,
`Resume`, `Relock`, `Abort`, then `Clip`, `Commit`, `LeaveRead`; `rlwait_write` is
`Write`, `EnterWrite`, `Fill` or `FillFault`, `WakeUp`. `Seek` is the client's. The
mutex is a Boolean, since `mutex_unlock` does not look at who calls it; the
history variable `unowned` remembers that somebody unlocked it without having
it. `r_len` is taken modulo `Word`, as the unsigned long it is. The bytes are left
out: both calls copy to or from the start of the buffer whatever the offset, so
the data a reader gets depends on the last write alone, and nothing in the code
branches on it. The writer's early return with an offset beyond the buffer
changes nothing and is the absence of a step.

### RlWaitExclusive

`rlwait_read` is `Read`, `TestFlag`, `SetState`, `Resume`, `Leave`; `rlwait_write` is
`Write` and `WakeUp`. The queue is a sequence, since an exclusive wake-up goes by the
order; `Leave` takes one entry out of it, as `list_del` does. `Signal` marks a reader: `schedule()` then returns at once,
and as the loop never asks for signals the reader spins through it.

### ThreadLife

What nine drivers do is a record each: what the loop in `mythread` tests, how it
sleeps, whether it ends, how the thread is made and what the exit function waits
for. `Init` picks one, so a run is over all of them, and an action reads from
the record what the driver does there. `Load`, `LoadFails`, `Exit` are the init
and exit functions; `kthread_stop` is cut in two, `Exit` setting the flag and
`StopWakes` waking the thread, since the thread may test between the two. The
thread is `Kthread`, `Enter`, then `TestStop`, `SetState`, `SetTimer`, `Resume` or
`ResumeTimeout`, or for those that spin `Turn` and `Count`, and `Leave`. Reading
jiffies twice, at the comparison and for the next timeout, is two steps.
`WakeThreadUp` is the insmod of `wake_up_interruptible`.

`oops` is the end of a behaviour: the kernel has used an error for a pointer
(`LoadFails`), a thread that is no more (`Exit`), or code that is no more
(`RunsGoneCode`). For a thread that has ended the outcome of `kthread_stop` is
undefined, and `Exit` takes any. The history variable `since` counts the ticks
since a thread last counted.

### Sbull

One device of the driver. `Open`, `OpenDelTimer`, `OpenDevice` are `sbull_open`:
it waits for `sbull_invalidate` outside the lock, then takes it. `Release`,
`ReleaseDevice` are `sbull_release`, `TimerFires` and `Invalidate` the timer.
`bd_sem` is not the driver's: the block layer calls open and release of a device
one at a time. `SbullInit` is the loading with every point where `setup_device`
gives up, `ExitDelTimer` and `TearDown` the unloading.

`Submit` starts a bio or request and `XferSegment` is one turn of the loop over
its segments, the copy of a segment being one step. The variable `mode` is the
driver's `request_mode`. With a queue the lock is held throughout, without one
it is not taken at all, so that transfers of several users overlap. A sector of
data is named after its writer and its place: enough to see that data moved to
a wrong place, or from behind the end of a segment. `Count` is where the modes
differ: the block layer keeps `current_nr_sectors` right from segment to segment,
`bio_cur_sectors` does not move.

In `ImplementsDisk` a disk is open for a user from the end of `sbull_open` to
that of `sbull_release`, and due for a change while `media_change` is set.

### RlFs

`Register`, `Mount`, `MountFails`, `CreateFile` are `rlfs_init`. `OpenTest`, `OpenSet`,
`OpenFails` are `rlfs_open`: the test of the buffer, and the store of a new one once
it has been allocated, which may sleep. Two opens may both find none; the second to
store its own (`OpenSet`) loses the first with what was written to it. A buffer is
named after the client whose open allocated it: a client's open allocates one at most,
as it does so only while none has been stored. `rlfs_read` is `Read`, `Clip`, `Cut`, `Load`, `ReadByte`,
`ReadEnd`, where `Clip` and `Cut` use the size they read anew or the one read
before, as the compiler likes; `rlfs_write` is `Write`, `Alloc`, `Check`, `Start`,
`WriteByte` or `WriteFault`, `SetSize`. `Alloc` takes any of `Page` that is neither
the buffer's page nor one that somebody copies from or to, zeroed: a page that was lost
to a racing allocation is never met again, and its name is. A byte is named after its
writer and its index in what he wrote: that tells every byte of the file apart. A write
copies to the start of the page, whatever its offset, so what the file should hold is a
writer and a length (`last`), of which the first `zeroed` bytes have been overwritten by
zeroes, and, while one client copies alone (`solo`), what he has copied (`FileByte`).
The page NULL ends the client ("oops"); `starved` remembers that a failed allocation was
stored over a page.

`known` is false only from where two copy to the file at the same time, or one
allocates the page while another copies, until a write has copied alone. Everything else
is accounted for: `OpenSet` empties the file if its open began when there was no buffer
(`first`), and may not otherwise; `Alloc` zeroes all of it if its write began when there
was no page, and may not otherwise, and takes the page away if it fails (`starved`);
`WriteFault` zeroes what it should have copied, also where it copies nothing and returns
`-EINVAL`; `SetSize` makes what was copied the file. What opens, reads and writes that are
refused before they copy do, the property forbids to matter.

### DriverTable, DebugTree, DriverLife

A driver is a record: the steps of `load` and `exit`, and `uses`, which gives for
everything registered what the code behind it touches. A step takes a thing, with
a failure that is tested ("try", with the steps that follow it), not tested
("may"), tested or not as it comes ("ask") or impossible ("sure"); touches a thing, which is an oops if it is not
there ("use"); gives a thing back ("drop", or "put" where it tests that it is there);
calls `vfree` on what `kmalloc` returned ("misfree"); or is the walk or the removal of
the debugfs tree. `DriverLife` executes the steps one at a time (`Acquire`, `Refuse`,
`Touch`, `Release`, `TestStep`, `RemoveTree`, `WalkTree`, `Finish`) while a user opens,
calls and closes what is registered (`Open`, `Call`, `Close`), interrupts, works and
threads run (`Comes`) and a tasklet runs some time after it was scheduled
(`TaskletFunc`). An open disk or device keeps the module from being unloaded, as
`try_module_get` does. The first read of a disk is made by `add_disk` itself; here a
user may make it right after.

Two disks stand for two or four and two buttons for eight: the loops are over
disks or buttons that are alike, and a failure is at the first or a later one.
`debugfs_create_dir` fails with an error pointer or with NULL, and the demos test with
`IS_ERR`, which finds the former alone. So each of their first four directories is taken
with "ask": a failure leads to the label that undoes the ones before, with
`debugfs_remove`, which does nothing for NULL ("put"), or it is not noticed and the next
directory is made. For the parent NULL debugfs takes its root, so what should be below a
missing `dir_b1` is not below `dir_a`, is not walked and is not removed: in `Tree` its
parent is not among the dentries. With `dir_a` missing, `dir_a->d_sb` is an oops before
the first walk ("use"). `walk` is `debugfs_tranverse`: `dir` is what is left of the list that the code's `dir`
points into, so `ListEntry` and `EndOfList` are the two branches of its loop. As
`d_alloc` puts a new dentry first, the order of a list is that of its dentries' making,
the newest first, and `born` numbers them: what is left of a list is a set, and the
next entry its newest.

What the threads, works and file operations do besides touching their data is in
the modules above; here it is a call, at any time.

## Runs

| run | shows |
|---|---|
| `consumer_thread` | both drivers, two writers with two writes each: `NoLostWakeup`, `LockDiscipline`, `DrainsAwake`, `UnlinksWhatItFrees`, and `ImplementsFifo`: the driver implements `WorkFifo!FairSpec` |
| `work_queue` | two writers with two writes each: `WorkComes`, `ImplementsFifo` |
| `writer_queue` | two readers, two writers with two writes each: `NoLostWakeup`, `WakesAll`, `DeliversInOrder` (`WorkFifo!Spec`, without fairness: nothing makes a client read) |
| `rlwait` | two readers, one of which may be signalled, one writer, two calls each, a buffer of three bytes and calls for two, so that calls fit, are cut and miss: `LockedOut`, `NoUnderflow`, `NoLostWakeup`, `ReadsReturn`: a read returns or sleeps beside an empty buffer |
| `rlwait_exclusive` | three readers and a writer, any number of calls: `WokenReaderReturns`, `ReadsReturn` |
| `thread_life` | each of the nine drivers, loaded and unloaded any number of times, from every value of jiffies: `UnloadWaits`, `StopReturns`, `CountsApart`, `KeepsCounting` |
| `sbull` | two users, the timer and the loader, in the three modes, on bios with segments of one length (of any, in the simple mode): `TimerIsSane`, `NothingIsLeft`, `TransfersEachSegment`, `OpensReturn`, and `ImplementsDisk` (`RemovableDisk!Spec`) |
| `rlfs` | two clients and the loading: `FileHoldsLastWrite` across racing opens, allocations and faults, `ReadSeesFile`, `OopsOnlyWhenStarved` |
| `driver_life` | each of the twenty drivers, with every step failing or not: `LeavesNothing`, `FindsItsData`, `ListsTheTree` |
| `rlwait_killed_reader` | violated: a killed reader unlocks the mutex of another task |
| `rlwait_exclusive_lone` | violated: a write between a reader's test and its `set_current_state` is lost on it |
| `sbull_uneven_segments` | violated: every segment is moved with the length of the first |

Every module has one type invariant, `TypeOK`, or `LifeTypeOK` in `DriverLife`, whose
theorems share a module with those of `WorkQueue`.

### What the code does otherwise than it says

Found by runs that are violated:

1. `code/wait_queue_demo/wait_queue.c:82,87` say "Make sure this process can be
   killed." A killed reader leaves by the label `singal`, which unlocks the mutex
   that it released at line 84. If another task is inside, a third one gets in.
2. `code/add_wait_queue_exclusive/wait_queue.c:2` says "read processes block until
   the buffer is not empty." A reader that has tested `r_flag` and not yet set
   its state is not woken, and sleeps although the buffer has been filled.
3. `code/sbull/sbull.c:135` says "Do each segment independently." Line 138 takes the
   number of sectors from `bio_cur_sectors(bio)`, the length of the first segment,
   on every turn of the loop. If a bio's segments differ, part of one is not
   moved, or memory behind it is, and the rest lands on the wrong sectors.

Read off the models, with no run of their own: `code/wait_queue/cdev.c:92` says
"链表空的时候才能写" (write only when the list is empty), but the test at line 93 is
not under the lock and is not made again after `schedule()`, so writers that race,
or that one `wake_up` wakes together, all append; `code/wait_queue_demo/wait_queue.c:2`
says "A read process blocks until the buffer is not empty", but `RL_WR_DONE` is never
cleared (`clear_rl_write_done` has no caller), so reads block only before the first
write. `ReadsReturn` takes no side here: a read of a buffer that has been emptied may
return nothing or sleep on. `code/anon_debug/anon_debug.c:127-151` and the same tests of
`anon_debug_32` log a directory that could not be made, but a NULL passes them.

### What loading and unloading comes to

`LeavesNothing` and `FindsItsData` are stated over the sets `Undo`, `CleanUp`, `Early`,
`Stale` of `DriverLife`, which say how far each driver gets. A driver with one more
promise, or a set with one more driver, would be violated:

* Whatever fails, nothing is left by `cdev`, `cdev_demo` and the three `rlwait` drivers
  (`Undo`). The drivers made on the pattern of `wait_queue` go on after a failed
  `cdev_add` with the number given back, and give it back again on exit
  (`code/wait_queue/cdev.c`, `test_init`); `buttons` and `tasklet` lose the result of
  `misc_register`; the RAM disks go on with structures that a failed `alloc_ramdev`
  has freed.
* When nothing fails, `wait_queue`, `kthread_shoud_stop`, `buttons`, `ramhd_mkreq`,
  `ramhd_req` and `ramdisk` leave nothing either (`CleanUp`). `wait_queue_consumer` and
  `wait_queue_list` leave their thread, `work_queue` its workqueue, `notifier_chains`
  its notifiers and its cdev, `tasklet` a scheduled tasklet, `rock_disk` queues and
  gendisks, `anon_debug` and `anon_debug_32` the file they make first; `completion`
  waits for ever.
* Eight drivers are reachable before what they touch is initialised (`Early`): the
  seven whose `test_init` or `rlwait_init` initialises the list, lock or queue after
  `cdev_add`, and `tasklet`, whose interrupts come before `tasklet_init`.
* In `ramhd_req` the request function goes round with a request it has ended, and
  `anon_debug` and `anon_debug_32` walk the tree again after they have removed it
  (`Stale`).

### Bounds

`MaxWrites` and `MaxCalls` bound the calls of a task; everything else is finite by
itself. Two writers are enough for the races of writers with each other and with
the one consumer, since a step of a writer looks at no more than the list, the
lock and the queue; two writes each let a task meet its own leftovers (a stray
state, an offset, a node on the list). Two readers are what it takes for one to
be in the mutex when another unlocks it, or for two sleepers to be woken
together; three, on exclusive entries, for one to sleep behind another while a
third joins. `Word` is 16 instead of 2^32: large enough that additions do not
wrap within the bound on calls, and a subtraction below zero would show. In
`RlWait` a read and a write ask for two of the three bytes; seeks go to the
start and beyond the end.

In `thread_life` a second has two ticks and jiffies 16 values, so that the
longest period, three seconds, is below half the range, but not by much;
jiffies starts anywhere and wraps as often as it likes. That a thread which
spins gets the processor before the clock is half way round is assumed
(`MaxLag`): `time_after` cannot work otherwise, and on the board half way round
is months. The count is taken modulo 2, as only its changing matters. In
`sbull` the device has three sectors and a bio one or two segments of one or two
sectors: a bio can be at either end or leave a sector alone, and a segment can
be longer or shorter than the one before it. Two users are enough for one to
be the first or last while the other is there, or is inside open.

In `rlfs` two clients make any number of calls; a page has three bytes, so that an
offset can be at its start, inside (2) and at its end (3), and a count of one or
three bytes fits, is cut or misses. Two clients are what every race in the three
functions takes: a third could only repeat the part of one of the two, and the
theorems are for any number. Three pages are enough for every allocation to find one:
the buffer has one and each client may still copy from or to one, and the client that
allocates does not. Clients are symmetric, and so are pages. The view leaves out bytes that
nobody can reach: those of buffers and pages that were lost, and what a read has
copied if its file has changed meanwhile, of which no property speaks.
`driver_life` needs no bound: a driver is loaded and unloaded once, a user has one
thing open, and that each driver starts from nothing makes a second life like
the first, but for what the first one left.

### Fairness

A task inside a call takes its next step if it can for ever (weak fairness of
the steps of each actor): the kernel's scheduler runs every runnable task. A
spinlock or a mutex is only ever held for a bounded number of steps (but for the
leak of `TakeFault`), and calls are bounded in the runs that have liveness
properties and locks, so that no strong fairness of the locks is needed. No
call, seek or signal is fair: clients need not come. `RlWaitExclusive` has no
bound on calls, and its liveness property `ReadsReturn` assumes, in its own
premise, that writes keep coming.

In `ThreadLife` the thread, the two halves of `kthread_stop`, the clock and the
timers go on; nobody need load, unload or wake. In `Sbull` the timer's function
and the steps of open and of transfers are weakly fair, and `OpenDevice` and
`ReleaseDevice` strongly: they wait for a spinlock that others take again and
again, and on the board's one processor a task that holds a spinlock is not
preempted, so whoever gets to `spin_lock` gets the lock. Submitting, opening and
closing are not fair.

`CHECK_DEADLOCK FALSE` stands where a system may really stop: no client calls,
and threads and readers wait; in `ThreadLife`, after an oops; in `RlFs`, when mounting
fails or both clients have met the page NULL; in `DriverLife`, when the module is
gone, and in the exit of `completion`. `RlWaitExclusive` and `Sbull` never stop. `RlFs`
and `DriverLife` have no liveness properties: nothing in them waits for anything.

## Proofs

`ConsumerThreadProofs` proves, for every number of writers and writes:

* `Invariance`: the inductive invariant `IInv`,
* `TypeCorrect`, `WakeupsAreNotLost`, `LockIsHeldToUnlink`, `DrainIsAwake`,
  `FreesWhatItUnlinks`: the invariants of the run `consumer_thread`,
* `Refinement`: both drivers implement `WorkFifo!Spec`.

The assumptions are those of `ConsumerThread`: the thread, the writers, the free
lock and the list's sentinel are different things and the bound is a number.

The invariants of the run are not inductive. That a wake-up is not lost needs
that the thread is on the queue exactly from `add_wait_queue` to
`remove_wait_queue` (`QueuedInv`): the wake-up a writer owes must find it. That the
"safe" drain frees what it unlinks needs that the node noted in `temp` is the first
of the list when the lock is taken again (`SafeInv`), and this needs that the
list has no duplicates (`DistinctInv`), since the iterator looks a node's
successor up; and that needs that the node a writer is about to append is newer
than all of his on the list (`FreshInv`). The lock's discipline says that no
append comes between while the drain is inside, and the thread's being awake
during the drain (`AwakeInv`) closes the circle. Each conjunct has a lemma of its
own with one step per action.

`DriverProofs` proves of `WorkQueue` `TypeCorrect`, `AWorkAlwaysComes` and `Refinement`,
for every number of writers and writes. `WorkComes` needs that the worker holds the
lock exactly while it is inside the body of its loop (`LockInv`): else a node could
be appended after the worker has found the list empty and before it is done. The
type invariant needs `StartedInv`: what is appended is a node of a write that was
begun.

`WriterQueueProofs` proves `TypeCorrect`, `WakeupsAreNotLost` and `Delivery`, with
faults, signals and stray task states, for every number of readers, writers and
writes. `NoLostWakeup` becomes inductive with `QueuedInv`, which ties the wait
queue to the writer's place in `my_write`. A reader that is copying holds the
lock, so the list is still not empty when it unlinks (`TakeInv`).

`ThreadLifeProofs` proves, for every HZ and every width of jiffies that has room
for three seconds in half its range,

* `TypeCorrect` and `CodeOutlivesThread` (`UnloadWaits`),
* `NeverEarly`: the action property `CountsApart`.

The latter rests on two invariants about the clock. `SpinInv`: modulo the word,
`timeout` is a second after the last count. `TimerInv`: a sleep's `timeout` is a period
after some moment since the last count. "Modulo the word" is written as a
difference that is zero or plus or minus the word (`Same`), which makes the step
of the clock, with its wrap, a matter of linear arithmetic (`SameTick`), and
`TimeAfterFacts` says when the sign bit of the difference tells the truth. That a
sleeper is awake only when it is time or `kthread_stop` was called is `SleepInv`,
and needs that `kthread_stop` sets the flag first (`StopInv`). The assumption is
`TimeAssumption`.

`RlWaitProofs` proves `TypeCorrect`, `LocksOut`, `NeverWraps` and `WakeupsAreNotLost`: all
the invariants of the run `rlwait`, for every number of readers and writers, every
buffer, and all sizes and offsets. `LockInv` says that the mutex is locked while a
task is inside, until a killed reader unlocks it; with it a reader between `Clip` and
`Commit` is alone with the length it has read. `QueuedInv` says that a reader's entry
is on the queue from inside the mutex to its return, so that every wake-up reaches
every sleeper. The assumptions are `TaskAssumption`, `BufferAssumption` and
`BoundAssumption`.

`RlWaitExclusiveProofs` proves `TypeCorrect` and `WakeupsAreUsed` (`WokenReaderReturns`)
for every number of readers and writers. A writer about to wake the queue has set the
flag (`FlagInv`). That no reader has two entries on the queue, which is part of the
type, needs that who is not inside `rlwait_read` has none (`QueuedInv`), and what the
queue is after an entry has left from its middle (`RemoveOnce`).

`SbullProofs` proves, for every number of users, every capacity and all shapes of bios,

* `TypeCorrect`. A transfer that has lost its way, as `sbull_uneven_segments` shows one,
  still moves no sector from or to a place behind the device: that is line 91's test,
  and the type of what the device holds rests on it (`ContentType`).
* `TimerNeverDisturbs` (`TimerIsSane`) and `LeavesNothingBehind` (`NothingIsLeft`). The
  invariant of the timer reaches further than the property: from the `del_timer_sync`
  of an open to the last release, and from that of the exit function on, it is off
  (`TimerInv`). That `users` is zero exactly when nobody has the device open is
  `CountInv`, about the cardinality of a set that is finite since it grows by one at a
  time. `SemInv`, the block layer's lock, keeps an open out of the last release.
  `InUseInv`: a device in use has been set up, and its module stays.
* `MovesEachSegment` (`TransfersEachSegment`), for bios whose segments have one length,
  and in the simple mode for all bios (`Uniform`). The loop's `sector` is the start of
  the bio plus the lengths of the segments already moved (`DueInv`), and since the bio is
  within the device, so is each segment, and line 91 refuses none. The sums are the
  recursive function `Before`; that it has the value its definition says, and grows
  (`BeforeDef`, `SegmentFacts`), is an induction over the segments.
* `Refinement`: `Spec => ImplementsDisk` for the same bios: whatever opens, releases,
  expiries and transfers of other users come in between, the device is the disk.
  `RefinementWhileSegmentsMove` says this of bios of any shape, for the behaviours in
  which each segment goes to its place: so the length that `sbull_uneven_segments`
  shows to be wrong is all that keeps the driver from being a disk. `MediumInv` (the
  medium of a disk in use is as its user found it) and `IoInv` (a transfer is inside
  its bio) are what they need beside the above.

That bios with uneven segments are excluded is no convenience: the run
`sbull_uneven_segments` violates the property with one.

`RlFsProofs` proves, for every number of clients, every size of a page and all offsets
and counts, that `IInv` is an invariant, and from it `TypeCorrect`, `HoldsLastWrite`,
`ReadsSeeTheFile` and `OopsNeedsStarvation`: all the properties of the run `rlfs`. The
conjuncts of `IInv` beside the type and the file:

* `BufInv`, `CountInv`: a copy has a buffer and a page and stays inside the page; the
  type of the copied bytes rests on them.
* `UnusedInv`: a buffer about to be stored is a fresh one. Without it an open could
  make a writer's private buffer the file's.
* `FirstInv`: only a call that began when there was nothing allocates: every client
  that is about to is in `first`. This is what the tests of the code at the beginning
  of open and write are for, and what confines the losses to the first opens and the first
  allocations.
* `SoloInv`: who is alone in copying copies to the page the file has, and nobody else
  copies to the file. So the write that makes the file known leaves no other copy going
  on.
* `PageInv`: until an allocation starves somebody, bytes come with a page.
* `QuietInv`: while the file is known nobody copies to it but the one who is alone.
* `CopyInv`: that one finds in the page what it has copied so far, also where the file
  was not known before.
* `ReadInv`: a read since whose beginning nothing has changed has the buffer, the size
  and the page of the file, its offset is inside, and what it has copied are the file's
  bytes.

Each has a lemma with one step per action. The assumption is `RlFsAssumption`.

`DriverProofs` has the theorems about `debugfs_tranverse`, for every finite tree and
every dentry of it to start from (`IsTree`: a parent is older than its children):

* `WalkListsTree`: a walk that is done has printed every dentry of the subtree once,
  and a directory after all that is in it. `ListsTheTree` is this of the driver's tree.
* `WalkEnds`: after at most twice as many turns of the loop as the subtree has dentries
  it is done.

The walk has no stack, and `WalkInv` says what stands for one. `Inside` are the
directories from `parent` up to `root`. Of the list that `dir` points into all that
has been passed is printed (`ListInv`); of each list further up, all that is newer
than the directory the walk is inside of (`ListsInv`), so that going on behind that
directory neither skips nor repeats; and of a directory that the walk is not inside of,
either everything is printed or nothing (`WholeInv`). A turn of the loop goes down,
prints an entry or goes up (`StepDown`, `StepEntry`, `StepUp`), each time with
`2 * Len(out) + Cardinality(Inside)` larger (`StepProgress`), and at the end of root's
list what is not printed has no oldest dentry (`StepEnd`).

Of `DriverLife` it proves all the invariants of the run `driver_life`. The module has no
constants, so the run and the theorems speak of the same twenty drivers; what the
proofs add is why it is so, in lemmas about pieces of init and exit functions that hold
wherever a driver puts the piece.

* `LifeTypeCorrect` and `TreeIsListed` rest on `TypeInv`. A function is a *program*
  (`IsProgram`): a member of a set of sequences that is closed under going on with the
  rest and under going where a failed step leads, and in which only last steps end. The
  functions of the table are built of blocks, sequences that make a program of any program
  they are put before (`IsBlock`), so that each of them is one (`Programs`). `TreeInv`
  carries the walk: while one is on, the function is at its step, its root is there,
  and `WalkInv` holds of it or it has listed the tree. Nothing removes a directory
  meanwhile since the function that would is the one that walks; and whichever of the five
  directories are there, they are a tree, since a parent is older (`DirsAreATree`).
* `NothingIsLeft` and `DataIsFound` rest on `LifeInv`, which adds `PathInv`. `Safe(d, p, s,
  h, g)` says that what is left of a function, `s`, can be done from `h` on and ends with
  `g` held: it gives back or touches only what is there, at every step all that can come in
  finds what it touches (`Sound`, as far as `Early` and `Stale` promise it), and where a
  step may fail in a driver that undoes, the way the failure leads gives back just what
  is held (`Undoes`). It is a set of pairs of a rest and what is held, closed under steps,
  so that it needs no recursion. There is one lemma for each way of registering
  (`RegisterPath`, `RlwaitPaths`), for making and deleting a disk (`AllocRamdevPath`,
  `AddDiskPath`, `DeleteDiskPath`) and for what is peculiar to a driver; `DriverPaths` collects
  them. `PathInv` says that while nothing has failed the function is on such a path
  (`OnItsWay`), that in a driver that undoes it is on its way back after a failure
  (`Undoing`), and that when the module is gone nobody has it open and nothing that
  is still held brings in calls. The last is what an induction needs beside
  `LeavesNothing`: that nothing is left says nothing of what runs later.

`PathInv` is about eighteen drivers. For the two of debugfs trees neither promise is
made: `anon_debug` walks and removes a tree that may be gone, and leaves directories in
the root of debugfs when `dir_b1` could not be made.

`IsProgram` and `Safe` speak of sets of sequences, which TLC cannot enumerate: the run
checks the four invariants themselves, and the strengthenings are checked by the proofs
alone.

The assumptions of all these modules are about constants only: tasks, lock values
and sentinels are different things, bounds are numbers.

Induction, where a proof needs it (the sums in `SbullProofs`, the turns of a walk in
`DriverProofs`), is by the least element: a set of numbers that has 0 and with each
number the next has all (`Induction`), since one that is missing would have a least.
This covers a recursive function of numbers. It does not cover an operator of the
libraries that is itself recursive over an operator it is given (a fold, `SelectSeq`),
and the models that are proved about do without these.

Every invariant that a passing run checks is stated by a theorem. Left to TLC is
everything about fairness, which the prover cannot reason about: `ImplementsFifo` as a
whole (its safety half is `Refinement`), `WakesAll`, `ReadsReturn`, `StopReturns`,
`KeepsCounting` and `OpensReturn`.

## Not modelled

Parts of modelled components:

* The RAM disks' transfers: `ramhd_make_request`, `rock_make_request` and
  `ramhd_req_func` copy the segments of a bio one behind the other, after one range
  check or none. What of it depends on an order, that the structures are there when a
  request comes, is in `DriverLife`; `sbull`, which does the same with a length of its
  own, is in `Sbull`. The ioctls make up a geometry.
* The buffer of `cdev_demo`: reads and writes copy between the user and its start
  without a lock, as its second line says, and what two of them do at once is any
  mixture of bytes.
* In rlfs: `rl_create_dir` and `rl_mkdir` have no caller. `rlfs_exit` does not run: the
  mount that `kern_mount` makes keeps a reference to the module. An offset below zero
  does not get past `vfs_read` and `vfs_write`.
* `test_notifier`, `notifier_chains/test.c` and `kobj_demo` call one registration
  function each.

Left out for good: `code/wait_event` (does not compile: `muxtex_unlock`), `code/rd`
(does not link as a module), the demos that print the result of one system call, the
user programs (the models' clients make every sequence of calls that they make), and
the root file system itself.

Below the models' level: `hardwork` in `code/work_queue` is allocated with the
size of `struct worker` and never freed; `my_write` of the consumers leaks a node
on a bad user pointer. `my_write` of `code/work_queue` copies as many bytes as the user
asks for into a node that has room for an `int` (`cdev.c:82`): the other three drivers on
such lists cut the count to `SIZE` first, this one defines `SIZE` and does not. The
models carry which node it is and not its bytes, and take a write to be of at most
`SIZE`; no property depends on it. `sbull_ioctl` keeps no state (its geometry takes bytes for
sectors), requests that are not of a file system are ended at once, and
`sbull_exit` unregisters the major number under another name than it was
registered with; all three are read off the lines. `pid` prints its ids where
`kernel_thread` counts.

## Plan

Done: the wait-queue family with the abstract queue it implements, the threads,
sbull with the abstract disk it implements, rlfs with its proofs, and the loading and
unloading of the drivers with the debugfs walk.

Left, in this order:

1. The transfers of the RAM disks.
2. The buffer of `cdev_demo`.

What the proofs leave is under "Proofs" above.

## Running

    tlc -workers 2 -config MCConsumerThread.cfg MCConsumerThread
    tlc -workers 2 -config WorkQueue.cfg WorkQueue
    tlapm ConsumerThreadProofs.tla

and so on for each line of "runs" in `PROJECT.json`.
