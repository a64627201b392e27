---------------------------- MODULE DriverTable ----------------------------
(***************************************************************************)
(* What the init and exit functions of the drivers do, step by step, and   *)
(* what comes in through what they register.  A driver is a record of its  *)
(* init function, its exit function, and uses: for everything that brings  *)
(* in calls, interrupts or work, what the code that runs then touches.     *)
(*                                                                         *)
(* Things taken and given back are pairs of a kind and a number.  There    *)
(* are two disks where a driver makes two or four, and two of the eight    *)
(* buttons.                                                                *)
(***************************************************************************)
EXTENDS Integers, Sequences

Thing(kind, i) == <<kind, i>>
One(kind) == Thing(kind, 0)

Step(op, what, to) == [op |-> op, what |-> what, to |-> to]

Try(what, to) == Step("try", what, to)              \* a failure is tested, and goes on with to
Ask(what, to) == Step("ask", what, to)              \* one kind of failure is tested, the other not
May(what) == Step("may", what, <<>>)                \* a failure is not tested
Sure(what) == Step("sure", what, <<>>)              \* cannot fail
Use(what) == Step("use", what, <<>>)                \* an oops or worse, unless it is there
Drop(what) == Step("drop", what, <<>>)              \* gives back
Put(what) == Step("put", what, <<>>)                \* gives back if it is there
Misfree(what) == Step("misfree", what, <<>>)        \* vfree of what kmalloc returned: frees nothing
Test(to) == Step("test", <<>>, to)                  \* a test of something else
Walk(what) == Step("walk", what, <<>>)              \* debugfs_tranverse
Remove(what) == Step("remove", what, <<>>)          \* debugfs_remove_recursive
Never == Step("never", <<>>, <<>>)                  \* waits for what does not come
Return == <<Step("return", <<>>, <<>>)>>
Fail == <<Step("fail", <<>>, <<>>)>>                \* init returns an error

Driver(load, exit, uses) == [load |-> load, exit |-> exit, uses |-> uses]

-----------------------------------------------------------------------------
(* The character devices.  register_chrdev makes the file operations       *)
(* reachable by itself, cdev_add does so for minor 0.  After a failure of  *)
(* cdev_add the number is given back, and init goes on.                    *)

RegisterTest(rest) ==
    <<Try(One("chrdev"), Fail), Try(One("cdev"), <<Drop(One("chrdev"))>> \o rest)>> \o rest

UnregisterTest == <<Drop(One("cdev")), Drop(One("chrdev"))>>

Reached == {One("chrdev"), One("cdev")}

WaitQueueConsumer ==
    Driver(RegisterTest(<<Sure(One("data")), May(One("thread")), Use(One("thread"))>> \o Return),
           UnregisterTest \o Return,
           [e \in Reached \cup {One("thread")} |-> {One("data")}])

WaitQueueList == WaitQueueConsumer

WorkQueue ==
    Driver(RegisterTest(<<Sure(One("data")), May(One("wq"))>> \o Return),
           UnregisterTest \o Return,
           [e \in Reached \cup {One("wq")} |->
               IF e \in Reached THEN {One("data"), One("wq")} ELSE {One("data")}])

WaitQueue ==
    Driver(RegisterTest(<<Sure(One("data"))>> \o Return), UnregisterTest \o Return,
           [e \in Reached |-> {One("data")}])

KthreadShoudStop ==
    Driver(RegisterTest(<<May(One("thread")), Use(One("thread"))>> \o Return),
           UnregisterTest \o <<Drop(One("thread"))>> \o Return,
           [e \in Reached \cup {One("thread")} |-> {}])

Completion ==
    Driver(RegisterTest(<<May(One("thread"))>> \o Return),
           UnregisterTest \o <<Never>> \o Return,
           [e \in Reached \cup {One("thread")} |-> {}])

NotifierChains ==
    Driver(<<Try(One("chrdev"), Fail), Try(One("cdev"), <<Drop(One("chrdev"))>> \o Fail),
             Sure(One("notifier"))>> \o Return,
           <<Drop(One("chrdev"))>> \o Return,
           [e \in Reached \cup {One("notifier")} |-> {}])

Cdev ==
    Driver(<<Try(One("chrdev"), Fail)>> \o Return, <<Drop(One("chrdev"))>> \o Return,
           [e \in {One("chrdev")} |-> {}])

(* rlwait: a region of numbers reaches nothing before cdev_add.            *)
RegisterRlwait ==
    <<Try(One("region"), Fail), Try(One("cdev"), <<Drop(One("region"))>> \o Fail)>>

UnregisterRlwait == <<Drop(One("cdev")), Drop(One("region"))>> \o Return

WaitQueueDemo ==
    Driver(RegisterRlwait \o <<Sure(One("data"))>> \o Return, UnregisterRlwait,
           [e \in {One("cdev")} |-> {One("data")}])

WaitQueueTest == WaitQueueDemo
AddWaitQueueExclusive == WaitQueueDemo

\* Its buffer needs no initialisation.
CdevDemo == Driver(RegisterRlwait \o Return, UnregisterRlwait, [e \in {One("cdev")} |-> {}])

-----------------------------------------------------------------------------
(* The buttons.  The result of misc_register is overwritten by that of     *)
(* request_irq, and a failure of the latter is returned with all else left *)
(* as it is.                                                               *)

Irq(i) == Thing("irq", i)

Buttons ==
    Driver(<<May(One("misc")), Try(Irq(1), Fail), Try(Irq(2), Fail)>> \o Return,
           <<Drop(Irq(1)), Drop(Irq(2)), Drop(One("misc"))>> \o Return,
           [e \in {One("misc"), Irq(1), Irq(2)} |-> {}])

Tasklet ==
    LET failed == <<Sure(One("tasklet"))>> \o Fail IN
    Driver(<<May(One("misc")), Try(Irq(1), failed), Try(Irq(2), failed),
             Sure(One("tasklet"))>> \o Return,
           <<Drop(Irq(1)), Drop(Irq(2)), Drop(One("misc"))>> \o Return,
           [e \in {One("misc"), Irq(1), Irq(2)} |->
               IF e = One("misc") THEN {} ELSE {One("tasklet")}])

-----------------------------------------------------------------------------
(* The RAM disks.  A disk's structure, its data, its queue, its gendisk,   *)
(* and disk, which is in from add_disk to del_gendisk.                     *)

Rdev(i) == Thing("rdev", i)
Data(i) == Thing("data", i)
Queue(i) == Thing("queue", i)
Gd(i) == Thing("gd", i)
Disk(i) == Thing("disk", i)

Both(s) == s[1] \o s[2]
DiskUses(needs) == [e \in {Disk(1), Disk(2)} |-> needs[e[2]]]

(* alloc_ramdev of ramhd_req and ramhd_mkreq, whose result is not looked   *)
(* at: rest is what comes after it in any case.                            *)
ReleaseRdev(i) == IF i = 1 THEN <<>> ELSE <<Drop(Data(1)), Drop(Rdev(1))>>

\* Mutant: the loop starts at 1.
AllocRamdevShifted(i, rest) ==
    <<Try(Rdev(i + 1), ReleaseRdev(i) \o rest),
      Try(Data(i + 1), <<Misfree(Rdev(i + 1))>> \o ReleaseRdev(i) \o rest)>>

AllocRamdev(i, rest) ==
    <<Try(Rdev(i), ReleaseRdev(i) \o rest),
      Try(Data(i), <<Misfree(Rdev(i))>> \o ReleaseRdev(i) \o rest)>>

\* Mutant: the disk first, then what its requests need.
AddDiskFirst(i) ==
    <<Use(Rdev(i)), May(Gd(i)), Use(Gd(i)), Sure(Disk(i)), May(Queue(i)), Use(Queue(i))>>

\* blk_alloc_queue, alloc_disk, add_disk: no result is tested.
AddDiskUntested(i) ==
    <<Use(Rdev(i)), May(Queue(i)), Use(Queue(i)), May(Gd(i)), Use(Gd(i)), Sure(Disk(i))>>

\* Mutant: without put_disk, as in rock_disk.
DeleteDiskKept(i) == <<Drop(Disk(i)), Drop(Queue(i))>>

DeleteDisk(i) == <<Drop(Disk(i)), Drop(Gd(i)), Drop(Queue(i))>>

RamhdExit ==
    Both([i \in 1..2 |-> DeleteDisk(i) \o <<Drop(Data(i)), Drop(Rdev(i))>>])
        \o <<Drop(One("major"))>> \o Return

RamhdMkreq ==
    LET rest == <<May(One("major"))>> \o Both([i \in 1..2 |-> AddDiskUntested(i)]) \o Return IN
    Driver(Both([i \in 1..2 |-> AllocRamdev(i, rest)]) \o rest, RamhdExit,
           DiskUses([i \in 1..2 |-> {Rdev(i), Data(i), Queue(i)}]))

(* The request function goes round its loop again with the request that it *)
(* has just ended: nothing ever holds a second one.                        *)
RamhdReq ==
    LET AddDisk(i) == <<Use(Rdev(i)), May(Queue(i)), Use(Queue(i)),
                        Try(Gd(i), <<Put(Data(i))>> \o Fail), Sure(Disk(i))>>
        rest == <<May(One("major"))>> \o Both([i \in 1..2 |-> AddDisk(i)]) \o Return
    IN
    Driver(Both([i \in 1..2 |-> AllocRamdev(i, rest)]) \o rest, RamhdExit,
           DiskUses([i \in 1..2 |-> {Rdev(i), Data(i), Queue(i), Thing("request", i)}]))

(* ramdisk: the space is a table of its own, tested; the structures are    *)
(* not.                                                                    *)
Space(i) == Thing("space", i)

Ramdisk ==
    LET rest == <<May(One("major"))>> \o Both([i \in 1..2 |-> AddDiskUntested(i)]) \o Return IN
    Driver(<<Try(Space(1), Fail), Try(Space(2), Fail), Try(Rdev(1), rest), Try(Rdev(2), rest)>> \o rest,
           Both([i \in 1..2 |-> DeleteDisk(i)]) \o <<Put(Rdev(1)), Put(Rdev(2)), Drop(Space(1)), Drop(Space(2))>>
               \o <<Drop(One("major"))>> \o Return,
           DiskUses([i \in 1..2 |-> {Rdev(i), Space(i), Queue(i)}]))

(* rock_disk: one array rd for all disks.  unset_device frees a place in   *)
(* it with vfree, and leaves the disk as it is.                            *)
RockDisk ==
    LET Unset(i) == (IF i = 1 THEN <<>> ELSE <<Misfree(One("rd"))>>) \o <<Drop(One("major"))>> \o Fail
        SetupDevice(i) ==
            <<Try(Data(i), Unset(i)), Try(Queue(i), <<Drop(Data(i))>> \o Unset(i)),
              May(Gd(i)), Use(Gd(i)), Sure(Disk(i))>>
    IN
    Driver(<<Try(One("major"), Fail), Try(One("rd"), <<Drop(One("major"))>> \o Fail)>>
               \o Both([i \in 1..2 |-> SetupDevice(i)]) \o Return,
           Both([i \in 1..2 |-> <<Drop(Disk(i)), Drop(Data(i))>>])
               \o <<Drop(One("rd")), Drop(One("major"))>> \o Return,
           DiskUses([i \in 1..2 |-> {One("rd"), Data(i), Queue(i)}]))

-----------------------------------------------------------------------------
(* anon_debug and anon_debug_32.  A file is made and looked at, then a     *)
(* tree of five directories.  A failure of debugfs_create_dir is an error  *)
(* pointer, which IS_ERR finds, or NULL, which it lets through.  The       *)
(* result for dir_c2 is not tested: the test is of dir_c1 again.           *)
(*                                                                         *)
(* For a parent that is NULL debugfs takes its root, so that what is below *)
(* a missing dir_b1 is below dir_a no more.                                *)

DirA == One("dir_a")
DirB1 == One("dir_b1")
DirB2 == One("dir_b2")
DirC1 == One("dir_c1")
DirC2 == One("dir_c2")

Dirs == {DirA, DirB1, DirB2, DirC1, DirC2}

DirBorn == [d \in Dirs |-> CASE d = DirA -> 1 [] d = DirB1 -> 2 [] d = DirB2 -> 3
                              [] d = DirC1 -> 4 [] d = DirC2 -> 5]
DirParent == [d \in Dirs |-> CASE d = DirA -> One("root") [] d \in {DirB1, DirB2} -> DirA
                                [] d \in {DirC1, DirC2} -> DirB1]

TestAnonInodefs == <<May(One("file")), Use(One("file")), Test(Fail)>>

CreateTestTree ==
    <<Ask(DirA, Fail), Ask(DirB1, <<Put(DirA)>> \o Fail),
      Ask(DirB2, <<Put(DirB1), Put(DirA)>> \o Fail),
      Ask(DirC1, <<Put(DirB2), Put(DirB1), Put(DirA)>> \o Fail), May(DirC2)>>

\* dir_a is read before the first walk, whether it is there or not.
TestDebugfs == CreateTestTree \o <<Use(DirA), Walk(DirA), Remove(DirA), Walk(DirA)>>

\* The directory is removed once more on exit.
AnonDebug == Driver(TestAnonInodefs \o TestDebugfs \o Return, <<Remove(DirA)>> \o Return, <<>>)
AnonDebug32 == Driver(TestAnonInodefs \o TestDebugfs \o Return, Return, <<>>)

-----------------------------------------------------------------------------

Drivers ==
    [wait_queue_consumer |-> WaitQueueConsumer, wait_queue_list |-> WaitQueueList,
     work_queue |-> WorkQueue, wait_queue |-> WaitQueue, kthread_shoud_stop |-> KthreadShoudStop,
     completion |-> Completion, notifier_chains |-> NotifierChains, cdev |-> Cdev,
     wait_queue_demo |-> WaitQueueDemo, wait_queue_test |-> WaitQueueTest,
     add_wait_queue_exclusive |-> AddWaitQueueExclusive, cdev_demo |-> CdevDemo,
     buttons |-> Buttons, tasklet |-> Tasklet,
     ramhd_mkreq |-> RamhdMkreq, ramhd_req |-> RamhdReq, ramdisk |-> Ramdisk,
     rock_disk |-> RockDisk, anon_debug |-> AnonDebug, anon_debug_32 |-> AnonDebug32]
=============================================================================
