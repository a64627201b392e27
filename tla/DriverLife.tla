----------------------------- MODULE DriverLife -----------------------------
(***************************************************************************)
(* The life of each of the drivers of DriverTable: its init function runs, *)
(* with every step that can fail failing or not, then, if there is no      *)
(* error and nobody has it open, its exit function.  All the while a user  *)
(* may open what is registered and call it, and what comes by itself may   *)
(* come: interrupts, the work of threads and workqueues, notifications.    *)
(*                                                                         *)
(* The module's code is there until init has failed or exit has returned,  *)
(* and whatever runs it later runs what is no longer there.                *)
(***************************************************************************)
EXTENDS DriverTable, DebugTree

VARIABLES
    driver,     \* the driver this behaviour is of
    phase,      \* where its module is
    todo,       \* the steps of its init or exit function yet to come
    held,       \* what it has taken and not given back
    walk,       \* debugfs_tranverse
    user,       \* what a user has open, or Nobody
    pending,    \* the tasklet is scheduled
    failed,     \* some step has failed
    wrong       \* what has gone wrong

lifeVars == <<driver, phase, todo, held, walk, user, pending, failed, wrong>>

Nobody == One("nobody")

\* What a user opens; the rest of what brings in calls comes by itself.
Opened == {"chrdev", "cdev", "misc", "disk"}

Uses == Drivers[driver].uses
Entries == DOMAIN Uses \cap held

\* The directories there are.
Tree == [dentries |-> held \cap Dirs, up |-> DirParent, born |-> DirBorn]

Kinds == {"chrdev", "cdev", "region", "data", "thread", "wq", "notifier", "misc", "irq", "tasklet",
          "major", "rdev", "queue", "gd", "disk", "space", "rd", "file",
          "dir_a", "dir_b1", "dir_b2", "dir_c1", "dir_c2"}

LifeTypeOK ==
    /\ driver \in DOMAIN Drivers
    /\ phase \in {"out", "loading", "live", "unloading", "gone", "oops"}
    /\ phase \in {"out", "live", "gone"} => todo = <<>>
    /\ phase \in {"loading", "unloading"} => todo # <<>>
    /\ held \subseteq Kinds \X (0..2) /\ IsTree(Tree)
    /\ walk.on => todo # <<>> /\ Head(todo).op = "walk"
    /\ user \in DOMAIN Uses \cup {Nobody}
    /\ pending \in BOOLEAN /\ failed \in BOOLEAN
    /\ wrong \subseteq {"early", "absent", "misfreed", "gone"}

LifeInit ==
    /\ driver \in DOMAIN Drivers
    /\ phase = "out" /\ todo = <<>> /\ held = {} /\ walk = NoWalk
    /\ user = Nobody /\ pending = FALSE /\ failed = FALSE /\ wrong = {}

-----------------------------------------------------------------------------
(* The init and exit functions, a step at a time.                          *)

Now(ops) == todo # <<>> /\ Head(todo).op \in ops
What == Head(todo).what

Load ==
    /\ phase = "out" /\ phase' = "loading"
    /\ todo' = Drivers[driver].load
    /\ UNCHANGED <<driver, held, walk, user, pending, failed, wrong>>

Unload ==
    /\ phase = "live" /\ user = Nobody
    /\ phase' = "unloading" /\ todo' = Drivers[driver].exit
    /\ UNCHANGED <<driver, held, walk, user, pending, failed, wrong>>

Acquire ==
    /\ Now({"try", "ask", "may", "sure"})
    /\ held' = held \cup {What} /\ todo' = Tail(todo)
    /\ UNCHANGED <<driver, phase, walk, user, pending, failed, wrong>>

Refuse ==
    /\ \/ Now({"try", "ask"}) /\ todo' = Head(todo).to
       \/ Now({"ask", "may"}) /\ todo' = Tail(todo)
    /\ failed' = TRUE
    /\ UNCHANGED <<driver, phase, held, walk, user, pending, wrong>>

Touch ==
    /\ Now({"use"})
    /\ IF What \in held
       THEN todo' = Tail(todo) /\ UNCHANGED <<phase, wrong>>
       ELSE phase' = "oops" /\ todo' = <<>> /\ wrong' = wrong \cup {"absent"}
    /\ UNCHANGED <<driver, held, walk, user, pending, failed>>

Release ==
    /\ Now({"drop", "put", "misfree"})
    /\ held' = IF Now({"misfree"}) THEN held ELSE held \ {What}
    /\ wrong' = IF Now({"misfree"}) \/ (Now({"drop"}) /\ What \notin held)
                THEN wrong \cup {"misfreed"} ELSE wrong
    /\ todo' = Tail(todo)
    /\ UNCHANGED <<driver, phase, walk, user, pending, failed>>

TestStep ==
    /\ Now({"test"})
    /\ \/ todo' = Tail(todo) /\ UNCHANGED failed
       \/ todo' = Head(todo).to /\ failed' = TRUE
    /\ UNCHANGED <<driver, phase, held, walk, user, pending, wrong>>

Finish ==
    /\ Now({"return", "fail"})
    /\ phase' = IF Now({"return"}) /\ phase = "loading" THEN "live" ELSE "gone"
    /\ todo' = <<>>
    /\ UNCHANGED <<driver, held, walk, user, pending, failed, wrong>>

(* debugfs: a dentry that has been removed is not to be touched.           *)
RemoveTree ==
    /\ Now({"remove"})
    /\ IF What \in held
       THEN held' = held \ Subtree(Tree, What) /\ UNCHANGED wrong
       ELSE wrong' = wrong \cup {"absent"} /\ UNCHANGED held
    /\ todo' = Tail(todo)
    /\ UNCHANGED <<driver, phase, walk, user, pending, failed>>

WalkTree ==
    /\ Now({"walk"})
    /\ IF What \notin held
       THEN wrong' = wrong \cup {"absent"} /\ todo' = Tail(todo) /\ UNCHANGED walk
       ELSE /\ UNCHANGED wrong
            /\ IF walk.done
               THEN walk' = NoWalk /\ todo' = Tail(todo)
               ELSE /\ walk' = IF walk.on THEN WalkStep(Tree, walk) ELSE WalkFrom(Tree, What)
                    /\ UNCHANGED todo
    /\ UNCHANGED <<driver, phase, held, user, pending, failed>>

ModuleStep ==
    \/ Load \/ Unload \/ Acquire \/ Refuse \/ Touch \/ Release \/ TestStep \/ Finish
    \/ RemoveTree \/ WalkTree

-----------------------------------------------------------------------------
(* What comes in.                                                          *)

\* The driver's code runs and touches needs.
Runs(needs) ==
    wrong' = wrong \cup
        (IF phase = "gone" THEN {"gone"}
         ELSE IF needs \subseteq held THEN {}
         ELSE IF phase = "loading" THEN {"early"} ELSE {"absent"})

\* try_module_get: not while the module goes.
Open ==
    /\ phase \in {"loading", "live"} /\ user = Nobody
    /\ \E e \in Entries : e[1] \in Opened /\ user' = e
    /\ UNCHANGED <<driver, phase, todo, held, walk, pending, failed, wrong>>

Call ==
    /\ user # Nobody
    /\ Runs(Uses[user])
    /\ UNCHANGED <<driver, phase, todo, held, walk, user, pending, failed>>

Close ==
    /\ user # Nobody /\ user' = Nobody
    /\ Runs({})
    /\ UNCHANGED <<driver, phase, todo, held, walk, pending, failed>>

\* buttons_interrupt schedules the tasklet, where there is one.
Comes ==
    \E e \in Entries :
        /\ e[1] \notin Opened
        /\ Runs(Uses[e])
        /\ pending' = (pending \/ (e[1] = "irq" /\ One("tasklet") \in Uses[e]))
        /\ UNCHANGED <<driver, phase, todo, held, walk, user, failed>>

TaskletFunc ==
    /\ pending /\ pending' = FALSE
    /\ Runs({One("tasklet")})
    /\ UNCHANGED <<driver, phase, todo, held, walk, user, failed>>

LifeNext == ModuleStep \/ Open \/ Call \/ Close \/ Comes \/ TaskletFunc

LifeSpec == LifeInit /\ [][LifeNext]_lifeVars

-----------------------------------------------------------------------------

\* Variables of the module that are initialised and never given back.
Initialised == {One("data"), One("tasklet")}

\* The drivers that undo what has been done when a step of theirs fails, and
\* those that clean up when nothing has failed.
Undo == {"cdev", "cdev_demo", "wait_queue_demo", "wait_queue_test", "add_wait_queue_exclusive"}
CleanUp == Undo \cup {"wait_queue", "kthread_shoud_stop", "buttons", "ramhd_mkreq", "ramhd_req", "ramdisk"}

(* When the module is gone nothing it took is left, what it gave back it   *)
(* had, once, and no user, interrupt or thread ever ran code of it that    *)
(* was gone: for the drivers in Undo whatever fails, for those in CleanUp  *)
(* when nothing does.                                                      *)
LeavesNothing ==
    driver \in Undo \/ (driver \in CleanUp /\ ~failed) =>
        /\ wrong \cap {"misfreed", "gone"} = {}
        /\ phase = "gone" => held \subseteq Initialised /\ ~pending

\* The drivers that are reached while what they touch is not yet there, and
\* those that touch what is not there any more.
Early == {"wait_queue_consumer", "wait_queue_list", "work_queue", "wait_queue", "wait_queue_demo",
          "wait_queue_test", "add_wait_queue_exclusive", "tasklet"}
Stale == {"ramhd_req", "anon_debug", "anon_debug_32"}

(* When nothing has failed, what comes in finds all that it touches, from  *)
(* the moment a user can open the device on and until it is removed, but   *)
(* for the drivers in Early, and for these from the return of init on.     *)
FindsItsData ==
    ~failed =>
        /\ driver \notin Stale => "absent" \notin wrong
        /\ driver \notin Early \cup Stale => "early" \notin wrong

(* debugfs_tranverse prints every dentry below dir_a once, and a directory *)
(* after what is in it, whichever of the other four directories are        *)
(* missing.  (Where dir_a is, there is an oops before the walk.)           *)
ListsTheTree == walk.done => Lists(Tree, walk.root, walk.out)
=============================================================================
