---------------------------- MODULE SbullProofs ----------------------------
(***************************************************************************)
(* Proofs about Sbull, for every number of users, every capacity and all   *)
(* shapes of bios: its type invariant, that the timer is never on while    *)
(* somebody uses the device, that unloading leaves nothing, and that the   *)
(* device implements RemovableDisk whenever it moves the segments of its   *)
(* bios where they belong.  It does so for bios whose segments have one    *)
(* length, any length where the simple mode is all there is; others break  *)
(* it.                                                                     *)
(***************************************************************************)
EXTENDS Sbull, FiniteSetTheorems, WellFoundedInduction, TLAPS

(* Sums over a sequence, by induction *)

\* A set of numbers that has 0, and with each number the next, has them all.
LEMMA Induction ==
    ASSUME NEW S, 0 \in S, \A n \in Nat : n \in S => n + 1 \in S
    PROVE  Nat \subseteq S
<1> DEFINE less == {p \in Nat \X Nat : p[1] < p[2]}
           rest == {n \in Nat : n \notin S}
<1>1. IsWellFoundedOn(less, Nat)
  BY NatLessThanWellFounded DEF OpToRel
<1> SUFFICES ASSUME rest # {} PROVE FALSE
  OBVIOUS
<1>2. PICK n \in rest : \A m \in rest : ~(<<m, n>> \in less)
  <2> HIDE DEF less
  <2>1. rest \subseteq Nat
    OBVIOUS
  <2> HIDE DEF rest
  <2> QED
    BY <1>1, <2>1, WFMin
<1>3. n \in Nat /\ n \notin S /\ n # 0
  OBVIOUS
<1>4. n - 1 \in Nat /\ n - 1 < n
  BY <1>3
<1>5. n - 1 \notin rest
  BY <1>2, <1>3, <1>4
<1>6. (n - 1) + 1 \in S
  BY <1>4, <1>5
<1> QED
  BY <1>3, <1>6

\* The function that Before defines recursively.
LEMMA BeforeDef ==
    ASSUME NEW lens \in Seq(Nat)
    PROVE  Before(lens) =
              [i \in 0..Len(lens) |-> IF i = 0 THEN 0 ELSE Before(lens)[i - 1] + lens[i]]
<1> DEFINE N == Len(lens)
           Sums(f, n) == f = [i \in 0..n |-> IF i = 0 THEN 0 ELSE f[i - 1] + lens[i]]
           S == {n \in Nat : \E f : Sums(f, n)}
<1>1. N \in Nat
  OBVIOUS
<1>2. 0 \in S
  <2>1. Sums([i \in 0..0 |-> 0], 0)
    OBVIOUS
  <2> QED
    BY <2>1
<1>3. ASSUME NEW n \in Nat, n \in S PROVE n + 1 \in S
  <2>1. PICK f : Sums(f, n)
    BY <1>3
  <2> DEFINE g == [i \in 0..(n + 1) |-> IF i = n + 1 THEN f[n] + lens[n + 1] ELSE f[i]]
  <2>2. \A i \in 0..(n + 1) : g[i] = IF i = 0 THEN 0 ELSE g[i - 1] + lens[i]
    <3> SUFFICES ASSUME NEW i \in 0..(n + 1) PROVE g[i] = IF i = 0 THEN 0 ELSE g[i - 1] + lens[i]
      OBVIOUS
    <3>1. CASE i = n + 1
      BY <3>1
    <3>2. CASE i # n + 1
      <4>1. i \in 0..n /\ g[i] = f[i] /\ (i # 0 => i - 1 \in 0..n /\ g[i - 1] = f[i - 1])
        BY <3>2
      <4> QED
        BY <2>1, <4>1
    <3> QED
      BY <3>1, <3>2
  <2>3. Sums(g, n + 1)
    BY <2>2
  <2> HIDE DEF Sums, g
  <2>4. \E h : Sums(h, n + 1)
    BY <2>3
  <2> QED
    BY <2>4
<1>4. \E f : Sums(f, N)
  <2> HIDE DEF S
  <2>1. Nat \subseteq S
    BY <1>2, <1>3, Induction
  <2> QED
    BY <1>1, <2>1 DEF S
<1>5. Before(lens) = CHOOSE f : Sums(f, N)
  BY DEF Before
<1> HIDE DEF Sums
<1>6. Sums(Before(lens), N)
  BY <1>4, <1>5
<1> QED
  BY <1>6 DEF Sums

\* Sectors before a segment: none before the first one, and no fewer before a later one.
LEMMA BeforeFacts ==
    ASSUME NEW lens \in Seq(Nat)
    PROVE  /\ Before(lens) \in [0..Len(lens) -> Nat]
           /\ Before(lens)[0] = 0
           /\ \A i \in 1..Len(lens) : Before(lens)[i] = Before(lens)[i - 1] + lens[i]
           /\ \A i \in 0..Len(lens) : Before(lens)[i] <= Total(lens)
<1> DEFINE N == Len(lens)
           B == Before(lens)
           S == {n \in Nat : n <= N => \A i \in 0..n : B[i] \in Nat /\ B[i] <= B[n]}
<1>1. N \in Nat /\ \A i \in 1..N : lens[i] \in Nat
  OBVIOUS
<1>2. B = [i \in 0..N |-> IF i = 0 THEN 0 ELSE B[i - 1] + lens[i]]
  BY BeforeDef
<1> HIDE DEF B, N
<1>3. DOMAIN B = 0..N /\ B[0] = 0 /\ \A i \in 1..N : B[i] = B[i - 1] + lens[i]
  BY <1>1, <1>2
<1>4. Nat \subseteq S
  <2>1. 0 \in S
    BY <1>3
  <2>2. ASSUME NEW n \in Nat, n \in S PROVE n + 1 \in S
    <3> SUFFICES ASSUME n + 1 <= N PROVE n + 1 \in S
      BY <1>1
    <3>1. B[n] \in Nat /\ \A i \in 0..n : B[i] \in Nat /\ B[i] <= B[n]
      BY <1>1, <2>2
    <3>2. B[n + 1] = B[n] + lens[n + 1] /\ lens[n + 1] \in Nat
      BY <1>1, <1>3
    <3>3. \A i \in 0..(n + 1) : i = n + 1 \/ i \in 0..n
      OBVIOUS
    <3>4. B[n + 1] \in Nat /\ B[n] <= B[n + 1]
      BY <3>1, <3>2
    <3>5. \A i \in 0..(n + 1) : B[i] \in Nat /\ B[i] <= B[n + 1]
      BY <3>1, <3>3, <3>4
    <3> QED
      BY <3>5
  <2> HIDE DEF S
  <2> QED
    BY <2>1, <2>2, Induction
<1>5. \A n \in 0..N : B[n] \in Nat /\ B[n] <= B[N]
  BY <1>1, <1>4
<1>6. B \in [0..N -> Nat]
  BY <1>2, <1>3, <1>5
<1> QED
  BY <1>1, <1>3, <1>5, <1>6 DEF B, N, Total

LEMMA SegmentFacts ==
    ASSUME NEW lens \in Seq(Nat), NEW i \in 1..Len(lens)
    PROVE  /\ lens[i] \in Nat /\ Before(lens)[i - 1] \in Nat
           /\ Before(lens)[i] = Before(lens)[i - 1] + lens[i]
           /\ Before(lens)[i] <= Total(lens) /\ Total(lens) \in Nat
<1> DEFINE N == Len(lens)
           B == Before(lens)
<1>1. N \in Nat /\ lens[i] \in Nat
  OBVIOUS
<1>2. /\ B \in [0..N -> Nat] /\ B[i] = B[i - 1] + lens[i]
      /\ \A n \in 0..N : B[n] <= B[N]
  BY BeforeFacts DEF Total
<1>3. i \in 1..N /\ Total(lens) = B[N]
  BY DEF Total
<1> HIDE DEF N, B
<1>4. i - 1 \in 0..N /\ i \in 0..N /\ N \in 0..N
  BY <1>1, <1>3
<1>5. B[i - 1] \in Nat /\ B[N] \in Nat /\ B[i] <= B[N]
  BY <1>2, <1>4
<1> QED
  BY <1>1, <1>2, <1>3, <1>5 DEF B

-----------------------------------------------------------------------------
(* The invariant *)

\* The users that dev->users counts.
Opened == {u \in User : pc[u] \in {"opened", "xfer", "release"}}

CountInv == IsFiniteSet(Opened) /\ users = Cardinality(Opened)

\* Whoever is inside open or release holds the block layer's lock.
SemInv == \A u \in User : pc[u] \in {"del_timer", "open", "release"} => bd_sem = u

\* A device that is in use has been set up, and the module stays.
InUseInv ==
    /\ \A u \in User : pc[u] # "closed" => module = "loaded" /\ disk.gd
    /\ disk.gd => data = "held"

\* Once the timer is stopped it stays so: until the last release in an open, for
\* good in the exit function.
TimerInv ==
    pending \/ running =>
        /\ module = "loaded" /\ data = "held"
        /\ \A u \in User : pc[u] \notin {"open", "opened", "xfer", "release"}

TimerType == pending \in BOOLEAN /\ running \in BOOLEAN

AbsentInv == module = "absent" => ~disk.queue /\ ~disk.gd /\ data # "held"

\* Of a disk in use the medium is as its user found it.
MediumInv == Opened # {} => ~media_change

BioUnderWay ==
    [start : Sector, lens : Shapes[mode], write : BOOLEAN, sector : Nat, segment : Nat]

\* A transfer is inside its bio, and its bio inside the device.
IoInv ==
    /\ mode \in Modes
    /\ DOMAIN io = User
    /\ \A u \in User :
        IF pc[u] = "xfer"
          THEN /\ io[u] \in BioUnderWay /\ io[u].segment \in DOMAIN io[u].lens
               /\ io[u].start + Total(io[u].lens) <= NSectors
          ELSE io[u] = NoIo

ContentType == content \in [Sector -> {Stale, Blank} \cup (User \X Sector)]

\* The rest of the type invariant.
DeviceType ==
    /\ module \in {"absent", "loaded", "exit"}
    /\ data \in {"null", "held", "freed", "freed_twice"}
    /\ disk \in [queue : BOOLEAN, gd : BOOLEAN]
    /\ lock \in User \cup {Free} /\ bd_sem \in User \cup {Free}

PcType == pc \in [User -> UserPc] /\ media_change \in BOOLEAN

IInv ==
    /\ PcType /\ TimerType /\ CountInv /\ SemInv /\ InUseInv /\ TimerInv
    /\ AbsentInv /\ MediumInv /\ IoInv /\ ContentType /\ DeviceType

-----------------------------------------------------------------------------

LEMMA InitIInv == Init => IInv
<1> SUFFICES ASSUME Init PROVE IInv
  OBVIOUS
<1>1. Opened = {}
  BY DEF Init, Opened
<1>2. CountInv /\ MediumInv
  BY <1>1, FS_EmptySet DEF CountInv, MediumInv, Init
<1> QED
  BY <1>2 DEF Init, IInv, PcType, UserPc, TimerType, SemInv, InUseInv, TimerInv, AbsentInv, IoInv,
     ContentType, DeviceType, Filled

\* dev->users is zero exactly when nobody is counted.
LEMMA NobodyCounted == ASSUME CountInv PROVE users \in Nat /\ (users = 0 <=> Opened = {})
BY FS_EmptySet, FS_CardinalityType DEF CountInv

LEMMA StepPcType == ASSUME PcType, [Next]_vars PROVE PcType'
<1> USE DEF PcType, UserPc, Goto, timerVars
<1>1. CASE SbullInit \/ ExitDelTimer \/ TearDown \/ TimerFires \/ Invalidate
  BY <1>1 DEF SbullInit, ExitDelTimer, TearDown, TimerFires, Invalidate
<1>2. ASSUME NEW u \in User,
             Open(u) \/ OpenDelTimer(u) \/ OpenDevice(u) \/ Release(u) \/ ReleaseDevice(u)
      PROVE  PcType'
  BY <1>2 DEF Open, OpenDelTimer, OpenDevice, Release, ReleaseDevice, timerVars
<1>3. ASSUME NEW u \in User, XferSegment(u) PROVE PcType'
  BY <1>3 DEF XferSegment, timerVars
<1>4. ASSUME NEW u \in User, NEW bio \in Bio, Submit(u, bio) PROVE PcType'
  BY <1>4 DEF Submit, timerVars
<1>5. CASE UNCHANGED vars
  BY <1>5 DEF vars, timerVars
<1> QED
  BY <1>1, <1>2, <1>3, <1>4, <1>5 DEF Next

\* What a step does to those who have the device open and to their number.
LEMMA StepCount == ASSUME PcType, CountInv, InUseInv, [Next]_vars PROVE CountInv'
<1> USE DEF PcType, Opened, At, Goto
<1>1. ASSUME UNCHANGED users, Opened' = Opened PROVE CountInv'
  BY <1>1 DEF CountInv
<1>2. CASE SbullInit
  <2>1. Opened = {} /\ Opened' = Opened
    BY <1>2 DEF SbullInit, InUseInv
  <2> QED
    BY <1>2, <2>1, FS_EmptySet DEF SbullInit, CountInv
<1>3. CASE ExitDelTimer \/ TearDown \/ TimerFires \/ Invalidate
  BY <1>1, <1>3 DEF ExitDelTimer, TearDown, TimerFires, Invalidate
<1>4. ASSUME NEW u \in User, Open(u) \/ OpenDelTimer(u) \/ Release(u) PROVE CountInv'
  <2>1. UNCHANGED users
    BY <1>4 DEF Open, OpenDelTimer, Release
  <2>2. Opened' = Opened
    BY <1>4 DEF Open, OpenDelTimer, Release
  <2> QED
    BY <1>1, <2>1, <2>2
<1>5. ASSUME NEW u \in User, OpenDevice(u) PROVE CountInv'
  <2>1. users' = users + 1 /\ u \notin Opened /\ Opened' = Opened \cup {u}
    BY <1>5 DEF OpenDevice
  <2> HIDE DEF Opened
  <2> QED
    BY <2>1, FS_AddElement DEF CountInv
<1>6. ASSUME NEW u \in User, ReleaseDevice(u) PROVE CountInv'
  <2>1. users' = users - 1 /\ u \in Opened /\ Opened' = Opened \ {u}
    BY <1>6 DEF ReleaseDevice
  <2> HIDE DEF Opened
  <2> QED
    BY <2>1, FS_RemoveElement DEF CountInv
<1>7. ASSUME NEW u \in User, XferSegment(u) PROVE CountInv'
  <2>1. UNCHANGED users /\ Opened' = Opened
    BY <1>7 DEF XferSegment
  <2> QED
    BY <1>1, <2>1
<1>8. ASSUME NEW u \in User, NEW bio \in Bio, Submit(u, bio) PROVE CountInv'
  <2>1. UNCHANGED users /\ Opened' = Opened
    BY <1>8 DEF Submit
  <2> QED
    BY <1>1, <2>1
<1>9. CASE UNCHANGED vars
  BY <1>1, <1>9 DEF vars
<1> QED
  BY <1>2, <1>3, <1>4, <1>5, <1>6, <1>7, <1>8, <1>9 DEF Next

\* The block layer's lock, the life of the module, the timer and the medium.
LEMMA StepTimer ==
    ASSUME PcType, TimerType, CountInv, SemInv, InUseInv, TimerInv, AbsentInv, MediumInv,
           CountInv', [Next]_vars
    PROVE  TimerType' /\ SemInv' /\ InUseInv' /\ TimerInv' /\ AbsentInv' /\ MediumInv'
<1> DEFINE Goal == TimerType' /\ SemInv' /\ InUseInv' /\ TimerInv' /\ AbsentInv' /\ MediumInv'
<1> USE NobodyCounted
    DEF PcType, TimerType, SemInv, InUseInv, TimerInv, AbsentInv, MediumInv, Opened, At, Goto,
        deviceVars, timerVars
<1>1. CASE SbullInit
  <2>1. module = "absent" /\ module' = "loaded" /\ UNCHANGED <<pc, bd_sem, running>>
    BY <1>1 DEF SbullInit
  <2>2. pending' = FALSE /\ media_change' = FALSE /\ running = FALSE
    BY <1>1, <2>1 DEF SbullInit
  <2>3. \A u \in User : pc[u] = "closed"
    BY <2>1
  <2>4. disk'.gd => data' = "held"
    BY <1>1 DEF SbullInit
  <2> QED
    BY <2>1, <2>2, <2>3, <2>4
<1>2. CASE ExitDelTimer
  BY <1>2 DEF ExitDelTimer
<1>3. CASE TearDown
  BY <1>3 DEF TearDown
<1>4. CASE TimerFires
  BY <1>4 DEF TimerFires
<1>5. CASE Invalidate
  BY <1>5 DEF Invalidate
<1>6. ASSUME NEW u \in User, Open(u) PROVE Goal
  BY <1>6, UserAssumption DEF Open
<1>7. ASSUME NEW u \in User, OpenDelTimer(u) PROVE Goal
  BY <1>7 DEF OpenDelTimer
<1>8. ASSUME NEW u \in User, OpenDevice(u) PROVE Goal
  BY <1>8 DEF OpenDevice
<1>9. ASSUME NEW u \in User, Release(u) PROVE Goal
  BY <1>9, UserAssumption DEF Release
<1>10. ASSUME NEW u \in User, ReleaseDevice(u) PROVE Goal
  <2>1. users' = 0 <=> Opened' = {}
    BY FS_EmptySet, FS_CardinalityType DEF CountInv
  <2> QED
    BY <1>10, <2>1 DEF ReleaseDevice
<1>11. ASSUME NEW u \in User, XferSegment(u) PROVE Goal
  BY <1>11 DEF XferSegment
<1>12. ASSUME NEW u \in User, NEW bio \in Bio, Submit(u, bio) PROVE Goal
  BY <1>12 DEF Submit
<1>13. CASE UNCHANGED vars
  BY <1>13 DEF vars
<1> QED
  BY <1>1, <1>2, <1>3, <1>4, <1>5, <1>6, <1>7, <1>8, <1>9, <1>10, <1>11, <1>12, <1>13 DEF Next

\* A bio has segments, each of at least one sector.
LEMMA ShapeFacts ==
    ASSUME mode \in Modes, NEW lens \in Shapes[mode]
    PROVE  /\ lens \in Seq(Nat \ {0}) /\ Len(lens) \in Nat \ {0}
           /\ DOMAIN lens = 1..Len(lens)
           /\ \A i \in DOMAIN lens : lens[i] \in Nat /\ lens[i] > 0
           /\ lens \in Seq(Nat)
<1>1. lens \in Seq(Nat \ {0}) /\ lens # <<>>
  BY ShapesAssumption
<1>2. Len(lens) \in Nat /\ DOMAIN lens = 1..Len(lens)
  BY <1>1
<1>3. \A i \in 1..Len(lens) : lens[i] \in Nat \ {0}
  BY <1>1
<1>4. Len(lens) # 0
  BY <1>1, <1>2
<1> QED
  BY <1>1, <1>2, <1>3, <1>4

\* What is moved for a segment of a transfer is counted in whole sectors.
LEMMA CountFacts ==
    ASSUME IoInv, NEW u \in User, pc[u] = "xfer"
    PROVE  Count(u) \in Nat
<1>1. io[u].lens \in Shapes[mode] /\ io[u].segment \in DOMAIN io[u].lens /\ mode \in Modes
  BY DEF IoInv, BioUnderWay
<1>2. 1 \in DOMAIN io[u].lens
  BY <1>1, ShapeFacts
<1> QED
  BY <1>1, <1>2, ShapeFacts DEF Count

LEMMA StepIo == ASSUME PcType, IoInv, [Next]_vars PROVE IoInv'
<1> USE DEF PcType, At, Goto
<1>1. ASSUME UNCHANGED <<mode, io>>, \A u \in User : pc'[u] = "xfer" <=> pc[u] = "xfer"
      PROVE  IoInv'
  BY <1>1 DEF IoInv, BioUnderWay
<1>2. CASE SbullInit \/ ExitDelTimer \/ TearDown \/ TimerFires \/ Invalidate
  BY <1>1, <1>2 DEF SbullInit, ExitDelTimer, TearDown, TimerFires, Invalidate, deviceVars
<1>3. ASSUME NEW u \in User,
             Open(u) \/ OpenDelTimer(u) \/ OpenDevice(u) \/ Release(u) \/ ReleaseDevice(u)
      PROVE  IoInv'
  BY <1>1, <1>3 DEF Open, OpenDelTimer, OpenDevice, Release, ReleaseDevice, deviceVars
<1>4. ASSUME NEW u \in User, NEW bio \in Bio, Submit(u, bio) PROVE IoInv'
  <2>1. 1 \in DOMAIN bio.lens
    BY ShapeFacts DEF Bio, IoInv
  <2>2. bio.start \in Nat
    BY CapacityAssumption DEF Bio, Sector
  <2>3. [start |-> bio.start, lens |-> bio.lens, write |-> bio.write,
         sector |-> bio.start, segment |-> 1] \in BioUnderWay
    BY <2>2 DEF Bio, BioUnderWay
  <2>4. /\ io' = [io EXCEPT ![u] = [start |-> bio.start, lens |-> bio.lens,
                                    write |-> bio.write,
                                    sector |-> bio.start, segment |-> 1]]
        /\ pc' = [pc EXCEPT ![u] = "xfer"] /\ mode' = mode
    BY <1>4 DEF Submit, deviceVars
  <2>5. /\ io'[u] \in BioUnderWay /\ io'[u].segment = 1
        /\ io'[u].lens = bio.lens /\ io'[u].start = bio.start
    BY <2>3, <2>4 DEF IoInv
  <2>6. \A v \in User : v # u => io'[v] = io[v] /\ pc'[v] = pc[v]
    BY <2>4 DEF IoInv
  <2>7. DOMAIN io' = User
    BY <2>4 DEF IoInv
  <2>8. BioUnderWay' = BioUnderWay
    BY <2>4 DEF BioUnderWay
  <2>9. bio.start + Total(bio.lens) <= NSectors
    BY <1>4 DEF Submit
  <2> QED
    BY <2>1, <2>4, <2>5, <2>6, <2>7, <2>8, <2>9 DEF IoInv
<1>5. ASSUME NEW u \in User, XferSegment(u) PROVE IoInv'
  <2>1. pc[u] = "xfer" /\ mode' = mode
    BY <1>5 DEF XferSegment, deviceVars
  <2>2. io[u] \in BioUnderWay /\ io[u].segment \in DOMAIN io[u].lens /\ DOMAIN io = User
    BY <2>1 DEF IoInv
  <2>3. BioUnderWay' = BioUnderWay
    BY <2>1 DEF BioUnderWay
  <2>4. CASE io[u].segment = Len(io[u].lens)
    <3>1. io' = [io EXCEPT ![u] = NoIo] /\ pc' = [pc EXCEPT ![u] = "opened"]
      BY <1>5, <2>4 DEF XferSegment
    <3> QED
      BY <2>1, <2>3, <3>1 DEF IoInv
  <2>5. CASE io[u].segment # Len(io[u].lens)
    <3>1. io' = [io EXCEPT ![u].segment = @ + 1, ![u].sector = @ + Count(u)] /\ pc' = pc
      BY <1>5, <2>5 DEF XferSegment
    <3>2. io[u].lens \in Shapes[mode] /\ mode \in Modes
      BY <2>2 DEF BioUnderWay, IoInv
    <3>3. io[u].segment + 1 \in DOMAIN io[u].lens /\ io[u].segment + 1 \in Nat
      BY <2>2, <2>5, <3>2, ShapeFacts
    <3>4. io[u].sector + Count(u) \in Nat
      BY <2>1, <2>2, CountFacts DEF BioUnderWay
    <3>5. /\ io'[u] = [[io[u] EXCEPT !.segment = @ + 1] EXCEPT !.sector = @ + Count(u)]
          /\ DOMAIN io' = User /\ \A v \in User : v # u => io'[v] = io[v]
      BY <2>2, <3>1
    <3>6. /\ io'[u] \in BioUnderWay /\ io'[u].segment = io[u].segment + 1
          /\ io'[u].lens = io[u].lens /\ io'[u].start = io[u].start
      BY <2>2, <3>3, <3>4, <3>5 DEF BioUnderWay
    <3> QED
      BY <2>1, <2>3, <3>1, <3>3, <3>5, <3>6 DEF IoInv
  <2> QED
    BY <2>4, <2>5
<1>6. CASE UNCHANGED vars
  BY <1>1, <1>6 DEF vars, deviceVars
<1> QED
  BY <1>2, <1>3, <1>4, <1>5, <1>6 DEF Next

\* What a turn of the loop writes are sectors of the bio, which are on the device,
\* or what lies behind the memory of the segment.
LEMMA HeldType ==
    ASSUME IoInv, NEW u \in User, pc[u] = "xfer", NEW k \in Nat
    PROVE  Held(u, k) \in {Stale} \cup (User \X Sector)
<1> DEFINE lens == io[u].lens
           i == io[u].segment
<1>1. /\ lens \in Shapes[mode] /\ mode \in Modes /\ i \in DOMAIN lens /\ io[u].start \in Sector
      /\ io[u].start + Total(lens) <= NSectors
  BY DEF IoInv, BioUnderWay
<1>2. lens \in Seq(Nat) /\ i \in 1..Len(lens) /\ Len(lens) \in Nat
  BY <1>1, ShapeFacts
<1>3. lens[i] \in Nat
  BY <1>2
<1> HIDE DEF lens, i
<1>4. /\ Before(lens)[i - 1] \in Nat /\ Before(lens)[i] = Before(lens)[i - 1] + lens[i]
      /\ Before(lens)[i] <= Total(lens) /\ Total(lens) \in Nat
  BY <1>2, SegmentFacts
<1>5. CASE k < lens[i]
  <2>1. io[u].start \in Nat /\ io[u].start + Before(lens)[i - 1] + k < NSectors
    BY <1>1, <1>3, <1>4, <1>5, CapacityAssumption DEF Sector
  <2>2. Due(u) = io[u].start + Before(lens)[i - 1]
    BY DEF Due, lens, i
  <2>3. Due(u) + k \in Sector
    BY <1>4, <2>1, <2>2, CapacityAssumption DEF Sector
  <2> QED
    BY <1>5, <2>3 DEF Held, lens, i
<1>6. CASE ~(k < lens[i])
  BY <1>6 DEF Held, lens, i
<1> QED
  BY <1>5, <1>6

LEMMA StepContent == ASSUME IoInv, ContentType, [Next]_vars PROVE ContentType'
<1> USE DEF ContentType
<1>1. CASE UNCHANGED content
  BY <1>1
<1>2. CASE content' = Filled(Stale) \/ content' = Filled(Blank)
  BY <1>2 DEF Filled
<1>3. ASSUME NEW u \in User, XferSegment(u) PROVE ContentType'
  <2>1. pc[u] = "xfer" /\ io[u].sector \in Nat
    BY <1>3 DEF XferSegment, At, IoInv, BioUnderWay
  <2>2. Count(u) \in Nat
    BY <2>1, CountFacts
  <2>3. content' = [x \in Sector |-> IF io[u].write /\ \E move \in Moves(u) : move[2] = x
                                       THEN Held(u, x - io[u].sector) ELSE content[x]]
    BY <1>3 DEF XferSegment
  <2>4. ASSUME NEW x \in Sector, NEW move \in Moves(u), move[2] = x
        PROVE  Held(u, x - io[u].sector) \in {Stale, Blank} \cup (User \X Sector)
    <3>1. PICK k \in 0..(Count(u) - 1) : move = <<k, io[u].sector + k>>
      BY DEF Moves
    <3>2. k \in Nat /\ x - io[u].sector = k
      BY <2>1, <2>2, <2>4, <3>1
    <3>3. Held(u, k) \in {Stale} \cup (User \X Sector)
      BY <2>1, <3>2, HeldType
    <3> QED
      BY <3>2, <3>3
  <2> QED
    BY <2>3, <2>4
<1> QED
  BY <1>1, <1>2, <1>3
     DEF Next, vars, SbullInit, ExitDelTimer, TearDown, TimerFires, Invalidate, Open, OpenDelTimer,
         OpenDevice, Release, ReleaseDevice, Submit

LEMMA StepDevice == ASSUME DeviceType, [Next]_vars PROVE DeviceType'
<1> USE DEF DeviceType, deviceVars
<1>1. CASE SbullInit
  <2>1. /\ data' \in {"null", "freed", "held"}
        /\ \E q, g \in BOOLEAN : disk' = [queue |-> q, gd |-> g]
    BY <1>1 DEF SbullInit
  <2>2. module' = "loaded" /\ UNCHANGED <<lock, bd_sem>>
    BY <1>1 DEF SbullInit
  <2> QED
    BY <2>1, <2>2
<1>2. CASE TearDown
  <2>1. data' \in {data, "freed", "freed_twice"}
    BY <1>2 DEF TearDown
  <2>2. /\ module' = "absent" /\ disk' = [queue |-> FALSE, gd |-> FALSE]
        /\ UNCHANGED <<lock, bd_sem>>
    BY <1>2 DEF TearDown
  <2> QED
    BY <2>1, <2>2
<1>3. CASE ExitDelTimer \/ TimerFires \/ Invalidate
  BY <1>3 DEF ExitDelTimer, TimerFires, Invalidate
<1>4. ASSUME NEW u \in User,
             Open(u) \/ OpenDelTimer(u) \/ OpenDevice(u) \/ Release(u) \/ ReleaseDevice(u)
      PROVE  DeviceType'
  BY <1>4 DEF Open, OpenDelTimer, OpenDevice, Release, ReleaseDevice
<1>5. ASSUME NEW u \in User, XferSegment(u) PROVE DeviceType'
  <2>1. UNCHANGED <<module, deviceVars, bd_sem>> /\ lock' \in {lock, Free}
    BY <1>5 DEF XferSegment
  <2> QED
    BY <2>1
<1>6. ASSUME NEW u \in User, NEW bio \in Bio, Submit(u, bio) PROVE DeviceType'
  <2>1. UNCHANGED <<module, deviceVars, bd_sem>> /\ lock' \in {lock, u}
    BY <1>6 DEF Submit
  <2> QED
    BY <2>1
<1>7. CASE UNCHANGED vars
  BY <1>7 DEF vars
<1> QED
  BY <1>1, <1>2, <1>3, <1>4, <1>5, <1>6, <1>7 DEF Next

LEMMA StepIInv == IInv /\ [Next]_vars => IInv'
BY StepPcType, StepCount, StepTimer, StepIo, StepContent, StepDevice DEF IInv

\* What every reachable state satisfies.
THEOREM Invariance == Spec => []IInv
BY InitIInv, StepIInv, PTL DEF Spec

\* Whatever the bios, every step leaves every variable its type: no transfer goes
\* beyond the device, none beyond the segments of its bio.
THEOREM TypeCorrect == Spec => []TypeOK
<1>1. IInv => TypeOK
  <2> SUFFICES ASSUME IInv PROVE TypeOK
    OBVIOUS
  <2>1. users \in Nat
    BY NobodyCounted DEF IInv
  <2>2. \A u \in User : IF At(u, "xfer")
                          THEN /\ io[u].sector \in Nat /\ io[u].lens \in Shapes[mode]
                               /\ io[u].segment \in DOMAIN io[u].lens
                          ELSE io[u] = NoIo
    BY DEF IInv, IoInv, BioUnderWay, At
  <2> QED
    BY <2>1, <2>2 DEF TypeOK, IInv, PcType, TimerType, IoInv, ContentType, DeviceType
<1> QED
  BY <1>1, Invariance, PTL

\* sbull_open, sbull_release and sbull_invalidate: the timer is neither pending
\* nor at work while somebody uses the device.
THEOREM TimerNeverDisturbs == Spec => []TimerIsSane
<1>1. IInv => TimerIsSane
  <2> SUFFICES ASSUME IInv, pending \/ running PROVE users = 0 /\ data = "held"
    BY DEF TimerIsSane
  <2>1. Opened = {}
    BY DEF IInv, TimerInv, Opened
  <2> QED
    BY <2>1, NobodyCounted DEF IInv, TimerInv
<1> QED
  BY <1>1, Invariance, PTL

\* setup_device and sbull_exit: nothing of the device outlives the module.
THEOREM LeavesNothingBehind == Spec => []NothingIsLeft
<1>1. IInv => NothingIsLeft
  BY DEF IInv, NothingIsLeft, TimerInv, AbsentInv, TimerType
<1> QED
  BY <1>1, Invariance, PTL

-----------------------------------------------------------------------------
(* Sbull implements RemovableDisk *)

LEMMA InitDisk == Init => Disk!Init
BY DEF Init, Disk!Init, Filled, Disk!Filled

\* A turn of the loop that moves the sectors of its segment where the bio has
\* them writes, if it writes, these sectors.
LEMMA XferIsWrite ==
    ASSUME IInv, TransfersEachSegment, NEW u \in User, XferSegment(u)
    PROVE  \E range \in SUBSET Sector :
              content' = [x \in Sector |-> IF x \in range THEN <<u, x>> ELSE content[x]]
<1> DEFINE len == io[u].lens[io[u].segment]
           range == {x \in Sector : io[u].write /\ \E move \in Moves(u) : move[2] = x}
<1>1. At(u, "xfer")
  BY DEF XferSegment
<1>2. /\ io[u] \in BioUnderWay /\ io[u].segment \in DOMAIN io[u].lens
      /\ mode \in Modes /\ Count(u) \in Nat
  BY <1>1, CountFacts DEF IInv, IoInv, At
<1>3. len \in Nat /\ len > 0
  BY <1>2, ShapeFacts DEF BioUnderWay
<1>4. io[u].sector \in Nat
  BY <1>2 DEF BioUnderWay
<1>5. Moves(u) = {<<k, Due(u) + k>> : k \in 0..(len - 1)}
  BY <1>1 DEF TransfersEachSegment
<1>6. ASSUME NEW x \in Sector, x \in range
      PROVE  Held(u, x - io[u].sector) = <<u, x>>
  <2>1. PICK move \in Moves(u) : move[2] = x
    BY <1>6
  <2>2. PICK k \in 0..(Count(u) - 1) : move = <<k, io[u].sector + k>>
    BY <2>1 DEF Moves
  <2>3. PICK j \in 0..(len - 1) : move = <<j, Due(u) + j>>
    BY <1>5, <2>1
  <2>4. j = k /\ x = io[u].sector + k /\ x = Due(u) + k
    BY <2>1, <2>2, <2>3
  <2>5. x - io[u].sector = k /\ k < len
    BY <1>2, <1>3, <1>4, <2>2, <2>3, <2>4
  <2> QED
    BY <2>4, <2>5 DEF Held
<1>7. content' = [x \in Sector |-> IF x \in range THEN Held(u, x - io[u].sector) ELSE content[x]]
  BY DEF XferSegment
<1>8. content' = [x \in Sector |-> IF x \in range THEN <<u, x>> ELSE content[x]]
  BY <1>6, <1>7
<1> QED
  BY <1>8

\* Every step is one of the disk or leaves it as it is.
LEMMA StepDisk ==
    ASSUME IInv, TransfersEachSegment, [Next]_vars
    PROVE  [Disk!Next]_(Disk!diskVars)
<1> USE DEF PcType, Opened, At, Goto, Disk!diskVars
<1>0. PcType /\ CountInv /\ MediumInv /\ InUseInv /\ TimerInv
  BY DEF IInv
<1>1. CASE SbullInit
  <2>1. Opened = {} /\ Opened' = {}
    BY <1>0, <1>1 DEF SbullInit, InUseInv
  <2>2. content' = Filled(Stale) /\ media_change' = FALSE
    BY <1>1 DEF SbullInit
  <2>3. Disk!Insert
    BY <2>1, <2>2 DEF Disk!Insert, Filled, Disk!Filled
  <2> QED
    BY <2>3 DEF Disk!Next
<1>2. CASE ExitDelTimer \/ TearDown \/ TimerFires
  BY <1>2 DEF ExitDelTimer, TearDown, TimerFires, timerVars
<1>3. CASE Invalidate
  <2>1. UNCHANGED <<content, pc>> /\ media_change' = (media_change \/ (users = 0 /\ data # "null"))
    BY <1>3 DEF Invalidate
  <2>2. CASE users = 0 /\ data # "null"
    <3>1. Opened = {} /\ Opened' = Opened /\ media_change' = TRUE
      BY <1>0, <2>1, <2>2, NobodyCounted
    <3>2. Disk!Expire
      BY <2>1, <3>1 DEF Disk!Expire
    <3> QED
      BY <3>2 DEF Disk!Next
  <2>3. CASE ~(users = 0 /\ data # "null")
    BY <1>0, <2>1, <2>3
  <2> QED
    BY <2>2, <2>3
<1>4. ASSUME NEW u \in User, Open(u) \/ OpenDelTimer(u) \/ Release(u)
      PROVE  [Disk!Next]_(Disk!diskVars)
  <2>1. UNCHANGED <<content, media_change>>
    BY <1>4 DEF Open, OpenDelTimer, Release, timerVars
  <2>2. Opened' = Opened
    BY <1>0, <1>4 DEF Open, OpenDelTimer, Release
  <2> QED
    BY <2>1, <2>2
<1>5. ASSUME NEW u \in User, OpenDevice(u) PROVE [Disk!Next]_(Disk!diskVars)
  <2>1. u \notin Opened /\ Opened' = Opened \cup {u}
    BY <1>0, <1>5 DEF OpenDevice
  <2>2. CASE users = 0 /\ media_change
    <3>1. Opened = {} /\ content' = Filled(Blank) /\ media_change' = FALSE
      BY <1>0, <1>5, <2>2, NobodyCounted DEF OpenDevice
    <3>2. Opened' = {u}
      BY <2>1, <3>1
    <3>3. Disk!Change(u)
      BY <2>2, <3>1, <3>2 DEF Disk!Change, Filled, Disk!Filled
    <3> QED
      BY <3>3 DEF Disk!Next
  <2>3. CASE ~(users = 0 /\ media_change)
    <3>1. UNCHANGED <<content, media_change>>
      BY <1>5, <2>3 DEF OpenDevice
    <3>2. ~media_change
      BY <1>0, <2>3, NobodyCounted DEF MediumInv
    <3>3. Disk!Open(u)
      BY <2>1, <3>1, <3>2 DEF Disk!Open
    <3> QED
      BY <3>3 DEF Disk!Next
  <2> QED
    BY <2>2, <2>3
<1>6. ASSUME NEW u \in User, ReleaseDevice(u) PROVE [Disk!Next]_(Disk!diskVars)
  <2>1. Opened' = Opened \ {u}
    BY <1>0, <1>6 DEF ReleaseDevice
  <2>2. UNCHANGED <<content, media_change>>
    BY <1>6 DEF ReleaseDevice
  <2>3. Disk!Close(u)
    BY <2>1, <2>2 DEF Disk!Close
  <2> QED
    BY <2>3 DEF Disk!Next
<1>7. ASSUME NEW u \in User, XferSegment(u) PROVE [Disk!Next]_(Disk!diskVars)
  <2>1. PICK range \in SUBSET Sector :
           content' = [x \in Sector |-> IF x \in range THEN <<u, x>> ELSE content[x]]
    BY <1>7, XferIsWrite
  <2>2. u \in Opened /\ Opened' = Opened /\ UNCHANGED media_change
    BY <1>0, <1>7 DEF XferSegment, timerVars
  <2>3. Disk!Write(u, range)
    BY <2>1, <2>2 DEF Disk!Write
  <2> QED
    BY <2>3 DEF Disk!Next
<1>8. ASSUME NEW u \in User, NEW bio \in Bio, Submit(u, bio) PROVE [Disk!Next]_(Disk!diskVars)
  <2>1. UNCHANGED <<content, media_change>>
    BY <1>8 DEF Submit, timerVars
  <2>2. Opened' = Opened
    BY <1>0, <1>8 DEF Submit
  <2> QED
    BY <2>1, <2>2
<1>9. CASE UNCHANGED vars
  BY <1>9 DEF vars, timerVars
<1> QED
  BY <1>1, <1>2, <1>3, <1>4, <1>5, <1>6, <1>7, <1>8, <1>9 DEF Next

\* sbull implements a removable disk as long as sbull_xfer_bio and sbull_transfer
\* move each segment of a bio to its place: that opens, releases, the timer and
\* the transfers of other users come in between, at any moment, loses nothing.
THEOREM RefinementWhileSegmentsMove == Spec /\ []TransfersEachSegment => ImplementsDisk
<1>1. Init => Disk!Init
  BY InitDisk
<1>2. IInv /\ TransfersEachSegment /\ [Next]_vars => [Disk!Next]_(Disk!diskVars)
  BY StepDisk
<1> QED
  BY <1>1, <1>2, Invariance, PTL DEF Spec, ImplementsDisk, Disk!Spec

-----------------------------------------------------------------------------
(* The loop over the segments of a bio *)

\* In the modes whose loop takes the length of every segment from the first one,
\* the segments of a bio have one length.
Uniform ==
    \A m \in Modes \ {"simple"} : \A lens \in Shapes[m] :
        \A i \in DOMAIN lens : lens[i] = lens[1]

\* The loop's variable sector is where the current segment begins.
DueInv == \A u \in User : pc[u] = "xfer" => io[u].sector = Due(u)

\* A turn of the loop goes on by the length of its segment.
LEMMA CountIsLength ==
    ASSUME Uniform, IoInv, NEW u \in User, pc[u] = "xfer"
    PROVE  Count(u) = io[u].lens[io[u].segment]
<1>1. io[u].lens \in Shapes[mode] /\ io[u].segment \in DOMAIN io[u].lens /\ mode \in Modes
  BY DEF IoInv, BioUnderWay
<1> QED
  BY <1>1 DEF Count, Uniform

LEMMA StepDue == ASSUME Uniform, PcType, IoInv, DueInv, [Next]_vars PROVE DueInv'
<1> USE DEF PcType, At, Goto
<1>1. ASSUME UNCHANGED io, \A u \in User : pc'[u] = "xfer" => pc[u] = "xfer" PROVE DueInv'
  BY <1>1 DEF DueInv, Due
<1>2. CASE SbullInit \/ ExitDelTimer \/ TearDown \/ TimerFires \/ Invalidate
  BY <1>1, <1>2 DEF SbullInit, ExitDelTimer, TearDown, TimerFires, Invalidate
<1>3. ASSUME NEW u \in User,
             Open(u) \/ OpenDelTimer(u) \/ OpenDevice(u) \/ Release(u) \/ ReleaseDevice(u)
      PROVE  DueInv'
  BY <1>1, <1>3 DEF Open, OpenDelTimer, OpenDevice, Release, ReleaseDevice
<1>4. ASSUME NEW u \in User, NEW bio \in Bio, Submit(u, bio) PROVE DueInv'
  <2>1. /\ io' = [io EXCEPT ![u] = [start |-> bio.start, lens |-> bio.lens,
                                    write |-> bio.write,
                                    sector |-> bio.start, segment |-> 1]]
        /\ pc' = [pc EXCEPT ![u] = "xfer"]
    BY <1>4 DEF Submit
  <2>2. bio.lens \in Seq(Nat) /\ bio.start \in Nat
    BY ShapeFacts, CapacityAssumption DEF Bio, IoInv, Sector
  <2>3. Before(bio.lens)[0] = 0
    BY <2>2, BeforeFacts
  <2>4. /\ io'[u].sector = bio.start /\ io'[u].start = bio.start
        /\ io'[u].lens = bio.lens /\ io'[u].segment = 1
        /\ \A v \in User : v # u => io'[v] = io[v] /\ pc'[v] = pc[v]
    BY <2>1 DEF IoInv
  <2>5. io'[u].sector = io'[u].start + Before(io'[u].lens)[io'[u].segment - 1]
    BY <2>2, <2>3, <2>4
  <2> QED
    BY <2>4, <2>5 DEF DueInv, Due
<1>5. ASSUME NEW u \in User, XferSegment(u) PROVE DueInv'
  <2>1. pc[u] = "xfer" /\ io[u] \in BioUnderWay /\ DOMAIN io = User /\ mode \in Modes
    BY <1>5 DEF XferSegment, IoInv
  <2>2. CASE io[u].segment = Len(io[u].lens)
    <3>1. io' = [io EXCEPT ![u] = NoIo] /\ pc' = [pc EXCEPT ![u] = "opened"]
      BY <1>5, <2>2 DEF XferSegment
    <3>2. \A v \in User : pc'[v] = "xfer" => v # u /\ pc[v] = "xfer" /\ io'[v] = io[v]
      BY <2>1, <3>1
    <3> QED
      BY <3>2 DEF DueInv, Due
  <2>3. CASE io[u].segment # Len(io[u].lens)
    <3> DEFINE lens == io[u].lens
               i == io[u].segment
    <3>1. io' = [io EXCEPT ![u].segment = @ + 1, ![u].sector = @ + Count(u)] /\ pc' = pc
      BY <1>5, <2>3 DEF XferSegment
    <3>2. /\ lens \in Seq(Nat) /\ i \in 1..Len(lens) /\ Len(lens) \in Nat
          /\ io[u].start \in Nat
      BY <2>1, ShapeFacts, CapacityAssumption DEF BioUnderWay, IoInv, Sector
    <3>3. /\ io'[u] = [[io[u] EXCEPT !.segment = @ + 1] EXCEPT !.sector = @ + Count(u)]
          /\ \A v \in User : v # u => io'[v] = io[v]
      BY <2>1, <3>1
    <3>4. /\ io'[u].segment = i + 1 /\ io'[u].sector = io[u].sector + Count(u)
          /\ io'[u].lens = lens /\ io'[u].start = io[u].start
      BY <2>1, <3>3 DEF BioUnderWay
    <3>5. io[u].sector = io[u].start + Before(lens)[i - 1] /\ Count(u) = lens[i]
      BY <2>1, CountIsLength DEF DueInv, Due
    <3> HIDE DEF lens, i
    <3>6. /\ Before(lens)[i] = Before(lens)[i - 1] + lens[i] /\ lens[i] \in Nat
          /\ Before(lens)[i - 1] \in Nat
      BY <3>2, SegmentFacts
    <3>7. io'[u].sector = io'[u].start + Before(io'[u].lens)[io'[u].segment - 1]
      <4>1. io'[u].segment - 1 = i
        BY <3>2, <3>4
      <4>2. Before(io'[u].lens)[io'[u].segment - 1] = Before(lens)[i]
        BY <3>4, <4>1
      <4>3. io'[u].sector = io[u].start + Before(lens)[i]
        <5>1. io'[u].sector = (io[u].start + Before(lens)[i - 1]) + lens[i]
          BY <3>4, <3>5
        <5>2. (io[u].start + Before(lens)[i - 1]) + lens[i] = io[u].start + Before(lens)[i]
          BY <3>2, <3>6
        <5> QED
          BY <5>1, <5>2
      <4> QED
        BY <3>4, <4>2, <4>3
    <3> QED
      BY <3>1, <3>3, <3>7 DEF DueInv, Due
  <2> QED
    BY <2>2, <2>3
<1>6. CASE UNCHANGED vars
  BY <1>1, <1>6 DEF vars
<1> QED
  BY <1>2, <1>3, <1>4, <1>5, <1>6 DEF Next

\* With that each turn moves its segment, and the test for the end of the device
\* (line 91) does not refuse it.
LEMMA DueMoves ==
    ASSUME Uniform, IoInv, DueInv
    PROVE  TransfersEachSegment
<1> SUFFICES ASSUME NEW u \in User, pc[u] = "xfer"
             PROVE  Moves(u) = {<<k, Due(u) + k>> : k \in 0..(io[u].lens[io[u].segment] - 1)}
  BY DEF TransfersEachSegment, At
<1> DEFINE lens == io[u].lens
           i == io[u].segment
<1>1. /\ lens \in Shapes[mode] /\ mode \in Modes /\ i \in DOMAIN lens /\ io[u].start \in Sector
      /\ io[u].start + Total(lens) <= NSectors
  BY DEF IoInv, BioUnderWay
<1>2. lens \in Seq(Nat) /\ i \in 1..Len(lens) /\ Len(lens) \in Nat /\ io[u].start \in Nat
  BY <1>1, ShapeFacts, CapacityAssumption DEF Sector
<1>3. Count(u) = lens[i] /\ io[u].sector = Due(u) /\ Due(u) = io[u].start + Before(lens)[i - 1]
  BY CountIsLength DEF DueInv, Due
<1> HIDE DEF lens, i
<1>4. /\ lens[i] \in Nat /\ Before(lens)[i - 1] \in Nat
      /\ Before(lens)[i] = Before(lens)[i - 1] + lens[i]
      /\ Before(lens)[i] <= Total(lens) /\ Total(lens) \in Nat
  BY <1>2, SegmentFacts
<1>5. ~(io[u].sector + Count(u) > NSectors)
  <2>1. io[u].sector + Count(u) = io[u].start + Before(lens)[i]
    BY <1>2, <1>3, <1>4
  <2>2. io[u].start + Before(lens)[i] <= io[u].start + Total(lens) /\ Before(lens)[i] \in Nat
    BY <1>2, <1>4
  <2>3. io[u].start + Total(lens) <= NSectors /\ NSectors \in Nat /\ io[u].start \in Nat
        /\ Total(lens) \in Nat
    BY <1>1, <1>2, <1>4, CapacityAssumption
  <2> QED
    BY <2>1, <2>2, <2>3
<1>6. Moves(u) = {<<k, io[u].sector + k>> : k \in 0..(Count(u) - 1)}
  BY <1>5 DEF Moves
<1> QED
  BY <1>3, <1>6 DEF lens, i

\* sbull_xfer_bio, sbull_xfer_request and sbull_transfer: bios whose segments have
\* one length are transferred segment by segment to their place, and in the simple
\* mode all bios are.
THEOREM MovesEachSegment == ASSUME Uniform PROVE Spec => []TransfersEachSegment
<1>1. Init => DueInv
  BY DEF Init, DueInv
<1>2. IInv /\ DueInv /\ [Next]_vars => DueInv'
  BY StepDue DEF IInv
<1>3. IInv /\ DueInv => TransfersEachSegment
  BY DueMoves DEF IInv
<1> QED
  BY <1>1, <1>2, <1>3, Invariance, PTL DEF Spec

\* sbull implements a removable disk for such bios: what was written is lost only
\* when the medium is changed, some time after the last user has closed it.
THEOREM Refinement == ASSUME Uniform PROVE Spec => ImplementsDisk
BY MovesEachSegment, RefinementWhileSegmentsMove, PTL
=============================================================================
