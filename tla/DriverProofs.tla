---------------------------- MODULE DriverProofs ----------------------------
(***************************************************************************)
(* Proofs about the drivers as modules that come and go, and about the     *)
(* driver of the workqueue.                                                *)
(*                                                                         *)
(* About DebugTree, for every tree: that the walk ends and lists it.       *)
(* About DriverLife, for every driver of DriverTable: its types, that each *)
(* walk lists the tree as it is, that nothing is left when a module is     *)
(* gone, and that what comes in finds what it touches.                     *)
(* About WorkQueue, for every number of writers and of writes: its type    *)
(* invariant, that a work is coming for every node on the list, that the   *)
(* lock is the worker's exactly while it drains, and that the driver       *)
(* implements a queue of work items.                                       *)
(***************************************************************************)
EXTENDS DriverLife, WorkQueue, FiniteSetTheorems, SequenceTheorems, WellFoundedInduction, TLAPS

-----------------------------------------------------------------------------
(* The debugfs trees, DebugTree.  Least elements of sets of numbers, and   *)
(* induction, which follows from them, come first.                         *)

\* A set of numbers has a least one.
LEMMA Least ==
    ASSUME NEW S \in SUBSET Nat, S # {}
    PROVE  \E m \in S : \A j \in S : m <= j
<1> DEFINE less == {p \in Nat \X Nat : p[1] < p[2]}
<1>1. IsWellFoundedOn(less, Nat)
  BY NatLessThanWellFounded DEF OpToRel
<1>2. PICK m \in S : \A j \in S : ~(<<j, m>> \in less)
  <2> HIDE DEF less
  <2> QED
    BY <1>1, WFMin
<1>3. \A j \in S : ~(j < m)
  BY <1>2
<1> QED
  BY <1>3

\* A set that has 0, and with each number the next, has all of them.
LEMMA Induction ==
    ASSUME NEW S, 0 \in S, \A n \in Nat : n \in S => n + 1 \in S
    PROVE  Nat \subseteq S
<1> DEFINE rest == {n \in Nat : n \notin S}
<1> SUFFICES ASSUME rest # {} PROVE FALSE
  OBVIOUS
<1>1. PICK m \in rest : \A j \in rest : m <= j
  BY Least
<1>2. m \in Nat /\ m \notin S /\ m # 0
  OBVIOUS
<1>3. m - 1 \in Nat /\ ~(m <= m - 1)
  BY <1>2
<1>4. m - 1 \in S
  BY <1>1, <1>3
<1>5. (m - 1) + 1 \in S
  BY <1>3, <1>4
<1> QED
  BY <1>2, <1>5

-----------------------------------------------------------------------------
(* What is above a dentry *)

LEMMA BelowItself == ASSUME NEW t, NEW d \in t.dentries PROVE IsBelow(t, d, d)
BY DEF IsBelow

LEMMA BelowIsDentry ==
    ASSUME NEW t, NEW d \in t.dentries, NEW a, IsBelow(t, d, a)
    PROVE  a \in t.dentries
<1>1. \A e \in t.dentries : t.up[e] \in t.dentries => t.up[e] \in t.dentries
  OBVIOUS
<1> QED
  BY <1>1 DEF IsBelow

LEMMA BelowTransitive ==
    ASSUME NEW t, NEW d, NEW e, NEW a, IsBelow(t, d, e), IsBelow(t, e, a)
    PROVE  IsBelow(t, d, a)
BY DEF IsBelow

LEMMA BelowParent ==
    ASSUME NEW t, NEW d \in t.dentries, t.up[d] \in t.dentries
    PROVE  IsBelow(t, d, t.up[d])
BY DEF IsBelow

\* What is above d is d or above its parent.
LEMMA AboveParent ==
    ASSUME NEW t, NEW d \in t.dentries, NEW a, IsBelow(t, d, a), a # d
    PROVE  t.up[d] \in t.dentries /\ IsBelow(t, t.up[d], a)
<1>1. t.up[d] \in t.dentries
  <2> SUFFICES ASSUME t.up[d] \notin t.dentries PROVE FALSE
    OBVIOUS
  <2>1. {d} \in SUBSET t.dentries /\ d \in {d}
        /\ \A e \in {d} : t.up[e] \in t.dentries => t.up[e] \in {d}
    OBVIOUS
  <2>2. a \in {d}
    BY <2>1 DEF IsBelow
  <2> QED
    BY <2>2
<1>2. ASSUME NEW S \in SUBSET t.dentries, t.up[d] \in S,
             \A e \in S : t.up[e] \in t.dentries => t.up[e] \in S
      PROVE  a \in S
  <2>1. S \cup {d} \in SUBSET t.dentries /\ d \in S \cup {d}
        /\ \A e \in S \cup {d} : t.up[e] \in t.dentries => t.up[e] \in S \cup {d}
    BY <1>2
  <2>2. a \in S \cup {d}
    BY <2>1 DEF IsBelow
  <2> QED
    BY <2>2
<1> QED
  BY <1>1, <1>2 DEF IsBelow

\* What is above d is older.
LEMMA AboveIsOlder ==
    ASSUME NEW t, IsTree(t), NEW d \in t.dentries, NEW a, IsBelow(t, d, a), a # d
    PROVE  a \in t.dentries /\ t.born[a] < t.born[d]
<1> DEFINE S == {e \in t.dentries : t.born[e] <= t.born[d]}
<1>1. d \in S
  BY DEF IsTree
<1>2. ASSUME NEW e \in S, t.up[e] \in t.dentries PROVE t.up[e] \in S
  <2>1. /\ t.born[e] \in Nat /\ t.born[d] \in Nat /\ t.born[t.up[e]] \in Nat
        /\ t.born[t.up[e]] < t.born[e] /\ t.born[e] <= t.born[d]
    BY <1>2 DEF IsTree
  <2>2. t.born[t.up[e]] <= t.born[d]
    BY <2>1
  <2> QED
    BY <1>2, <2>2
<1>3. a \in S
  BY <1>1, <1>2 DEF IsBelow
<1>4. t.born[a] \in Nat /\ t.born[d] \in Nat /\ t.born[a] # t.born[d] /\ t.born[a] <= t.born[d]
  BY <1>3 DEF IsTree
<1> QED
  BY <1>3, <1>4

\* A dentry is not above its parent.
LEMMA ParentIsAbove ==
    ASSUME NEW t, IsTree(t), NEW d \in t.dentries, t.up[d] \in t.dentries
    PROVE  ~IsBelow(t, t.up[d], d)
<1> SUFFICES ASSUME IsBelow(t, t.up[d], d) PROVE FALSE
  OBVIOUS
<1>1. t.born[t.up[d]] < t.born[d] /\ t.born[t.up[d]] \in Nat /\ t.born[d] \in Nat
  BY DEF IsTree
<1>2. d # t.up[d]
  BY <1>1
<1>3. t.born[d] < t.born[t.up[d]]
  BY <1>2, AboveIsOlder
<1> QED
  BY <1>1, <1>3

\* The first of a list is the newest.
LEMMA FirstIsNewest ==
    ASSUME NEW t, IsTree(t), NEW dirs \in SUBSET t.dentries, dirs # {}
    PROVE  /\ First(t, dirs) \in dirs
           /\ \A e \in dirs \ {First(t, dirs)} : t.born[e] < t.born[First(t, dirs)]
<1> DEFINE d == First(t, dirs)
           Newer(x) == {e \in dirs : t.born[e] > t.born[x]}
           all == {Newer(x) : x \in dirs}
<1>1. IsFiniteSet(dirs)
  BY FS_Subset DEF IsTree
<1>2. IsWellFoundedOn(StrictSubsetOrdering(dirs), FiniteSubsetsOf(dirs))
  BY FS_StrictSubsetOrderingWellFounded
<1>3. all \subseteq FiniteSubsetsOf(dirs) /\ all # {}
  <2>1. FiniteSubsetsOf(dirs) = SUBSET dirs
    BY <1>1, FS_FiniteSubsetsOfFinite
  <2>2. all \subseteq SUBSET dirs /\ all # {}
    OBVIOUS
  <2> HIDE DEF all
  <2> QED
    BY <2>1, <2>2
<1>4. PICK U \in all : \A V \in all : ~(<<V, U>> \in StrictSubsetOrdering(dirs))
  <2> HIDE DEF all
  <2> QED
    BY <1>2, <1>3, WFMin
<1>5. PICK x \in dirs : U = Newer(x)
  OBVIOUS
<1>6. \A e \in dirs : t.born[e] <= t.born[x]
  <2> SUFFICES ASSUME NEW e \in dirs, ~(t.born[e] <= t.born[x]) PROVE FALSE
    OBVIOUS
  <2>1. t.born[e] \in Nat /\ t.born[x] \in Nat /\ t.born[e] > t.born[x]
    BY DEF IsTree
  <2>2. \A f \in dirs : t.born[f] \in Nat
    BY DEF IsTree
  <2>3. e \in Newer(x) /\ e \notin Newer(e) /\ Newer(e) \subseteq Newer(x)
    BY <2>1, <2>2
  <2>4. <<Newer(e), Newer(x)>> \in StrictSubsetOrdering(dirs)
    BY <2>3 DEF StrictSubsetOrdering
  <2> QED
    BY <1>4, <1>5, <2>4
<1>7. d \in dirs /\ \A e \in dirs : t.born[e] <= t.born[d]
  BY <1>6 DEF First
<1> HIDE DEF d
<1>8. ASSUME NEW e \in dirs \ {d} PROVE t.born[e] < t.born[d]
  <2>1. t.born[e] \in Nat /\ t.born[d] \in Nat /\ t.born[e] # t.born[d] /\ t.born[e] <= t.born[d]
    BY <1>7, <1>8 DEF IsTree
  <2> QED
    BY <2>1
<1> QED
  BY <1>7, <1>8 DEF d

-----------------------------------------------------------------------------
(* The walk *)

WalkType(t) ==
    [on : BOOLEAN, done : BOOLEAN, root : t.dentries, parent : t.dentries,
     dir : SUBSET t.dentries, out : Seq(t.dentries)]

Printed(w) == {w.out[i] : i \in 1..Len(w.out)}

\* The directories that the walk is inside of.
Inside(t, w) == {a \in Subtree(t, w.root) : IsBelow(t, w.parent, a)}

\* dir is what is left of the list of parent.
PlaceInv(t, w) ==
    /\ w.parent \in Subtree(t, w.root) /\ w.dir \subseteq Subdirs(t, w.parent)
    /\ \A d \in w.dir, e \in Subdirs(t, w.parent) : t.born[e] < t.born[d] => e \in w.dir

\* What has been printed has been left, once, and after all below it.
OutInv(t, w) ==
    /\ Printed(w) \subseteq Subtree(t, w.root) \ Inside(t, w)
    /\ \A i, j \in 1..Len(w.out) : w.out[i] = w.out[j] => i = j
    /\ \A i, j \in 1..Len(w.out) : IsBelow(t, w.out[i], w.out[j]) => i <= j

\* A directory that the walk is not inside of is printed with all that is in it.
WholeInv(t, w) ==
    \A d \in Subtree(t, w.root) \ {w.root} :
        t.up[d] \notin Inside(t, w) => (d \in Printed(w) <=> t.up[d] \in Printed(w))

\* Of the list it is in, all that has been passed is printed.
ListInv(t, w) == \A d \in Subdirs(t, w.parent) : d \in Printed(w) <=> d \notin w.dir

\* Of the lists further up, all that is newer than the directory it is inside of.
ListsInv(t, w) ==
    \A a \in Inside(t, w) \ {w.root} : \A d \in Subdirs(t, t.up[a]) \ {a} :
        d \in Printed(w) <=> t.born[d] > t.born[a]

WalkInv(t, w) ==
    /\ w \in WalkType(t) /\ ~w.done
    /\ PlaceInv(t, w) /\ OutInv(t, w) /\ WholeInv(t, w) /\ ListInv(t, w) /\ ListsInv(t, w)

-----------------------------------------------------------------------------

LEMMA InsideRoot ==
    ASSUME NEW t, IsTree(t), NEW w \in WalkType(t), w.parent = w.root
    PROVE  Inside(t, w) = {w.root} /\ w.root \in Subtree(t, w.root)
<1>1. w.root \in t.dentries
  BY DEF WalkType
<1>2. w.root \in Subtree(t, w.root)
  BY <1>1, BelowItself DEF Subtree
<1>3. ASSUME NEW a \in Subtree(t, w.root), IsBelow(t, w.root, a), a # w.root PROVE FALSE
  <2>1. a \in t.dentries /\ IsBelow(t, a, w.root)
    BY <1>3 DEF Subtree
  <2>2. t.born[a] < t.born[w.root] /\ t.born[w.root] < t.born[a]
    BY <1>1, <1>3, <2>1, AboveIsOlder
  <2>3. t.born[a] \in Nat /\ t.born[w.root] \in Nat
    BY <1>1, <2>1 DEF IsTree
  <2> QED
    BY <2>2, <2>3
<1> QED
  BY <1>1, <1>2, <1>3, BelowItself DEF Inside

\* The start of debugfs_tranverse.
LEMMA StartOfWalk ==
    ASSUME NEW t, IsTree(t), NEW root \in t.dentries
    PROVE  WalkInv(t, WalkFrom(t, root))
<1> DEFINE w == WalkFrom(t, root)
<1>1. /\ w \in WalkType(t) /\ ~w.done /\ w.root = root /\ w.parent = root
      /\ w.dir = Subdirs(t, root) /\ w.out = <<>>
  BY DEF WalkFrom, WalkType, Subdirs
<1> HIDE DEF w
<1>2. Printed(w) = {} /\ 1..Len(w.out) = {}
  BY <1>1 DEF Printed
<1>3. Inside(t, w) = {root} /\ root \in Subtree(t, root)
  BY <1>1, InsideRoot
<1>4. PlaceInv(t, w) /\ OutInv(t, w) /\ ListInv(t, w) /\ ListsInv(t, w)
  BY <1>1, <1>2, <1>3 DEF PlaceInv, OutInv, ListInv, ListsInv
<1>5. WholeInv(t, w)
  BY <1>2 DEF WholeInv
<1> QED
  BY <1>1, <1>4, <1>5 DEF WalkInv, w

\* Where the walk stands in a list.
LEMMA AtEntry ==
    ASSUME NEW t, IsTree(t), NEW w, WalkInv(t, w), w.dir # {}
    PROVE  LET d == First(t, w.dir) IN
           /\ d \in w.dir /\ d \in Subdirs(t, w.parent) /\ d \in Subtree(t, w.root)
           /\ d \notin Printed(w) /\ d \notin Inside(t, w) /\ d # w.root
           /\ t.up[d] = w.parent /\ w.parent \in t.dentries /\ d \in t.dentries
           /\ w.parent \in Inside(t, w)
           /\ \A e \in w.dir \ {d} : t.born[e] < t.born[d]
<1> DEFINE d == First(t, w.dir)
<1>1. w \in WalkType(t) /\ w.dir \in SUBSET t.dentries /\ w.parent \in t.dentries
      /\ w.root \in t.dentries
  BY DEF WalkInv, WalkType
<1>2. d \in w.dir /\ \A e \in w.dir \ {d} : t.born[e] < t.born[d]
  BY <1>1, FirstIsNewest
<1> HIDE DEF d
<1>3. d \in Subdirs(t, w.parent) /\ d \in t.dentries /\ t.up[d] = w.parent /\ d \notin Printed(w)
  BY <1>2 DEF WalkInv, PlaceInv, ListInv, Subdirs
<1>4. w.parent \in Subtree(t, w.root) /\ IsBelow(t, w.parent, w.root)
  BY DEF WalkInv, PlaceInv, Subtree
<1>5. d \in Subtree(t, w.root)
  BY <1>1, <1>3, <1>4, BelowParent, BelowTransitive DEF Subtree
<1>6. ~IsBelow(t, w.parent, d)
  BY <1>1, <1>3, ParentIsAbove
<1>7. d \notin Inside(t, w) /\ d # w.root
  BY <1>4, <1>6 DEF Inside
<1>8. w.parent \in Inside(t, w)
  BY <1>1, <1>4, BelowItself DEF Inside
<1> QED
  BY <1>1, <1>2, <1>3, <1>5, <1>7, <1>8 DEF d

\* A directory with entries: the walk goes down into it.
LEMMA StepDown ==
    ASSUME NEW t, IsTree(t), NEW w, WalkInv(t, w), w.dir # {},
           Subdirs(t, First(t, w.dir)) # {}
    PROVE  /\ WalkInv(t, WalkStep(t, w))
           /\ Inside(t, WalkStep(t, w)) = Inside(t, w) \cup {First(t, w.dir)}
           /\ First(t, w.dir) \notin Inside(t, w)
           /\ WalkStep(t, w).out = w.out
<1> DEFINE d == First(t, w.dir)
           v == WalkStep(t, w)
<1>1. w \in WalkType(t) /\ ~w.done
  BY DEF WalkInv
<1>2. /\ d \in w.dir /\ d \in Subdirs(t, w.parent) /\ d \in Subtree(t, w.root)
      /\ d \notin Printed(w) /\ d \notin Inside(t, w) /\ d # w.root
      /\ t.up[d] = w.parent /\ w.parent \in t.dentries /\ d \in t.dentries
      /\ w.parent \in Inside(t, w)
      /\ \A e \in w.dir \ {d} : t.born[e] < t.born[d]
  BY AtEntry
<1> HIDE DEF d
<1>3. v = [w EXCEPT !.parent = d, !.dir = Subdirs(t, d)]
  BY DEF WalkStep, ListEntry, d
<1>4. /\ v.root = w.root /\ v.parent = d /\ v.dir = Subdirs(t, d) /\ v.out = w.out
      /\ v \in WalkType(t) /\ ~v.done
  BY <1>1, <1>2, <1>3 DEF WalkType, Subdirs
<1> HIDE DEF v
<1>5. Printed(v) = Printed(w)
  BY <1>4 DEF Printed
<1>6. Inside(t, v) = Inside(t, w) \cup {d}
  <2>1. ASSUME NEW a \in Subtree(t, w.root)
        PROVE  IsBelow(t, d, a) <=> a = d \/ IsBelow(t, w.parent, a)
    BY <1>2, AboveParent, BelowItself, BelowParent, BelowTransitive
  <2> QED
    BY <1>2, <1>4, <2>1 DEF Inside
<1>7. \A e \in Subdirs(t, d) : e \notin Printed(w)
  <2> SUFFICES ASSUME NEW e \in Subdirs(t, d) PROVE e \notin Printed(w)
    OBVIOUS
  <2>1. e \in t.dentries /\ t.up[e] = d
    BY DEF Subdirs
  <2>2. IsBelow(t, e, w.root) /\ e \in Subtree(t, w.root)
    BY <1>2, <2>1, BelowParent, BelowTransitive DEF Subtree
  <2>3. e # w.root
    BY <1>2, <2>1, ParentIsAbove DEF Subtree
  <2> QED
    BY <1>2, <2>1, <2>2, <2>3 DEF WalkInv, WholeInv
<1>8. PlaceInv(t, v)
  BY <1>2, <1>4 DEF PlaceInv
<1>9. OutInv(t, v)
  BY <1>2, <1>4, <1>5, <1>6 DEF OutInv, WalkInv
<1>10. WholeInv(t, v)
  BY <1>4, <1>5, <1>6 DEF WholeInv, WalkInv
<1>11. ListInv(t, v)
  BY <1>4, <1>5, <1>7 DEF ListInv
<1>12. ListsInv(t, v)
  <2>1. ASSUME NEW e \in Subdirs(t, w.parent) \ {d} PROVE e \in Printed(w) <=> t.born[e] > t.born[d]
    <3>1. t.born[e] \in Nat /\ t.born[d] \in Nat /\ t.born[e] # t.born[d]
      BY <1>2, <2>1 DEF IsTree, Subdirs
    <3>2. e \in Printed(w) <=> e \notin w.dir
      BY <2>1 DEF WalkInv, ListInv
    <3>3. e \in w.dir <=> t.born[e] < t.born[d]
      BY <1>2, <2>1, <3>1 DEF WalkInv, PlaceInv
    <3> QED
      BY <3>1, <3>2, <3>3
  <2> QED
    BY <1>2, <1>4, <1>5, <1>6, <2>1 DEF ListsInv, WalkInv
<1> QED
  BY <1>2, <1>4, <1>6, <1>8, <1>9, <1>10, <1>11, <1>12 DEF WalkInv, d, v

LEMMA AppendFacts ==
    ASSUME NEW S, NEW s \in Seq(S), NEW e \in S
    PROVE  /\ Append(s, e) \in Seq(S) /\ Len(Append(s, e)) = Len(s) + 1 /\ Len(s) \in Nat
           /\ \A i \in 1..Len(s) : Append(s, e)[i] = s[i]
           /\ Append(s, e)[Len(s) + 1] = e
OBVIOUS

\* What printing a dentry more does to out.
LEMMA PrintOne ==
    ASSUME NEW t, NEW w, WalkInv(t, w), NEW d \in Subtree(t, w.root), d \notin Printed(w),
           \A a \in Printed(w) : ~IsBelow(t, d, a),
           NEW v, v.out = Append(w.out, d)
    PROVE  /\ Len(v.out) = Len(w.out) + 1 /\ Printed(v) = Printed(w) \cup {d}
           /\ \A i, j \in 1..Len(v.out) : v.out[i] = v.out[j] => i = j
           /\ \A i, j \in 1..Len(v.out) : IsBelow(t, v.out[i], v.out[j]) => i <= j
<1>1. w.out \in Seq(t.dentries) /\ d \in t.dentries
  BY DEF WalkInv, WalkType, Subtree
<1>2. /\ v.out \in Seq(t.dentries) /\ Len(v.out) = Len(w.out) + 1 /\ Len(w.out) \in Nat
      /\ \A i \in 1..Len(w.out) : v.out[i] = w.out[i]
      /\ v.out[Len(w.out) + 1] = d
  <2> DEFINE names == Append(w.out, d)
  <2>1. /\ names \in Seq(t.dentries) /\ Len(names) = Len(w.out) + 1 /\ Len(w.out) \in Nat
        /\ \A i \in 1..Len(w.out) : names[i] = w.out[i]
        /\ names[Len(w.out) + 1] = d
    BY <1>1, AppendFacts, Zenon
  <2>2. v.out = names
    OBVIOUS
  <2> HIDE DEF names
  <2> QED
    BY <2>1, <2>2
<1>3. \A i \in 1..Len(v.out) : i \in 1..Len(w.out) \/ i = Len(w.out) + 1
  BY <1>2
<1>4. Printed(v) = Printed(w) \cup {d}
  BY <1>2, <1>3 DEF Printed
<1>5. ASSUME NEW i \in 1..Len(v.out), NEW j \in 1..Len(v.out), v.out[i] = v.out[j] PROVE i = j
  <2>1. CASE i \in 1..Len(w.out) /\ j \in 1..Len(w.out)
    BY <1>2, <1>5, <2>1 DEF WalkInv, OutInv
  <2>2. CASE i = Len(w.out) + 1 \/ j = Len(w.out) + 1
    BY <1>2, <1>3, <1>5, <2>2 DEF Printed
  <2> QED
    BY <1>3, <2>1, <2>2
<1>6. ASSUME NEW i \in 1..Len(v.out), NEW j \in 1..Len(v.out), IsBelow(t, v.out[i], v.out[j])
      PROVE  i <= j
  <2>1. CASE i \in 1..Len(w.out) /\ j \in 1..Len(w.out)
    BY <1>2, <1>6, <2>1 DEF WalkInv, OutInv
  <2>2. CASE j = Len(w.out) + 1
    BY <1>2, <2>2
  <2>3. CASE i = Len(w.out) + 1 /\ j \in 1..Len(w.out)
    BY <1>2, <1>6, <2>3 DEF Printed
  <2> QED
    BY <1>3, <2>1, <2>2, <2>3
<1>7. \A i, j \in 1..Len(v.out) : v.out[i] = v.out[j] => i = j
  BY <1>5
<1>8. \A i, j \in 1..Len(v.out) : IsBelow(t, v.out[i], v.out[j]) => i <= j
  BY <1>6
<1> QED
  BY <1>2, <1>4, <1>7, <1>8

\* An entry without entries of its own is printed.
LEMMA StepEntry ==
    ASSUME NEW t, IsTree(t), NEW w, WalkInv(t, w), w.dir # {},
           Subdirs(t, First(t, w.dir)) = {}
    PROVE  /\ WalkInv(t, WalkStep(t, w))
           /\ Inside(t, WalkStep(t, w)) = Inside(t, w)
           /\ Len(WalkStep(t, w).out) = Len(w.out) + 1
<1> DEFINE d == First(t, w.dir)
           v == WalkStep(t, w)
<1>1. w \in WalkType(t) /\ ~w.done
  BY DEF WalkInv
<1>2. /\ d \in w.dir /\ d \in Subdirs(t, w.parent) /\ d \in Subtree(t, w.root)
      /\ d \notin Printed(w) /\ d \notin Inside(t, w) /\ d # w.root
      /\ t.up[d] = w.parent /\ w.parent \in t.dentries /\ d \in t.dentries
      /\ w.parent \in Inside(t, w)
      /\ \A e \in w.dir \ {d} : t.born[e] < t.born[d]
  BY AtEntry
<1> HIDE DEF d
<1>3. v = [w EXCEPT !.dir = w.dir \ {d}, !.out = Append(w.out, d)]
  BY DEF WalkStep, ListEntry, d
<1>4. /\ v.root = w.root /\ v.parent = w.parent /\ v.dir = w.dir \ {d}
      /\ v.out = Append(w.out, d) /\ v \in WalkType(t) /\ ~v.done
  <2>1. w.out \in Seq(t.dentries) /\ w.dir \ {d} \in SUBSET t.dentries
    BY <1>1 DEF WalkType
  <2>2. Append(w.out, d) \in Seq(t.dentries)
    <3>1. d \in t.dentries
      BY <1>2
    <3> QED
      BY <2>1, <3>1, AppendFacts
  <2> QED
    BY <1>1, <1>3, <2>1, <2>2, Zenon DEF WalkType
<1> HIDE DEF v
<1>5. \A a \in Printed(w) : ~IsBelow(t, d, a)
  <2> SUFFICES ASSUME NEW a \in Printed(w), IsBelow(t, d, a) PROVE FALSE
    OBVIOUS
  <2>1. a # d /\ a \in Subtree(t, w.root) \ Inside(t, w)
    BY <1>2 DEF WalkInv, OutInv
  <2>2. IsBelow(t, w.parent, a)
    BY <1>2, <2>1, AboveParent
  <2> QED
    BY <2>1, <2>2 DEF Inside
<1>6. /\ Len(v.out) = Len(w.out) + 1 /\ Printed(v) = Printed(w) \cup {d}
      /\ \A i, j \in 1..Len(v.out) : v.out[i] = v.out[j] => i = j
      /\ \A i, j \in 1..Len(v.out) : IsBelow(t, v.out[i], v.out[j]) => i <= j
  <2>1. d \in Subtree(t, w.root) /\ d \notin Printed(w) /\ v.out = Append(w.out, d)
    BY <1>2, <1>4
  <2> QED
    BY <1>5, <2>1, PrintOne, SMTT(30)
<1>7. Inside(t, v) = Inside(t, w)
  BY <1>4 DEF Inside
<1>8. PlaceInv(t, v)
  <2>1. ASSUME NEW e \in v.dir, NEW f \in Subdirs(t, w.parent), t.born[f] < t.born[e]
        PROVE  f \in v.dir
    <3>1. f \in w.dir
      BY <1>4, <2>1 DEF WalkInv, PlaceInv
    <3>2. t.born[e] < t.born[d] /\ t.born[e] \in Nat /\ t.born[d] \in Nat /\ t.born[f] \in Nat
      BY <1>2, <1>4, <2>1 DEF IsTree, WalkInv, PlaceInv, Subdirs
    <3>3. f # d
      BY <2>1, <3>2
    <3> QED
      BY <1>4, <3>1, <3>3
  <2> QED
    BY <1>4, <2>1 DEF WalkInv, PlaceInv
<1>9. OutInv(t, v)
  BY <1>2, <1>4, <1>6, <1>7 DEF OutInv, WalkInv
<1>10. WholeInv(t, v)
  <2> SUFFICES ASSUME NEW e \in Subtree(t, w.root) \ {w.root}, t.up[e] \notin Inside(t, w)
               PROVE  e \in Printed(v) <=> t.up[e] \in Printed(v)
    BY <1>4, <1>7 DEF WholeInv
  <2>1. e # d /\ t.up[e] # d
    BY <1>2 DEF Subdirs, Subtree, d
  <2>2. e \in Printed(w) <=> t.up[e] \in Printed(w)
    BY DEF WalkInv, WholeInv
  <2> QED
    BY <1>6, <2>1, <2>2
<1>11. ListInv(t, v)
  BY <1>2, <1>4, <1>6 DEF ListInv, WalkInv
<1>12. ListsInv(t, v)
  <2> SUFFICES ASSUME NEW a \in Inside(t, w) \ {w.root}, NEW e \in Subdirs(t, t.up[a]) \ {a}
               PROVE  e \in Printed(v) <=> t.born[e] > t.born[a]
    BY <1>4, <1>7 DEF ListsInv
  <2>1. e \in Printed(w) <=> t.born[e] > t.born[a]
    BY DEF WalkInv, ListsInv
  <2>2. e # d
    <3> SUFFICES ASSUME t.up[a] = w.parent PROVE FALSE
      BY <1>2 DEF Subdirs
    <3>1. a \in t.dentries /\ IsBelow(t, t.up[a], a) /\ t.up[a] \in t.dentries
      BY <1>2 DEF Inside, Subtree
    <3> QED
      BY <3>1, ParentIsAbove
  <2> QED
    BY <1>6, <2>1, <2>2
<1> QED
  BY <1>4, <1>6, <1>7, <1>8, <1>9, <1>10, <1>11, <1>12 DEF WalkInv, v

\* The end of a list below root.
LEMMA StepUp ==
    ASSUME NEW t, IsTree(t), NEW w, WalkInv(t, w), w.dir = {}, w.parent # w.root
    PROVE  /\ WalkInv(t, WalkStep(t, w))
           /\ Inside(t, WalkStep(t, w)) = Inside(t, w) \ {w.parent}
           /\ w.parent \in Inside(t, w)
           /\ Len(WalkStep(t, w).out) = Len(w.out) + 1
<1> DEFINE p == w.parent
           v == WalkStep(t, w)
<1>1. w \in WalkType(t) /\ ~w.done /\ p \in t.dentries /\ w.root \in t.dentries
  BY DEF WalkInv, WalkType
<1>2. p \in Subtree(t, w.root) /\ IsBelow(t, p, w.root) /\ p \in Inside(t, w)
  BY <1>1, BelowItself DEF WalkInv, PlaceInv, Subtree, Inside
<1>3. t.up[p] \in t.dentries /\ IsBelow(t, t.up[p], w.root) /\ t.up[p] \in Subtree(t, w.root)
  BY <1>1, <1>2, AboveParent DEF Subtree
<1>4. v = [w EXCEPT !.out = Append(w.out, p), !.dir = Siblings(t, p), !.parent = t.up[p]]
  BY DEF WalkStep, EndOfList
<1>5. /\ v.root = w.root /\ v.parent = t.up[p] /\ v.dir = Siblings(t, p)
      /\ v.out = Append(w.out, p) /\ v \in WalkType(t) /\ ~v.done
  <2>1. w.out \in Seq(t.dentries) /\ Siblings(t, p) \in SUBSET t.dentries
    BY <1>1 DEF WalkType, Siblings, Subdirs
  <2>2. Append(w.out, p) \in Seq(t.dentries)
    <3>1. p \in t.dentries
      BY <1>1
    <3> QED
      BY <2>1, <3>1, AppendFacts
  <2> QED
    BY <1>1, <1>3, <1>4, <2>1, <2>2, ZenonT(30) DEF WalkType
<1> HIDE DEF v
<1>6. p \notin Printed(w)
  BY <1>2 DEF WalkInv, OutInv
<1>7. \A a \in Printed(w) : ~IsBelow(t, p, a)
  BY DEF WalkInv, OutInv, Inside
<1>8. /\ Len(v.out) = Len(w.out) + 1 /\ Printed(v) = Printed(w) \cup {p}
      /\ \A i, j \in 1..Len(v.out) : v.out[i] = v.out[j] => i = j
      /\ \A i, j \in 1..Len(v.out) : IsBelow(t, v.out[i], v.out[j]) => i <= j
  <2>1. v.out = Append(w.out, p) /\ p \in Subtree(t, w.root)
    BY <1>2, <1>5
  <2> QED
    BY <1>6, <1>7, <2>1, PrintOne
<1>9. Inside(t, v) = Inside(t, w) \ {p} /\ t.up[p] \in Inside(t, w) \ {p}
  <2>1. ~IsBelow(t, t.up[p], p)
    BY <1>1, <1>3, ParentIsAbove
  <2>2. ASSUME NEW a \in Subtree(t, w.root)
        PROVE  IsBelow(t, t.up[p], a) <=> a # p /\ IsBelow(t, p, a)
    BY <1>1, <1>3, <2>1, AboveParent, BelowParent, BelowTransitive
  <2>3. IsBelow(t, t.up[p], t.up[p])
    BY <1>3, BelowItself
  <2> QED
    BY <1>3, <1>5, <2>2, <2>3 DEF Inside
<1>10. PlaceInv(t, v)
  <2>1. ASSUME NEW d \in Siblings(t, p), NEW e \in Subdirs(t, t.up[p]), t.born[e] < t.born[d]
        PROVE  e \in Siblings(t, p)
    <3>1. /\ t.born[d] < t.born[p] /\ t.born[d] \in Nat /\ t.born[e] \in Nat
          /\ t.born[p] \in Nat
      BY <1>1, <2>1 DEF Siblings, Subdirs, IsTree
    <3>2. t.born[e] < t.born[p]
      BY <2>1, <3>1
    <3> QED
      BY <3>2 DEF Siblings
  <2> QED
    BY <1>3, <1>5, <2>1 DEF PlaceInv, Siblings
<1>11. OutInv(t, v)
  BY <1>2, <1>5, <1>8, <1>9 DEF OutInv, WalkInv
<1>12. WholeInv(t, v)
  <2> SUFFICES ASSUME NEW e \in Subtree(t, w.root) \ {w.root}, t.up[e] \notin Inside(t, w) \ {p}
               PROVE  e \in Printed(v) <=> t.up[e] \in Printed(v)
    BY <1>5, <1>9 DEF WholeInv
  <2>1. CASE t.up[e] = p
    <3>1. e \in Subdirs(t, p)
      BY <2>1 DEF Subdirs, Subtree
    <3>2. e \in Printed(w)
      BY <3>1 DEF WalkInv, ListInv
    <3> QED
      BY <1>8, <2>1, <3>2
  <2>2. CASE t.up[e] # p
    <3>1. e \in Printed(w) <=> t.up[e] \in Printed(w)
      BY <2>2 DEF WalkInv, WholeInv
    <3>2. e # p
      BY <1>9
    <3> QED
      BY <1>8, <2>2, <3>1, <3>2
  <2> QED
    BY <2>1, <2>2
<1>13. ListInv(t, v)
  <2> SUFFICES ASSUME NEW e \in Subdirs(t, t.up[p])
               PROVE  e \in Printed(v) <=> e \notin Siblings(t, p)
    BY <1>5 DEF ListInv
  <2>1. t.born[e] \in Nat /\ t.born[p] \in Nat /\ (t.born[e] = t.born[p] => e = p)
    BY <1>1 DEF Subdirs, IsTree
  <2>2. e # p => (e \in Printed(w) <=> t.born[e] > t.born[p])
    BY <1>2 DEF WalkInv, ListsInv
  <2>3. e \in Siblings(t, p) <=> t.born[e] < t.born[p]
    BY DEF Siblings
  <2> QED
    BY <1>8, <2>1, <2>2, <2>3
<1>14. ListsInv(t, v)
  <2> SUFFICES ASSUME NEW a \in (Inside(t, w) \ {p}) \ {w.root}, NEW e \in Subdirs(t, t.up[a]) \ {a}
               PROVE  e \in Printed(v) <=> t.born[e] > t.born[a]
    BY <1>5, <1>9 DEF ListsInv
  <2>1. e \in Printed(w) <=> t.born[e] > t.born[a]
    BY DEF WalkInv, ListsInv
  <2>2. e # p
    <3> SUFFICES ASSUME t.up[a] = t.up[p] PROVE FALSE
      BY DEF Subdirs
    <3>1. a \in t.dentries /\ IsBelow(t, t.up[p], a)
      BY <1>5, <1>9 DEF Inside, Subtree
    <3> QED
      BY <1>3, <3>1, ParentIsAbove
  <2> QED
    BY <1>8, <2>1, <2>2
<1> QED
  BY <1>2, <1>5, <1>8, <1>9, <1>10, <1>11, <1>12, <1>13, <1>14 DEF WalkInv, v

\* The end of the list of root.
LEMMA StepEnd ==
    ASSUME NEW t, IsTree(t), NEW w, WalkInv(t, w), w.dir = {}, w.parent = w.root
    PROVE  /\ WalkStep(t, w).done /\ WalkStep(t, w).root = w.root
           /\ Lists(t, w.root, WalkStep(t, w).out)
<1> DEFINE root == w.root
           v == WalkStep(t, w)
           rest == Subtree(t, root) \ Printed(v)
<1>1. w \in WalkType(t) /\ root \in t.dentries
  BY DEF WalkInv, WalkType
<1>2. v = [w EXCEPT !.out = Append(w.out, root), !.done = TRUE]
  BY DEF WalkStep, EndOfList
<1>3. v.root = root /\ v.out = Append(w.out, root) /\ v.done = TRUE
  BY <1>1, <1>2, Zenon DEF WalkType
<1> HIDE DEF v
<1>4. Inside(t, w) = {root} /\ root \in Subtree(t, root)
  BY <1>1, InsideRoot
<1>5. root \notin Printed(w) /\ \A a \in Printed(w) : ~IsBelow(t, root, a)
  BY <1>4 DEF WalkInv, OutInv, Inside
<1>6. /\ Len(v.out) = Len(w.out) + 1 /\ Printed(v) = Printed(w) \cup {root}
      /\ \A i, j \in 1..Len(v.out) : v.out[i] = v.out[j] => i = j
      /\ \A i, j \in 1..Len(v.out) : IsBelow(t, v.out[i], v.out[j]) => i <= j
  <2>1. root \in Subtree(t, w.root) /\ root \notin Printed(w)
    BY <1>4, <1>5
  <2>2. \A a \in Printed(w) : ~IsBelow(t, root, a)
    BY <1>5
  <2>3. v.out = Append(w.out, root)
    BY <1>3
  <2> HIDE DEF root
  <2> QED
    BY <2>1, <2>2, <2>3, PrintOne
<1>7. Printed(v) \subseteq Subtree(t, root)
  BY <1>4, <1>6 DEF WalkInv, OutInv
<1>8. rest = {}
  <2> SUFFICES ASSUME rest # {} PROVE FALSE
    OBVIOUS
  <2> DEFINE Born == {t.born[e] : e \in rest}
  <2>1. Born \subseteq Nat /\ Born # {}
    BY DEF Subtree, IsTree
  <2>2. PICK m \in Born : \A j \in Born : m <= j
    <3> HIDE DEF Born
    <3> QED
      BY <2>1, Least
  <2>3. PICK e \in rest : m = t.born[e]
    OBVIOUS
  <2>4. \A x \in rest : t.born[e] <= t.born[x]
    BY <2>2, <2>3
  <2>5. e \in t.dentries /\ IsBelow(t, e, root) /\ e # root /\ e \in Subtree(t, root) \ {root}
    BY <1>6 DEF Subtree
  <2>6. t.up[e] \in Subtree(t, root) /\ t.up[e] \in t.dentries /\ t.born[t.up[e]] < t.born[e]
    BY <2>5, AboveParent DEF Subtree, IsTree
  <2>7. t.up[e] \in Printed(v)
    <3>1. t.born[e] \in Nat /\ t.born[t.up[e]] \in Nat
      BY <2>5, <2>6 DEF IsTree
    <3>2. ~(t.born[e] <= t.born[t.up[e]])
      BY <2>6, <3>1
    <3> QED
      BY <2>4, <2>6, <3>2
  <2>8. CASE t.up[e] = root
    <3>1. e \in Subdirs(t, w.parent)
      BY <2>5, <2>8 DEF Subdirs
    <3>2. e \in Printed(w)
      BY <3>1 DEF WalkInv, ListInv
    <3> QED
      BY <1>6, <3>2
  <2>9. CASE t.up[e] # root
    <3>1. t.up[e] \in Printed(w) /\ t.up[e] \notin Inside(t, w)
      BY <1>4, <1>6, <2>7, <2>9
    <3>2. e \in Printed(w)
      BY <2>5, <3>1 DEF WalkInv, WholeInv
    <3> QED
      BY <1>6, <3>2
  <2> QED
    BY <2>8, <2>9
<1>9. Printed(v) = Subtree(t, root)
  BY <1>7, <1>8
<1>10. Cardinality(Subtree(t, root)) = Len(v.out)
  <2> DEFINE names == v.out
             f == [i \in 1..Len(names) |-> names[i]]
  <2>1. Len(names) \in Nat
    <3>1. w.out \in Seq(t.dentries)
      BY <1>1 DEF WalkType
    <3>2. Len(w.out) \in Nat
      BY <3>1
    <3> QED
      BY <1>6, <3>2
  <2>2. f \in Bijection(1..Len(names), Printed(v))
    BY <1>6 DEF Bijection, Injection, Surjection, IsInjective, Printed
  <2>3. ExistsBijection(1..Len(names), Subtree(t, root))
    BY <1>9, <2>2 DEF ExistsBijection
  <2> QED
    BY <2>1, <2>3, FS_CountingElements
<1> QED
  BY <1>3, <1>6, <1>9, <1>10 DEF Lists, Printed, v

-----------------------------------------------------------------------------
(* A walk from beginning to end: walks[n] is how it stands after n turns   *)
(* of the loop.                                                            *)

IsWalk(t, root, walks) ==
    /\ walks[0] = WalkFrom(t, root)
    /\ \A n \in Nat :
          walks[n + 1] = IF walks[n].done THEN walks[n] ELSE WalkStep(t, walks[n])

\* How far the walk has come at least: a turn goes down or prints.
Progress(t, w) == 2 * Len(w.out) + Cardinality(Inside(t, w))

LEMMA InsideIsFinite ==
    ASSUME NEW t, IsTree(t), NEW w
    PROVE  IsFiniteSet(Subtree(t, w.root)) /\ IsFiniteSet(Inside(t, w))
<1>1. Subtree(t, w.root) \subseteq t.dentries /\ Inside(t, w) \subseteq Subtree(t, w.root)
  BY DEF Subtree, Inside
<1> QED
  BY <1>1, FS_Subset DEF IsTree

\* It cannot come further than twice over the tree.
LEMMA ProgressIsBounded ==
    ASSUME NEW t, IsTree(t), NEW w, WalkInv(t, w)
    PROVE  /\ Progress(t, w) < 2 * Cardinality(Subtree(t, w.root))
           /\ Progress(t, w) \in Nat /\ Cardinality(Subtree(t, w.root)) \in Nat
<1> DEFINE S == Subtree(t, w.root)
           P == Printed(w)
           I == Inside(t, w)
           names == w.out
           f == [i \in 1..Len(names) |-> names[i]]
<1>1. /\ IsFiniteSet(S) /\ IsFiniteSet(I) /\ Cardinality(S) \in Nat /\ Cardinality(I) \in Nat
  BY InsideIsFinite, FS_CardinalityType
<1>2. Len(names) \in Nat
  <2>1. w.out \in Seq(t.dentries)
    BY DEF WalkInv, WalkType
  <2> QED
    BY <2>1
<1>3. f \in Bijection(1..Len(names), P)
  BY DEF Bijection, Injection, Surjection, IsInjective, Printed, WalkInv, OutInv
<1>4. ExistsBijection(1..Len(names), P)
  BY <1>3 DEF ExistsBijection
<1>5. Cardinality(P) = Len(names)
  BY <1>2, <1>4, FS_CountingElements
<1>6. P \subseteq S /\ I \subseteq S /\ P \cap I = {} /\ w.parent \in I
  <2>1. w.parent \in t.dentries
    BY DEF WalkInv, WalkType
  <2> QED
    BY <2>1, BelowItself DEF WalkInv, OutInv, PlaceInv, Inside
<1> HIDE DEF S, P, I, names
<1>7. IsFiniteSet(P)
  BY <1>1, <1>6, FS_Subset
<1>8. Cardinality(P \cup I) = Cardinality(P) + Cardinality(I)
  <2>1. Cardinality(P \cup I) = Cardinality(P) + Cardinality(I) - Cardinality(P \cap I)
    BY <1>1, <1>7, FS_Union
  <2>2. Cardinality(P \cap I) = 0
    BY <1>6, FS_EmptySet
  <2> QED
    BY <1>1, <1>2, <1>5, <2>1, <2>2
<1>9. Cardinality(P \cup I) <= Cardinality(S)
  <2>1. P \cup I \in SUBSET S
    BY <1>6
  <2> QED
    BY <1>1, <2>1, FS_Subset
<1>10. Cardinality(I) > 0
  <2>1. I # {}
    BY <1>6
  <2>2. Cardinality(I) # 0
    BY <1>1, <2>1, FS_EmptySet
  <2> QED
    BY <1>1, <2>2
<1>11. /\ 2 * Len(names) + Cardinality(I) < 2 * Cardinality(S)
       /\ 2 * Len(names) + Cardinality(I) \in Nat
  BY <1>1, <1>2, <1>5, <1>8, <1>9, <1>10
<1> QED
  BY <1>1, <1>11 DEF Progress, S, I, names

\* A turn that does not end the walk.
LEMMA StepProgress ==
    ASSUME NEW t, IsTree(t), NEW w, WalkInv(t, w), w.dir # {} \/ w.parent # w.root
    PROVE  /\ WalkInv(t, WalkStep(t, w)) /\ WalkStep(t, w).root = w.root
           /\ Progress(t, WalkStep(t, w)) \in Nat /\ Progress(t, w) \in Nat
           /\ Progress(t, WalkStep(t, w)) > Progress(t, w)
<1> DEFINE v == WalkStep(t, w)
           I == Inside(t, w)
           J == Inside(t, v)
           d == First(t, w.dir)
           p == w.parent
<1>1. w \in WalkType(t)
  BY DEF WalkInv
<1>2. v.root = w.root
  BY <1>1 DEF WalkStep, ListEntry, EndOfList, WalkType
<1>3. /\ IsFiniteSet(I) /\ IsFiniteSet(J)
      /\ Cardinality(I) \in Nat /\ Cardinality(J) \in Nat
  BY InsideIsFinite, FS_CardinalityType
<1>4. Len(w.out) \in Nat
  <2>1. w.out \in Seq(t.dentries)
    BY <1>1 DEF WalkType
  <2> QED
    BY <2>1
<1>5. /\ WalkInv(t, v)
      /\ \/ v.out = w.out /\ J = I \cup {d} /\ d \notin I
         \/ Len(v.out) = Len(w.out) + 1 /\ J = I
         \/ Len(v.out) = Len(w.out) + 1 /\ J = I \ {p} /\ p \in I
  <2>1. CASE w.dir # {} /\ Subdirs(t, d) # {}
    BY <2>1, StepDown
  <2>2. CASE w.dir # {} /\ Subdirs(t, d) = {}
    BY <2>2, StepEntry
  <2>3. CASE w.dir = {}
    BY <2>3, StepUp
  <2> QED
    BY <2>1, <2>2, <2>3
<1> HIDE DEF I, J, v, d, p
<1>6. \/ Len(v.out) = Len(w.out) /\ Cardinality(J) = Cardinality(I) + 1
      \/ Len(v.out) = Len(w.out) + 1 /\ Cardinality(J) = Cardinality(I)
      \/ Len(v.out) = Len(w.out) + 1 /\ Cardinality(J) = Cardinality(I) - 1
  <2>1. CASE v.out = w.out /\ J = I \cup {d} /\ d \notin I
    BY <1>3, <2>1, FS_AddElement
  <2>2. CASE Len(v.out) = Len(w.out) + 1 /\ J = I
    BY <2>2
  <2>3. CASE Len(v.out) = Len(w.out) + 1 /\ J = I \ {p} /\ p \in I
    BY <1>3, <2>3, FS_RemoveElement
  <2> QED
    BY <1>5, <2>1, <2>2, <2>3
<1>7. Progress(t, w) = 2 * Len(w.out) + Cardinality(I)
  BY DEF Progress, I
<1>8. Progress(t, v) = 2 * Len(v.out) + Cardinality(J)
  BY DEF Progress, J
<1>9. Progress(t, v) \in Nat /\ Progress(t, w) \in Nat /\ Progress(t, v) > Progress(t, w)
  <2>1. Len(v.out) \in Nat
    BY <1>4, <1>6
  <2> DEFINE m == Len(w.out)
             n == Len(v.out)
             i == Cardinality(I)
             j == Cardinality(J)
  <2>2. m \in Nat /\ n \in Nat /\ i \in Nat /\ j \in Nat
    BY <1>3, <1>4, <2>1
  <2>3. (n = m /\ j = i + 1) \/ (n = m + 1 /\ j = i) \/ (n = m + 1 /\ j = i - 1)
    BY <1>6
  <2>4. Progress(t, w) = 2 * m + i /\ Progress(t, v) = 2 * n + j
    BY <1>7, <1>8
  <2> HIDE DEF m, n, i, j
  <2> QED
    BY <2>2, <2>3, <2>4
<1> QED
  BY <1>2, <1>5, <1>9 DEF v

\* After n turns a walk has listed its tree, or is on its way and n further.
LEMMA WalkGoesOn ==
    ASSUME NEW t, IsTree(t), NEW root \in t.dentries, NEW walks, IsWalk(t, root, walks)
    PROVE  \A n \in Nat :
              /\ walks[n].root = root
              /\ walks[n].done => Lists(t, root, walks[n].out)
              /\ ~walks[n].done => WalkInv(t, walks[n]) /\ Progress(t, walks[n]) > n
<1> DEFINE Good(w, n) ==
              /\ w.root = root
              /\ w.done => Lists(t, root, w.out)
              /\ ~w.done => WalkInv(t, w) /\ Progress(t, w) > n
           S == {n \in Nat : Good(walks[n], n)}
<1>1. 0 \in S
  <2> DEFINE w == WalkFrom(t, root)
  <2>1. w.root = root /\ w.parent = root /\ ~w.done /\ w.out = <<>>
    BY DEF WalkFrom
  <2>2. WalkInv(t, w)
    BY StartOfWalk
  <2> HIDE DEF w
  <2>3. Inside(t, w) = {root}
    BY <2>1, <2>2, InsideRoot DEF WalkInv
  <2>4. Cardinality({root}) = 1 /\ Len(<<>>) = 0
    BY FS_Singleton
  <2>5. Progress(t, w) > 0
    BY <2>1, <2>3, <2>4 DEF Progress
  <2>6. walks[0] = w
    BY DEF IsWalk, w
  <2> QED
    BY <2>1, <2>2, <2>5, <2>6
<1>2. ASSUME NEW n \in Nat, n \in S PROVE n + 1 \in S
  <2> DEFINE w == walks[n]
             v == walks[n + 1]
  <2>1. Good(w, n)
    BY <1>2
  <2>2. v = IF w.done THEN w ELSE WalkStep(t, w)
    BY DEF IsWalk
  <2> SUFFICES Good(v, n + 1)
    OBVIOUS
  <2> HIDE DEF w, v
  <2>3. CASE w.done
    BY <2>1, <2>2, <2>3
  <2>4. CASE ~w.done /\ w.dir = {} /\ w.parent = w.root
    BY <2>1, <2>2, <2>4, StepEnd
  <2>5. CASE ~w.done /\ (w.dir # {} \/ w.parent # w.root)
    <3>1. v = WalkStep(t, w) /\ w.root = root /\ WalkInv(t, w) /\ Progress(t, w) > n
      BY <2>1, <2>2, <2>5
    <3>2. /\ WalkInv(t, v) /\ v.root = w.root
          /\ Progress(t, v) \in Nat /\ Progress(t, w) \in Nat /\ Progress(t, v) > Progress(t, w)
      BY <2>5, <3>1, StepProgress
    <3>3. ~v.done
      BY <3>2 DEF WalkInv
    <3>4. Progress(t, v) > n + 1
      BY <3>1, <3>2
    <3> QED
      BY <3>1, <3>2, <3>3, <3>4
  <2> QED
    BY <2>3, <2>4, <2>5
<1> HIDE DEF S
<1>3. Nat \subseteq S
  BY <1>1, <1>2, Induction
<1> QED
  BY <1>3 DEF S

\* debugfs_tranverse, on whatever tree and from whatever dentry of it: when it is
\* done it has printed each dentry of the subtree once, a directory after all that
\* is in it.
THEOREM WalkListsTree ==
    ASSUME NEW t, IsTree(t), NEW root \in t.dentries, NEW walks, IsWalk(t, root, walks),
           NEW n \in Nat, walks[n].done
    PROVE  Lists(t, root, walks[n].out)
BY WalkGoesOn

\* And its loop ends, after no more turns than twice the number of those dentries.
THEOREM WalkEnds ==
    ASSUME NEW t, IsTree(t), NEW root \in t.dentries, NEW walks, IsWalk(t, root, walks)
    PROVE  walks[2 * Cardinality(Subtree(t, root))].done
<1> DEFINE n == 2 * Cardinality(Subtree(t, root))
<1>1. Cardinality(Subtree(t, root)) \in Nat
  <2>1. IsFiniteSet(Subtree(t, root))
    BY FS_Subset DEF IsTree, Subtree
  <2> QED
    BY <2>1, FS_CardinalityType
<1>2. n \in Nat
  BY <1>1
<1>3. ASSUME ~walks[n].done PROVE FALSE
  <2>1. walks[n].root = root /\ WalkInv(t, walks[n]) /\ Progress(t, walks[n]) > n
    BY <1>2, <1>3, WalkGoesOn
  <2>2. Progress(t, walks[n]) \in Nat /\ Progress(t, walks[n]) < n
    BY <2>1, ProgressIsBounded
  <2> QED
    BY <1>2, <2>1, <2>2
<1> QED
  BY <1>3

-----------------------------------------------------------------------------
(* The functions of DriverTable are programs: each step but the last leads *)
(* on in them, and a failure to a program again.                           *)

\* The steps that take something, and those that end a function.
Takers == {"try", "ask", "may", "sure"}
Ends == {"return", "fail", "never"}
IsSeq(s) == \E S : s \in Seq(S)

\* A sequence of steps that is left by its last step only.
Closed(P) ==
    \A s \in P :
        /\ IsSeq(s) /\ s # <<>>
        /\ Head(s).op \in Takers => Head(s).what \in Kinds \X (0..2)
        /\ Head(s).op = "walk" => Head(s).what \in Dirs
        /\ Head(s).op \in {"try", "ask", "test"} => Head(s).to \in P
        /\ Head(s).op \notin Ends => Tail(s) \in P
IsProgram(s) == \E P : s \in P /\ Closed(P)

\* A step there may be in a program.
IsStep(x) ==
    /\ x.op \in Takers => x.what \in Kinds \X (0..2)
    /\ x.op = "walk" => x.what \in Dirs
    /\ x.op \in {"try", "ask", "test"} => IsProgram(x.to)

\* Sequences and their parts.
LEMMA Concat ==
    ASSUME NEW s, IsSeq(s), NEW t, IsSeq(t), NEW u, IsSeq(u)
    PROVE  (s \o t) \o u = s \o (t \o u)
<1> PICK S : s \in Seq(S)
  BY DEF IsSeq
<1> PICK T : t \in Seq(T)
  BY DEF IsSeq
<1> PICK U : u \in Seq(U)
  BY DEF IsSeq
<1> DEFINE W == S \cup T \cup U
<1>1. s \in Seq(W) /\ t \in Seq(W) /\ u \in Seq(W)
  BY SeqMonotonic
<1> HIDE DEF W
<1> QED
  BY <1>1, ConcatAssociative, SMTT(30)

LEMMA ConcatIsSeq ==
    ASSUME NEW s, IsSeq(s), NEW t, IsSeq(t)
    PROVE  IsSeq(s \o t)
<1> PICK S : s \in Seq(S)
  BY DEF IsSeq
<1> PICK T : t \in Seq(T)
  BY DEF IsSeq
<1>1. s \in Seq(S \cup T) /\ t \in Seq(S \cup T)
  BY SeqMonotonic
<1>2. s \o t \in Seq(S \cup T)
  BY <1>1
<1> QED
  BY <1>2 DEF IsSeq

LEMMA Tuples ==
    /\ \A a : IsSeq(<<a>>)
    /\ \A a, b : IsSeq(<<a, b>>)
    /\ \A a, b, c : IsSeq(<<a, b, c>>)
    /\ \A a, b, c, e : IsSeq(<<a, b, c, e>>)
    /\ \A a, b, c, e, f : IsSeq(<<a, b, c, e, f>>)
    /\ \A a, b, c, e, f, g : IsSeq(<<a, b, c, e, f, g>>)
<1>1. \A a, b, c, e, f, g :
        /\ <<a>> \in Seq({a}) /\ <<a, b>> \in Seq({a, b}) /\ <<a, b, c>> \in Seq({a, b, c})
        /\ <<a, b, c, e>> \in Seq({a, b, c, e}) /\ <<a, b, c, e, f>> \in Seq({a, b, c, e, f})
        /\ <<a, b, c, e, f, g>> \in Seq({a, b, c, e, f, g})
  OBVIOUS
<1> QED
  BY <1>1 DEF IsSeq

LEMMA Split ==
    ASSUME NEW s, IsSeq(s), NEW t, IsSeq(t),
           Len(s) = Len(t) + 1, \A j \in 1..Len(t) : s[j + 1] = t[j]
    PROVE  s = <<s[1]>> \o t
<1> PICK S : s \in Seq(S)
  BY DEF IsSeq
<1> PICK T : t \in Seq(T)
  BY DEF IsSeq
<1> DEFINE W == S \cup T
           u == <<s[1]>> \o t
<1>1. Len(t) \in Nat /\ s[1] \in S
  OBVIOUS
<1>2. s \in Seq(W) /\ t \in Seq(W) /\ <<s[1]>> \in Seq(W)
  BY <1>1, SeqMonotonic
<1> HIDE DEF W
<1>3. u \in Seq(W) /\ Len(u) = Len(t) + 1 /\ u[1] = s[1] /\ \A j \in 1..Len(t) : u[j + 1] = t[j]
  BY <1>1, <1>2
<1>4. ASSUME NEW j \in 1..Len(s) PROVE u[j] = s[j]
  <2>1. CASE j = 1
    BY <1>3, <2>1
  <2>2. CASE j # 1
    <3>1. j - 1 \in 1..Len(t) /\ (j - 1) + 1 = j
      BY <1>1, <2>2
    <3> QED
      BY <1>3, <3>1
  <2> QED
    BY <2>1, <2>2
<1> HIDE DEF u
<1>5. s = u
  BY <1>2, <1>3, <1>4, SeqEqual
<1> QED
  BY <1>5 DEF u

\* A tuple is its first element and the rest.
LEMMA Cons ==
    /\ \A a, b : <<a, b>> = <<a>> \o <<b>>
    /\ \A a, b, c : <<a, b, c>> = <<a>> \o <<b, c>>
    /\ \A a, b, c, e : <<a, b, c, e>> = <<a>> \o <<b, c, e>>
    /\ \A a, b, c, e, f : <<a, b, c, e, f>> = <<a>> \o <<b, c, e, f>>
    /\ \A a, b, c, e, f, g : <<a, b, c, e, f, g>> = <<a>> \o <<b, c, e, f, g>>
<1>2. \A a, b : <<a, b>> = <<a>> \o <<b>>
  <2> TAKE a, b
  <2> DEFINE s == <<a, b>>
             t == <<b>>
  <2>1. /\ IsSeq(s) /\ IsSeq(t) /\ Len(s) = Len(t) + 1 /\ s[1] = a
        /\ \A j \in 1..Len(t) : s[j + 1] = t[j]
    BY Tuples
  <2> HIDE DEF s, t
  <2>2. s = <<s[1]>> \o t
    BY <2>1, Split
  <2> QED
    BY <2>1, <2>2 DEF s, t
<1>3. \A a, b, c : <<a, b, c>> = <<a>> \o <<b, c>>
  <2> TAKE a, b, c
  <2> DEFINE s == <<a, b, c>>
             t == <<b, c>>
  <2>1. /\ IsSeq(s) /\ IsSeq(t) /\ Len(s) = Len(t) + 1 /\ s[1] = a
        /\ \A j \in 1..Len(t) : s[j + 1] = t[j]
    BY Tuples
  <2> HIDE DEF s, t
  <2>2. s = <<s[1]>> \o t
    BY <2>1, Split
  <2> QED
    BY <2>1, <2>2 DEF s, t
<1>4. \A a, b, c, e : <<a, b, c, e>> = <<a>> \o <<b, c, e>>
  <2> TAKE a, b, c, e
  <2> DEFINE s == <<a, b, c, e>>
             t == <<b, c, e>>
  <2>1. /\ IsSeq(s) /\ IsSeq(t) /\ Len(s) = Len(t) + 1 /\ s[1] = a
        /\ \A j \in 1..Len(t) : s[j + 1] = t[j]
    BY Tuples
  <2> HIDE DEF s, t
  <2>2. s = <<s[1]>> \o t
    BY <2>1, Split
  <2> QED
    BY <2>1, <2>2 DEF s, t
<1>5. \A a, b, c, e, f : <<a, b, c, e, f>> = <<a>> \o <<b, c, e, f>>
  <2> TAKE a, b, c, e, f
  <2> DEFINE s == <<a, b, c, e, f>>
             t == <<b, c, e, f>>
  <2>1. /\ IsSeq(s) /\ IsSeq(t) /\ Len(s) = Len(t) + 1 /\ s[1] = a
        /\ \A j \in 1..Len(t) : s[j + 1] = t[j]
    BY Tuples
  <2> HIDE DEF s, t
  <2>2. s = <<s[1]>> \o t
    BY <2>1, Split
  <2> QED
    BY <2>1, <2>2 DEF s, t
<1>6. \A a, b, c, e, f, g : <<a, b, c, e, f, g>> = <<a>> \o <<b, c, e, f, g>>
  <2> TAKE a, b, c, e, f, g
  <2> DEFINE s == <<a, b, c, e, f, g>>
             t == <<b, c, e, f, g>>
  <2>1. /\ IsSeq(s) /\ IsSeq(t) /\ Len(s) = Len(t) + 1 /\ s[1] = a
        /\ \A j \in 1..Len(t) : s[j + 1] = t[j]
    BY Tuples
  <2> HIDE DEF s, t
  <2>2. s = <<s[1]>> \o t
    BY <2>1, Split
  <2> QED
    BY <2>1, <2>2 DEF s, t
<1> QED
  BY <1>2, <1>3, <1>4, <1>5, <1>6

LEMMA ConsIsSeq ==
    ASSUME NEW x, NEW r, IsSeq(r)
    PROVE  /\ IsSeq(<<x>> \o r) /\ <<x>> \o r # <<>>
           /\ Head(<<x>> \o r) = x /\ Tail(<<x>> \o r) = r
           /\ Len(r) \in Nat /\ Len(<<x>> \o r) = Len(r) + 1
           /\ (<<x>> \o r)[1] = x
           /\ \A j \in 1..Len(r) : (<<x>> \o r)[j + 1] = r[j]
<1> PICK S : r \in Seq(S)
  BY DEF IsSeq
<1> DEFINE T == S \cup {x}
           s == <<x>> \o r
<1>1. r \in Seq(T) /\ <<x>> \in Seq(T)
  BY SeqMonotonic
<1>2. s \in Seq(T) /\ Len(s) = Len(r) + 1 /\ Len(r) \in Nat /\ s[1] = x /\ \A j \in 1..Len(r) : s[j + 1] = r[j]
  BY <1>1
<1>3. s # <<>> /\ Head(s) = x
  BY <1>2
<1>4. Tail(s) = r
  BY <1>1, <1>2, SeqEqual
<1> QED
  BY <1>2, <1>3, <1>4 DEF IsSeq

LEMMA TailIsSeq ==
    ASSUME NEW s, IsSeq(s), s # <<>>
    PROVE  IsSeq(Tail(s)) /\ s = <<Head(s)>> \o Tail(s)
<1> PICK S : s \in Seq(S)
  BY DEF IsSeq
<1>1. Tail(s) \in Seq(S) /\ Head(s) \in S
  OBVIOUS
<1>2. s = <<Head(s)>> \o Tail(s)
  BY <1>1, SeqEqual
<1> QED BY <1>1, <1>2 DEF IsSeq

LEMMA ProgCons ==
    ASSUME NEW x, IsStep(x), NEW r, IsProgram(r)
    PROVE  IsProgram(<<x>> \o r)
<1>1. PICK P : r \in P /\ Closed(P)
  BY DEF IsProgram
<1>2. PICK Q : (x.op \in {"try", "ask", "test"} => x.to \in Q) /\ Closed(Q)
  <2>1. CASE x.op \in {"try", "ask", "test"}
    BY <2>1 DEF IsStep, IsProgram
  <2>2. CASE x.op \notin {"try", "ask", "test"}
    BY <1>1, <2>2
  <2> QED BY <2>1, <2>2
<1>3. IsSeq(r)
  BY <1>1 DEF Closed
<1> DEFINE s == <<x>> \o r
<1>4. IsSeq(s) /\ s # <<>> /\ Head(s) = x /\ Tail(s) = r
  BY <1>3, ConsIsSeq
<1> HIDE DEF s
<1>5. Closed({s} \cup P \cup Q)
  BY <1>1, <1>2, <1>4 DEF Closed, IsStep
<1> QED
  BY <1>5 DEF IsProgram, s

LEMMA ProgStep ==
    ASSUME NEW s, IsProgram(s)
    PROVE  /\ IsSeq(s) /\ s # <<>> /\ IsStep(Head(s))
           /\ Head(s).op \notin Ends => IsProgram(Tail(s))
BY DEF IsProgram, Closed, IsStep

-----------------------------------------------------------------------------
(* What the drivers take, and the steps of DriverTable.                    *)

IsThing(x) == x \in Kinds \X (0..2)

LEMMA Things ==
    /\ \A kind \in Kinds : IsThing(One(kind))
    /\ \A i \in 1..2 : /\ IsThing(Irq(i)) /\ IsThing(Rdev(i)) /\ IsThing(Data(i)) /\ IsThing(Queue(i))
                      /\ IsThing(Gd(i)) /\ IsThing(Disk(i)) /\ IsThing(Space(i))
BY DEF IsThing, One, Thing, Kinds, Irq, Rdev, Data, Queue, Gd, Disk, Space

LEMMA AreSteps ==
    /\ \A x : IsThing(x) =>
        /\ IsStep(May(x)) /\ IsStep(Sure(x))
        /\ \A to : IsProgram(to) => IsStep(Try(x, to)) /\ IsStep(Ask(x, to))
    /\ \A x : IsStep(Use(x)) /\ IsStep(Drop(x)) /\ IsStep(Put(x)) /\ IsStep(Misfree(x))
             /\ IsStep(Remove(x))
    /\ \A x \in Dirs : IsStep(Walk(x))
    /\ \A to : IsProgram(to) => IsStep(Test(to))
    /\ IsStep(Never)
BY DEF IsStep, IsThing, May, Sure, Try, Ask, Use, Drop, Put, Misfree, Walk, Remove, Test, Never, Step, Takers

LEMMA ProgEnds == IsProgram(Return) /\ IsProgram(Fail)
<1>1. /\ IsSeq(Return) /\ Return # <<>> /\ Head(Return).op = "return"
      /\ IsSeq(Fail) /\ Fail # <<>> /\ Head(Fail).op = "fail"
  BY Tuples DEF Return, Fail, Step
<1>2. Closed({Return, Fail})
  BY <1>1 DEF Closed, Takers, Ends
<1> QED
  BY <1>2 DEF IsProgram

\* Steps that can be put before any program.
IsBlock(b) == IsSeq(b) /\ \A r : IsProgram(r) => IsProgram(b \o r)

LEMMA BlockConcat ==
    ASSUME NEW s, IsBlock(s), NEW t, IsBlock(t)
    PROVE  IsBlock(s \o t)
<1>1. IsSeq(s) /\ IsSeq(t) /\ IsSeq(s \o t)
  BY ConcatIsSeq DEF IsBlock
<1>2. ASSUME NEW r, IsProgram(r) PROVE IsProgram((s \o t) \o r)
  <2>1. IsSeq(r)
    BY <1>2, ProgStep
  <2>2. (s \o t) \o r = s \o (t \o r)
    BY <1>1, <2>1, Concat
  <2>3. IsProgram(s \o (t \o r))
    BY <1>2 DEF IsBlock
  <2> QED
    BY <2>2, <2>3
<1> QED
  BY <1>1, <1>2 DEF IsBlock

LEMMA EmptyBlock == IsBlock(<<>>)
<1>1. IsSeq(<<>>)
  BY DEF IsSeq
<1>2. ASSUME NEW r, IsProgram(r) PROVE IsProgram(<<>> \o r)
  <2>1. PICK S : r \in Seq(S)
    BY <1>2, ProgStep DEF IsSeq
  <2>2. <<>> \o r = r
    BY <2>1, ConcatEmptySeq
  <2> QED
    BY <1>2, <2>2
<1> QED
  BY <1>1, <1>2 DEF IsBlock

LEMMA Blocks ==
    /\ \A a : IsStep(a)
          => IsBlock(<<a>>)
    /\ \A a, b : IsStep(a) /\ IsStep(b)
          => IsBlock(<<a, b>>)
    /\ \A a, b, c : IsStep(a) /\ IsStep(b) /\ IsStep(c)
          => IsBlock(<<a, b, c>>)
    /\ \A a, b, c, e : IsStep(a) /\ IsStep(b) /\ IsStep(c) /\ IsStep(e)
          => IsBlock(<<a, b, c, e>>)
    /\ \A a, b, c, e, f : IsStep(a) /\ IsStep(b) /\ IsStep(c) /\ IsStep(e) /\ IsStep(f)
          => IsBlock(<<a, b, c, e, f>>)
    /\ \A a, b, c, e, f, g : IsStep(a) /\ IsStep(b) /\ IsStep(c) /\ IsStep(e) /\ IsStep(f) /\ IsStep(g)
          => IsBlock(<<a, b, c, e, f, g>>)
<1>1. ASSUME NEW a, IsStep(a)
      PROVE  IsBlock(<<a>>)
  BY <1>1, Tuples, ProgCons DEF IsBlock
<1>2. ASSUME NEW a, NEW b, IsStep(a), IsStep(b)
      PROVE  IsBlock(<<a, b>>)
  <2> DEFINE s == <<a>>
             t == <<b>>
  <2>1. IsBlock(s) /\ IsBlock(t)
    BY <1>1, <1>2
  <2>2. <<a, b>> = s \o t
    BY Cons
  <2> HIDE DEF s, t
  <2> QED
    BY <2>1, <2>2, BlockConcat
<1>3. ASSUME NEW a, NEW b, NEW c, IsStep(a), IsStep(b), IsStep(c)
      PROVE  IsBlock(<<a, b, c>>)
  <2> DEFINE s == <<a>>
             t == <<b, c>>
  <2>1. IsBlock(s) /\ IsBlock(t)
    BY <1>1, <1>2, <1>3
  <2>2. <<a, b, c>> = s \o t
    BY Cons
  <2> HIDE DEF s, t
  <2> QED
    BY <2>1, <2>2, BlockConcat
<1>4. ASSUME NEW a, NEW b, NEW c, NEW e, IsStep(a), IsStep(b), IsStep(c), IsStep(e)
      PROVE  IsBlock(<<a, b, c, e>>)
  <2> DEFINE s == <<a>>
             t == <<b, c, e>>
  <2>1. IsBlock(s) /\ IsBlock(t)
    BY <1>1, <1>3, <1>4
  <2>2. <<a, b, c, e>> = s \o t
    BY Cons
  <2> HIDE DEF s, t
  <2> QED
    BY <2>1, <2>2, BlockConcat
<1>5. ASSUME NEW a, NEW b, NEW c, NEW e, NEW f, IsStep(a), IsStep(b), IsStep(c), IsStep(e), IsStep(f)
      PROVE  IsBlock(<<a, b, c, e, f>>)
  <2> DEFINE s == <<a>>
             t == <<b, c, e, f>>
  <2>1. IsBlock(s) /\ IsBlock(t)
    BY <1>1, <1>4, <1>5
  <2>2. <<a, b, c, e, f>> = s \o t
    BY Cons
  <2> HIDE DEF s, t
  <2> QED
    BY <2>1, <2>2, BlockConcat
<1>6. ASSUME NEW a, NEW b, NEW c, NEW e, NEW f, NEW g, IsStep(a), IsStep(b), IsStep(c), IsStep(e), IsStep(f), IsStep(g)
      PROVE  IsBlock(<<a, b, c, e, f, g>>)
  <2> DEFINE s == <<a>>
             t == <<b, c, e, f, g>>
  <2>1. IsBlock(s) /\ IsBlock(t)
    BY <1>1, <1>5, <1>6
  <2>2. <<a, b, c, e, f, g>> = s \o t
    BY Cons
  <2> HIDE DEF s, t
  <2> QED
    BY <2>1, <2>2, BlockConcat
<1> QED
  BY <1>1, <1>2, <1>3, <1>4, <1>5, <1>6

LEMMA BlockProgram ==
    ASSUME NEW s, IsBlock(s), NEW r, IsProgram(r)
    PROVE  IsProgram(s \o r)
BY DEF IsBlock

-----------------------------------------------------------------------------
(* The programs of DriverTable.                                            *)

LEMMA RegisterBlocks ==
    /\ \A r : IsProgram(r) => IsProgram(RegisterTest(r))
    /\ IsBlock(UnregisterTest) /\ IsBlock(RegisterRlwait) /\ IsProgram(UnregisterRlwait)
<1>1. IsThing(One("chrdev")) /\ IsThing(One("cdev")) /\ IsThing(One("region"))
  BY Things DEF Kinds
<1>2. ASSUME NEW r, IsProgram(r) PROVE IsProgram(RegisterTest(r))
  <2>1. IsProgram(<<Drop(One("chrdev"))>> \o r)
    BY <1>2, AreSteps, Blocks, BlockProgram
  <2> QED
    BY <1>1, <1>2, <2>1, AreSteps, Blocks, BlockProgram, ProgEnds DEF RegisterTest
<1>3. IsBlock(UnregisterTest)
  BY AreSteps, Blocks DEF UnregisterTest
<1>4. IsBlock(RegisterRlwait)
  <2>1. IsProgram(<<Drop(One("region"))>> \o Fail)
    BY AreSteps, Blocks, BlockProgram, ProgEnds
  <2> QED
    BY <1>1, <2>1, AreSteps, Blocks, ProgEnds DEF RegisterRlwait
<1>5. IsProgram(UnregisterRlwait)
  BY AreSteps, Blocks, BlockProgram, ProgEnds DEF UnregisterRlwait
<1> QED
  BY <1>2, <1>3, <1>4, <1>5

\* The character devices.
LEMMA CdevPrograms ==
    ASSUME NEW d \in {WaitQueueConsumer, WaitQueueList, WorkQueue, WaitQueue, KthreadShoudStop,
                      Completion, NotifierChains, Cdev, WaitQueueDemo, WaitQueueTest,
                      AddWaitQueueExclusive, CdevDemo}
    PROVE  IsProgram(d.load) /\ IsProgram(d.exit)
<1>1. \A kind \in {"chrdev", "cdev", "data", "thread", "wq", "notifier"} : IsThing(One(kind))
  BY Things DEF Kinds
<1> USE RegisterBlocks, ProgEnds, <1>1
<1>2. IsProgram(UnregisterTest \o Return)
  BY BlockProgram
<1>3. IsProgram(WaitQueueConsumer.load) /\ IsProgram(WaitQueueConsumer.exit)
  <2>1. IsProgram(<<Sure(One("data")), May(One("thread")), Use(One("thread"))>> \o Return)
    BY AreSteps, Blocks, BlockProgram
  <2> QED
    BY <1>2, <2>1 DEF WaitQueueConsumer, Driver
<1>4. IsProgram(WorkQueue.load) /\ IsProgram(WorkQueue.exit)
  <2>1. IsProgram(<<Sure(One("data")), May(One("wq"))>> \o Return)
    BY AreSteps, Blocks, BlockProgram
  <2> QED
    BY <1>2, <2>1 DEF WorkQueue, Driver
<1>5. IsProgram(WaitQueue.load) /\ IsProgram(WaitQueue.exit)
  <2>1. IsProgram(<<Sure(One("data"))>> \o Return)
    BY AreSteps, Blocks, BlockProgram
  <2> QED
    BY <1>2, <2>1 DEF WaitQueue, Driver
<1>6. IsProgram(KthreadShoudStop.load) /\ IsProgram(KthreadShoudStop.exit)
  <2>1. IsProgram(<<May(One("thread")), Use(One("thread"))>> \o Return)
    BY AreSteps, Blocks, BlockProgram
  <2>2. IsProgram(UnregisterTest \o <<Drop(One("thread"))>> \o Return)
    BY AreSteps, Blocks, BlockConcat, BlockProgram
  <2> QED
    BY <2>1, <2>2 DEF KthreadShoudStop, Driver
<1>7. IsProgram(Completion.load) /\ IsProgram(Completion.exit)
  <2>1. IsProgram(<<May(One("thread"))>> \o Return)
    BY AreSteps, Blocks, BlockProgram
  <2>2. IsProgram(UnregisterTest \o <<Never>> \o Return)
    BY AreSteps, Blocks, BlockConcat, BlockProgram
  <2> QED
    BY <2>1, <2>2 DEF Completion, Driver
<1>8. IsProgram(NotifierChains.load) /\ IsProgram(NotifierChains.exit)
  <2>1. IsProgram(<<Drop(One("chrdev"))>> \o Fail) /\ IsProgram(<<Drop(One("chrdev"))>> \o Return)
    BY AreSteps, Blocks, BlockProgram
  <2> QED
    BY <2>1, AreSteps, Blocks, BlockProgram DEF NotifierChains, Driver
<1>9. IsProgram(Cdev.load) /\ IsProgram(Cdev.exit)
  BY AreSteps, Blocks, BlockProgram DEF Cdev, Driver
<1>10. IsProgram(WaitQueueDemo.load) /\ IsProgram(WaitQueueDemo.exit)
  BY AreSteps, Blocks, BlockConcat, BlockProgram DEF WaitQueueDemo, Driver
<1>11. IsProgram(CdevDemo.load) /\ IsProgram(CdevDemo.exit)
  BY BlockProgram DEF CdevDemo, Driver
<1> QED
  BY <1>3, <1>4, <1>5, <1>6, <1>7, <1>8, <1>9, <1>10, <1>11
     DEF WaitQueueList, WaitQueueTest, AddWaitQueueExclusive

LEMMA ButtonsPrograms ==
    ASSUME NEW d \in {Buttons, Tasklet}
    PROVE  IsProgram(d.load) /\ IsProgram(d.exit)
<1>1. IsThing(One("misc")) /\ IsThing(One("tasklet")) /\ IsThing(Irq(1)) /\ IsThing(Irq(2))
  BY Things DEF Kinds
<1>2. IsProgram(<<Drop(Irq(1)), Drop(Irq(2)), Drop(One("misc"))>> \o Return)
  BY AreSteps, Blocks, BlockProgram, ProgEnds
<1>3. IsProgram(<<May(One("misc")), Try(Irq(1), Fail), Try(Irq(2), Fail)>> \o Return)
  BY <1>1, AreSteps, Blocks, BlockProgram, ProgEnds
<1>4. IsProgram(<<Sure(One("tasklet"))>> \o Fail)
  BY <1>1, AreSteps, Blocks, BlockProgram, ProgEnds
<1> DEFINE lost == <<Sure(One("tasklet"))>> \o Fail
<1>5. IsProgram(<<May(One("misc")), Try(Irq(1), lost), Try(Irq(2), lost), Sure(One("tasklet"))>>
                    \o Return)
  <2>1. IsProgram(lost)
    BY <1>4
  <2> HIDE DEF lost
  <2>2. /\ IsStep(May(One("misc"))) /\ IsStep(Sure(One("tasklet")))
        /\ IsStep(Try(Irq(1), lost)) /\ IsStep(Try(Irq(2), lost))
    BY <1>1, <2>1, AreSteps
  <2> QED
    BY <2>2, Blocks, BlockProgram, ProgEnds
<1>6. CASE d = Buttons
  BY <1>2, <1>3, <1>6 DEF Buttons, Driver
<1>7. CASE d = Tasklet
  BY <1>2, <1>5, <1>7 DEF Tasklet, Driver
<1> QED
  BY <1>6, <1>7

LEMMA DebugPrograms ==
    ASSUME NEW d \in {AnonDebug, AnonDebug32}
    PROVE  IsProgram(d.load) /\ IsProgram(d.exit)
<1>1. IsThing(DirA) /\ IsThing(DirB1) /\ IsThing(DirB2) /\ IsThing(DirC1) /\ IsThing(DirC2)
      /\ IsThing(One("file"))
  BY Things DEF Kinds, DirA, DirB1, DirB2, DirC1, DirC2
<1>2. IsBlock(TestAnonInodefs)
  BY <1>1, AreSteps, Blocks, ProgEnds DEF TestAnonInodefs
<1>3. /\ IsProgram(<<Put(DirA)>> \o Fail)
      /\ IsProgram(<<Put(DirB1), Put(DirA)>> \o Fail)
      /\ IsProgram(<<Put(DirB2), Put(DirB1), Put(DirA)>> \o Fail)
  BY AreSteps, Blocks, BlockProgram, ProgEnds
<1>4. IsBlock(CreateTestTree)
  BY <1>1, <1>3, AreSteps, Blocks, ProgEnds DEF CreateTestTree
<1>5. IsBlock(TestDebugfs)
  <2>1. DirA \in Dirs
    BY DEF Dirs
  <2> QED
    BY <1>4, <2>1, AreSteps, Blocks, BlockConcat DEF TestDebugfs
<1>6. IsProgram(TestAnonInodefs \o TestDebugfs \o Return)
  BY <1>2, <1>5, BlockConcat, BlockProgram, ProgEnds
<1>7. IsProgram(<<Remove(DirA)>> \o Return)
  BY AreSteps, Blocks, BlockProgram, ProgEnds
<1>8. CASE d = AnonDebug
  BY <1>6, <1>7, <1>8 DEF AnonDebug, Driver
<1>9. CASE d = AnonDebug32
  BY <1>6, <1>9, ProgEnds DEF AnonDebug32, Driver
<1> QED
  BY <1>8, <1>9

LEMMA DiskPrograms ==
    ASSUME NEW d \in {RamhdMkreq, RamhdReq, Ramdisk, RockDisk}
    PROVE  IsProgram(d.load) /\ IsProgram(d.exit)
<1> DEFINE disk(i) == DeleteDisk(i) \o <<Drop(Data(i)), Drop(Rdev(i))>>
<1>1. \A i \in 1..2 : /\ IsThing(Rdev(i)) /\ IsThing(Data(i)) /\ IsThing(Queue(i)) /\ IsThing(Gd(i))
                      /\ IsThing(Disk(i)) /\ IsThing(Space(i))
  BY Things
<1>2. IsThing(One("major")) /\ IsThing(One("rd"))
  BY Things DEF Kinds
<1>3. \A i \in 1..2 : IsBlock(AddDiskUntested(i)) /\ IsBlock(DeleteDisk(i))
  BY <1>1, AreSteps, Blocks DEF AddDiskUntested, DeleteDisk
<1>4. \A s : IsBlock(s[1]) /\ IsBlock(s[2]) => IsBlock(Both(s))
  BY BlockConcat DEF Both
<1>5. IsProgram(RamhdExit)
  <2>1. IsBlock(disk(1)) /\ IsBlock(disk(2))
    BY <1>3, AreSteps, Blocks, BlockConcat
  <2>2. IsBlock(<<Drop(One("major"))>>)
    BY AreSteps, Blocks
  <2> DEFINE s == [i \in 1..2 |-> disk(i)]
  <2>3. s[1] = disk(1) /\ s[2] = disk(2)
    OBVIOUS
  <2> HIDE DEF s, disk
  <2>4. IsProgram(Both(s) \o <<Drop(One("major"))>> \o Return)
    BY <1>4, <2>1, <2>2, <2>3, BlockConcat, BlockProgram, ProgEnds
  <2> QED
    BY <2>4 DEF RamhdExit, s, disk
<1>6. \A i \in 1..2 : IsBlock(ReleaseRdev(i))
  BY EmptyBlock, AreSteps, Blocks DEF ReleaseRdev
<1>7. ASSUME NEW rest, IsProgram(rest)
      PROVE  \A i \in 1..2 : IsBlock(AllocRamdev(i, rest))
  <2> TAKE i \in 1..2
  <2>1. IsProgram(ReleaseRdev(i) \o rest)
    BY <1>6, <1>7, BlockProgram
  <2>2. IsProgram(<<Misfree(Rdev(i))>> \o ReleaseRdev(i) \o rest)
    BY <1>6, <1>7, AreSteps, Blocks, BlockConcat, BlockProgram
  <2> QED
    BY <1>1, <2>1, <2>2, AreSteps, Blocks DEF AllocRamdev
<1>8. IsBlock(<<May(One("major"))>>)
  BY <1>2, AreSteps, Blocks
<1>9. CASE d = RamhdMkreq
  <2> DEFINE t == [i \in 1..2 |-> AddDiskUntested(i)]
             rest == <<May(One("major"))>> \o Both(t) \o Return
             s == [i \in 1..2 |-> AllocRamdev(i, rest)]
  <2>1. t[1] = AddDiskUntested(1) /\ t[2] = AddDiskUntested(2)
    OBVIOUS
  <2>2. s[1] = AllocRamdev(1, rest) /\ s[2] = AllocRamdev(2, rest)
    OBVIOUS
  <2> HIDE DEF t
  <2>3. IsProgram(rest)
    BY <1>3, <1>4, <1>8, <2>1, BlockConcat, BlockProgram, ProgEnds
  <2> HIDE DEF rest, s
  <2>4. IsProgram(Both(s) \o rest)
    BY <1>4, <1>7, <2>2, <2>3, BlockProgram
  <2> QED
    BY <1>5, <1>9, <2>4 DEF RamhdMkreq, Driver, s, rest, t
<1>10. CASE d = RamhdReq
  <2> DEFINE AddDisk(i) == <<Use(Rdev(i)), May(Queue(i)), Use(Queue(i)),
                             Try(Gd(i), <<Put(Data(i))>> \o Fail), Sure(Disk(i))>>
             t == [i \in 1..2 |-> AddDisk(i)]
             rest == <<May(One("major"))>> \o Both(t) \o Return
             s == [i \in 1..2 |-> AllocRamdev(i, rest)]
  <2>1. t[1] = AddDisk(1) /\ t[2] = AddDisk(2)
    OBVIOUS
  <2>2. s[1] = AllocRamdev(1, rest) /\ s[2] = AllocRamdev(2, rest)
    OBVIOUS
  <2>3. \A i \in 1..2 : IsBlock(AddDisk(i))
    <3>1. \A i \in 1..2 : IsProgram(<<Put(Data(i))>> \o Fail)
      BY AreSteps, Blocks, BlockProgram, ProgEnds
    <3> QED
      BY <1>1, <3>1, AreSteps, Blocks
  <2> HIDE DEF t, AddDisk
  <2>4. IsProgram(rest)
    BY <1>4, <1>8, <2>1, <2>3, BlockConcat, BlockProgram, ProgEnds
  <2> HIDE DEF rest, s
  <2>5. IsProgram(Both(s) \o rest)
    BY <1>4, <1>7, <2>2, <2>4, BlockProgram
  <2> QED
    BY <1>5, <1>10, <2>5 DEF RamhdReq, Driver, s, rest, t, AddDisk
<1>11. CASE d = Ramdisk
  <2> DEFINE t == [i \in 1..2 |-> AddDiskUntested(i)]
             u == [i \in 1..2 |-> DeleteDisk(i)]
             rest == <<May(One("major"))>> \o Both(t) \o Return
             spaces == <<Put(Rdev(1)), Put(Rdev(2)), Drop(Space(1)), Drop(Space(2))>>
  <2>1. /\ t[1] = AddDiskUntested(1) /\ t[2] = AddDiskUntested(2)
        /\ u[1] = DeleteDisk(1) /\ u[2] = DeleteDisk(2)
    OBVIOUS
  <2>2. IsBlock(spaces) /\ IsBlock(<<Drop(One("major"))>>)
    BY AreSteps, Blocks
  <2> HIDE DEF t, u, spaces
  <2>3. IsProgram(rest)
    BY <1>3, <1>4, <1>8, <2>1, BlockConcat, BlockProgram, ProgEnds
  <2> HIDE DEF rest
  <2>4. IsProgram(<<Try(Space(1), Fail), Try(Space(2), Fail), Try(Rdev(1), rest), Try(Rdev(2), rest)>>
                      \o rest)
    <3>1. /\ IsStep(Try(Space(1), Fail)) /\ IsStep(Try(Space(2), Fail))
          /\ IsStep(Try(Rdev(1), rest)) /\ IsStep(Try(Rdev(2), rest))
      BY <1>1, <2>3, AreSteps, ProgEnds
    <3> QED
      BY <2>3, <3>1, Blocks, BlockProgram
  <2>5. IsProgram(Both(u) \o spaces \o <<Drop(One("major"))>> \o Return)
    BY <1>3, <1>4, <2>1, <2>2, BlockConcat, BlockProgram, ProgEnds
  <2> QED
    BY <1>11, <2>4, <2>5 DEF Ramdisk, Driver, rest, t, u, spaces
<1>12. CASE d = RockDisk
  <2> DEFINE Unset(i) == (IF i = 1 THEN <<>> ELSE <<Misfree(One("rd"))>>) \o <<Drop(One("major"))>> \o Fail
             SetupDevice(i) ==
                <<Try(Data(i), Unset(i)), Try(Queue(i), <<Drop(Data(i))>> \o Unset(i)),
                  May(Gd(i)), Use(Gd(i)), Sure(Disk(i))>>
             t == [i \in 1..2 |-> SetupDevice(i)]
             u == [i \in 1..2 |-> <<Drop(Disk(i)), Drop(Data(i))>>]
             first == <<Try(One("major"), Fail), Try(One("rd"), <<Drop(One("major"))>> \o Fail)>>
             final == <<Drop(One("rd")), Drop(One("major"))>>
  <2>1. /\ t[1] = SetupDevice(1) /\ t[2] = SetupDevice(2)
        /\ u[1] = <<Drop(Disk(1)), Drop(Data(1))>> /\ u[2] = <<Drop(Disk(2)), Drop(Data(2))>>
    OBVIOUS
  <2>2. \A i \in 1..2 : IsProgram(Unset(i))
    BY EmptyBlock, AreSteps, Blocks, BlockConcat, BlockProgram, ProgEnds
  <2> HIDE DEF Unset
  <2>3. \A i \in 1..2 : IsBlock(SetupDevice(i))
    <3>1. \A i \in 1..2 : IsProgram(<<Drop(Data(i))>> \o Unset(i))
      BY <2>2, AreSteps, Blocks, BlockProgram
    <3> QED
      BY <1>1, <2>2, <3>1, AreSteps, Blocks
  <2>4. IsBlock(first) /\ IsBlock(final)
    <3>1. IsProgram(<<Drop(One("major"))>> \o Fail)
      BY AreSteps, Blocks, BlockProgram, ProgEnds
    <3> QED
      BY <1>2, <3>1, AreSteps, Blocks, ProgEnds
  <2>5. IsBlock(u[1]) /\ IsBlock(u[2])
    BY <2>1, AreSteps, Blocks
  <2> HIDE DEF t, u, first, final, SetupDevice
  <2>6. IsProgram(first \o Both(t) \o Return)
    BY <1>4, <2>1, <2>3, <2>4, BlockConcat, BlockProgram, ProgEnds
  <2>7. IsProgram(Both(u) \o final \o Return)
    BY <1>4, <2>4, <2>5, BlockConcat, BlockProgram, ProgEnds
  <2> QED
    BY <1>12, <2>6, <2>7 DEF RockDisk, Driver, t, u, first, final, SetupDevice, Unset
<1> QED
  BY <1>9, <1>10, <1>11, <1>12

LEMMA Programs ==
    ASSUME NEW d \in DOMAIN Drivers
    PROVE  IsProgram(Drivers[d].load) /\ IsProgram(Drivers[d].exit)
<1>1. Drivers[d] \in {WaitQueueConsumer, WaitQueueList, WorkQueue, WaitQueue, KthreadShoudStop,
                      Completion, NotifierChains, Cdev, WaitQueueDemo, WaitQueueTest,
                      AddWaitQueueExclusive, CdevDemo, Buttons, Tasklet, AnonDebug, AnonDebug32,
                      RamhdMkreq, RamhdReq, Ramdisk, RockDisk}
  BY DEF Drivers
<1> QED
  BY <1>1, CdevPrograms, ButtonsPrograms, DebugPrograms, DiskPrograms

-----------------------------------------------------------------------------
(* Types, and the walk.                                                    *)

\* What is left of a function is a program.
ProgramInv ==
    /\ phase \in {"loading", "unloading"} => IsProgram(todo)
    /\ phase = "oops" => todo = <<>>

\* A walk is of what the function is at, and as far as WalkInv says.
TreeInv ==
    walk = NoWalk \/
        /\ todo # <<>> /\ Head(todo).op = "walk" /\ What \in held \cap Dirs
        /\ walk.on /\ walk.root = What
        /\ IF walk.done THEN Lists(Tree, walk.root, walk.out) ELSE WalkInv(Tree, walk)

\* Inductive: the types, with the program and the walk that keep them.
TypeInv == LifeTypeOK /\ ProgramInv /\ TreeInv

\* Whichever directories are there, they are a tree.
LEMMA DirsAreATree ==
    ASSUME NEW there
    PROVE  IsTree([dentries |-> there \cap Dirs, up |-> DirParent, born |-> DirBorn])
<1>1. IsFiniteSet(there \cap Dirs)
  <2>1. IsFiniteSet(Dirs)
    <3>1. /\ IsFiniteSet({DirA}) /\ IsFiniteSet({DirA, DirB1}) /\ IsFiniteSet({DirA, DirB1, DirB2})
          /\ IsFiniteSet({DirA, DirB1, DirB2, DirC1})
      BY FS_Singleton, FS_AddElement
    <3>2. Dirs = {DirA, DirB1, DirB2, DirC1} \cup {DirC2}
      BY DEF Dirs
    <3> QED
      BY <3>1, <3>2, FS_AddElement
  <2> QED
    BY <2>1, FS_Subset
<1>2. /\ DirBorn[DirA] = 1 /\ DirBorn[DirB1] = 2 /\ DirBorn[DirB2] = 3
      /\ DirBorn[DirC1] = 4 /\ DirBorn[DirC2] = 5
      /\ DirParent[DirA] = One("root") /\ DirParent[DirB1] = DirA /\ DirParent[DirB2] = DirA
      /\ DirParent[DirC1] = DirB1 /\ DirParent[DirC2] = DirB1
  BY DEF DirParent, DirBorn, Dirs, DirA, DirB1, DirB2, DirC1, DirC2, One, Thing
<1>3. One("root") \notin Dirs
  BY DEF Dirs, DirA, DirB1, DirB2, DirC1, DirC2, One, Thing
<1> QED
  BY <1>1, <1>2, <1>3 DEF Dirs, IsTree

LEMMA TreeIsTree == IsTree(Tree) /\ IsTree(Tree)'
BY DirsAreATree DEF Tree

LEMMA InitTypeInv == LifeInit => TypeInv
<1> SUFFICES ASSUME LifeInit PROVE TypeInv
  OBVIOUS
<1>1. ~NoWalk.on
  BY DEF NoWalk
<1> QED
  BY <1>1, TreeIsTree DEF LifeInit, TypeInv, LifeTypeOK, ProgramInv, TreeInv

\* A step of a program leads on in it, or ends it.
LEMMA TodoStep ==
    ASSUME TypeInv, todo # <<>>
    PROVE  /\ phase \in {"loading", "unloading"} /\ IsProgram(todo) /\ IsStep(Head(todo))
           /\ Head(todo).op \notin Ends => IsProgram(Tail(todo)) /\ Tail(todo) # <<>>
BY ProgStep DEF TypeInv, LifeTypeOK, ProgramInv

\* No walk is on at any other step.
LEMMA NoWalkOn ==
    ASSUME TypeInv, todo # <<>> => Head(todo).op # "walk"
    PROVE  walk = NoWalk
BY DEF TypeInv, TreeInv

\* A step that goes on in the program and does not walk.
LEMMA GoesOn ==
    ASSUME TypeInv, todo # <<>>, Head(todo).op # "walk", UNCHANGED <<driver, phase, walk, user, pending>>,
           IsProgram(todo'), failed' \in BOOLEAN, wrong' \subseteq {"early", "absent", "misfreed", "gone"},
           held' \subseteq Kinds \X (0..2)
    PROVE  TypeInv'
<1>1. walk = NoWalk /\ ~NoWalk.on /\ ~NoWalk.done
  BY NoWalkOn DEF NoWalk
<1>2. todo' # <<>> /\ phase \in {"loading", "unloading"}
  BY TodoStep, ProgStep
<1> QED
  BY <1>1, <1>2, TreeIsTree DEF TypeInv, LifeTypeOK, ProgramInv, TreeInv, Uses

\* A step after which the module's code does not go on.
LEMMA StopsThere ==
    ASSUME TypeInv, todo # <<>>, Head(todo).op # "walk", UNCHANGED <<driver, held, walk, user, pending, failed>>,
           todo' = <<>>, phase' \in {"live", "gone", "oops"},
           wrong' \subseteq {"early", "absent", "misfreed", "gone"}
    PROVE  TypeInv'
<1>1. walk = NoWalk /\ ~NoWalk.on /\ ~NoWalk.done
  BY NoWalkOn DEF NoWalk
<1> QED
  BY <1>1, TreeIsTree DEF TypeInv, LifeTypeOK, ProgramInv, TreeInv, Uses

\* What comes in leaves the module's functions where they are.
LEMMA ComesIn ==
    ASSUME TypeInv, UNCHANGED <<driver, phase, todo, held, walk, failed>>,
           user' \in DOMAIN Uses \cup {Nobody}, pending' \in BOOLEAN,
           wrong' \subseteq {"early", "absent", "misfreed", "gone"}
    PROVE  TypeInv'
<1>1. Tree' = Tree /\ What' = What /\ Uses' = Uses
  BY DEF Tree, What, Uses
<1> QED
  BY <1>1, TreeIsTree DEF TypeInv, LifeTypeOK, ProgramInv, TreeInv

LEMMA WalkTypeInv ==
    ASSUME TypeInv, WalkTree
    PROVE  TypeInv'
<1> USE DEF WalkTree, Now
<1>1. ~NoWalk.on /\ ~NoWalk.done
  BY DEF NoWalk
<1>2. todo # <<>> /\ Head(todo).op = "walk" /\ IsProgram(Tail(todo)) /\ Tail(todo) # <<>>
      /\ What \in Dirs /\ phase \in {"loading", "unloading"}
  BY TodoStep DEF Ends, IsStep, What
<1>3. wrong' \subseteq {"early", "absent", "misfreed", "gone"}
  BY DEF TypeInv, LifeTypeOK
<1>4. Tree' = Tree /\ Uses' = Uses
  BY DEF Tree, Uses
<1>5. CASE walk' = NoWalk /\ todo' = Tail(todo)
  BY <1>1, <1>2, <1>3, <1>4, <1>5, TreeIsTree DEF TypeInv, LifeTypeOK, ProgramInv, TreeInv
<1>6. CASE What \notin held
  <2>1. walk = NoWalk
    BY <1>6 DEF TypeInv, TreeInv
  <2> QED
    BY <1>5, <1>6, <2>1
<1>7. CASE What \in held /\ walk.done
  BY <1>5, <1>7
<1>8. CASE What \in held /\ ~walk.done
  <2>1. UNCHANGED <<driver, phase, todo, held, user, pending, failed, wrong>> /\ What' = What
    BY <1>8 DEF What
  <2>2. What \in Tree.dentries
    BY <1>2, <1>8 DEF Tree
  <2> SUFFICES /\ walk'.on /\ walk'.root = What
               /\ IF walk'.done THEN Lists(Tree, walk'.root, walk'.out) ELSE WalkInv(Tree, walk')
    BY <1>2, <1>4, <1>8, <2>1, TreeIsTree DEF TypeInv, LifeTypeOK, ProgramInv, TreeInv
  <2>3. CASE ~walk.on
    <3>1. walk' = WalkFrom(Tree, What)
      BY <1>8, <2>3
    <3>2. walk'.on /\ walk'.root = What /\ ~walk'.done
      BY <3>1 DEF WalkFrom
    <3> QED
      BY <2>2, <3>1, <3>2, TreeIsTree, StartOfWalk
  <2>4. CASE walk.on
    <3>1. walk' = WalkStep(Tree, walk)
      BY <1>8, <2>4
    <3>2. WalkInv(Tree, walk) /\ walk.root = What
      BY <1>1, <1>8, <2>4 DEF TypeInv, TreeInv
    <3>3. walk'.on
      BY <2>4, <3>1, <3>2 DEF WalkStep, ListEntry, EndOfList, WalkInv, WalkType
    <3>4. CASE walk.dir = {} /\ walk.parent = walk.root
      BY <3>1, <3>2, <3>3, <3>4, TreeIsTree, StepEnd
    <3>5. CASE walk.dir # {} \/ walk.parent # walk.root
      <4>1. WalkInv(Tree, walk') /\ walk'.root = walk.root
        BY <3>1, <3>2, <3>5, TreeIsTree, StepProgress
      <4>2. ~walk'.done
        BY <4>1 DEF WalkInv
      <4> QED
        BY <3>2, <3>3, <4>1, <4>2
    <3> QED
      BY <3>4, <3>5
  <2> QED
    BY <2>3, <2>4
<1> QED
  BY <1>6, <1>7, <1>8

LEMMA StepTypeInv ==
    ASSUME TypeInv, [LifeNext]_lifeVars
    PROVE  TypeInv'
<1> DEFINE bad == {"early", "absent", "misfreed", "gone"}
<1>1. /\ held \subseteq Kinds \X (0..2) /\ wrong \subseteq bad /\ failed \in BOOLEAN
      /\ pending \in BOOLEAN /\ user \in DOMAIN Uses \cup {Nobody} /\ driver \in DOMAIN Drivers
  BY DEF TypeInv, LifeTypeOK
<1>2. \A needs : Runs(needs) => wrong' \subseteq bad
  BY <1>1 DEF Runs
<1>3. todo # <<>> => IsStep(Head(todo)) /\ (Head(todo).op \notin Ends => IsProgram(Tail(todo)))
  BY TodoStep
<1>4. CASE Load \/ Unload
  <2>1. IsProgram(todo')
    BY <1>1, <1>4, Programs DEF Load, Unload
  <2>2. walk = NoWalk /\ ~NoWalk.on /\ ~NoWalk.done
    BY <1>4, NoWalkOn DEF Load, Unload, TypeInv, LifeTypeOK, NoWalk
  <2>3. todo' # <<>>
    BY <2>1, ProgStep
  <2> QED
    BY <1>4, <2>1, <2>2, <2>3, TreeIsTree
       DEF Load, Unload, TypeInv, LifeTypeOK, ProgramInv, TreeInv, Uses
<1>5. CASE Acquire
  <2>1. What \in Kinds \X (0..2) /\ IsProgram(Tail(todo))
    BY <1>3, <1>5 DEF Acquire, Now, IsStep, Takers, Ends, What
  <2>2. held' \subseteq Kinds \X (0..2)
    BY <1>1, <1>5, <2>1 DEF Acquire
  <2> QED
    BY <1>1, <1>5, <2>1, <2>2, GoesOn DEF Acquire, Now
<1>6. CASE Refuse
  BY <1>1, <1>3, <1>6, GoesOn DEF Refuse, Now, IsStep, Ends
<1>7. CASE Touch
  <2>1. CASE What \in held
    BY <1>1, <1>3, <1>7, <2>1, GoesOn DEF Touch, Now, Ends
  <2>2. CASE What \notin held
    BY <1>1, <1>7, <2>2, StopsThere DEF Touch, Now
  <2> QED
    BY <2>1, <2>2
<1>8. CASE Release
  <2>1. held' \subseteq Kinds \X (0..2) /\ wrong' \subseteq bad
    BY <1>1, <1>8 DEF Release
  <2> QED
    BY <1>1, <1>3, <1>8, <2>1, GoesOn DEF Release, Now, Ends
<1>9. CASE TestStep
  BY <1>1, <1>3, <1>9, GoesOn DEF TestStep, Now, IsStep, Ends
<1>10. CASE Finish
  BY <1>1, <1>10, StopsThere DEF Finish, Now
<1>11. CASE RemoveTree
  <2>1. held' \subseteq Kinds \X (0..2) /\ wrong' \subseteq bad
    BY <1>1, <1>11 DEF RemoveTree
  <2> QED
    BY <1>1, <1>3, <1>11, <2>1, GoesOn DEF RemoveTree, Now, Ends
<1>12. CASE WalkTree
  BY <1>12, WalkTypeInv
<1>13. CASE Open
  BY <1>1, <1>13, ComesIn DEF Open, Entries
<1>14. CASE Call
  BY <1>1, <1>2, <1>14, ComesIn DEF Call
<1>15. CASE Close
  BY <1>1, <1>2, <1>15, ComesIn DEF Close
<1>16. CASE Comes
  BY <1>1, <1>2, <1>16, ComesIn DEF Comes
<1>17. CASE TaskletFunc
  BY <1>1, <1>2, <1>17, ComesIn DEF TaskletFunc
<1>18. CASE UNCHANGED lifeVars
  BY <1>1, <1>18, ComesIn DEF lifeVars
<1> QED
  BY <1>4, <1>5, <1>6, <1>7, <1>8, <1>9, <1>10, <1>11, <1>12, <1>13, <1>14, <1>15, <1>16, <1>17,
     <1>18 DEF LifeNext, ModuleStep

LEMMA AlwaysTypeInv == LifeSpec => []TypeInv
<1>1. LifeInit => TypeInv
  BY InitTypeInv
<1>2. TypeInv /\ [LifeNext]_lifeVars => TypeInv'
  BY StepTypeInv
<1> QED
  BY <1>1, <1>2, PTL DEF LifeSpec

\* The steps of each driver's functions, what it holds and where its module is fit
\* together, with the directories of a debugfs tree a tree at every moment.
THEOREM LifeTypeCorrect == LifeSpec => []LifeTypeOK
<1>1. TypeInv => LifeTypeOK
  BY DEF TypeInv
<1> QED
  BY <1>1, AlwaysTypeInv, PTL

\* anon_debug: a walk that is done has printed the tree as it stands, every directory
\* below dir_a once and after what is in it, whichever of the directories were made.
THEOREM TreeIsListed == LifeSpec => []ListsTheTree
<1>1. TypeInv => ListsTheTree
  BY DEF TypeInv, TreeInv, ListsTheTree, NoWalk
<1> QED
  BY <1>1, AlwaysTypeInv, PTL

-----------------------------------------------------------------------------
(* What a function holds from step to step while nothing fails.            *)

\* The steps that give something back.
Givers == {"drop", "put"}

\* What is held after step x.
After(x, h) ==
    IF x.op \in Takers THEN h \cup {x.what} ELSE IF x.op \in Givers THEN h \ {x.what} ELSE h

\* Whatever brings in calls finds what these touch.
Complete(d, h) == \A e \in h \cap DOMAIN Drivers[d].uses : Drivers[d].uses[e] \subseteq h

\* As far as FindsItsData promises it for d.
Sound(d, p, h) == d \in Stale \/ (p = "loading" /\ d \in Early) \/ Complete(d, h)

\* What is left of a function undoes all that is held, which nobody has open.
Undoes(d, s, h) ==
    /\ h \cap DOMAIN Drivers[d].uses = {}
    /\ \/ s = Fail /\ h = {}
       \/ s = <<Drop(One("region"))>> \o Fail /\ h = {One("region")}

\* A step of the function of phase p that is right where h is held.
Fits(d, p, x, h) ==
    /\ p = "loading" => x.op \in Takers \cup {"use", "return"}
    /\ p = "unloading" => x.op \in Givers \cup {"return", "never"}
    /\ Sound(d, p, h)
    /\ x.op \in {"use", "drop"} => x.what \in h
    /\ x.op \in Givers => x.what # One("tasklet")
    /\ d \in Undo => x.op \notin {"ask", "may"} /\ (x.op = "try" => Undoes(d, x.to, h))

\* All steps of s are, from h on, and g is held at its end.
Safe(d, p, s, h, g) ==
    \E R : /\ <<s, h>> \in R
           /\ \A r \in R :
                 /\ IsSeq(r[1]) /\ r[1] # <<>> /\ Fits(d, p, Head(r[1]), r[2])
                 /\ IF Head(r[1]).op \in Ends THEN r[2] = g
                    ELSE <<Tail(r[1]), After(Head(r[1]), r[2])>> \in R

\* A right step that leads from h to k.
Moves(d, p, x, h, k) == Fits(d, p, x, h) /\ x.op \notin Ends /\ k = After(x, h)

\* Safe is kept by a step, and holds of a sequence if it does of its rest.
LEMMA SafeStep ==
    ASSUME NEW d, NEW p, NEW s, NEW h, NEW g, Safe(d, p, s, h, g)
    PROVE  /\ IsSeq(s) /\ s # <<>> /\ Fits(d, p, Head(s), h)
           /\ Head(s).op \in Ends => h = g
           /\ Head(s).op \notin Ends => Safe(d, p, Tail(s), After(Head(s), h), g)
<1>1. PICK R : /\ <<s, h>> \in R
               /\ \A r \in R :
                     /\ IsSeq(r[1]) /\ r[1] # <<>> /\ Fits(d, p, Head(r[1]), r[2])
                     /\ IF Head(r[1]).op \in Ends THEN r[2] = g
                        ELSE <<Tail(r[1]), After(Head(r[1]), r[2])>> \in R
  BY DEF Safe
<1>2. /\ IsSeq(s) /\ s # <<>> /\ Fits(d, p, Head(s), h)
      /\ IF Head(s).op \in Ends THEN h = g ELSE <<Tail(s), After(Head(s), h)>> \in R
  BY <1>1
<1>3. Head(s).op \notin Ends => Safe(d, p, Tail(s), After(Head(s), h), g)
  BY <1>1, <1>2 DEF Safe
<1> QED
  BY <1>2, <1>3

LEMMA SafeLast ==
    ASSUME NEW d, NEW p, NEW x, NEW h, Fits(d, p, x, h), x.op \in Ends, NEW r, IsSeq(r)
    PROVE  Safe(d, p, <<x>> \o r, h, h)
<1> DEFINE s == <<x>> \o r
           R == {<<s, h>>}
<1>1. IsSeq(s) /\ s # <<>> /\ Head(s) = x
  BY ConsIsSeq
<1> HIDE DEF s
<1>2. <<s, h>> \in R
  OBVIOUS
<1>3. ASSUME NEW q \in R PROVE q[1] = s /\ q[2] = h
  OBVIOUS
<1> HIDE DEF R
<1>4. Safe(d, p, s, h, h)
  BY <1>1, <1>2, <1>3 DEF Safe
<1> QED
  BY <1>4 DEF s

LEMMA SafeCons ==
    ASSUME NEW d, NEW p, NEW x, NEW h, NEW k, Moves(d, p, x, h, k), NEW r, NEW g, Safe(d, p, r, k, g)
    PROVE  Safe(d, p, <<x>> \o r, h, g)
<1> DEFINE s == <<x>> \o r
<1>1. PICK R : /\ <<r, k>> \in R
               /\ \A q \in R :
                     /\ IsSeq(q[1]) /\ q[1] # <<>> /\ Fits(d, p, Head(q[1]), q[2])
                     /\ IF Head(q[1]).op \in Ends THEN q[2] = g
                        ELSE <<Tail(q[1]), After(Head(q[1]), q[2])>> \in R
  BY DEF Safe
<1>2. IsSeq(r)
  BY SafeStep
<1>3. IsSeq(s) /\ s # <<>> /\ Head(s) = x /\ Tail(s) = r
  BY <1>2, ConsIsSeq
<1> HIDE DEF s
<1> DEFINE Q == R \cup {<<s, h>>}
<1>4. <<s, h>> \in Q
  OBVIOUS
<1>5. ASSUME NEW q \in Q
      PROVE  /\ IsSeq(q[1]) /\ q[1] # <<>> /\ Fits(d, p, Head(q[1]), q[2])
             /\ IF Head(q[1]).op \in Ends THEN q[2] = g
                ELSE <<Tail(q[1]), After(Head(q[1]), q[2])>> \in Q
  <2>1. CASE q \in R
    BY <1>1, <2>1
  <2>2. CASE q = <<s, h>>
    BY <1>1, <1>3, <2>2 DEF Moves
  <2> QED
    BY <2>1, <2>2
<1> HIDE DEF Q
<1>6. Safe(d, p, s, h, g)
  BY <1>4, <1>5 DEF Safe
<1> QED
  BY <1>6 DEF s

\* Steps that lead from h to k.
SafeBlock(d, p, b, h, k) ==
    IsSeq(b) /\ \A r, g : Safe(d, p, r, k, g) => Safe(d, p, b \o r, h, g)

LEMMA SafeConcat ==
    ASSUME NEW d, NEW p, NEW s, NEW t, NEW h, NEW k, NEW l, SafeBlock(d, p, s, h, k), SafeBlock(d, p, t, k, l)
    PROVE  SafeBlock(d, p, s \o t, h, l)
<1>1. IsSeq(s) /\ IsSeq(t) /\ IsSeq(s \o t)
  BY ConcatIsSeq DEF SafeBlock
<1>2. ASSUME NEW r, NEW g, Safe(d, p, r, l, g) PROVE Safe(d, p, (s \o t) \o r, h, g)
  <2>1. IsSeq(r)
    BY <1>2, SafeStep
  <2>2. (s \o t) \o r = s \o (t \o r)
    BY <1>1, <2>1, Concat
  <2>3. Safe(d, p, s \o (t \o r), h, g)
    BY <1>2 DEF SafeBlock
  <2> QED
    BY <2>2, <2>3
<1> QED
  BY <1>1, <1>2 DEF SafeBlock

LEMMA SafeTuples ==
    ASSUME NEW d, NEW p
    PROVE  /\ \A a, h, k : Moves(d, p, a, h, k) => SafeBlock(d, p, <<a>>, h, k)
           /\ \A a, b, h, k, l : Moves(d, p, a, h, k) /\ Moves(d, p, b, k, l)
                  => SafeBlock(d, p, <<a, b>>, h, l)
           /\ \A a, b, c, h, k, l, m :
                  Moves(d, p, a, h, k) /\ Moves(d, p, b, k, l) /\ Moves(d, p, c, l, m)
                  => SafeBlock(d, p, <<a, b, c>>, h, m)
           /\ \A a, b, c, e, h, k, l, m, n :
                  /\ Moves(d, p, a, h, k) /\ Moves(d, p, b, k, l) /\ Moves(d, p, c, l, m)
                  /\ Moves(d, p, e, m, n)
                  => SafeBlock(d, p, <<a, b, c, e>>, h, n)
           /\ \A a, b, c, e, f, h, k, l, m, n, o :
                  /\ Moves(d, p, a, h, k) /\ Moves(d, p, b, k, l) /\ Moves(d, p, c, l, m)
                  /\ Moves(d, p, e, m, n) /\ Moves(d, p, f, n, o)
                  => SafeBlock(d, p, <<a, b, c, e, f>>, h, o)
           /\ \A a, b, c, e, f, g, h, k, l, m, n, o, q :
                  /\ Moves(d, p, a, h, k) /\ Moves(d, p, b, k, l) /\ Moves(d, p, c, l, m)
                  /\ Moves(d, p, e, m, n) /\ Moves(d, p, f, n, o) /\ Moves(d, p, g, o, q)
                  => SafeBlock(d, p, <<a, b, c, e, f, g>>, h, q)
<1>1. ASSUME NEW a, NEW h, NEW k, Moves(d, p, a, h, k)
      PROVE  SafeBlock(d, p, <<a>>, h, k)
  BY <1>1, Tuples, SafeCons DEF SafeBlock
<1>2. ASSUME NEW a, NEW b, NEW h, NEW k, NEW l, Moves(d, p, a, h, k), Moves(d, p, b, k, l)
      PROVE  SafeBlock(d, p, <<a, b>>, h, l)
  <2> DEFINE s == <<a>>
             t == <<b>>
  <2>1. SafeBlock(d, p, s, h, k) /\ SafeBlock(d, p, t, k, l)
    BY <1>1, <1>2
  <2>2. <<a, b>> = s \o t
    BY Cons
  <2> HIDE DEF s, t
  <2> QED
    BY <2>1, <2>2, SafeConcat
<1>3. ASSUME NEW a, NEW b, NEW c, NEW h, NEW k, NEW l, NEW m,
             Moves(d, p, a, h, k), Moves(d, p, b, k, l), Moves(d, p, c, l, m)
      PROVE  SafeBlock(d, p, <<a, b, c>>, h, m)
  <2> DEFINE s == <<a>>
             t == <<b, c>>
  <2>1. SafeBlock(d, p, s, h, k)
    BY <1>1, <1>3
  <2>2. SafeBlock(d, p, t, k, m)
    BY <1>2, <1>3
  <2>3. <<a, b, c>> = s \o t
    BY Cons
  <2> HIDE DEF s, t
  <2> QED
    BY <2>1, <2>2, <2>3, SafeConcat
<1>4. ASSUME NEW a, NEW b, NEW c, NEW e, NEW h, NEW k, NEW l, NEW m, NEW n,
             Moves(d, p, a, h, k), Moves(d, p, b, k, l), Moves(d, p, c, l, m), Moves(d, p, e, m, n)
      PROVE  SafeBlock(d, p, <<a, b, c, e>>, h, n)
  <2> DEFINE s == <<a>>
             t == <<b, c, e>>
  <2>1. SafeBlock(d, p, s, h, k)
    BY <1>1, <1>4
  <2>2. SafeBlock(d, p, t, k, n)
    BY <1>3, <1>4
  <2>3. <<a, b, c, e>> = s \o t
    BY Cons
  <2> HIDE DEF s, t
  <2> QED
    BY <2>1, <2>2, <2>3, SafeConcat
<1>5. ASSUME NEW a, NEW b, NEW c, NEW e, NEW f, NEW h, NEW k, NEW l, NEW m, NEW n, NEW o,
             Moves(d, p, a, h, k), Moves(d, p, b, k, l), Moves(d, p, c, l, m), Moves(d, p, e, m, n),
             Moves(d, p, f, n, o)
      PROVE  SafeBlock(d, p, <<a, b, c, e, f>>, h, o)
  <2> DEFINE s == <<a>>
             t == <<b, c, e, f>>
  <2>1. SafeBlock(d, p, s, h, k)
    BY <1>1, <1>5
  <2>2. SafeBlock(d, p, t, k, o)
    BY <1>4, <1>5
  <2>3. <<a, b, c, e, f>> = s \o t
    BY Cons
  <2> HIDE DEF s, t
  <2> QED
    BY <2>1, <2>2, <2>3, SafeConcat
<1>6. ASSUME NEW a, NEW b, NEW c, NEW e, NEW f, NEW g, NEW h, NEW k, NEW l, NEW m, NEW n, NEW o, NEW q,
             Moves(d, p, a, h, k), Moves(d, p, b, k, l), Moves(d, p, c, l, m), Moves(d, p, e, m, n),
             Moves(d, p, f, n, o), Moves(d, p, g, o, q)
      PROVE  SafeBlock(d, p, <<a, b, c, e, f, g>>, h, q)
  <2> DEFINE s == <<a>>
             t == <<b, c, e, f, g>>
  <2>1. SafeBlock(d, p, s, h, k)
    BY <1>1, <1>6
  <2>2. SafeBlock(d, p, t, k, q)
    BY <1>5, <1>6
  <2>3. <<a, b, c, e, f, g>> = s \o t
    BY Cons
  <2> HIDE DEF s, t
  <2> QED
    BY <2>1, <2>2, <2>3, SafeConcat
<1> QED
  BY <1>1, <1>2, <1>3, <1>4, <1>5, <1>6

\* What moves the steps of DriverTable make.
LEMMA StepsMove ==
    ASSUME NEW d, NEW h, NEW w
    PROVE  /\ Sound(d, "loading", h) =>
                /\ Moves(d, "loading", Sure(w), h, h \cup {w})
                /\ d \notin Undo => Moves(d, "loading", May(w), h, h \cup {w})
                /\ \A to : (d \in Undo => Undoes(d, to, h)) => Moves(d, "loading", Try(w, to), h, h \cup {w})
                /\ w \in h => Moves(d, "loading", Use(w), h, h)
           /\ Sound(d, "unloading", h) /\ w # One("tasklet") =>
                /\ w \in h => Moves(d, "unloading", Drop(w), h, h \ {w})
                /\ Moves(d, "unloading", Put(w), h, h \ {w})
BY DEF Moves, Fits, After, Sure, May, Try, Use, Drop, Put, Step, Takers, Givers, Ends

LEMMA ReturnIsSafe ==
    ASSUME NEW d, NEW p \in {"loading", "unloading"}, NEW h, Sound(d, p, h)
    PROVE  Safe(d, p, Return, h, h)
<1> DEFINE x == Step("return", <<>>, <<>>)
<1>1. Fits(d, p, x, h) /\ x.op \in Ends
  BY DEF Fits, Step, Givers, Takers, Ends
<1>2. IsSeq(<<>>) /\ Return = <<x>> \o <<>>
  <2>1. <<>> \in Seq({x}) /\ <<x>> = <<x>> \o <<>>
    OBVIOUS
  <2> QED
    BY <2>1 DEF IsSeq, Return
<1> HIDE DEF x
<1> QED
  BY <1>1, <1>2, SafeLast

\* The drivers of debugfs trees.
Debugged == {"anon_debug", "anon_debug_32"}

\* What a clean-up leaves at the most.
Leaves(d, k) == d \in CleanUp => k \subseteq Initialised \ DOMAIN Drivers[d].uses

\* With g held the driver is up, and its exit function takes it down.
Ready(d, g) ==
    /\ d = "tasklet" => One("tasklet") \in g
    /\ \E k : Safe(d, "unloading", Drivers[d].exit, g, k) /\ Leaves(d, k)

-----------------------------------------------------------------------------
(* The functions of each driver, where nothing fails.                      *)

LEMMA RegisterPath ==
    ASSUME NEW d, d \notin Undo, Sound(d, "loading", {}), Sound(d, "loading", {One("chrdev")}),
           NEW rest, NEW g, Safe(d, "loading", rest, {One("chrdev"), One("cdev")}, g)
    PROVE  Safe(d, "loading", RegisterTest(rest), {}, g)
<1> DEFINE a == Try(One("chrdev"), Fail)
           b == Try(One("cdev"), <<Drop(One("chrdev"))>> \o rest)
           h == {One("chrdev")}
           k == {One("chrdev"), One("cdev")}
<1>1. Moves(d, "loading", a, {}, h)
  <2>1. {} \cup {One("chrdev")} = h
    OBVIOUS
  <2>2. Moves(d, "loading", a, {}, {} \cup {One("chrdev")})
    BY StepsMove
  <2> QED
    BY <2>1, <2>2
<1>2. Moves(d, "loading", b, h, k)
  <2>1. h \cup {One("cdev")} = k
    OBVIOUS
  <2>2. Moves(d, "loading", b, h, h \cup {One("cdev")})
    BY StepsMove
  <2> QED
    BY <2>1, <2>2
<1>3. RegisterTest(rest) = <<a, b>> \o rest
  BY DEF RegisterTest
<1> HIDE DEF a, b, h
<1>4. SafeBlock(d, "loading", <<a, b>>, {}, k)
  BY <1>1, <1>2, SafeTuples
<1> QED
  BY <1>3, <1>4 DEF SafeBlock

LEMMA UnregisterPath ==
    ASSUME NEW d, NEW h, {One("chrdev"), One("cdev")} \subseteq h,
           Sound(d, "unloading", h), Sound(d, "unloading", h \ {One("cdev")})
    PROVE  SafeBlock(d, "unloading", UnregisterTest, h, (h \ {One("cdev")}) \ {One("chrdev")})
<1> DEFINE a == Drop(One("cdev"))
           b == Drop(One("chrdev"))
           k == h \ {One("cdev")}
           l == k \ {One("chrdev")}
<1>1. One("chrdev") # One("tasklet") /\ One("cdev") # One("tasklet") /\ One("chrdev") # One("cdev")
  BY DEF One, Thing
<1>2. Moves(d, "unloading", a, h, k) /\ Moves(d, "unloading", b, k, l)
  BY <1>1, StepsMove
<1> HIDE DEF a, b, k, l
<1>3. SafeBlock(d, "unloading", <<a, b>>, h, l)
  BY <1>2, SafeTuples
<1> QED
  BY <1>3 DEF UnregisterTest, a, b, k, l

\* The drivers that register with RegisterTest.
LEMMA RegisteredPath ==
    ASSUME NEW d, d \notin Undo, d # "tasklet", Sound(d, "loading", {}), Sound(d, "loading", {One("chrdev")}),
           NEW rest, Drivers[d].load = RegisterTest(rest),
           NEW g, Safe(d, "loading", rest, {One("chrdev"), One("cdev")}, g),
           {One("chrdev"), One("cdev")} \subseteq g,
           Sound(d, "unloading", g), Sound(d, "unloading", g \ {One("cdev")}),
           NEW final, Drivers[d].exit = UnregisterTest \o final,
           NEW k, Safe(d, "unloading", final, (g \ {One("cdev")}) \ {One("chrdev")}, k), Leaves(d, k)
    PROVE  \E m : Safe(d, "loading", Drivers[d].load, {}, m) /\ Ready(d, m)
<1>1. Safe(d, "loading", Drivers[d].load, {}, g)
  BY RegisterPath
<1>2. Safe(d, "unloading", Drivers[d].exit, g, k)
  BY UnregisterPath DEF SafeBlock
<1> QED
  BY <1>1, <1>2 DEF Ready

\* Those of them that are reached before their data are initialised.
LEMMA ConsumerPaths ==
    ASSUME NEW d \in {"wait_queue_consumer", "wait_queue_list", "work_queue", "wait_queue"}
    PROVE  \E g : Safe(d, "loading", Drivers[d].load, {}, g) /\ Ready(d, g)
<1> DEFINE reached == {One("chrdev"), One("cdev")}
           data == reached \cup {One("data")}
           thread == data \cup {One("thread")}
           wq == data \cup {One("wq")}
<1>1. d \notin Undo /\ d # "tasklet" /\ \A h : Sound(d, "loading", h)
  BY DEF Undo, Sound, Early
<1>2. Moves(d, "loading", Sure(One("data")), reached, data)
  BY <1>1, StepsMove
<1>3. One("data") \notin reached /\ One("wq") \notin reached
  BY DEF One, Thing
<1>4. CASE d \in {"wait_queue_consumer", "wait_queue_list"}
  <2> DEFINE rest == <<Sure(One("data")), May(One("thread")), Use(One("thread"))>> \o Return
             left == (thread \ {One("cdev")}) \ {One("chrdev")}
  <2>1. Drivers[d] = WaitQueueConsumer
    BY <1>4 DEF Drivers, WaitQueueList
  <2>2. Drivers[d].load = RegisterTest(rest) /\ Drivers[d].exit = UnregisterTest \o Return
    BY <2>1 DEF WaitQueueConsumer, Driver
  <2>3. \A h : One("data") \in h => Sound(d, "unloading", h)
    <3>1. Drivers[d].uses = [e \in Reached \cup {One("thread")} |-> {One("data")}]
      BY <2>1 DEF WaitQueueConsumer, Driver
    <3> QED
      BY <3>1 DEF Complete, Sound
  <2>4. /\ Moves(d, "loading", May(One("thread")), data, thread)
        /\ Moves(d, "loading", Use(One("thread")), thread, thread)
    BY <1>1, StepsMove
  <2>5. /\ One("data") \in thread /\ One("data") \in thread \ {One("cdev")} /\ One("data") \in left
        /\ reached \subseteq thread
    BY <1>3
  <2>6. Leaves(d, left)
    BY <1>4 DEF Leaves, CleanUp, Undo
  <2> HIDE DEF data, thread, rest, left
  <2>7. Safe(d, "loading", rest, reached, thread)
    BY <1>1, <1>2, <2>4, SafeTuples, ReturnIsSafe DEF SafeBlock, rest
  <2>8. Safe(d, "unloading", Return, left, left)
    BY <2>3, <2>5, ReturnIsSafe
  <2> QED
    BY <1>1, <2>2, <2>3, <2>5, <2>6, <2>7, <2>8, RegisteredPath DEF left
<1>5. CASE d = "work_queue"
  <2> DEFINE rest == <<Sure(One("data")), May(One("wq"))>> \o Return
             left == (wq \ {One("cdev")}) \ {One("chrdev")}
  <2>1. /\ Drivers[d].load = RegisterTest(rest) /\ Drivers[d].exit = UnregisterTest \o Return
        /\ Drivers[d].uses = [e \in Reached \cup {One("wq")} |->
               IF e \in Reached THEN {One("data"), One("wq")} ELSE {One("data")}]
    BY <1>5 DEF Drivers, WorkQueue, Driver
  <2>2. \A h : {One("data"), One("wq")} \subseteq h => Sound(d, "unloading", h)
    BY <2>1 DEF Complete, Sound
  <2>3. Moves(d, "loading", May(One("wq")), data, wq)
    BY <1>1, StepsMove
  <2>4. /\ {One("data"), One("wq")} \subseteq wq /\ {One("data"), One("wq")} \subseteq wq \ {One("cdev")}
        /\ {One("data"), One("wq")} \subseteq left /\ reached \subseteq wq
    BY <1>3
  <2>5. Leaves(d, left)
    BY <1>5 DEF Leaves, CleanUp, Undo
  <2> HIDE DEF data, wq, rest, left
  <2>6. Safe(d, "loading", rest, reached, wq)
    BY <1>1, <1>2, <2>3, SafeTuples, ReturnIsSafe DEF SafeBlock, rest
  <2>7. Safe(d, "unloading", Return, left, left)
    BY <2>2, <2>4, ReturnIsSafe
  <2> QED
    BY <1>1, <2>1, <2>2, <2>4, <2>5, <2>6, <2>7, RegisteredPath DEF left
<1>6. CASE d = "wait_queue"
  <2> DEFINE rest == <<Sure(One("data"))>> \o Return
             left == (data \ {One("cdev")}) \ {One("chrdev")}
  <2>1. /\ Drivers[d].load = RegisterTest(rest) /\ Drivers[d].exit = UnregisterTest \o Return
        /\ Drivers[d].uses = [e \in Reached |-> {One("data")}]
    BY <1>6 DEF Drivers, WaitQueue, Driver
  <2>2. \A h : One("data") \in h => Sound(d, "unloading", h)
    BY <2>1 DEF Complete, Sound
  <2>3. /\ One("data") \in data /\ One("data") \in data \ {One("cdev")} /\ One("data") \in left
        /\ reached \subseteq data
    BY <1>3
  <2>4. Leaves(d, left)
    BY <1>3, <2>1 DEF Leaves, Initialised, Reached
  <2> HIDE DEF data, rest, left
  <2>5. Safe(d, "loading", rest, reached, data)
    BY <1>1, <1>2, SafeTuples, ReturnIsSafe DEF SafeBlock, rest
  <2>6. Safe(d, "unloading", Return, left, left)
    BY <2>2, <2>3, ReturnIsSafe
  <2> QED
    BY <1>1, <2>1, <2>2, <2>3, <2>4, <2>5, <2>6, RegisteredPath DEF left
<1> QED
  BY <1>4, <1>5, <1>6

\* The character devices whose entries touch nothing.
LEMMA ThreadPaths ==
    ASSUME NEW d \in {"kthread_shoud_stop", "completion"}
    PROVE  \E g : Safe(d, "loading", Drivers[d].load, {}, g) /\ Ready(d, g)
<1> DEFINE reached == {One("chrdev"), One("cdev")}
           thread == reached \cup {One("thread")}
           left == (thread \ {One("cdev")}) \ {One("chrdev")}
<1>1. \A p, h : Sound(d, p, h)
  <2>1. Drivers[d] \in {KthreadShoudStop, Completion}
    BY DEF Drivers
  <2>2. /\ KthreadShoudStop.uses = [e \in Reached \cup {One("thread")} |-> {}]
        /\ Completion.uses = [e \in Reached \cup {One("thread")} |-> {}]
    BY DEF KthreadShoudStop, Completion, Driver
  <2> QED
    BY <2>1, <2>2 DEF Sound, Complete
<1>2. d \notin Undo /\ d # "tasklet"
  BY DEF Undo
<1>3. One("thread") # One("tasklet") /\ One("thread") \notin reached
  BY DEF One, Thing
<1>4. Moves(d, "loading", May(One("thread")), reached, thread)
  BY <1>1, <1>2, StepsMove
<1>5. IsSeq(UnregisterTest) /\ IsSeq(Return)
  BY Tuples, ProgEnds, ProgStep DEF UnregisterTest
<1>6. CASE d = "kthread_shoud_stop"
  <2> DEFINE rest == <<May(One("thread")), Use(One("thread"))>> \o Return
             final == <<Drop(One("thread"))>> \o Return
  <2>1. Drivers[d].load = RegisterTest(rest) /\ Drivers[d].exit = UnregisterTest \o final
    <3>1. (UnregisterTest \o <<Drop(One("thread"))>>) \o Return = UnregisterTest \o final
      BY <1>5, Tuples, Concat
    <3> HIDE DEF rest, final
    <3> QED
      BY <1>6, <3>1 DEF Drivers, KthreadShoudStop, Driver, rest
  <2>2. Moves(d, "loading", Use(One("thread")), thread, thread)
    BY <1>1, StepsMove
  <2>3. left \ {One("thread")} = {} /\ reached \subseteq thread
    OBVIOUS
  <2>4. Moves(d, "unloading", Drop(One("thread")), left, left \ {One("thread")})
    BY <1>1, <1>3, StepsMove
  <2>5. Leaves(d, {})
    BY DEF Leaves
  <2> HIDE DEF thread, left, rest, final
  <2>6. Safe(d, "loading", rest, reached, thread)
    BY <1>1, <1>4, <2>2, SafeTuples, ReturnIsSafe DEF SafeBlock, rest
  <2>7. Safe(d, "unloading", final, left, {})
    BY <1>1, <2>3, <2>4, SafeTuples, ReturnIsSafe DEF SafeBlock, final
  <2> QED
    BY <1>1, <1>2, <2>1, <2>3, <2>5, <2>6, <2>7, RegisteredPath DEF left
<1>7. CASE d = "completion"
  <2> DEFINE rest == <<May(One("thread"))>> \o Return
             final == <<Never>> \o Return
  <2>1. Drivers[d].load = RegisterTest(rest) /\ Drivers[d].exit = UnregisterTest \o final
    <3>1. (UnregisterTest \o <<Never>>) \o Return = UnregisterTest \o final
      BY <1>5, Tuples, Concat
    <3> HIDE DEF rest, final
    <3> QED
      BY <1>7, <3>1 DEF Drivers, Completion, Driver, rest
  <2>2. reached \subseteq thread
    OBVIOUS
  <2>3. Leaves(d, left)
    BY <1>7 DEF Leaves, CleanUp, Undo
  <2> HIDE DEF thread, left, rest, final
  <2>4. Safe(d, "loading", rest, reached, thread)
    BY <1>1, <1>4, SafeTuples, ReturnIsSafe DEF SafeBlock, rest
  <2>5. Safe(d, "unloading", final, left, left)
    <3>1. Fits(d, "unloading", Never, left) /\ Never.op \in Ends
      BY <1>1, <1>7 DEF Fits, Never, Step, Givers, Takers, Ends, Undo
    <3>2. IsSeq(Return)
      BY ProgEnds, ProgStep
    <3> QED
      BY <3>1, <3>2, SafeLast DEF final
  <2> QED
    BY <1>1, <1>2, <2>1, <2>2, <2>3, <2>4, <2>5, RegisteredPath DEF left
<1> QED
  BY <1>6, <1>7

LEMMA PlainPaths ==
    ASSUME NEW d \in {"notifier_chains", "cdev"}
    PROVE  \E g : Safe(d, "loading", Drivers[d].load, {}, g) /\ Ready(d, g)
<1> DEFINE final == <<Drop(One("chrdev"))>> \o Return
<1>1. One("chrdev") # One("tasklet") /\ One("chrdev") # One("cdev") /\ One("chrdev") # One("notifier")
  BY DEF One, Thing
<1>2. \A p, h : Sound(d, p, h)
  <2>1. Drivers[d] \in {NotifierChains, Cdev}
    BY DEF Drivers
  <2>2. /\ NotifierChains.uses = [e \in Reached \cup {One("notifier")} |-> {}]
        /\ Cdev.uses = [e \in {One("chrdev")} |-> {}]
    BY DEF NotifierChains, Cdev, Driver
  <2> QED
    BY <2>1, <2>2 DEF Sound, Complete
<1>3. ASSUME NEW h, One("chrdev") \in h PROVE Safe(d, "unloading", final, h, h \ {One("chrdev")})
  BY <1>1, <1>2, <1>3, StepsMove, SafeTuples, ReturnIsSafe DEF SafeBlock
<1>4. CASE d = "notifier_chains"
  <2> DEFINE h == {} \cup {One("chrdev")}
             k == h \cup {One("cdev")}
             g == k \cup {One("notifier")}
             a == Try(One("chrdev"), Fail)
             b == Try(One("cdev"), <<Drop(One("chrdev"))>> \o Fail)
             c == Sure(One("notifier"))
             rest == <<a, b, c>> \o Return
  <2>1. Drivers[d].load = rest /\ Drivers[d].exit = final
    BY <1>4 DEF Drivers, NotifierChains, Driver
  <2>2. d \notin Undo /\ d \notin CleanUp
    BY <1>4 DEF Undo, CleanUp
  <2>3. Moves(d, "loading", a, {}, h) /\ Moves(d, "loading", b, h, k) /\ Moves(d, "loading", c, k, g)
    BY <1>2, <2>2, StepsMove
  <2>4. One("chrdev") \in g
    OBVIOUS
  <2> HIDE DEF a, b, c, h, k, g, final
  <2>5. Safe(d, "loading", rest, {}, g)
    BY <1>2, <2>3, SafeTuples, ReturnIsSafe DEF SafeBlock
  <2>6. d # "tasklet"
    BY <1>4
  <2> QED
    BY <1>3, <2>1, <2>2, <2>4, <2>5, <2>6 DEF Ready, Leaves
<1>5. CASE d = "cdev"
  <2> DEFINE g == {} \cup {One("chrdev")}
             rest == <<Try(One("chrdev"), Fail)>> \o Return
  <2>1. Drivers[d].load = rest /\ Drivers[d].exit = final
    BY <1>5 DEF Drivers, Cdev, Driver
  <2>2. Moves(d, "loading", Try(One("chrdev"), Fail), {}, g)
    BY <1>2, StepsMove DEF Undoes
  <2>3. One("chrdev") \in g /\ g \ {One("chrdev")} = {}
    OBVIOUS
  <2> HIDE DEF g, final
  <2>4. Safe(d, "loading", rest, {}, g)
    BY <1>2, <2>2, SafeTuples, ReturnIsSafe DEF SafeBlock
  <2>5. Safe(d, "unloading", final, g, {})
    BY <1>3, <2>3
  <2> QED
    BY <1>5, <2>1, <2>4, <2>5 DEF Ready, Leaves
<1> QED
  BY <1>4, <1>5

\* The drivers that register with a region of numbers, and undo that.
LEMMA RlwaitPaths ==
    ASSUME NEW d \in {"wait_queue_demo", "wait_queue_test", "add_wait_queue_exclusive", "cdev_demo"}
    PROVE  \E g : Safe(d, "loading", Drivers[d].load, {}, g) /\ Ready(d, g)
<1> DEFINE h == {} \cup {One("region")}
           k == h \cup {One("cdev")}
           data == k \cup {One("data")}
           a == Try(One("region"), Fail)
           b == Try(One("cdev"), <<Drop(One("region"))>> \o Fail)
           left(g) == (g \ {One("cdev")}) \ {One("region")}
<1>1. /\ One("region") # One("tasklet") /\ One("cdev") # One("tasklet") /\ One("region") # One("cdev")
      /\ One("data") # One("region") /\ One("data") # One("cdev")
  BY DEF One, Thing
<1>2. Drivers[d] = IF d = "cdev_demo" THEN CdevDemo ELSE WaitQueueDemo
  BY DEF Drivers, WaitQueueTest, AddWaitQueueExclusive
<1>3. /\ Drivers[d].exit = UnregisterRlwait
      /\ Drivers[d].uses = [e \in {One("cdev")} |-> IF d = "cdev_demo" THEN {} ELSE {One("data")}]
      /\ Drivers[d].load = IF d = "cdev_demo" THEN RegisterRlwait \o Return
                           ELSE (RegisterRlwait \o <<Sure(One("data"))>>) \o Return
  <2>1. CASE d = "cdev_demo"
    BY <1>2, <2>1 DEF CdevDemo, Driver
  <2>2. CASE d # "cdev_demo"
    BY <1>2, <2>2 DEF WaitQueueDemo, Driver
  <2> QED
    BY <2>1, <2>2
<1>4. \A g : Sound(d, "loading", g)
  BY <1>3 DEF Sound, Early, Complete
<1>5. \A g : d = "cdev_demo" \/ One("data") \in g => Sound(d, "unloading", g)
  BY <1>3 DEF Sound, Complete
<1>6. Moves(d, "loading", a, {}, h)
  BY <1>4, StepsMove DEF Undoes
<1>7. Moves(d, "loading", b, h, k)
  BY <1>1, <1>3, <1>4, StepsMove DEF Undoes
<1>8. SafeBlock(d, "loading", RegisterRlwait, {}, k)
  <2> HIDE DEF a, b, h, k
  <2> QED
    BY <1>6, <1>7, SafeTuples DEF RegisterRlwait, a, b
<1>9. ASSUME NEW g, One("region") \in g, One("cdev") \in g, d = "cdev_demo" \/ One("data") \in g
      PROVE  Safe(d, "unloading", UnregisterRlwait, g, left(g))
  <2> DEFINE m == g \ {One("cdev")}
             n == m \ {One("region")}
  <2>1. Sound(d, "unloading", g) /\ Sound(d, "unloading", m) /\ Sound(d, "unloading", n)
    BY <1>1, <1>5, <1>9
  <2>2. /\ Moves(d, "unloading", Drop(One("cdev")), g, m)
        /\ Moves(d, "unloading", Drop(One("region")), m, n)
    BY <1>1, <1>9, <2>1, StepsMove
  <2> HIDE DEF m, n
  <2>3. Safe(d, "unloading", UnregisterRlwait, g, n)
    BY <2>1, <2>2, SafeTuples, ReturnIsSafe DEF SafeBlock, UnregisterRlwait
  <2> QED
    BY <2>3 DEF m, n
<1>10. d # "tasklet"
  OBVIOUS
<1>11. CASE d = "cdev_demo"
  <2>1. One("region") \in k /\ One("cdev") \in k /\ left(k) = {}
    OBVIOUS
  <2> HIDE DEF k, left
  <2>2. Safe(d, "loading", RegisterRlwait \o Return, {}, k)
    BY <1>4, <1>8, ReturnIsSafe DEF SafeBlock
  <2> QED
    BY <1>3, <1>9, <1>10, <1>11, <2>1, <2>2 DEF Ready, Leaves
<1>12. CASE d # "cdev_demo"
  <2>1. /\ One("region") \in data /\ One("cdev") \in data /\ One("data") \in data
        /\ left(data) \subseteq {One("data")}
    OBVIOUS
  <2>2. Moves(d, "loading", Sure(One("data")), k, data)
    BY <1>4, StepsMove
  <2> HIDE DEF k, data, left
  <2>3. SafeBlock(d, "loading", RegisterRlwait \o <<Sure(One("data"))>>, {}, data)
    BY <1>8, <2>2, SafeTuples, SafeConcat
  <2>4. Safe(d, "loading", Drivers[d].load, {}, data)
    BY <1>3, <1>4, <1>12, <2>3, ReturnIsSafe DEF SafeBlock
  <2>5. Leaves(d, left(data))
    BY <1>1, <1>3, <2>1 DEF Leaves, Initialised
  <2> QED
    BY <1>3, <1>9, <1>10, <2>1, <2>4, <2>5 DEF Ready
<1> QED
  BY <1>11, <1>12

LEMMA ButtonsPaths ==
    ASSUME NEW d \in {"buttons", "tasklet"}
    PROVE  \E g : Safe(d, "loading", Drivers[d].load, {}, g) /\ Ready(d, g)
<1> DEFINE fail == IF d = "buttons" THEN Fail ELSE <<Sure(One("tasklet"))>> \o Fail
           h1 == {} \cup {One("misc")}
           h2 == h1 \cup {Irq(1)}
           h3 == h2 \cup {Irq(2)}
           h4 == h3 \cup {One("tasklet")}
           a == May(One("misc"))
           b == Try(Irq(1), fail)
           c == Try(Irq(2), fail)
           e == Sure(One("tasklet"))
           final == <<Drop(Irq(1)), Drop(Irq(2)), Drop(One("misc"))>> \o Return
           left(g) == ((g \ {Irq(1)}) \ {Irq(2)}) \ {One("misc")}
<1>1. /\ Irq(1) # Irq(2) /\ Irq(1) # One("misc") /\ Irq(2) # One("misc")
      /\ Irq(1) # One("tasklet") /\ Irq(2) # One("tasklet") /\ One("misc") # One("tasklet")
  BY DEF Irq, One, Thing
<1>2. /\ Drivers[d].exit = final
      /\ Drivers[d].load = IF d = "buttons" THEN <<a, b, c>> \o Return ELSE <<a, b, c, e>> \o Return
      /\ Drivers[d].uses = [x \in {One("misc"), Irq(1), Irq(2)} |->
             IF x = One("misc") \/ d = "buttons" THEN {} ELSE {One("tasklet")}]
  <2>1. CASE d = "buttons"
    BY <2>1 DEF Drivers, Buttons, Driver
  <2>2. CASE d = "tasklet"
    BY <2>2 DEF Drivers, Tasklet, Driver
  <2> QED
    BY <2>1, <2>2
<1>3. d \notin Undo
  BY DEF Undo
<1>4. \A g : Sound(d, "loading", g)
  BY <1>2 DEF Sound, Early, Complete
<1>5. \A g : d = "buttons" \/ One("tasklet") \in g => Sound(d, "unloading", g)
  BY <1>2 DEF Sound, Complete
<1>6. /\ Moves(d, "loading", a, {}, h1) /\ Moves(d, "loading", b, h1, h2)
      /\ Moves(d, "loading", c, h2, h3) /\ Moves(d, "loading", e, h3, h4)
  BY <1>3, <1>4, StepsMove
<1>7. ASSUME NEW g, h3 \subseteq g, d = "buttons" \/ One("tasklet") \in g
      PROVE  Safe(d, "unloading", final, g, left(g))
  <2> DEFINE k1 == g \ {Irq(1)}
             k2 == k1 \ {Irq(2)}
             k3 == k2 \ {One("misc")}
  <2>1. /\ Sound(d, "unloading", g) /\ Sound(d, "unloading", k1) /\ Sound(d, "unloading", k2)
        /\ Sound(d, "unloading", k3)
    BY <1>1, <1>5, <1>7
  <2>2. /\ Moves(d, "unloading", Drop(Irq(1)), g, k1) /\ Moves(d, "unloading", Drop(Irq(2)), k1, k2)
        /\ Moves(d, "unloading", Drop(One("misc")), k2, k3)
    BY <1>1, <1>7, <2>1, StepsMove
  <2> HIDE DEF k1, k2, k3
  <2>3. Safe(d, "unloading", final, g, k3)
    BY <2>1, <2>2, SafeTuples, ReturnIsSafe DEF SafeBlock
  <2> QED
    BY <2>3 DEF k1, k2, k3
<1>8. CASE d = "buttons"
  <2>1. left(h3) = {} /\ h3 \subseteq h3
    OBVIOUS
  <2> HIDE DEF h1, h2, h3, a, b, c, final, left
  <2>2. SafeBlock(d, "loading", <<a, b, c>>, {}, h3)
    BY <1>6, SafeTuples
  <2>3. Safe(d, "loading", Return, h3, h3)
    BY <1>4, ReturnIsSafe
  <2>4. Safe(d, "loading", Drivers[d].load, {}, h3)
    BY <1>2, <1>8, <2>2, <2>3 DEF SafeBlock
  <2> QED
    BY <1>2, <1>7, <1>8, <2>1, <2>4 DEF Ready, Leaves
<1>9. CASE d = "tasklet"
  <2>1. One("tasklet") \in h4 /\ h3 \subseteq h4
    OBVIOUS
  <2>2. d \notin CleanUp
    BY <1>9 DEF CleanUp, Undo
  <2> HIDE DEF h1, h2, h3, h4, a, b, c, e, final, left
  <2>3. SafeBlock(d, "loading", <<a, b, c, e>>, {}, h4)
    BY <1>6, SafeTuples
  <2>4. Safe(d, "loading", Return, h4, h4)
    BY <1>4, ReturnIsSafe
  <2>5. Safe(d, "loading", Drivers[d].load, {}, h4)
    <3>1. Drivers[d].load = <<a, b, c, e>> \o Return
      BY <1>2, <1>9
    <3> QED
      BY <2>3, <2>4, <3>1 DEF SafeBlock
  <2> QED
    BY <1>2, <1>7, <2>1, <2>2, <2>5 DEF Ready, Leaves
<1> QED
  BY <1>8, <1>9

-----------------------------------------------------------------------------
(* The disks.                                                              *)

\* A disk that is in has all that its requests need.
Equipped(N, h) == \A i \in 1..2 : Disk(i) \in h => N[i] \subseteq h

LEMMA EquippedIsSound ==
    ASSUME NEW d, NEW N, Drivers[d].uses = DiskUses(N), NEW h, Equipped(N, h), NEW p
    PROVE  Sound(d, p, h)
<1>1. Disk(1)[2] = 1 /\ Disk(2)[2] = 2
  BY DEF Disk, Thing
<1> QED
  BY <1>1 DEF Sound, Complete, DiskUses, Equipped

LEMMA EquippedSteps ==
    ASSUME NEW N, NEW h, Equipped(N, h)
    PROVE  /\ \A x : x \notin {Disk(1), Disk(2)} => Equipped(N, h \cup {x})
           /\ \A i \in 1..2 : N[i] \subseteq h => Equipped(N, h \cup {Disk(i)})
           /\ \A x : (\A i \in 1..2 : x \in N[i] => Disk(i) \notin h) => Equipped(N, h \ {x})
<1>1. Disk(1) # Disk(2)
  BY DEF Disk, Thing
<1> QED
  BY <1>1 DEF Equipped

\* d and N of a driver as far as this section needs them.
IsDisk(d, N) == \A p, h : Equipped(N, h) => Sound(d, p, h)

LEMMA AllocRamdevPath ==
    ASSUME NEW d, d \notin Undo, NEW N, IsDisk(d, N), NEW i \in 1..2, NEW rest, NEW h, Equipped(N, h)
    PROVE  /\ SafeBlock(d, "loading", AllocRamdev(i, rest), h, (h \cup {Rdev(i)}) \cup {Data(i)})
           /\ Equipped(N, (h \cup {Rdev(i)}) \cup {Data(i)})
<1> DEFINE k == h \cup {Rdev(i)}
           l == k \cup {Data(i)}
           a == Try(Rdev(i), ReleaseRdev(i) \o rest)
           b == Try(Data(i), <<Misfree(Rdev(i))>> \o ReleaseRdev(i) \o rest)
<1>1. Rdev(i) \notin {Disk(1), Disk(2)} /\ Data(i) \notin {Disk(1), Disk(2)}
  BY DEF Rdev, Data, Disk, Thing
<1>2. Equipped(N, k)
  BY <1>1, EquippedSteps
<1>3. Equipped(N, l)
  <2> HIDE DEF k
  <2> QED
    BY <1>1, <1>2, EquippedSteps
<1>4. Moves(d, "loading", a, h, k) /\ Moves(d, "loading", b, k, l)
  BY <1>2, StepsMove DEF IsDisk
<1> HIDE DEF a, b, k, l
<1>5. SafeBlock(d, "loading", <<a, b>>, h, l)
  BY <1>4, SafeTuples
<1> QED
  BY <1>3, <1>5 DEF AllocRamdev, a, b, k, l

\* What adding a disk does.
WithDisk(h, i) == ((h \cup {Queue(i)}) \cup {Gd(i)}) \cup {Disk(i)}

LEMMA AddDiskMoves ==
    ASSUME NEW d, d \notin Undo, NEW N, IsDisk(d, N), NEW i \in 1..2, NEW h, Equipped(N, h),
           N[i] \subseteq h \cup {Queue(i)}
    PROVE  LET k == h \cup {Queue(i)}
               l == k \cup {Gd(i)}
           IN  /\ Equipped(N, k) /\ Equipped(N, l) /\ Equipped(N, WithDisk(h, i))
               /\ Moves(d, "loading", May(Queue(i)), h, k)
               /\ Moves(d, "loading", Use(Queue(i)), k, k)
               /\ Moves(d, "loading", May(Gd(i)), k, l)
               /\ \A to : Moves(d, "loading", Try(Gd(i), to), k, l)
               /\ Moves(d, "loading", Use(Gd(i)), l, l)
               /\ Moves(d, "loading", Sure(Disk(i)), l, WithDisk(h, i))
<1> DEFINE k == h \cup {Queue(i)}
           l == k \cup {Gd(i)}
<1>1. Queue(i) \notin {Disk(1), Disk(2)} /\ Gd(i) \notin {Disk(1), Disk(2)}
  BY DEF Queue, Gd, Disk, Thing
<1>2. Equipped(N, k)
  BY <1>1, EquippedSteps
<1>3. Equipped(N, l)
  <2> HIDE DEF k
  <2> QED
    BY <1>1, <1>2, EquippedSteps
<1>4. N[i] \subseteq l /\ Queue(i) \in k /\ Gd(i) \in l
  OBVIOUS
<1> HIDE DEF k, l
<1>5. Equipped(N, l \cup {Disk(i)})
  BY <1>3, <1>4, EquippedSteps
<1>6. /\ Moves(d, "loading", May(Queue(i)), h, h \cup {Queue(i)})
      /\ Moves(d, "loading", Use(Queue(i)), k, k)
      /\ Moves(d, "loading", May(Gd(i)), k, k \cup {Gd(i)})
      /\ \A to : Moves(d, "loading", Try(Gd(i), to), k, k \cup {Gd(i)})
      /\ Moves(d, "loading", Use(Gd(i)), l, l)
      /\ Moves(d, "loading", Sure(Disk(i)), l, l \cup {Disk(i)})
  BY <1>2, <1>3, <1>4, StepsMove DEF IsDisk
<1> QED
  BY <1>2, <1>3, <1>5, <1>6 DEF WithDisk, k, l

LEMMA AddDiskPath ==
    ASSUME NEW d, d \notin Undo, NEW N, IsDisk(d, N), NEW i \in 1..2, NEW h, Equipped(N, h),
           N[i] \subseteq h \cup {Queue(i)}, Rdev(i) \in h
    PROVE  /\ SafeBlock(d, "loading", AddDiskUntested(i), h, WithDisk(h, i))
           /\ \A to : SafeBlock(d, "loading",
                                <<Use(Rdev(i)), May(Queue(i)), Use(Queue(i)), Try(Gd(i), to), Sure(Disk(i))>>,
                                h, WithDisk(h, i))
           /\ Equipped(N, WithDisk(h, i))
<1> DEFINE k == h \cup {Queue(i)}
           l == k \cup {Gd(i)}
<1>1. /\ Equipped(N, WithDisk(h, i))
      /\ Moves(d, "loading", May(Queue(i)), h, k) /\ Moves(d, "loading", Use(Queue(i)), k, k)
      /\ Moves(d, "loading", May(Gd(i)), k, l) /\ \A to : Moves(d, "loading", Try(Gd(i), to), k, l)
      /\ Moves(d, "loading", Use(Gd(i)), l, l) /\ Moves(d, "loading", Sure(Disk(i)), l, WithDisk(h, i))
  BY AddDiskMoves
<1>2. Moves(d, "loading", Use(Rdev(i)), h, h)
  BY StepsMove DEF IsDisk
<1> HIDE DEF k, l
<1> QED
  BY <1>1, <1>2, SafeTuples DEF AddDiskUntested

LEMMA DropPath ==
    ASSUME NEW d, NEW h, NEW x \in h, NEW y \in h, x # y, x # One("tasklet"), y # One("tasklet"),
           Sound(d, "unloading", h), Sound(d, "unloading", h \ {x})
    PROVE  SafeBlock(d, "unloading", <<Drop(x), Drop(y)>>, h, h \ {x, y})
<1> DEFINE k == h \ {x}
<1>1. y \in k /\ k \ {y} = h \ {x, y}
  OBVIOUS
<1>2. Moves(d, "unloading", Drop(x), h, k)
  BY StepsMove
<1>3. Moves(d, "unloading", Drop(y), k, k \ {y})
  <2>1. Sound(d, "unloading", k)
    OBVIOUS
  <2> HIDE DEF k
  <2> QED
    BY <1>1, <2>1, StepsMove
<1> HIDE DEF k
<1> QED
  BY <1>1, <1>2, <1>3, SafeTuples

LEMMA DeleteDiskPath ==
    ASSUME NEW d, NEW N, IsDisk(d, N), NEW i \in 1..2, NEW h, Equipped(N, h),
           Disk(i) \in h, Gd(i) \in h, Queue(i) \in h,
           \A j \in 1..2 : j # i => N[j] \cap {Disk(i), Gd(i), Queue(i)} = {}
    PROVE  /\ SafeBlock(d, "unloading", DeleteDisk(i), h, h \ {Disk(i), Gd(i), Queue(i)})
           /\ Equipped(N, h \ {Disk(i), Gd(i), Queue(i)})
<1> DEFINE k == h \ {Disk(i)}
           l == k \ {Gd(i)}
           m == l \ {Queue(i)}
<1>1. /\ Disk(1) # Disk(2) /\ Disk(i) # Gd(i) /\ Disk(i) # Queue(i) /\ Gd(i) # Queue(i)
      /\ One("tasklet") \notin {Disk(i), Gd(i), Queue(i)}
  BY DEF Disk, Gd, Queue, One, Thing
<1>2. Equipped(N, k) /\ Equipped(N, l) /\ Equipped(N, m)
  BY <1>1 DEF Equipped
<1>3. Gd(i) \in k /\ Queue(i) \in l /\ m = h \ {Disk(i), Gd(i), Queue(i)}
  BY <1>1
<1>4. Sound(d, "unloading", h) /\ Sound(d, "unloading", k) /\ Sound(d, "unloading", l)
  BY <1>2 DEF IsDisk
<1>5. Moves(d, "unloading", Drop(Disk(i)), h, k)
  BY <1>1, <1>4, StepsMove
<1>6. Moves(d, "unloading", Drop(Gd(i)), k, l)
  <2> HIDE DEF k
  <2> QED
    BY <1>1, <1>3, <1>4, StepsMove
<1>7. Moves(d, "unloading", Drop(Queue(i)), l, m)
  <2> HIDE DEF l
  <2> QED
    BY <1>1, <1>3, <1>4, StepsMove
<1> HIDE DEF k, l, m
<1> QED
  BY <1>2, <1>3, <1>5, <1>6, <1>7, SafeTuples DEF DeleteDisk

\* The drivers of AllocRamdev.
LEMMA RamhdPaths ==
    ASSUME NEW d \in {"ramhd_mkreq", "ramhd_req"}
    PROVE  \E g : Safe(d, "loading", Drivers[d].load, {}, g) /\ Ready(d, g)
<1> DEFINE AddDisk(i) == <<Use(Rdev(i)), May(Queue(i)), Use(Queue(i)),
                           Try(Gd(i), <<Put(Data(i))>> \o Fail), Sure(Disk(i))>>
           N == [i \in 1..2 |-> {Rdev(i), Data(i), Queue(i)}]
           t == [i \in 1..2 |-> IF d = "ramhd_mkreq" THEN AddDiskUntested(i) ELSE AddDisk(i)]
           rest == (<<May(One("major"))>> \o (t[1] \o t[2])) \o Return
           load == (AllocRamdev(1, rest) \o AllocRamdev(2, rest)) \o rest
           h1 == ({} \cup {Rdev(1)}) \cup {Data(1)}
           h2 == (h1 \cup {Rdev(2)}) \cup {Data(2)}
           h3 == h2 \cup {One("major")}
           h4 == WithDisk(h3, 1)
           g == WithDisk(h4, 2)
<1>1. Drivers[d].load = load /\ Drivers[d].exit = RamhdExit
  <2>1. CASE d = "ramhd_mkreq"
    <3> DEFINE u == [i \in 1..2 |-> AddDiskUntested(i)]
               r == <<May(One("major"))>> \o Both(u) \o Return
               s == [i \in 1..2 |-> AllocRamdev(i, r)]
    <3>1. Drivers[d].load = Both(s) \o r /\ Drivers[d].exit = RamhdExit
      BY <2>1 DEF Drivers, RamhdMkreq, Driver
    <3>2. Both(u) = t[1] \o t[2]
      BY <2>1 DEF Both
    <3>3. Both(s) = AllocRamdev(1, r) \o AllocRamdev(2, r)
      BY DEF Both
    <3> HIDE DEF s, t, u
    <3> QED
      BY <3>1, <3>2, <3>3
  <2>2. CASE d = "ramhd_req"
    <3> DEFINE u == [i \in 1..2 |-> AddDisk(i)]
               r == <<May(One("major"))>> \o Both(u) \o Return
               s == [i \in 1..2 |-> AllocRamdev(i, r)]
    <3>1. Drivers[d].load = Both(s) \o r /\ Drivers[d].exit = RamhdExit
      BY <2>2 DEF Drivers, RamhdReq, Driver
    <3> HIDE DEF AddDisk
    <3>2. Both(u) = t[1] \o t[2]
      BY <2>2 DEF Both
    <3>3. Both(s) = AllocRamdev(1, r) \o AllocRamdev(2, r)
      BY DEF Both
    <3> HIDE DEF s, t, u
    <3> QED
      BY <3>1, <3>2, <3>3
  <2> QED
    BY <2>1, <2>2
<1>2. d \notin Undo /\ d # "tasklet"
  BY DEF Undo
<1>3. IsDisk(d, N)
  <2>1. CASE d = "ramhd_mkreq"
    <3>1. Drivers[d].uses = DiskUses(N)
      BY <2>1 DEF Drivers, RamhdMkreq, Driver
    <3> HIDE DEF N
    <3> QED
      BY <3>1, EquippedIsSound DEF IsDisk
  <2>2. CASE d = "ramhd_req"
    BY <2>2 DEF IsDisk, Sound, Stale
  <2> QED
    BY <2>1, <2>2
<1>4. Equipped(N, {})
  BY DEF Equipped
<1>5. /\ SafeBlock(d, "loading", AllocRamdev(1, rest), {}, h1) /\ Equipped(N, h1)
      /\ SafeBlock(d, "loading", AllocRamdev(2, rest), h1, h2) /\ Equipped(N, h2)
  <2>1. SafeBlock(d, "loading", AllocRamdev(1, rest), {}, h1) /\ Equipped(N, h1)
    <3> HIDE DEF N, rest
    <3> QED
      BY <1>2, <1>3, <1>4, AllocRamdevPath
  <2>2. SafeBlock(d, "loading", AllocRamdev(2, rest), h1, h2) /\ Equipped(N, h2)
    <3> HIDE DEF N, rest, h1
    <3> QED
      BY <1>2, <1>3, <2>1, AllocRamdevPath
  <2> QED
    BY <2>1, <2>2
<1>6. One("major") \notin {Disk(1), Disk(2)}
  BY DEF One, Disk, Thing
<1>7. SafeBlock(d, "loading", <<May(One("major"))>>, h2, h3) /\ Equipped(N, h3)
  <2> HIDE DEF N, h2
  <2>1. Moves(d, "loading", May(One("major")), h2, h3)
    BY <1>2, <1>3, <1>5, StepsMove DEF IsDisk
  <2>2. Equipped(N, h3)
    BY <1>5, <1>6, EquippedSteps
  <2> HIDE DEF h3
  <2> QED
    BY <2>1, <2>2, SafeTuples
<1>8. /\ N[1] \subseteq h3 \cup {Queue(1)} /\ Rdev(1) \in h3
      /\ N[2] \subseteq h4 \cup {Queue(2)} /\ Rdev(2) \in h4
  BY DEF WithDisk
<1>9. t[1] \in {AddDiskUntested(1), AddDisk(1)} /\ t[2] \in {AddDiskUntested(2), AddDisk(2)}
  OBVIOUS
<1>10. /\ SafeBlock(d, "loading", t[1], h3, h4) /\ Equipped(N, h4)
       /\ SafeBlock(d, "loading", t[2], h4, g) /\ Equipped(N, g)
  <2>1. SafeBlock(d, "loading", t[1], h3, h4) /\ Equipped(N, h4)
    <3> HIDE DEF N, t, h3
    <3> QED
      BY <1>2, <1>3, <1>7, <1>8, <1>9, AddDiskPath
  <2>2. SafeBlock(d, "loading", t[2], h4, g) /\ Equipped(N, g)
    <3> HIDE DEF N, t, h4
    <3> QED
      BY <1>2, <1>3, <1>8, <1>9, <2>1, AddDiskPath
  <2> QED
    BY <2>1, <2>2
<1>11. Safe(d, "loading", load, {}, g)
  <2> HIDE DEF N, t, h1, h2, h3, h4, g
  <2>1. SafeBlock(d, "loading", t[1] \o t[2], h3, g)
    BY <1>10, SafeConcat
  <2>2. SafeBlock(d, "loading", <<May(One("major"))>> \o (t[1] \o t[2]), h2, g)
    BY <1>7, <2>1, SafeConcat
  <2>3. Safe(d, "loading", Return, g, g)
    BY <1>3, <1>10, ReturnIsSafe DEF IsDisk
  <2>4. Safe(d, "loading", rest, h2, g)
    BY <2>2, <2>3 DEF SafeBlock
  <2> HIDE DEF rest
  <2>5. SafeBlock(d, "loading", AllocRamdev(1, rest) \o AllocRamdev(2, rest), {}, h2)
    BY <1>5, SafeConcat
  <2> QED
    BY <2>4, <2>5 DEF SafeBlock
<1> DEFINE data(i) == <<Drop(Data(i)), Drop(Rdev(i))>>
           disk(i) == DeleteDisk(i) \o data(i)
           k1 == g \ {Disk(1), Gd(1), Queue(1)}
           l1 == k1 \ {Data(1), Rdev(1)}
           k2 == l1 \ {Disk(2), Gd(2), Queue(2)}
           l2 == k2 \ {Data(2), Rdev(2)}
<1>12. /\ N[1] \cap {Disk(2), Gd(2), Queue(2)} = {} /\ N[2] \cap {Disk(1), Gd(1), Queue(1)} = {}
       /\ \A i, j \in 1..2 : Disk(i) \notin N[j]
  BY DEF Rdev, Data, Queue, Disk, Gd, Thing
<1>13. /\ {Disk(1), Gd(1), Queue(1)} \subseteq g /\ {Data(1), Rdev(1)} \subseteq k1
       /\ {Disk(2), Gd(2), Queue(2)} \subseteq l1 /\ {Data(2), Rdev(2)} \subseteq k2
       /\ One("major") \in l2
       /\ Disk(1) \notin k1 /\ Disk(1) \notin l1 /\ Disk(1) \notin k2 /\ Disk(2) \notin k2
  BY DEF WithDisk, Rdev, Data, Queue, Disk, Gd, One, Thing
<1>14. /\ N[2] \cap {Data(1), Rdev(1)} = {}
       /\ \A i \in 1..2 : Data(i) # Rdev(i) /\ Data(i) # One("tasklet") /\ Rdev(i) # One("tasklet")
  BY DEF Rdev, Data, Queue, One, Thing
<1>15. SafeBlock(d, "unloading", DeleteDisk(1), g, k1) /\ Equipped(N, k1)
  <2> HIDE DEF N, g
  <2> QED
    BY <1>3, <1>10, <1>12, <1>13, DeleteDiskPath
<1>16. SafeBlock(d, "unloading", data(1), k1, l1) /\ Equipped(N, l1)
  <2>1. Equipped(N, k1 \ {Data(1)}) /\ Equipped(N, l1)
    <3> HIDE DEF N, k1
    <3> QED
      BY <1>13, <1>14, <1>15 DEF Equipped
  <2> HIDE DEF N, k1
  <2>2. Sound(d, "unloading", k1) /\ Sound(d, "unloading", k1 \ {Data(1)})
    BY <1>3, <1>15, <2>1 DEF IsDisk
  <2>3. SafeBlock(d, "unloading", data(1), k1, k1 \ {Data(1), Rdev(1)})
    BY <1>13, <1>14, <2>2, DropPath
  <2> QED
    BY <2>1, <2>3
<1>17. SafeBlock(d, "unloading", DeleteDisk(2), l1, k2) /\ Equipped(N, k2)
  <2> HIDE DEF N, l1
  <2> QED
    BY <1>3, <1>12, <1>13, <1>16, DeleteDiskPath
<1>18. SafeBlock(d, "unloading", data(2), k2, l2) /\ \A m : m \subseteq k2 => Equipped(N, m)
  <2>1. \A m : m \subseteq k2 => Equipped(N, m)
    <3> HIDE DEF N, k2
    <3> QED
      BY <1>13 DEF Equipped
  <2> HIDE DEF N, k2
  <2>2. Equipped(N, k2 \ {Data(2)})
    BY <2>1
  <2>3. Sound(d, "unloading", k2) /\ Sound(d, "unloading", k2 \ {Data(2)})
    BY <1>3, <1>17, <2>2 DEF IsDisk
  <2>4. SafeBlock(d, "unloading", data(2), k2, k2 \ {Data(2), Rdev(2)})
    BY <1>13, <1>14, <2>3, DropPath
  <2> QED
    BY <2>1, <2>4
<1>19. SafeBlock(d, "unloading", <<Drop(One("major"))>>, l2, {})
  <2>1. l2 \ {One("major")} = {} /\ l2 \subseteq k2 /\ One("major") # One("tasklet")
    BY DEF WithDisk, One, Thing
  <2> HIDE DEF N, k2, l2
  <2>2. Sound(d, "unloading", l2)
    BY <1>3, <1>18, <2>1 DEF IsDisk
  <2>3. Moves(d, "unloading", Drop(One("major")), l2, l2 \ {One("major")})
    BY <1>13, <2>1, <2>2, StepsMove
  <2> QED
    BY <2>1, <2>3, SafeTuples
<1>20. Safe(d, "unloading", RamhdExit, g, {})
  <2> HIDE DEF N, g, k1, l1, k2, l2, data
  <2>1. SafeBlock(d, "unloading", disk(1), g, l1) /\ SafeBlock(d, "unloading", disk(2), l1, l2)
    BY <1>15, <1>16, <1>17, <1>18, SafeConcat
  <2> DEFINE s == [i \in 1..2 |-> disk(i)]
  <2>2. s[1] = disk(1) /\ s[2] = disk(2)
    OBVIOUS
  <2>3. RamhdExit = (Both(s) \o <<Drop(One("major"))>>) \o Return
    BY DEF RamhdExit, data
  <2> HIDE DEF s, disk
  <2>4. SafeBlock(d, "unloading", Both(s), g, l2)
    BY <2>1, <2>2, SafeConcat DEF Both
  <2>5. SafeBlock(d, "unloading", Both(s) \o <<Drop(One("major"))>>, g, {})
    BY <1>19, <2>4, SafeConcat
  <2>6. Safe(d, "unloading", Return, {}, {})
    BY <1>3, <1>4, ReturnIsSafe DEF IsDisk
  <2> QED
    BY <2>3, <2>5, <2>6 DEF SafeBlock
<1> HIDE DEF load, g
<1> QED
  BY <1>1, <1>2, <1>11, <1>20 DEF Ready, Leaves

\* The other two.
LEMMA RamdiskPath == \E g : Safe("ramdisk", "loading", Ramdisk.load, {}, g) /\ Ready("ramdisk", g)
<1> DEFINE d == "ramdisk"
           N == [i \in 1..2 |-> {Rdev(i), Space(i), Queue(i)}]
           add == AddDiskUntested(1) \o AddDiskUntested(2)
           rest == (<<May(One("major"))>> \o add) \o Return
           a == Try(Space(1), Fail)
           b == Try(Space(2), Fail)
           c == Try(Rdev(1), rest)
           e == Try(Rdev(2), rest)
           h1 == {} \cup {Space(1)}
           h2 == h1 \cup {Space(2)}
           h3 == h2 \cup {Rdev(1)}
           h4 == h3 \cup {Rdev(2)}
           h5 == h4 \cup {One("major")}
           h6 == WithDisk(h5, 1)
           g == WithDisk(h6, 2)
           delete == DeleteDisk(1) \o DeleteDisk(2)
           spaces == <<Put(Rdev(1)), Put(Rdev(2)), Drop(Space(1)), Drop(Space(2))>>
           final == ((delete \o spaces) \o <<Drop(One("major"))>>) \o Return
<1>1. /\ Ramdisk.load = <<a, b, c, e>> \o rest /\ Ramdisk.exit = final
      /\ Ramdisk.uses = DiskUses(N)
  <2> DEFINE u == [i \in 1..2 |-> AddDiskUntested(i)]
             v == [i \in 1..2 |-> DeleteDisk(i)]
  <2>1. Both(u) = add /\ Both(v) = delete
    BY DEF Both
  <2> HIDE DEF add, delete
  <2> QED
    BY <2>1 DEF Ramdisk, Driver
<1>2. d \notin Undo /\ d # "tasklet" /\ Drivers[d] = Ramdisk
  BY DEF Undo, Drivers
<1>3. IsDisk(d, N)
  <2> HIDE DEF N
  <2> QED
    BY <1>1, <1>2, EquippedIsSound DEF IsDisk
<1>4. Equipped(N, {}) /\ Equipped(N, h1) /\ Equipped(N, h2) /\ Equipped(N, h3) /\ Equipped(N, h4)
      /\ Equipped(N, h5)
  BY DEF Equipped, Disk, Space, Rdev, One, Thing
<1>5. SafeBlock(d, "loading", <<a, b, c, e>>, {}, h4)
  <2>1. /\ Moves(d, "loading", a, {}, h1) /\ Moves(d, "loading", b, h1, h2)
        /\ Moves(d, "loading", c, h2, h3) /\ Moves(d, "loading", e, h3, h4)
    <3> HIDE DEF N, rest
    <3> QED
      BY <1>2, <1>3, <1>4, StepsMove DEF IsDisk
  <2> HIDE DEF a, b, c, e, h1, h2, h3, h4
  <2> QED
    BY <2>1, SafeTuples
<1>6. SafeBlock(d, "loading", <<May(One("major"))>>, h4, h5)
  <2> HIDE DEF N, h4
  <2>1. Moves(d, "loading", May(One("major")), h4, h5)
    BY <1>2, <1>3, <1>4, StepsMove DEF IsDisk
  <2> HIDE DEF h5
  <2> QED
    BY <2>1, SafeTuples
<1>7. /\ N[1] \subseteq h5 \cup {Queue(1)} /\ Rdev(1) \in h5
      /\ N[2] \subseteq h6 \cup {Queue(2)} /\ Rdev(2) \in h6
  BY DEF WithDisk
<1>8. SafeBlock(d, "loading", AddDiskUntested(1), h5, h6) /\ Equipped(N, h6)
  <2> HIDE DEF N, h5, d
  <2> QED
    BY <1>2, <1>3, <1>4, <1>7, AddDiskPath
<1>9. SafeBlock(d, "loading", AddDiskUntested(2), h6, g) /\ Equipped(N, g)
  <2> HIDE DEF N, h6, d
  <2> QED
    BY <1>2, <1>3, <1>7, <1>8, AddDiskPath
<1>10. Safe(d, "loading", Ramdisk.load, {}, g)
  <2> HIDE DEF N, h4, h5, h6, g, a, b, c, e, d
  <2>1. SafeBlock(d, "loading", add, h5, g)
    BY <1>8, <1>9, SafeConcat
  <2> HIDE DEF add
  <2>2. SafeBlock(d, "loading", <<May(One("major"))>> \o add, h4, g)
    BY <1>6, <2>1, SafeConcat
  <2>3. Safe(d, "loading", Return, g, g)
    BY <1>3, <1>9, ReturnIsSafe DEF IsDisk
  <2>4. Safe(d, "loading", rest, h4, g)
    BY <2>2, <2>3 DEF SafeBlock
  <2> HIDE DEF rest
  <2> QED
    BY <1>1, <1>5, <2>4 DEF SafeBlock
<1> DEFINE k1 == g \ {Disk(1), Gd(1), Queue(1)}
           k2 == k1 \ {Disk(2), Gd(2), Queue(2)}
           l1 == k2 \ {Rdev(1)}
           l2 == l1 \ {Rdev(2)}
           l3 == l2 \ {Space(1)}
           l4 == l3 \ {Space(2)}
<1>11. N[1] \cap {Disk(2), Gd(2), Queue(2)} = {} /\ N[2] \cap {Disk(1), Gd(1), Queue(1)} = {}
  BY DEF Rdev, Space, Queue, Disk, Gd, Thing
<1>12. /\ {Disk(1), Gd(1), Queue(1)} \subseteq g /\ {Disk(2), Gd(2), Queue(2)} \subseteq k1
       /\ Disk(1) \notin k2 /\ Disk(2) \notin k2
       /\ Space(1) \in l2 /\ Space(2) \in l3 /\ One("major") \in l4
  BY DEF WithDisk, Rdev, Space, Queue, Disk, Gd, One, Thing
<1>13. /\ One("tasklet") # Rdev(1) /\ One("tasklet") # Rdev(2) /\ One("tasklet") # Space(1)
       /\ One("tasklet") # Space(2) /\ One("tasklet") # One("major")
  BY DEF Rdev, Space, One, Thing
<1>14. l4 \ {One("major")} = {}
  BY DEF WithDisk
<1>15. SafeBlock(d, "unloading", DeleteDisk(1), g, k1) /\ Equipped(N, k1)
  <2> HIDE DEF N, g, d
  <2> QED
    BY <1>3, <1>9, <1>11, <1>12, DeleteDiskPath
<1>16. SafeBlock(d, "unloading", DeleteDisk(2), k1, k2) /\ Equipped(N, k2)
  <2> HIDE DEF N, k1, d
  <2> QED
    BY <1>3, <1>11, <1>12, <1>15, DeleteDiskPath
<1>17. /\ Sound(d, "unloading", k2) /\ Sound(d, "unloading", l1) /\ Sound(d, "unloading", l2)
       /\ Sound(d, "unloading", l3) /\ Sound(d, "unloading", l4) /\ Sound(d, "unloading", {})
  <2>1. /\ Equipped(N, k2) /\ Equipped(N, l1) /\ Equipped(N, l2) /\ Equipped(N, l3) /\ Equipped(N, l4)
        /\ Equipped(N, {})
    <3> HIDE DEF N, k2
    <3> QED
      BY <1>12 DEF Equipped
  <2> HIDE DEF N, d, k2, l1, l2, l3, l4
  <2> QED
    BY <1>3, <2>1 DEF IsDisk
<1>18. SafeBlock(d, "unloading", spaces, k2, l4)
  <2>1. Moves(d, "unloading", Put(Rdev(1)), k2, l1)
    <3> HIDE DEF k2, d
    <3> QED
      BY <1>13, <1>17, StepsMove
  <2>2. Moves(d, "unloading", Put(Rdev(2)), l1, l2)
    <3> HIDE DEF l1, d
    <3> QED
      BY <1>13, <1>17, StepsMove
  <2>3. Moves(d, "unloading", Drop(Space(1)), l2, l3)
    <3> HIDE DEF l2, d
    <3> QED
      BY <1>12, <1>13, <1>17, StepsMove
  <2>4. Moves(d, "unloading", Drop(Space(2)), l3, l4)
    <3> HIDE DEF l3, d
    <3> QED
      BY <1>12, <1>13, <1>17, StepsMove
  <2> HIDE DEF k2, l1, l2, l3, l4, d
  <2> QED
    BY <2>1, <2>2, <2>3, <2>4, SafeTuples
<1>19. SafeBlock(d, "unloading", <<Drop(One("major"))>>, l4, {})
  <2> HIDE DEF l4, d
  <2>1. Moves(d, "unloading", Drop(One("major")), l4, l4 \ {One("major")})
    BY <1>12, <1>13, <1>17, StepsMove
  <2> QED
    BY <1>14, <2>1, SafeTuples
<1>20. Safe(d, "unloading", Ramdisk.exit, g, {})
  <2> HIDE DEF N, g, k1, k2, l4, d, spaces
  <2>1. SafeBlock(d, "unloading", delete, g, k2)
    BY <1>15, <1>16, SafeConcat
  <2> HIDE DEF delete
  <2>2. SafeBlock(d, "unloading", delete \o spaces, g, l4)
    BY <1>18, <2>1, SafeConcat
  <2>3. SafeBlock(d, "unloading", (delete \o spaces) \o <<Drop(One("major"))>>, g, {})
    BY <1>19, <2>2, SafeConcat
  <2>4. Safe(d, "unloading", Return, {}, {})
    BY <1>17, ReturnIsSafe
  <2> QED
    BY <1>1, <2>3, <2>4 DEF SafeBlock
<1> HIDE DEF g
<1> QED
  BY <1>2, <1>10, <1>20 DEF Ready, Leaves

LEMMA RockDiskPath == \E g : Safe("rock_disk", "loading", RockDisk.load, {}, g) /\ Ready("rock_disk", g)
<1> DEFINE d == "rock_disk"
           N == [i \in 1..2 |-> {One("rd"), Data(i), Queue(i)}]
           Unset(i) == (IF i = 1 THEN <<>> ELSE <<Misfree(One("rd"))>>) \o <<Drop(One("major"))>> \o Fail
           SetupDevice(i) ==
              <<Try(Data(i), Unset(i)), Try(Queue(i), <<Drop(Data(i))>> \o Unset(i)),
                May(Gd(i)), Use(Gd(i)), Sure(Disk(i))>>
           first == <<Try(One("major"), Fail), Try(One("rd"), <<Drop(One("major"))>> \o Fail)>>
           DropDisk(i) == <<Drop(Disk(i)), Drop(Data(i))>>
           final == <<Drop(One("rd")), Drop(One("major"))>>
           h1 == {} \cup {One("major")}
           h2 == h1 \cup {One("rd")}
           h3 == WithDisk(h2 \cup {Data(1)}, 1)
           g == WithDisk(h3 \cup {Data(2)}, 2)
<1>1. /\ RockDisk.load = (first \o (SetupDevice(1) \o SetupDevice(2))) \o Return
      /\ RockDisk.exit = ((DropDisk(1) \o DropDisk(2)) \o final) \o Return
      /\ RockDisk.uses = DiskUses(N)
  <2> DEFINE u == [i \in 1..2 |-> SetupDevice(i)]
             v == [i \in 1..2 |-> DropDisk(i)]
  <2>1. RockDisk.load = (first \o Both(u)) \o Return
    BY DEF RockDisk, Driver
  <2>2. RockDisk.exit = (Both(v) \o final) \o Return
    BY DEF RockDisk, Driver
  <2>3. RockDisk.uses = DiskUses(N)
    BY DEF RockDisk, Driver
  <2> HIDE DEF SetupDevice, DropDisk
  <2>4. Both(u) = SetupDevice(1) \o SetupDevice(2) /\ Both(v) = DropDisk(1) \o DropDisk(2)
    BY DEF Both
  <2> HIDE DEF u, v, first, final, N
  <2> QED
    BY <2>1, <2>2, <2>3, <2>4
<1>2. d \notin Undo /\ d # "tasklet" /\ d \notin CleanUp /\ Drivers[d] = RockDisk
  BY DEF Undo, CleanUp, Drivers
<1>3. IsDisk(d, N)
  <2> HIDE DEF N
  <2> QED
    BY <1>1, <1>2, EquippedIsSound DEF IsDisk
<1>4. Equipped(N, {}) /\ Equipped(N, h1) /\ Equipped(N, h2)
  BY DEF Equipped, Disk, One, Thing
<1>5. SafeBlock(d, "loading", first, {}, h2)
  <2>1. /\ Moves(d, "loading", Try(One("major"), Fail), {}, h1)
        /\ Moves(d, "loading", Try(One("rd"), <<Drop(One("major"))>> \o Fail), h1, h2)
    <3> HIDE DEF N
    <3> QED
      BY <1>2, <1>3, <1>4, StepsMove DEF IsDisk
  <2> HIDE DEF h1, h2
  <2> QED
    BY <2>1, SafeTuples
<1>6. ASSUME NEW i \in 1..2, NEW h, Equipped(N, h), One("rd") \in h
      PROVE  /\ SafeBlock(d, "loading", SetupDevice(i), h, WithDisk(h \cup {Data(i)}, i))
             /\ Equipped(N, WithDisk(h \cup {Data(i)}, i))
  <2> DEFINE k == h \cup {Data(i)}
             l == k \cup {Queue(i)}
             m == l \cup {Gd(i)}
  <2>1. Data(i) \notin {Disk(1), Disk(2)}
    BY DEF Data, Disk, Thing
  <2>2. Equipped(N, k)
    <3> HIDE DEF N
    <3> QED
      BY <1>6, <2>1, EquippedSteps
  <2>3. N[i] \subseteq k \cup {Queue(i)}
    BY <1>6
  <2> HIDE DEF N, d, Unset
  <2>4. Moves(d, "loading", Try(Data(i), Unset(i)), h, k)
    BY <1>2, <1>3, <1>6, StepsMove DEF IsDisk
  <2> HIDE DEF k
  <2>5. /\ Equipped(N, WithDisk(k, i))
        /\ Moves(d, "loading", May(Gd(i)), l, m) /\ Moves(d, "loading", Use(Gd(i)), m, m)
        /\ Moves(d, "loading", Sure(Disk(i)), m, WithDisk(k, i))
    BY <1>2, <1>3, <2>2, <2>3, AddDiskMoves
  <2>6. Moves(d, "loading", Try(Queue(i), <<Drop(Data(i))>> \o Unset(i)), k, l)
    BY <1>2, <1>3, <2>2, StepsMove DEF IsDisk
  <2> HIDE DEF l, m
  <2>7. SafeBlock(d, "loading", SetupDevice(i), h, WithDisk(k, i))
    BY <2>4, <2>5, <2>6, SafeTuples
  <2> QED
    BY <2>5, <2>7 DEF k
<1>7. One("rd") \in h2 /\ One("rd") \in h3
  BY DEF WithDisk
<1>8. Safe(d, "loading", RockDisk.load, {}, g)
  <2> HIDE DEF N, d, h2, SetupDevice, first
  <2>1. SafeBlock(d, "loading", SetupDevice(1), h2, h3) /\ Equipped(N, h3)
    BY <1>4, <1>6, <1>7
  <2> HIDE DEF h3
  <2>2. SafeBlock(d, "loading", SetupDevice(2), h3, g) /\ Equipped(N, g)
    BY <1>6, <1>7, <2>1
  <2> HIDE DEF g
  <2>3. SafeBlock(d, "loading", SetupDevice(1) \o SetupDevice(2), h2, g)
    BY <2>1, <2>2, SafeConcat
  <2>4. SafeBlock(d, "loading", first \o (SetupDevice(1) \o SetupDevice(2)), {}, g)
    BY <1>5, <2>3, SafeConcat
  <2>5. Safe(d, "loading", Return, g, g)
    BY <1>3, <2>2, ReturnIsSafe DEF IsDisk
  <2> QED
    BY <1>1, <2>4, <2>5 DEF SafeBlock
<1> DEFINE k1 == g \ {Disk(1), Data(1)}
           k2 == k1 \ {Disk(2), Data(2)}
           left == k2 \ {One("rd"), One("major")}
<1>9. /\ {Disk(1), Data(1)} \subseteq g /\ {Disk(2), Data(2)} \subseteq k1
      /\ {One("rd"), One("major")} \subseteq k2
      /\ N[2] \subseteq g /\ N[2] \subseteq g \ {Disk(1)} /\ N[2] \subseteq k1
  BY DEF WithDisk, Data, Queue, Gd, Disk, One, Thing
<1>10. /\ Disk(1) \notin g \ {Disk(1)} /\ Disk(1) \notin k1 /\ Disk(1) \notin k2 /\ Disk(2) \notin k2
       /\ Disk(1) \notin k1 \ {Disk(2)} /\ Disk(2) \notin k1 \ {Disk(2)}
       /\ N[1] \subseteq g
  BY DEF WithDisk
<1>11. /\ Disk(1) # Data(1) /\ Disk(2) # Data(2) /\ One("rd") # One("major")
       /\ One("tasklet") \notin {Disk(1), Data(1), Disk(2), Data(2), One("rd"), One("major")}
  BY DEF Data, Disk, One, Thing
<1>12. /\ Sound(d, "unloading", g) /\ Sound(d, "unloading", g \ {Disk(1)}) /\ Sound(d, "unloading", k1)
       /\ Sound(d, "unloading", k1 \ {Disk(2)}) /\ Sound(d, "unloading", k2)
       /\ Sound(d, "unloading", k2 \ {One("rd")}) /\ Sound(d, "unloading", left)
  <2>1. \A i \in 1..2 : i = 1 \/ i = 2
    OBVIOUS
  <2>2. Equipped(N, g) /\ Equipped(N, g \ {Disk(1)}) /\ Equipped(N, k1)
    <3> HIDE DEF N, g, k1
    <3> QED
      BY <1>9, <1>10, <2>1 DEF Equipped
  <2>3. Equipped(N, k1 \ {Disk(2)})
    <3> HIDE DEF N, k1
    <3> QED
      BY <1>10, <2>1 DEF Equipped
  <2>4. Equipped(N, k2) /\ Equipped(N, k2 \ {One("rd")}) /\ Equipped(N, left)
    <3> HIDE DEF N, k2
    <3> QED
      BY <1>10, <2>1 DEF Equipped
  <2> HIDE DEF N, d, g, k1, k2, left
  <2> QED
    BY <1>3, <2>2, <2>3, <2>4 DEF IsDisk
<1>13. SafeBlock(d, "unloading", DropDisk(1), g, k1)
  <2> HIDE DEF d, g
  <2> QED
    BY <1>9, <1>11, <1>12, DropPath
<1>14. SafeBlock(d, "unloading", DropDisk(2), k1, k2)
  <2> HIDE DEF d, k1
  <2> QED
    BY <1>9, <1>11, <1>12, DropPath
<1>15. SafeBlock(d, "unloading", final, k2, left)
  <2> HIDE DEF d, k2
  <2> QED
    BY <1>9, <1>11, <1>12, DropPath
<1>16. Safe(d, "unloading", RockDisk.exit, g, left)
  <2> HIDE DEF N, d, g, k1, k2, left, DropDisk, final
  <2>1. SafeBlock(d, "unloading", DropDisk(1) \o DropDisk(2), g, k2)
    BY <1>13, <1>14, SafeConcat
  <2>2. SafeBlock(d, "unloading", (DropDisk(1) \o DropDisk(2)) \o final, g, left)
    BY <1>15, <2>1, SafeConcat
  <2>3. Safe(d, "unloading", Return, left, left)
    BY <1>12, ReturnIsSafe
  <2> QED
    BY <1>1, <2>2, <2>3 DEF SafeBlock
<1> HIDE DEF g, left
<1> QED
  BY <1>2, <1>8, <1>16 DEF Ready, Leaves

\* Every driver but the debugfs demos.
LEMMA DriverPaths ==
    ASSUME NEW d \in DOMAIN Drivers \ Debugged
    PROVE  \E g : Safe(d, "loading", Drivers[d].load, {}, g) /\ Ready(d, g)
<1>1. d \in {"wait_queue_consumer", "wait_queue_list", "work_queue", "wait_queue", "kthread_shoud_stop",
             "completion", "notifier_chains", "cdev", "wait_queue_demo", "wait_queue_test",
             "add_wait_queue_exclusive", "cdev_demo", "buttons", "tasklet", "ramhd_mkreq", "ramhd_req",
             "ramdisk", "rock_disk"}
  BY DEF Drivers, Debugged
<1>2. Drivers["ramdisk"] = Ramdisk /\ Drivers["rock_disk"] = RockDisk
  BY DEF Drivers
<1> QED
  BY <1>1, <1>2, ConsumerPaths, ThreadPaths, PlainPaths, RlwaitPaths, ButtonsPaths, RamhdPaths,
     RamdiskPath, RockDiskPath

\* Only the buttons of tasklet.c schedule one.
LEMMA TaskletUses ==
    ASSUME NEW d \in DOMAIN Drivers, NEW e \in DOMAIN Drivers[d].uses,
           One("tasklet") \in Drivers[d].uses[e]
    PROVE  d = "tasklet"
<1> SUFFICES ASSUME d # "tasklet" PROVE FALSE
  OBVIOUS
<1>1. d \in {"wait_queue_consumer", "wait_queue_list", "work_queue", "wait_queue", "kthread_shoud_stop",
             "completion", "notifier_chains", "cdev", "wait_queue_demo", "wait_queue_test",
             "add_wait_queue_exclusive", "cdev_demo", "buttons", "ramhd_mkreq", "ramhd_req",
             "ramdisk", "rock_disk", "anon_debug", "anon_debug_32"}
  BY DEF Drivers
<1>2. /\ One("tasklet") # One("data") /\ One("tasklet") # One("wq") /\ One("tasklet") # One("rd")
      /\ \A i : /\ One("tasklet") # Rdev(i) /\ One("tasklet") # Data(i) /\ One("tasklet") # Queue(i)
                /\ One("tasklet") # Space(i) /\ One("tasklet") # Thing("request", i)
  BY DEF One, Thing, Rdev, Data, Queue, Space
<1>3. CASE d \in {"wait_queue_consumer", "wait_queue_list"}
  <2>1. Drivers[d] = WaitQueueConsumer
    BY <1>3 DEF Drivers, WaitQueueList
  <2>2. Drivers[d].uses = [x \in Reached \cup {One("thread")} |-> {One("data")}]
    BY <2>1 DEF WaitQueueConsumer, Driver
  <2> QED
    BY <1>2, <2>2
<1>4. CASE d = "work_queue"
  <2>1. Drivers[d].uses = [x \in Reached \cup {One("wq")} |->
            IF x \in Reached THEN {One("data"), One("wq")} ELSE {One("data")}]
    BY <1>4 DEF Drivers, WorkQueue, Driver
  <2> QED
    BY <1>2, <2>1
<1>5. CASE d = "wait_queue"
  <2>1. Drivers[d].uses = [x \in Reached |-> {One("data")}]
    BY <1>5 DEF Drivers, WaitQueue, Driver
  <2> QED
    BY <1>2, <2>1
<1>6. CASE d \in {"wait_queue_demo", "wait_queue_test", "add_wait_queue_exclusive"}
  <2>1. Drivers[d] = WaitQueueDemo
    BY <1>6 DEF Drivers, WaitQueueTest, AddWaitQueueExclusive
  <2>2. Drivers[d].uses = [x \in {One("cdev")} |-> {One("data")}]
    BY <2>1 DEF WaitQueueDemo, Driver
  <2> QED
    BY <1>2, <2>2
<1>7. CASE d \in {"kthread_shoud_stop", "completion", "notifier_chains", "cdev", "cdev_demo", "buttons"}
  <2>1. Drivers[d] \in {KthreadShoudStop, Completion, NotifierChains, Cdev, CdevDemo, Buttons}
    BY <1>7 DEF Drivers
  <2>2. /\ \A x \in DOMAIN KthreadShoudStop.uses : KthreadShoudStop.uses[x] = {}
        /\ \A x \in DOMAIN Completion.uses : Completion.uses[x] = {}
        /\ \A x \in DOMAIN NotifierChains.uses : NotifierChains.uses[x] = {}
        /\ \A x \in DOMAIN Cdev.uses : Cdev.uses[x] = {}
        /\ \A x \in DOMAIN CdevDemo.uses : CdevDemo.uses[x] = {}
        /\ \A x \in DOMAIN Buttons.uses : Buttons.uses[x] = {}
    BY DEF KthreadShoudStop, Completion, NotifierChains, Cdev, CdevDemo, Buttons, Driver
  <2> QED
    BY <2>1, <2>2
<1>8. CASE d \in {"anon_debug", "anon_debug_32"}
  <2>1. Drivers[d] \in {AnonDebug, AnonDebug32}
    BY <1>8 DEF Drivers
  <2>2. AnonDebug.uses = <<>> /\ AnonDebug32.uses = <<>>
    BY DEF AnonDebug, AnonDebug32, Driver
  <2> QED
    BY <2>1, <2>2
<1>9. ASSUME NEW N, Drivers[d].uses = DiskUses(N), One("tasklet") \notin N[1] \cup N[2] PROVE FALSE
  <2>1. Disk(1)[2] = 1 /\ Disk(2)[2] = 2
    BY DEF Disk, Thing
  <2> QED
    BY <1>9, <2>1 DEF DiskUses
<1>10. CASE d = "ramhd_mkreq"
  <2> DEFINE N == [i \in 1..2 |-> {Rdev(i), Data(i), Queue(i)}]
  <2>1. Drivers[d].uses = DiskUses(N)
    BY <1>10 DEF Drivers, RamhdMkreq, Driver
  <2>2. One("tasklet") \notin N[1] \cup N[2]
    BY <1>2
  <2> HIDE DEF N
  <2> QED
    BY <1>9, <2>1, <2>2
<1>11. CASE d = "ramhd_req"
  <2> DEFINE N == [i \in 1..2 |-> {Rdev(i), Data(i), Queue(i), Thing("request", i)}]
  <2>1. Drivers[d].uses = DiskUses(N)
    BY <1>11 DEF Drivers, RamhdReq, Driver
  <2>2. One("tasklet") \notin N[1] \cup N[2]
    BY <1>2
  <2> HIDE DEF N
  <2> QED
    BY <1>9, <2>1, <2>2
<1>12. CASE d = "ramdisk"
  <2> DEFINE N == [i \in 1..2 |-> {Rdev(i), Space(i), Queue(i)}]
  <2>1. Drivers[d].uses = DiskUses(N)
    BY <1>12 DEF Drivers, Ramdisk, Driver
  <2>2. One("tasklet") \notin N[1] \cup N[2]
    BY <1>2
  <2> HIDE DEF N
  <2> QED
    BY <1>9, <2>1, <2>2
<1>13. CASE d = "rock_disk"
  <2> DEFINE N == [i \in 1..2 |-> {One("rd"), Data(i), Queue(i)}]
  <2>1. Drivers[d].uses = DiskUses(N)
    BY <1>13 DEF Drivers, RockDisk, Driver
  <2>2. One("tasklet") \notin N[1] \cup N[2]
    BY <1>2
  <2> HIDE DEF N
  <2> QED
    BY <1>9, <2>1, <2>2
<1> QED
  BY <1>1, <1>3, <1>4, <1>5, <1>6, <1>7, <1>8, <1>10, <1>11, <1>12, <1>13

-----------------------------------------------------------------------------
(* Where the module is and what it holds fit together.                     *)

\* Nothing has failed: what is left of the function can be done, and leads to where
\* the next one starts.
OnItsWay ==
    /\ phase = "loading" => \E g : Safe(driver, "loading", todo, held, g) /\ Ready(driver, g)
    /\ phase = "live" => Ready(driver, held)
    /\ phase = "unloading" =>
          /\ user = Nobody /\ (driver = "tasklet" => One("tasklet") \in held)
          /\ \E k : Safe(driver, "unloading", todo, held, k) /\ Leaves(driver, k)
    /\ phase # "oops"
    /\ user # Nobody /\ phase \in {"loading", "live"} => user \in held

\* Something has failed, in a driver that undoes: what is left gives all back.
Undoing ==
    /\ user = Nobody /\ phase \in {"loading", "gone"}
    /\ phase = "loading" => Undoes(driver, todo, held)

\* Where LeavesNothing says something.
Promised == driver \in Undo \/ (driver \in CleanUp /\ ~failed)

\* Both, and where the module is gone nothing of it can be called.
PathInv ==
    driver \notin Debugged =>
        /\ phase = "out" => user = Nobody /\ held = {} /\ ~failed /\ ~pending
        /\ ~failed => OnItsWay
        /\ failed /\ driver \in Undo => Undoing
        /\ phase = "gone" /\ Promised => user = Nobody /\ held \subseteq Initialised \ DOMAIN Uses
        /\ pending => driver = "tasklet"

\* The inductive invariant.
LifeInv == TypeInv /\ PathInv /\ LeavesNothing /\ FindsItsData

\* The debugfs demos are outside both promises.
LEMMA DebuggedIsFree ==
    ASSUME driver \in Debugged
    PROVE  PathInv /\ LeavesNothing /\ FindsItsData
BY DEF Debugged, PathInv, LeavesNothing, FindsItsData, Undo, CleanUp, Stale

LEMMA InitLifeInv == LifeInit => LifeInv
<1> SUFFICES ASSUME LifeInit PROVE LifeInv
  OBVIOUS
<1>1. PathInv
  BY DEF LifeInit, PathInv, OnItsWay, Undoing
<1> QED
  BY <1>1, InitTypeInv DEF LifeInit, LifeInv, LeavesNothing, FindsItsData

\* What comes in finds what it touches, as far as FindsItsData promises.
LEMMA SoundNow ==
    ASSUME LifeInv, driver \notin Debugged, ~failed, phase \in {"loading", "live", "unloading"}
    PROVE  driver \in Stale \/ (phase = "loading" /\ driver \in Early) \/ Complete(driver, held)
<1>1. OnItsWay
  BY DEF LifeInv, PathInv
<1>2. CASE phase = "loading"
  BY <1>1, <1>2, SafeStep DEF OnItsWay, Fits, Sound
<1>3. CASE phase = "live"
  <2>1. PICK k : Safe(driver, "unloading", Drivers[driver].exit, held, k)
    BY <1>1, <1>3 DEF OnItsWay, Ready
  <2> QED
    BY <1>3, <2>1, SafeStep DEF Fits, Sound
<1>4. CASE phase = "unloading"
  BY <1>1, <1>4, SafeStep DEF OnItsWay, Fits, Sound
<1> QED
  BY <1>2, <1>3, <1>4

\* The driver's code runs for what comes in.
LEMMA RunsWell ==
    ASSUME LifeInv, driver \notin Debugged, UNCHANGED <<driver, phase, todo, held, failed>>,
           NEW needs, Runs(needs), user' \in {user, Nobody},
           phase # "out", phase = "gone" => ~Promised,
           pending' => driver = "tasklet",
           ~failed /\ phase \in {"loading", "live", "unloading"} =>
               driver \in Stale \/ (phase = "loading" /\ driver \in Early) \/ needs \subseteq held
    PROVE  PathInv' /\ LeavesNothing' /\ FindsItsData'
<1>1. PathInv'
  BY DEF LifeInv, PathInv, OnItsWay, Undoing, Promised, Uses
<1>2. LeavesNothing'
  <2>1. Promised' <=> Promised
    BY DEF Promised
  <2>2. Promised => driver # "tasklet"
    BY DEF Promised, Undo, CleanUp
  <2>3. Promised => wrong' \cap {"misfreed", "gone"} = {}
    BY DEF LifeInv, LeavesNothing, Promised, Runs
  <2> QED
    BY <2>1, <2>2, <2>3 DEF LeavesNothing, Promised
<1>3. FindsItsData'
  <2> SUFFICES ASSUME ~failed
               PROVE  /\ driver \notin Stale => "absent" \notin wrong'
                      /\ driver \notin Early \cup Stale => "early" \notin wrong'
    BY DEF FindsItsData
  <2>1. /\ driver \notin Stale => "absent" \notin wrong
        /\ driver \notin Early \cup Stale => "early" \notin wrong
    BY DEF LifeInv, FindsItsData
  <2>2. phase \in {"loading", "live", "unloading", "gone"}
    BY DEF LifeInv, TypeInv, LifeTypeOK, PathInv, OnItsWay
  <2> QED
    BY <2>1, <2>2 DEF Runs
<1> QED
  BY <1>1, <1>2, <1>3

\* Where nobody is to call any more.
LEMMA NothingComes ==
    ASSUME LifeInv, driver \notin Debugged, phase = "out" \/ (phase = "gone" /\ Promised)
    PROVE  Entries = {} /\ user = Nobody /\ ~pending
BY DEF LifeInv, PathInv, Entries, LeavesNothing, Promised

\* The entries of a user's choice, and of what comes by itself.
LEMMA EntryFinds ==
    ASSUME LifeInv, driver \notin Debugged, ~failed, phase \in {"loading", "live", "unloading"},
           NEW e \in Entries
    PROVE  driver \in Stale \/ (phase = "loading" /\ driver \in Early) \/ Uses[e] \subseteq held
BY SoundNow DEF Complete, Entries, Uses

LEMMA OpenWell ==
    ASSUME LifeInv, driver \notin Debugged, Open
    PROVE  PathInv' /\ LeavesNothing' /\ FindsItsData'
<1>1. /\ user' \in held \cap DOMAIN Uses /\ phase \in {"loading", "live"}
      /\ UNCHANGED <<driver, phase, todo, held, pending, failed, wrong>>
  BY DEF Open, Entries
<1>2. ~(failed /\ driver \in Undo)
  BY <1>1 DEF LifeInv, PathInv, Undoing, Undoes, Uses
<1>3. PathInv'
  BY <1>1, <1>2 DEF LifeInv, PathInv, OnItsWay, Promised
<1> QED
  BY <1>1, <1>3 DEF LifeInv, LeavesNothing, FindsItsData

LEMMA CallWell ==
    ASSUME LifeInv, driver \notin Debugged, Call \/ Close
    PROVE  PathInv' /\ LeavesNothing' /\ FindsItsData'
<1> DEFINE needs == IF Call THEN Uses[user] ELSE {}
<1>1. /\ user # Nobody /\ Runs(needs) /\ user' \in {user, Nobody}
      /\ UNCHANGED <<driver, phase, todo, held, pending, failed>>
  BY DEF Call, Close
<1>2. user \in DOMAIN Uses
  BY <1>1 DEF LifeInv, TypeInv, LifeTypeOK
<1>3. phase # "out" /\ ~(phase = "gone" /\ Promised)
  BY <1>1, NothingComes
<1>4. ASSUME ~failed, phase \in {"loading", "live", "unloading"}
      PROVE  driver \in Stale \/ (phase = "loading" /\ driver \in Early) \/ Uses[user] \subseteq held
  <2>1. user \in Entries
    BY <1>1, <1>2, <1>4 DEF LifeInv, PathInv, OnItsWay, Entries
  <2> QED
    BY <1>4, <2>1, EntryFinds
<1>5. pending' => driver = "tasklet"
  BY <1>1 DEF LifeInv, PathInv
<1>6. ~failed /\ phase \in {"loading", "live", "unloading"} =>
          driver \in Stale \/ (phase = "loading" /\ driver \in Early) \/ needs \subseteq held
  BY <1>4
<1> HIDE DEF needs
<1> QED
  BY <1>1, <1>3, <1>5, <1>6, RunsWell

LEMMA ComesWell ==
    ASSUME LifeInv, driver \notin Debugged, Comes
    PROVE  PathInv' /\ LeavesNothing' /\ FindsItsData'
<1>1. PICK e \in Entries :
        /\ Runs(Uses[e])
        /\ pending' = (pending \/ (e[1] = "irq" /\ One("tasklet") \in Uses[e]))
        /\ UNCHANGED <<driver, phase, todo, held, walk, user, failed>>
  BY DEF Comes
<1>2. phase # "out" /\ ~(phase = "gone" /\ Promised)
  BY NothingComes
<1>3. driver \in DOMAIN Drivers /\ e \in DOMAIN Drivers[driver].uses
  BY DEF LifeInv, TypeInv, LifeTypeOK, Entries, Uses
<1>4. pending' => driver = "tasklet"
  BY <1>1, <1>3, TaskletUses DEF LifeInv, PathInv, Uses
<1> QED
  BY <1>1, <1>2, <1>4, EntryFinds, RunsWell

LEMMA TaskletWell ==
    ASSUME LifeInv, driver \notin Debugged, TaskletFunc
    PROVE  PathInv' /\ LeavesNothing' /\ FindsItsData'
<1> DEFINE needs == {One("tasklet")}
<1>1. /\ pending /\ ~pending' /\ Runs(needs) /\ user' \in {user, Nobody}
      /\ UNCHANGED <<driver, phase, todo, held, failed>>
  BY DEF TaskletFunc
<1>2. phase # "out" /\ ~(phase = "gone" /\ Promised) /\ driver = "tasklet"
  BY <1>1, NothingComes DEF LifeInv, PathInv
<1>3. ASSUME ~failed, phase \in {"live", "unloading"} PROVE needs \subseteq held
  BY <1>2, <1>3 DEF LifeInv, PathInv, OnItsWay, Ready
<1>4. driver \in Early
  BY <1>2 DEF Early
<1> HIDE DEF needs
<1> QED
  BY <1>1, <1>2, <1>3, <1>4, RunsWell

-----------------------------------------------------------------------------
(* The steps of the functions.                                             *)

LEMMA LoadWell ==
    ASSUME LifeInv, driver \notin Debugged, Load \/ Unload
    PROVE  PathInv' /\ LeavesNothing' /\ FindsItsData'
<1>1. UNCHANGED <<driver, held, user, pending, failed, wrong>> /\ user = Nobody
  BY DEF Load, Unload, LifeInv, PathInv
<1>2. driver \in DOMAIN Drivers \ Debugged
  BY DEF LifeInv, TypeInv, LifeTypeOK
<1>3. CASE Load
  <2>1. \E g : Safe(driver, "loading", Drivers[driver].load, {}, g) /\ Ready(driver, g)
    BY <1>2, DriverPaths
  <2>2. held = {} /\ ~failed /\ ~pending /\ phase' = "loading" /\ todo' = Drivers[driver].load
    BY <1>3 DEF Load, LifeInv, PathInv
  <2>3. PathInv'
    BY <1>1, <2>1, <2>2 DEF PathInv, OnItsWay
  <2> QED
    BY <1>1, <2>2, <2>3 DEF LifeInv, LeavesNothing, FindsItsData
<1>4. CASE Unload
  <2>1. phase = "live" /\ phase' = "unloading" /\ todo' = Drivers[driver].exit
    BY <1>4 DEF Unload
  <2>2. PathInv'
    BY <1>1, <2>1 DEF LifeInv, PathInv, OnItsWay, Undoing, Ready
  <2> QED
    BY <1>1, <2>1, <2>2 DEF LifeInv, LeavesNothing, FindsItsData
<1> QED
  BY <1>3, <1>4

\* A step where nothing has failed, and does not.
LEMMA StepWell ==
    ASSUME LifeInv, driver \notin Debugged, ~failed, todo # <<>>, Head(todo).op \notin Ends,
           UNCHANGED <<driver, phase, user, pending, failed>>, wrong' = wrong,
           todo' = Tail(todo), held' = After(Head(todo), held)
    PROVE  PathInv' /\ LeavesNothing' /\ FindsItsData'
<1>1. phase \in {"loading", "unloading"} /\ OnItsWay
  BY TodoStep DEF LifeInv, PathInv
<1>2. CASE phase = "loading"
  <2>1. PICK g : Safe(driver, "loading", todo, held, g) /\ Ready(driver, g)
    BY <1>1, <1>2 DEF OnItsWay
  <2>2. Safe(driver, "loading", todo', held', g) /\ Fits(driver, "loading", Head(todo), held)
    BY <2>1, SafeStep
  <2>3. held \subseteq held'
    BY <2>2 DEF Fits, After, Takers, Givers
  <2>4. OnItsWay'
    BY <1>1, <1>2, <2>1, <2>2, <2>3 DEF OnItsWay
  <2> QED
    BY <1>2, <2>4 DEF LifeInv, PathInv, LeavesNothing, FindsItsData
<1>3. CASE phase = "unloading"
  <2>1. PICK k : Safe(driver, "unloading", todo, held, k) /\ Leaves(driver, k)
    BY <1>1, <1>3 DEF OnItsWay
  <2>2. Safe(driver, "unloading", todo', held', k) /\ Fits(driver, "unloading", Head(todo), held)
    BY <2>1, SafeStep
  <2>3. One("tasklet") \in held => One("tasklet") \in held'
    BY <2>2 DEF Fits, After
  <2>4. OnItsWay'
    BY <1>1, <1>3, <2>1, <2>2, <2>3 DEF OnItsWay
  <2> QED
    BY <1>3, <2>4 DEF LifeInv, PathInv, LeavesNothing, FindsItsData
<1> QED
  BY <1>1, <1>2, <1>3

\* Which steps there are, where nothing has failed and where what has been done is
\* undone.
LEMMA HeadFits ==
    ASSUME LifeInv, driver \notin Debugged, todo # <<>>
    PROVE  /\ ~failed => Fits(driver, phase, Head(todo), held) /\ phase \in {"loading", "unloading"}
           /\ failed /\ driver \in Undo =>
                 /\ phase = "loading" /\ Undoes(driver, todo, held)
                 /\ \/ Head(todo).op = "fail" /\ held = {}
                    \/ Head(todo) = Drop(One("region")) /\ Tail(todo) = Fail /\ held = {One("region")}
<1>1. phase \in {"loading", "unloading"}
  BY TodoStep DEF LifeInv
<1>2. ASSUME ~failed PROVE Fits(driver, phase, Head(todo), held)
  BY <1>1, <1>2, SafeStep DEF LifeInv, PathInv, OnItsWay
<1>3. ASSUME failed, driver \in Undo
      PROVE  /\ phase = "loading" /\ Undoes(driver, todo, held)
             /\ \/ Head(todo).op = "fail" /\ held = {}
                \/ Head(todo) = Drop(One("region")) /\ Tail(todo) = Fail /\ held = {One("region")}
  <2>1. phase = "loading" /\ Undoes(driver, todo, held)
    BY <1>1, <1>3 DEF LifeInv, PathInv, Undoing
  <2>2. Head(Fail).op = "fail"
    BY DEF Fail, Step
  <2>3. /\ Head(<<Drop(One("region"))>> \o Fail) = Drop(One("region"))
        /\ Tail(<<Drop(One("region"))>> \o Fail) = Fail
    BY ConsIsSeq, ProgEnds, ProgStep
  <2> QED
    BY <2>1, <2>2, <2>3 DEF Undoes
<1> QED
  BY <1>1, <1>2, <1>3

\* What does not concern either promise.
LEMMA NoPromise ==
    ASSUME LifeInv, driver \notin Debugged, todo # <<>>, UNCHANGED <<driver, user, pending>>,
           failed' = failed, failed, driver \notin Undo, phase' # "out"
    PROVE  PathInv' /\ LeavesNothing' /\ FindsItsData'
BY DEF LifeInv, PathInv, Promised, LeavesNothing, FindsItsData

LEMMA AcquireWell ==
    ASSUME LifeInv, driver \notin Debugged, Acquire
    PROVE  PathInv' /\ LeavesNothing' /\ FindsItsData'
<1>1. /\ todo # <<>> /\ Head(todo).op \in Takers /\ Head(todo).op \notin Ends
      /\ todo' = Tail(todo) /\ held' = After(Head(todo), held)
      /\ UNCHANGED <<driver, phase, user, pending, failed, wrong>>
  BY DEF Acquire, Now, What, Takers, Ends, After
<1>2. phase # "out"
  BY <1>1, HeadFits, TodoStep DEF LifeInv
<1>3. ~(failed /\ driver \in Undo)
  BY <1>1, HeadFits DEF Takers, Drop, Step
<1>4. CASE ~failed
  BY <1>1, <1>4, StepWell
<1>5. CASE failed
  BY <1>1, <1>2, <1>3, <1>5, NoPromise
<1> QED
  BY <1>4, <1>5

LEMMA RefuseWell ==
    ASSUME LifeInv, driver \notin Debugged, Refuse
    PROVE  PathInv' /\ LeavesNothing' /\ FindsItsData'
<1>1. /\ todo # <<>> /\ Head(todo).op \in {"try", "ask", "may"} /\ failed'
      /\ Head(todo).op = "try" => todo' = Head(todo).to
      /\ UNCHANGED <<driver, phase, held, user, pending, wrong>>
  BY DEF Refuse, Now
<1>2. phase \in {"loading", "unloading"}
  BY <1>1, TodoStep DEF LifeInv
<1>3. ~(failed /\ driver \in Undo)
  BY <1>1, HeadFits DEF Drop, Step
<1>4. FindsItsData'
  BY <1>1 DEF FindsItsData
<1>5. CASE driver \in Undo
  <2>1. Fits(driver, phase, Head(todo), held) /\ ~failed
    BY <1>1, <1>3, <1>5, HeadFits
  <2>2. phase = "loading" /\ Undoes(driver, todo', held)
    BY <1>1, <1>2, <1>5, <2>1 DEF Fits, Givers
  <2>3. user = Nobody
    BY <2>1, <2>2 DEF LifeInv, TypeInv, LifeTypeOK, PathInv, OnItsWay, Undoes, Uses
  <2>4. Undoing'
    BY <1>1, <2>2, <2>3 DEF Undoing
  <2>5. PathInv'
    BY <1>1, <1>5, <2>2, <2>4 DEF LifeInv, PathInv
  <2>6. LeavesNothing'
    BY <1>1, <1>5, <2>2 DEF LifeInv, LeavesNothing
  <2> QED
    BY <1>4, <2>5, <2>6
<1>6. CASE driver \notin Undo
  BY <1>1, <1>2, <1>4, <1>6 DEF LifeInv, PathInv, Promised, LeavesNothing
<1> QED
  BY <1>5, <1>6

LEMMA TouchWell ==
    ASSUME LifeInv, driver \notin Debugged, Touch
    PROVE  PathInv' /\ LeavesNothing' /\ FindsItsData'
<1>1. /\ todo # <<>> /\ Head(todo).op = "use" /\ Head(todo).op \notin Ends
      /\ UNCHANGED <<driver, held, user, pending, failed>>
  BY DEF Touch, Now, Ends
<1>2. phase \in {"loading", "unloading"} /\ phase' # "out"
  BY <1>1, TodoStep DEF LifeInv, Touch
<1>3. ~(failed /\ driver \in Undo)
  BY <1>1, HeadFits DEF Drop, Step
<1>4. CASE ~failed
  <2>1. What \in held
    BY <1>1, <1>4, HeadFits DEF Fits, What
  <2>2. todo' = Tail(todo) /\ UNCHANGED <<phase, wrong>> /\ held' = After(Head(todo), held)
    BY <1>1, <2>1 DEF Touch, After, Takers, Givers
  <2> QED
    BY <1>1, <1>4, <2>2, StepWell
<1>5. CASE failed
  BY <1>1, <1>2, <1>3, <1>5, NoPromise
<1> QED
  BY <1>4, <1>5

LEMMA ReleaseWell ==
    ASSUME LifeInv, driver \notin Debugged, Release
    PROVE  PathInv' /\ LeavesNothing' /\ FindsItsData'
<1>1. /\ todo # <<>> /\ Head(todo).op \in {"drop", "put", "misfree"} /\ Head(todo).op \notin Ends
      /\ todo' = Tail(todo) /\ UNCHANGED <<driver, phase, user, pending, failed>>
  BY DEF Release, Now, Ends
<1>2. phase \in {"loading", "unloading"}
  BY <1>1, TodoStep DEF LifeInv
<1>3. CASE ~failed
  <2>1. Fits(driver, phase, Head(todo), held)
    BY <1>1, <1>3, HeadFits
  <2>2. Head(todo).op \in Givers /\ (Head(todo).op = "drop" => What \in held)
    BY <1>1, <1>2, <2>1 DEF Fits, Givers, Takers, What
  <2>3. wrong' = wrong /\ held' = After(Head(todo), held)
    BY <1>1, <2>2 DEF Release, Now, After, Givers, Takers, What
  <2> QED
    BY <1>1, <1>3, <2>3, StepWell
<1>4. CASE failed /\ driver \in Undo
  <2>1. /\ phase = "loading" /\ Head(todo) = Drop(One("region")) /\ todo' = Fail
        /\ held = {One("region")}
    BY <1>1, <1>4, HeadFits
  <2>2. Head(todo).op = "drop" /\ What = One("region")
    BY <2>1 DEF Drop, Step, What
  <2>3. held' = {} /\ wrong' = wrong
    BY <2>1, <2>2 DEF Release, Now
  <2>4. Undoing'
    BY <1>1, <1>4, <2>1, <2>3 DEF LifeInv, PathInv, Undoing, Undoes
  <2>5. PathInv'
    BY <1>1, <1>4, <2>1, <2>4 DEF LifeInv, PathInv
  <2> QED
    BY <1>1, <1>4, <2>1, <2>3, <2>5 DEF LifeInv, LeavesNothing, FindsItsData
<1>5. CASE failed /\ driver \notin Undo
  BY <1>1, <1>2, <1>5, NoPromise
<1> QED
  BY <1>3, <1>4, <1>5

\* None of these drivers comes to such a step.
LEMMA DebugStepWell ==
    ASSUME LifeInv, driver \notin Debugged, TestStep \/ RemoveTree \/ WalkTree
    PROVE  PathInv' /\ LeavesNothing' /\ FindsItsData'
<1>1. /\ todo # <<>> /\ Head(todo).op \in {"test", "remove", "walk"}
      /\ UNCHANGED <<driver, phase, user, pending>>
  BY DEF TestStep, RemoveTree, WalkTree, Now
<1>2. phase \in {"loading", "unloading"}
  BY <1>1, TodoStep DEF LifeInv
<1>3. failed /\ driver \notin Undo
  BY <1>1, <1>2, HeadFits DEF Fits, Takers, Givers, Drop, Step
<1>4. failed' = failed
  BY <1>3 DEF TestStep, RemoveTree, WalkTree, LifeInv, TypeInv, LifeTypeOK
<1> QED
  BY <1>1, <1>2, <1>3, <1>4, NoPromise

LEMMA FinishWell ==
    ASSUME LifeInv, driver \notin Debugged, Finish
    PROVE  PathInv' /\ LeavesNothing' /\ FindsItsData'
<1>1. /\ todo # <<>> /\ Head(todo).op \in {"return", "fail"} /\ Head(todo).op \in Ends
      /\ phase' = (IF Head(todo).op = "return" /\ phase = "loading" THEN "live" ELSE "gone")
      /\ UNCHANGED <<driver, held, user, pending, failed, wrong>>
  BY DEF Finish, Now, Ends
<1>2. phase \in {"loading", "unloading"}
  BY <1>1, TodoStep DEF LifeInv
<1>3. FindsItsData' /\ (pending' => driver = "tasklet") /\ (Promised' <=> Promised)
      /\ (Promised => driver # "tasklet")
  BY <1>1 DEF LifeInv, FindsItsData, PathInv, Promised, Undo, CleanUp
<1>4. CASE ~failed /\ phase = "loading"
  <2>1. PICK g : Safe(driver, "loading", todo, held, g) /\ Ready(driver, g)
    BY <1>4 DEF LifeInv, PathInv, OnItsWay
  <2>2. Ready(driver, held) /\ Head(todo).op = "return"
    BY <1>1, <2>1, SafeStep DEF Fits, Takers
  <2>3. PathInv'
    BY <1>1, <1>3, <1>4, <2>2 DEF LifeInv, PathInv, OnItsWay
  <2> QED
    BY <1>1, <1>3, <1>4, <2>2, <2>3 DEF LifeInv, LeavesNothing
<1>5. CASE ~failed /\ phase = "unloading"
  <2>1. PICK k : Safe(driver, "unloading", todo, held, k) /\ Leaves(driver, k)
    BY <1>5 DEF LifeInv, PathInv, OnItsWay
  <2>2. Leaves(driver, held) /\ user = Nobody /\ phase' = "gone"
    BY <1>1, <1>5, <2>1, SafeStep DEF LifeInv, PathInv, OnItsWay
  <2>3. Promised => held \subseteq Initialised \ DOMAIN Uses
    BY <2>2 DEF Promised, Leaves, CleanUp, Uses
  <2>4. PathInv'
    BY <1>1, <1>3, <1>5, <2>2, <2>3 DEF PathInv, OnItsWay, Uses
  <2>5. LeavesNothing'
    BY <1>1, <1>3, <2>3 DEF LifeInv, LeavesNothing, Promised
  <2> QED
    BY <1>3, <2>4, <2>5
<1>6. CASE failed /\ driver \in Undo
  <2>1. Head(todo).op = "fail" /\ held = {} /\ user = Nobody
    BY <1>1, <1>6, HeadFits DEF LifeInv, PathInv, Undoing, Drop, Step
  <2>2. phase' = "gone"
    BY <1>1, <2>1
  <2>3. PathInv'
    BY <1>1, <1>3, <1>6, <2>1, <2>2 DEF PathInv, Undoing
  <2>4. LeavesNothing'
    BY <1>1, <1>3, <1>6, <2>1 DEF LifeInv, LeavesNothing, Promised
  <2> QED
    BY <1>3, <2>3, <2>4
<1>7. CASE failed /\ driver \notin Undo
  BY <1>1, <1>7, NoPromise
<1> QED
  BY <1>2, <1>4, <1>5, <1>6, <1>7 DEF LifeInv, TypeInv, LifeTypeOK

LEMMA StepLifeInv ==
    ASSUME LifeInv, [LifeNext]_lifeVars
    PROVE  LifeInv'
<1>1. TypeInv'
  BY StepTypeInv DEF LifeInv
<1>2. driver' = driver
  BY DEF LifeNext, ModuleStep, Load, Unload, Acquire, Refuse, Touch, Release, TestStep, Finish,
         RemoveTree, WalkTree, Open, Call, Close, Comes, TaskletFunc, lifeVars
<1>3. CASE driver \in Debugged
  <2>1. (driver \in Debugged)'
    BY <1>2, <1>3 DEF Debugged
  <2>2. (PathInv /\ LeavesNothing /\ FindsItsData)'
    BY <2>1 DEF Debugged, PathInv, LeavesNothing, FindsItsData, Undo, CleanUp, Stale
  <2> QED
    BY <1>1, <2>2 DEF LifeInv
<1>4. CASE UNCHANGED lifeVars
  <2>1. PathInv' /\ LeavesNothing' /\ FindsItsData'
    BY <1>4 DEF lifeVars, LifeInv, PathInv, OnItsWay, Undoing, Promised, Uses, LeavesNothing, FindsItsData
  <2> QED
    BY <1>1, <2>1 DEF LifeInv
<1>5. CASE driver \notin Debugged /\ LifeNext
  <2>1. PathInv' /\ LeavesNothing' /\ FindsItsData'
    BY <1>5, OpenWell, CallWell, ComesWell, TaskletWell, LoadWell, AcquireWell, RefuseWell, TouchWell,
       ReleaseWell, DebugStepWell, FinishWell DEF LifeNext, ModuleStep
  <2> QED
    BY <1>1, <2>1 DEF LifeInv
<1> QED
  BY <1>3, <1>4, <1>5

LEMMA AlwaysLifeInv == LifeSpec => []LifeInv
<1>1. LifeInit => LifeInv
  BY InitLifeInv
<1>2. LifeInv /\ [LifeNext]_lifeVars => LifeInv'
  BY StepLifeInv
<1> QED
  BY <1>1, <1>2, PTL DEF LifeSpec

\* A driver whose module is gone has given back what it took, once, and no user,
\* interrupt or thread has run what was gone: whatever fails on its way, for the five
\* that undo what they have done, and when nothing fails for six more.
THEOREM NothingIsLeft == LifeSpec => []LeavesNothing
<1>1. LifeInv => LeavesNothing
  BY DEF LifeInv
<1> QED
  BY <1>1, AlwaysLifeInv, PTL

\* When nothing fails what comes in finds what it touches, whenever it comes: from the
\* return of init on for the drivers that are reached too early, at any time for others.
THEOREM DataIsFound == LifeSpec => []FindsItsData
<1>1. LifeInv => FindsItsData
  BY DEF LifeInv
<1> QED
  BY <1>1, AlwaysLifeInv, PTL

-----------------------------------------------------------------------------
(* The driver of the workqueue, WorkQueue.                                 *)

\* Only the worker holds the lock from one step to the next, and only inside
\* the body of its loop.
LockInv == lock = Worker <=> pc[Worker] = "drain"

\* A writer that is about to append has started a write.
StartedInv == \A w \in Writer : At(w, "append") => writes[w] > 0

IInv == TypeOK /\ LockInv /\ StartedInv /\ WorkComes

-----------------------------------------------------------------------------

LEMMA InitIInv == Init => IInv
BY WriterAssumption, LockAssumption, BoundAssumption DEF Init, IInv, TypeOK,
   LockInv, StartedInv, WorkComes, At, Task, WorkerPc, WriterPc

LEMMA StepTypeOK ==
    ASSUME IInv, [Next]_vars
    PROVE  TypeOK'
<1> USE WriterAssumption, LockAssumption, BoundAssumption
    DEF Task, WorkerPc, WriterPc, At, Goto
<1>1. TypeOK /\ StartedInv
  BY DEF IInv
<1>2. CASE RunWork
  <2>1. \A n \in Nat : n > 0 => n - 1 \in Nat
    OBVIOUS
  <2>2. works' \in Nat
    BY <1>1, <1>2, <2>1 DEF TypeOK, RunWork
  <2> QED
    BY <1>1, <1>2, <2>2 DEF TypeOK, RunWork
<1>3. CASE TakeLock \/ DrainDone
  BY <1>1, <1>3 DEF TypeOK, TakeLock, DrainDone
<1>4. CASE DrainOne
  <2>1. Head(list) \in Node /\ Tail(list) \in Seq(Node)
    BY <1>1, <1>4 DEF TypeOK, DrainOne
  <2> QED
    BY <1>1, <1>4, <2>1 DEF TypeOK, DrainOne
<1>5. ASSUME NEW w \in Writer, Write(w) PROVE TypeOK'
  BY <1>1, <1>5 DEF TypeOK, Write
<1>6. ASSUME NEW w \in Writer, AppendNode(w) PROVE TypeOK'
  <2>1. <<w, writes[w]>> \in Node
    BY <1>1, <1>6 DEF TypeOK, AppendNode, StartedInv, Node
  <2> QED
    BY <1>1, <1>6, <2>1 DEF TypeOK, AppendNode
<1>7. ASSUME NEW w \in Writer, QueueWork(w) PROVE TypeOK'
  BY <1>1, <1>7 DEF TypeOK, QueueWork
<1>8. CASE UNCHANGED vars
  BY <1>1, <1>8 DEF TypeOK, vars
<1> QED
  BY <1>2, <1>3, <1>4, <1>5, <1>6, <1>7, <1>8 DEF Next, Thread, WriteStep

\* The lock follows the worker's place in mythread, and every append is of a
\* write that was started.
LEMMA StepControl ==
    ASSUME IInv, [Next]_vars
    PROVE  (LockInv /\ StartedInv)'
<1> USE WriterAssumption, LockAssumption DEF Task, At, Goto, LockInv, StartedInv
<1>1. /\ TypeOK /\ LockInv /\ StartedInv
      /\ pc \in [Task -> WorkerPc \cup WriterPc]
      /\ writes \in [Writer -> 0..MaxWrites]
      /\ Worker # Free /\ \A w \in Writer : w # Worker
  BY DEF IInv, TypeOK
<1>2. CASE Thread
  <2>1. CASE RunWork \/ TakeLock
    BY <1>1, <2>1 DEF RunWork, TakeLock
  <2>2. CASE DrainOne \/ DrainDone
    BY <1>1, <2>2 DEF DrainOne, DrainDone
  <2> QED
    BY <1>2, <2>1, <2>2 DEF Thread
<1>3. ASSUME NEW w \in Writer, Write(w) PROVE (LockInv /\ StartedInv)'
  BY <1>1, <1>3, BoundAssumption DEF Write
<1>4. ASSUME NEW w \in Writer, WriteStep(w) PROVE (LockInv /\ StartedInv)'
  BY <1>1, <1>4 DEF WriteStep, AppendNode, QueueWork
<1>5. CASE UNCHANGED vars
  BY <1>1, <1>5 DEF vars
<1> QED
  BY <1>2, <1>3, <1>4, <1>5 DEF Next

\* An append leaves its writer about to queue a work, and a work that is taken
\* off the queue is run: only a thread that has seen the list empty, under the
\* lock, goes back to wait.
LEMMA StepWorkComes ==
    ASSUME IInv, [Next]_vars
    PROVE  WorkComes'
<1> USE WriterAssumption DEF Task, At, Goto, WorkComes
<1>1. /\ TypeOK /\ WorkComes /\ works \in Nat
      /\ pc \in [Task -> WorkerPc \cup WriterPc]
      /\ Worker \in Task /\ \A w \in Writer : w # Worker /\ w \in Task
  BY DEF IInv, TypeOK
<1>2. CASE RunWork \/ TakeLock \/ DrainOne
  BY <1>1, <1>2 DEF RunWork, TakeLock, DrainOne
<1>3. CASE DrainDone
  BY <1>1, <1>3 DEF DrainDone
<1>4. ASSUME NEW w \in Writer, Write(w) PROVE WorkComes'
  BY <1>1, <1>4 DEF Write
<1>5. ASSUME NEW w \in Writer, AppendNode(w) PROVE WorkComes'
  BY <1>1, <1>5 DEF AppendNode
<1>6. ASSUME NEW w \in Writer, QueueWork(w) PROVE WorkComes'
  BY <1>1, <1>6 DEF QueueWork
<1>7. CASE UNCHANGED vars
  BY <1>1, <1>7 DEF vars
<1> QED
  BY <1>2, <1>3, <1>4, <1>5, <1>6, <1>7 DEF Next, Thread, WriteStep

-----------------------------------------------------------------------------
(* The theorems *)

\* The inductive invariant holds in every reachable state of my_write and
\* mythread.
THEOREM Invariance == Spec => []IInv
<1>1. Init => IInv
  BY InitIInv
<1>2. IInv /\ [Next]_vars => IInv'
  BY StepTypeOK, StepControl, StepWorkComes DEF IInv
<1> QED
  BY <1>1, <1>2, PTL DEF Spec

\* Every variable of the driver keeps its type: in particular, the thread
\* unlinks a node only of a list that has one.
THEOREM TypeCorrect == Spec => []TypeOK
<1>1. IInv => TypeOK
  BY DEF IInv
<1> QED
  BY <1>1, Invariance, PTL

\* Whatever the number of writers, a node is never on the list without a work
\* to come for it: no write is forgotten by the works that found the list
\* empty.
THEOREM AWorkAlwaysComes == Spec => []WorkComes
<1>1. IInv => WorkComes
  BY DEF IInv
<1> QED
  BY <1>1, Invariance, PTL

\* The driver implements the safety half of a queue of work items: each node is
\* handled at most once, and in the order of the appends.
THEOREM Refinement == Spec => Fifo!Spec
<1>1. Init => Fifo!Init
  BY DEF Init, Fifo!Init
<1>2. ASSUME IInv, [Next]_vars
      PROVE  [Fifo!Next]_(Fifo!fifoVars)
  <2> USE DEF Fifo!fifoVars, Fifo!Next
  <2>1. CASE DrainOne
    BY <2>1 DEF DrainOne, Fifo!Handle
  <2>2. CASE RunWork \/ TakeLock \/ DrainDone
    BY <2>2 DEF RunWork, TakeLock, DrainDone
  <2>3. ASSUME NEW w \in Writer, AppendNode(w)
        PROVE  \E item \in Node : Fifo!Accept(item)
    <3>1. <<w, writes[w]>> \in Node
      BY <1>2, <2>3, BoundAssumption DEF IInv, TypeOK, StartedInv, AppendNode, Node
    <3> QED
      BY <2>3, <3>1 DEF AppendNode, Fifo!Accept
  <2>4. ASSUME NEW w \in Writer, Write(w) \/ QueueWork(w)
        PROVE  UNCHANGED Fifo!fifoVars
    BY <2>4 DEF Write, QueueWork
  <2>5. CASE UNCHANGED vars
    BY <2>5 DEF vars
  <2> QED
    BY <1>2, <2>1, <2>2, <2>3, <2>4, <2>5 DEF Next, Thread, WriteStep
<1> QED
  BY <1>1, <1>2, Invariance, PTL DEF Spec, Fifo!Spec
=============================================================================
