------------------------------ MODULE DebugTree ------------------------------
(***************************************************************************)
(* debugfs_tranverse of anon_debug and anon_debug_32: a walk over a tree   *)
(* of dentries without a stack.  It goes down into a directory that has    *)
(* entries, and finds its way up by d_parent, and on by the directory's    *)
(* own place in its parent's d_subdirs.                                    *)
(*                                                                         *)
(* A tree is a record: its dentries, the parent of each (up), and when     *)
(* each was made (born), which is its place in its parent's d_subdirs:     *)
(* d_alloc puts a new dentry first.                                        *)
(***************************************************************************)
EXTENDS Integers, Sequences, FiniteSets

\* The root's parent is outside.
IsTree(t) ==
    /\ IsFiniteSet(t.dentries)
    /\ \A d \in t.dentries :
        /\ t.born[d] \in Nat
        /\ t.up[d] \in t.dentries => t.born[t.up[d]] < t.born[d]
        /\ \A e \in t.dentries : t.born[d] = t.born[e] => d = e

\* d_subdirs
Subdirs(t, d) == {e \in t.dentries : t.up[e] = d}

\* d_u.d_child.next and what comes after it: the rest of the list d is on
Siblings(t, d) == {e \in Subdirs(t, t.up[d]) : t.born[e] < t.born[d]}

\* The first of what is left of a list.
First(t, list) == CHOOSE d \in list : \A e \in list : t.born[e] <= t.born[d]

-----------------------------------------------------------------------------
(* A walk: root and parent, what is left of the list dir points into, and  *)
(* the names printed.                                                      *)

NoWalk == [on |-> FALSE, done |-> FALSE, root |-> <<>>, parent |-> <<>>, dir |-> {}, out |-> <<>>]

WalkFrom(t, root) ==
    [on |-> TRUE, done |-> FALSE, root |-> root, parent |-> root, dir |-> Subdirs(t, root),
     out |-> <<>>]

\* Mutant: it is printed before it is looked at.
ListEntryPrinted(t, w) ==
    LET d == First(t, w.dir) IN
    IF Subdirs(t, d) # {}
    THEN [w EXCEPT !.parent = d, !.dir = Subdirs(t, d), !.out = Append(@, d)]
    ELSE [w EXCEPT !.dir = @ \ {d}, !.out = Append(@, d)]

\* A dentry of the list: a directory with entries is gone down into.
ListEntry(t, w) ==
    LET d == First(t, w.dir) IN
    IF Subdirs(t, d) # {}
    THEN [w EXCEPT !.parent = d, !.dir = Subdirs(t, d)]
    ELSE [w EXCEPT !.dir = @ \ {d}, !.out = Append(@, d)]

\* The end of the list: its directory is printed, and the walk goes on
\* behind that, one level up.
EndOfList(t, w) ==
    IF w.parent # w.root
    THEN [w EXCEPT !.out = Append(@, w.parent), !.dir = Siblings(t, w.parent),
                   !.parent = t.up[w.parent]]
    ELSE [w EXCEPT !.out = Append(@, w.parent), !.done = TRUE]

WalkStep(t, w) == IF w.dir # {} THEN ListEntry(t, w) ELSE EndOfList(t, w)

-----------------------------------------------------------------------------
(* What a walk is to print: every dentry from root down, once, and a       *)
(* directory after all that is in it.                                      *)

\* Going up from d one comes to root.
IsBelow(t, d, root) ==
    \A S \in SUBSET t.dentries :
        d \in S /\ (\A e \in S : t.up[e] \in t.dentries => t.up[e] \in S) => root \in S

Subtree(t, root) == {d \in t.dentries : IsBelow(t, d, root)}

Lists(t, root, out) ==
    /\ Len(out) = Cardinality(Subtree(t, root))
    /\ {out[i] : i \in 1..Len(out)} = Subtree(t, root)
    /\ \A i, j \in 1..Len(out) : IsBelow(t, out[i], out[j]) => i <= j
=============================================================================
