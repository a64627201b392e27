------------------------------ MODULE WorkFifo ------------------------------
(***************************************************************************)
(* What the work-list drivers promise their clients: a work item that was  *)
(* accepted is handled exactly once, and items are handled in the order    *)
(* they were accepted.  FairSpec adds that no accepted item is forgotten.  *)
(***************************************************************************)
EXTENDS Sequences

CONSTANT Item

VARIABLES pending,  \* accepted and not handled yet, oldest first
          done      \* handled, in the order they were handled

fifoVars == <<pending, done>>

Init == pending = <<>> /\ done = <<>>

Accept(item) ==
    /\ pending' = Append(pending, item)
    /\ UNCHANGED done

Handle ==
    /\ pending # <<>>
    /\ done' = Append(done, Head(pending))
    /\ pending' = Tail(pending)

Next == (\E item \in Item : Accept(item)) \/ Handle

Spec == Init /\ [][Next]_fifoVars
FairSpec == Spec /\ WF_fifoVars(Handle)
=============================================================================
