--------------------------- MODULE RemovableDisk ---------------------------
(***************************************************************************)
(* What a removable disk promises those who have it open: what they wrote  *)
(* stays where they wrote it.  The medium is lost only when it is changed: *)
(* that may happen some time after the last one closed the disk, and is    *)
(* noticed by the next one to open it.                                     *)
(***************************************************************************)
EXTENDS Naturals

CONSTANTS Sector, User,
          Stale,    \* what a new medium holds
          Blank     \* what a changed one holds

VARIABLES content,  \* what each sector holds: <<u, x>> if u wrote sector x
          opened,   \* who has the disk open
          expired   \* the medium will be changed

diskVars == <<content, opened, expired>>

Filled(v) == [x \in Sector |-> v]

Init == content = Filled(Stale) /\ opened = {} /\ expired = FALSE

Insert ==
    /\ opened = {}
    /\ content' = Filled(Stale) /\ expired' = FALSE
    /\ UNCHANGED opened

Expire ==
    /\ opened = {}
    /\ expired' = TRUE
    /\ UNCHANGED <<content, opened>>

\* The medium is changed for the user who opens the disk.
Change(u) ==
    /\ opened = {} /\ expired
    /\ opened' = {u}
    /\ content' = Filled(Blank) /\ expired' = FALSE

Open(u) ==
    /\ u \notin opened /\ ~expired
    /\ opened' = opened \cup {u}
    /\ UNCHANGED <<content, expired>>

Close(u) ==
    /\ opened' = opened \ {u}
    /\ UNCHANGED <<content, expired>>

Write(u, range) ==
    /\ u \in opened
    /\ content' = [x \in Sector |-> IF x \in range THEN <<u, x>> ELSE content[x]]
    /\ UNCHANGED <<opened, expired>>

Next ==
    \/ Insert \/ Expire
    \/ \E u \in User : Change(u) \/ Open(u) \/ Close(u)
    \/ \E u \in User, range \in SUBSET Sector : Write(u, range)

Spec == Init /\ [][Next]_diskVars
=============================================================================
