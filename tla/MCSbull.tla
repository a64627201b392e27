------------------------------ MODULE MCSbull ------------------------------
(***************************************************************************)
(* Sbull for TLC.                                                          *)
(***************************************************************************)
EXTENDS Sbull

\* What every mode is meant for: the segments of a bio have the same length, but
\* in the simple mode, where they may have any.
EvenShapes ==
    [m \in Modes |-> {<<1>>, <<1, 1>>} \cup IF m = "simple" THEN {<<1, 2>>, <<2, 1>>}
                                                            ELSE {<<2>>}]

\* Bios whose segments have different lengths, in every mode.
UnevenShapes == [m \in Modes |-> {<<1, 2>>, <<2, 1>>}]
=============================================================================
