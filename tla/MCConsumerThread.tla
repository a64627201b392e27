-------------------------- MODULE MCConsumerThread --------------------------
(***************************************************************************)
(* ConsumerThread for TLC: both drivers, two writers, two writes each.      *)
(***************************************************************************)
EXTENDS ConsumerThread

MCDrains == {"while", "safe"}
=============================================================================
