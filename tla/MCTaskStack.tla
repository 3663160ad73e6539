---------------------------- MODULE MCTaskStack ----------------------------
(***************************************************************************)
(* Instances of TaskStack for TLC.                                         *)
(***************************************************************************)
EXTENDS TaskStack

CONSTANTS k1, k2, k3    \* tasks
CONSTANTS p1, p2, p3    \* threads

MCTask == {k1, k2, k3}
MCThread == {p1, p2, p3}
OneThread == {p1}
=============================================================================
