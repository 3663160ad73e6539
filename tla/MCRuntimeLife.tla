--------------------------- MODULE MCRuntimeLife ---------------------------
(***************************************************************************)
(* Instance of RuntimeStart: up to three threads, started twice.           *)
(***************************************************************************)
EXTENDS RuntimeStart

\* 1 -> 2, and 3 beside them.
MCAfter == [t \in 1 .. 3 |-> IF t = 1 THEN 2 ELSE NoTask]
=============================================================================
