----------------------------- MODULE DagService -----------------------------
(***************************************************************************)
(* What dag_start and spawn_and_wait promise together: a DAG has a number  *)
(* and parameters; the first one executed under a number is kept, and is   *)
(* executed without being built when the same parameters come again.  What *)
(* is executed is always what the program asked for.                       *)
(***************************************************************************)
CONSTANTS No, Par, NoPar, Body(_, _), Other

VARIABLES
  phase,    \* idle, building (dag_start has answered 0), ready, halted
  asked,    \* number and parameters of the last dag_start
  started,  \* a dag_start has been made
  kept,     \* the parameters of the DAG kept under a number, NoPar if none
  ran       \* the loops executed by the last spawn_and_wait

vars == <<phase, asked, started, kept, ran>>

Init ==
  /\ phase = "idle"
  /\ asked = <<>>
  /\ started = FALSE
  /\ kept = [n \in No |-> NoPar]
  /\ ran = {}

Hit(n, p) == kept[n] = p

Start(n, p) ==
  /\ phase = "idle"
  /\ asked' = <<n, p>>
  /\ started' = TRUE
  /\ phase' = IF Hit(n, p) THEN "ready" ELSE "building"
  /\ UNCHANGED <<kept, ran>>

Build ==
  /\ phase = "building"
  /\ phase' = "ready"
  /\ UNCHANGED <<asked, started, kept, ran>>

Execute ==
  /\ phase = "ready"
  /\ phase' = "idle"
  /\ ran' = Body(asked[1], asked[2])
  /\ kept' = [kept EXCEPT ![asked[1]] = IF @ = NoPar THEN asked[2] ELSE @]
  /\ UNCHANGED <<asked, started>>

\* Loops executed outside any DAG, before the first.
ExecuteOther ==
  /\ phase = "idle" /\ ~started
  /\ ran' = {Other}
  /\ UNCHANGED <<phase, asked, started, kept>>

Halt ==
  /\ phase = "idle"
  /\ phase' = "halted"
  /\ UNCHANGED <<asked, started, kept, ran>>

Next ==
  \/ \E n \in No, p \in Par : Start(n, p)
  \/ Build \/ Execute \/ ExecuteOther \/ Halt

Spec == Init /\ [][Next]_vars
=============================================================================
