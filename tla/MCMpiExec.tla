----------------------------- MODULE MCMpiExec -----------------------------
(***************************************************************************)
(* Instance of MpiExec: two schedulers and the extra thread, a graph with  *)
(* blocking tasks in every position.                                       *)
(***************************************************************************)
EXTENDS MpiExec

CONSTANTS main, w1, mpi

MCTask == 1 .. 8
MCThread == {main, w1, mpi}
MCBlocking == {2, 3, 6}
MCKinds == {{}, {1}, {1, 2}}

\* 1 -> 2 (vertical, blocking), 3 (blocking); 2 -> 4 (vertical); 3 -> 4;
\* 4 -> 5, the end task.
Exchange ==
  [node |-> 1 .. 5, end |-> 5,
   succ |-> [t \in 1 .. 5 |-> CASE t = 1 -> {3} [] t = 3 -> {4} [] OTHER -> {}],
   vert |-> [t \in 1 .. 5 |-> CASE t = 1 -> 2 [] t = 2 -> 4 [] t = 4 -> 5
                                [] OTHER -> NoTask],
   aff  |-> [t \in 1 .. 5 |-> IF t \in {1, 4} THEN w1 ELSE main]]

\* A blocking root beside another task, at other addresses.
Halo ==
  [node |-> 6 .. 8, end |-> 8,
   succ |-> [t \in 6 .. 8 |-> {}],
   vert |-> [t \in 6 .. 8 |-> IF t = 8 THEN NoTask ELSE 8],
   aff  |-> [t \in 6 .. 8 |-> main]]

MCGraphs == {Exchange, Halo}
=============================================================================
