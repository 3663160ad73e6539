----------------------------- MODULE MCDagExec -----------------------------
(***************************************************************************)
(* An instance of DagExec: three threads and three graphs of up to five    *)
(* tasks and their end task.                                               *)
(***************************************************************************)
EXTENDS DagExec

CONSTANTS main, w1, w2

MCTask == 1 .. 9
MCThread == {main, w1, w2}

\* 1 -> 2 (vertical), 3, 4; 2 -> 5 (vertical); 3 -> 5; 4, 5 -> 6, the end task.
Fan ==
  [node |-> 1 .. 6, end |-> 6,
   succ |-> [t \in 1 .. 6 |-> CASE t = 1 -> {3, 4} [] t = 3 -> {5} [] OTHER -> {}],
   vert |-> [t \in 1 .. 6 |-> CASE t = 1 -> 2 [] t = 2 -> 5 [] t \in {4, 5} -> 6
                                [] OTHER -> NoTask],
   aff  |-> [t \in 1 .. 6 |-> CASE t \in {2, 4} -> main [] t \in {3, 5} -> w1
                                [] OTHER -> w2]]

\* Two tasks that depend on nothing; 9 is the end task.
Pair ==
  [node |-> 7 .. 9, end |-> 9,
   succ |-> [t \in 7 .. 9 |-> {}],
   vert |-> [t \in 7 .. 9 |-> IF t = 9 THEN NoTask ELSE 9],
   aff  |-> [t \in 7 .. 9 |-> IF t = 7 THEN main ELSE w1]]

\* Two roots and two joins: 1 -> 3 (vertical), 4; 2 -> 3, 4 (vertical); a join is
\* released by two threads, either of which may be the last; 5 is the end task.
Tangle ==
  [node |-> 1 .. 5, end |-> 5,
   succ |-> [t \in 1 .. 5 |-> CASE t = 1 -> {4} [] t = 2 -> {3} [] OTHER -> {}],
   vert |-> [t \in 1 .. 5 |-> CASE t = 1 -> 3 [] t = 2 -> 4 [] t \in {3, 4} -> 5
                                [] OTHER -> NoTask],
   aff  |-> [t \in 1 .. 5 |-> CASE t = 1 -> w1 [] t = 2 -> w2 [] OTHER -> main]]

MCGraphs == {Fan, Pair, Tangle}
=============================================================================
