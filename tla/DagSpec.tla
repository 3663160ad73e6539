------------------------------ MODULE DagSpec ------------------------------
(***************************************************************************)
(* What the runtime promises the program: spawn_and_wait executes every    *)
(* task of a graph once, a task only after the tasks it depends on, and    *)
(* returns when all have been executed.                                    *)
(***************************************************************************)
EXTENDS TaskGraph

CONSTANT Graphs

VARIABLES
  graph,    \* the graph submitted last
  phase,    \* "exec" while spawn_and_wait is in progress, else "idle"
  running,  \* tasks being executed
  done      \* tasks executed since the graph was submitted

vars == <<graph, phase, running, done>>

Init ==
  /\ graph = NoTask
  /\ phase = "idle"
  /\ running = {}
  /\ done = {}

Submit(g) ==
  /\ phase = "idle"
  /\ graph' = g
  /\ phase' = "exec"
  /\ done' = {}
  /\ UNCHANGED running

Start(t) ==
  /\ phase = "exec"
  /\ t \in Work(graph) \ (running \cup done)
  /\ Preds(graph, t) \subseteq done
  /\ running' = running \cup {t}
  /\ UNCHANGED <<graph, phase, done>>

Complete(t) ==
  /\ t \in running
  /\ running' = running \ {t}
  /\ done' = done \cup {t}
  /\ UNCHANGED <<graph, phase>>

Return ==
  /\ phase = "exec"
  /\ done = Work(graph)
  /\ phase' = "idle"
  /\ UNCHANGED <<graph, running, done>>

Next ==
  \/ \E g \in Graphs : Submit(g)
  \/ phase = "exec" /\ \E t \in Work(graph) : Start(t) \/ Complete(t)
  \/ Return

Spec == Init /\ [][Next]_vars

\* Nothing ready is left waiting, nothing running is left running.
Fairness ==
  /\ WF_vars(phase = "exec" /\ \E t \in Work(graph) : Start(t))
  /\ WF_vars(phase = "exec" /\ \E t \in Work(graph) : Complete(t))
  /\ WF_vars(Return)

FairSpec == Spec /\ Fairness
=============================================================================
