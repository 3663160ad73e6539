----------------------------- MODULE TaskGraph -----------------------------
(***************************************************************************)
(* The task graph that task_dag_graph builds and the scheduler executes.   *)
(* A graph is a record:                                                    *)
(*   node  the tasks of one DAG, the end task included, numbered in the    *)
(*         order in which they were created                                *)
(*   end   endTask, the task the main thread waits on                      *)
(*   succ  aceMesh_task::successor_tasks of every task                     *)
(*   vert  aceMesh_task::vertical_task of every task, NoTask for NULL      *)
(*   aff   task::affinity_id of every task: the thread it is queued at     *)
(* successor_tasks only ever grows by the task being registered, so the    *)
(* vector is in ascending order and a set of numbers says as much.         *)
(***************************************************************************)
EXTENDS Integers, FiniteSets

CONSTANT NoTask     \* the NULL task pointer

Vertical(g, t) == {g.vert[t]} \ {NoTask}

\* Every task that t points to: get_total_successor_sum counts these.
Out(g, t) == g.succ[t] \cup Vertical(g, t)

Preds(g, t) == {p \in g.node : t \in Out(g, p)}

\* The count that add_successor, set_vertical_task and add_end_successor leave.
Indegree(g, t) == Cardinality(Preds(g, t))

\* The tasks that run user code: all but the end task.
Work(g) == g.node \ {g.end}

\* Mutant: a task with one predecessor is taken for a root.
RootsOffByOne(g) == {t \in Work(g) : Cardinality(Preds(g, t)) <= 1}

\* need_spawn_tasks.
Roots(g) == {t \in Work(g) : Preds(g, t) = {}}

(***************************************************************************)
(* What the builder guarantees of a finished graph.  Every nonempty set of *)
(* tasks having a task without successors inside the set is acyclicity.    *)
(***************************************************************************)
WellFormed(g, Task, Thread) ==
  /\ g.node \in SUBSET Task
  /\ IsFiniteSet(g.node)
  /\ g.end \in g.node
  /\ Work(g) # {}
  /\ g.succ \in [g.node -> SUBSET Work(g)]
  /\ g.vert \in [g.node -> g.node \cup {NoTask}]
  /\ g.aff \in [g.node -> Thread]
  /\ Out(g, g.end) = {}
  /\ \A t \in Work(g) : Out(g, t) # {} /\ g.vert[t] \notin g.succ[t]
  /\ \A S \in SUBSET Work(g) : S # {} => \E t \in S : Out(g, t) \cap S = {}
=============================================================================
