------------------------------ MODULE DagBuild ------------------------------
(***************************************************************************)
(* Construction of task graphs by task_dag_graph.  The program registers   *)
(* the tasks of a parallel loop between begin_split_task and               *)
(* end_split_task and declares for every task the addresses it reads and   *)
(* writes.  A task gets an edge from the last writer of an address, or from*)
(* the readers since then, of the loops before its own; the declarations of*)
(* the loop itself are recorded at its end, because the tasks of one loop  *)
(* are independent of each other.                                          *)
(*                                                                         *)
(* One action is one call of the program, or one iteration over the        *)
(* declared accesses.  The execution of the finished graph, module DagExec,*)
(* is over when ResetTaskGraph returns the builder to its idle state.      *)
(***************************************************************************)
EXTENDS TaskGraph, Sequences

CONSTANTS
  Addr,         \* addresses after get_true_addr
  Types,        \* the access types the program uses
  NThread,      \* sche_num_threads
  MaxTask,      \* bound: number of tasks of a graph, the end task included
  MaxTuple      \* bound: number of accesses in one loop

Type == {"IN", "OUT", "INOUT", "INOUT_NONE"}

Task == 1 .. MaxTask
Thread == 0 .. NThread - 1

\* A task that accessed an address, and whether it did so as a neighbour.
Source == [task : Task, near : BOOLEAN]

ASSUME BuildAssumption ==
  /\ Types \subseteq Type
  /\ NThread \in Nat \ {0}
  /\ MaxTask \in Nat \ {0}
  /\ MaxTuple \in Nat
  /\ NoTask \notin Nat /\ NoTask \notin Source

VARIABLES
  pc,       \* "idle", "loop", "task", "flush", "built" or "stored"
  n,        \* number of tasks of the graph, the one created last
  succ,     \* aceMesh_task::successor_tasks
  vert,     \* aceMesh_task::vertical_task
  ref,      \* task::ref_count_t
  aff,      \* task::affinity_id
  w,        \* tuple_rw_task::w_task of every address, NoTask for NULL
  r,        \* tuple_rw_task::r_tasks of every address
  tuples,   \* one_virtual_task_tuples; in end_split_task the rest of it
  linked,   \* sum_pre # 0
  ends,     \* end_tasks
  roots,    \* need_spawn_tasks
  id,       \* affinity_id_generator::id
  stored,   \* tasks marked by store_info
  past,     \* the accesses recorded in addr_task (history)
  lo,       \* the first task of the current loop (history)
  loop      \* the first task of the loop of every task (history)

edgeVars == <<succ, vert, ref>>
addrVars == <<w, r, past>>
vars == <<pc, n, edgeVars, aff, addrVars, tuples, linked, ends, roots, id,
          stored, lo, loop>>

Node == 1 .. n

\* The graph in the form in which it is executed.
Graph ==
  [node |-> Node, end |-> n,
   succ |-> [t \in Node |-> succ[t]],
   vert |-> [t \in Node |-> vert[t]],
   aff  |-> [t \in Node |-> aff[t]]]

\* An element of one_virtual_task_tuples: near is its significance.
Tuple == [task : Task, addr : Addr, type : Type, near : BOOLEAN]

Writes(type) == type \in {"OUT", "INOUT"}

Targets(t) == succ[t] \cup ({vert[t]} \ {NoTask})

Finished == pc \in {"built", "stored"}

-----------------------------------------------------------------------------
\* Mutant: a reader waits for the other readers as well.
SourcesOfReaders(a, type) ==
  IF type = "INOUT_NONE" THEN <<>>
  ELSE IF r[a] # <<>> THEN r[a]
  ELSE IF w[a] = NoTask THEN <<>> ELSE <<w[a]>>

\* The tasks an access of this type must follow: the readers, if it is not a
\* read and there are any, else the last writer.
Sources(a, type) ==
  IF type = "INOUT_NONE" THEN <<>>
  ELSE IF type # "IN" /\ r[a] # <<>> THEN r[a]
  ELSE IF w[a] = NoTask THEN <<>> ELSE <<w[a]>>

TasksOf(s) == {s[i].task : i \in 1 .. Len(s)}

\* The first entry of t in s decides whether t would keep the edge as its
\* vertical task; add_successor and set_vertical_task ignore the later ones.
Near(s, t) ==
  \E i \in 1 .. Len(s) :
    s[i].task = t /\ s[i].near /\ \A j \in 1 .. i - 1 : s[j].task # t

\* Mutant: an edge that exists already is counted again.
NewlyTwice(s) == TasksOf(s)

\* The sources that do not point to the task yet.
Newly(s) == {t \in TasksOf(s) : n \notin Targets(t)}

\* Mutant: the source of an edge remains an end task.
StillEndsAll(s) == ends

\* del_end_task.
StillEnds(s) == ends \ TasksOf(s)

\* affinity_id_generator: the tasks of a loop are dealt to the threads.
NextId == (id + 1) % NThread

\* Mutant: a read forgets the other readers.
ReadersForgotten(x) ==
  IF x.type = "IN" THEN <<[task |-> x.task, near |-> x.near]>> ELSE <<>>

\* r_tasks after a recorded access: a write clears it.
Readers(x) ==
  IF x.type = "IN" THEN Append(r[x.addr], [task |-> x.task, near |-> x.near])
                   ELSE <<>>

\* store_info goes on to the successors and to the vertical task.
Follows(S) == \A t \in S : Targets(t) \subseteq S

-----------------------------------------------------------------------------
BeginSplitTask ==
  /\ pc = "idle"
  /\ pc' = "loop"
  /\ tuples' = <<>>
  /\ id' = 0
  /\ lo' = n + 1
  /\ UNCHANGED <<n, edgeVars, aff, addrVars, linked, ends, roots, stored, loop>>

\* A task is created and register_task called: a new task has no successor.
\* Room is left for the end task.
RegisterTask ==
  /\ pc = "loop" /\ n + 1 < MaxTask
  /\ pc' = "task"
  /\ n' = n + 1
  /\ aff' = [aff EXCEPT ![n + 1] = id]
  /\ id' = NextId
  /\ ends' = ends \cup {n + 1}
  /\ linked' = FALSE
  /\ loop' = [loop EXCEPT ![n + 1] = lo]
  /\ UNCHANGED <<edgeVars, addrVars, tuples, roots, stored, lo>>

\* One declared access, of the task or of a neighbour it computes from: it is
\* put down for end_split_task, and build_releationship draws the edges.  A
\* source keeps the new task as its vertical task if it has none yet and neither
\* access is one of a neighbour.
DeclareAccess(a, type, near) ==
  LET s == Sources(a, type)
      Keeps(t) == ~near /\ ~Near(s, t) /\ vert[t] = NoTask
  IN
  /\ pc = "task" /\ Len(tuples) < MaxTuple
  /\ tuples' = Append(tuples, [task |-> n, addr |-> a, type |-> type, near |-> near])
  /\ succ' = [t \in Task |-> IF t \in Newly(s) /\ ~Keeps(t)
                             THEN succ[t] \cup {n} ELSE succ[t]]
  /\ vert' = [t \in Task |-> IF t \in Newly(s) /\ Keeps(t) THEN n ELSE vert[t]]
  /\ ref' = [ref EXCEPT ![n] = @ + Cardinality(Newly(s))]
  /\ ends' = StillEnds(s)
  /\ linked' = (linked \/ s # <<>>)
  /\ UNCHANGED <<pc, n, aff, addrVars, roots, id, stored, lo, loop>>

\* register_task returns: a task without predecessors will be spawned.
EndRegister ==
  /\ pc = "task"
  /\ pc' = "loop"
  /\ roots' = IF linked THEN roots ELSE roots \cup {n}
  /\ UNCHANGED <<n, edgeVars, aff, addrVars, tuples, linked, ends, id, stored,
                 lo, loop>>

EndSplitTask ==
  /\ pc = "loop"
  /\ pc' = "flush"
  /\ UNCHANGED <<n, edgeVars, aff, addrVars, tuples, linked, ends, roots, id,
                 stored, lo, loop>>

\* end_split_task records the next access of the loop in addr_task.
RecordAccess ==
  LET x == Head(tuples) IN
  /\ pc = "flush" /\ tuples # <<>>
  /\ tuples' = Tail(tuples)
  /\ IF x.type = "INOUT_NONE"
     THEN UNCHANGED <<w, r>>
     ELSE /\ w' = IF Writes(x.type)
                  THEN [w EXCEPT ![x.addr] = [task |-> x.task, near |-> x.near]]
                  ELSE w
          /\ r' = [r EXCEPT ![x.addr] = Readers(x)]
  /\ past' = past \cup {x}
  /\ UNCHANGED <<pc, n, edgeVars, aff, linked, ends, roots, id, stored, lo, loop>>

RecordedAll ==
  /\ pc = "flush" /\ tuples = <<>>
  /\ pc' = "idle"
  /\ UNCHANGED <<n, edgeVars, aff, addrVars, tuples, linked, ends, roots, id,
                 stored, lo, loop>>

\* The end task becomes the vertical task of every task without successors.
EndConstructDag ==
  /\ pc = "idle"
  /\ pc' = "built"
  /\ n' = n + 1
  /\ vert' = [t \in Task |-> IF t \in ends THEN n + 1 ELSE vert[t]]
  /\ ref' = [ref EXCEPT ![n + 1] = Cardinality(ends)]
  /\ UNCHANGED <<succ, aff, addrVars, tuples, linked, ends, roots, id, stored,
                 lo, loop>>

\* _store_dag_info: what store_info marks when it starts from the roots.
StoreDagInfo ==
  /\ pc = "built"
  /\ pc' = "stored"
  /\ stored' = {t \in Node : \A S \in SUBSET Node : roots \subseteq S /\ Follows(S) => t \in S}
  /\ UNCHANGED <<n, edgeVars, aff, addrVars, tuples, linked, ends, roots, id, lo, loop>>

\* reset_task_graph, after the graph has been executed.  Its tasks are deleted or
\* kept as a stored instance; those of the next graph are new objects.
ResetTaskGraph ==
  /\ Finished
  /\ pc' = "idle"
  /\ w' = [a \in Addr |-> NoTask]
  /\ r' = [a \in Addr |-> <<>>]
  /\ ends' = {}
  /\ roots' = {}
  /\ n' = 0
  /\ succ' = [t \in Task |-> {}]
  /\ vert' = [t \in Task |-> NoTask]
  /\ ref' = [t \in Task |-> 0]
  /\ aff' = [t \in Task |-> 0]
  /\ stored' = {}
  /\ past' = {}
  /\ loop' = [t \in Task |-> 0]
  /\ UNCHANGED <<tuples, linked, id, lo>>

Init ==
  /\ pc = "idle"
  /\ n = 0
  /\ succ = [t \in Task |-> {}]
  /\ vert = [t \in Task |-> NoTask]
  /\ ref = [t \in Task |-> 0]
  /\ aff = [t \in Task |-> 0]
  /\ w = [a \in Addr |-> NoTask]
  /\ r = [a \in Addr |-> <<>>]
  /\ tuples = <<>>
  /\ linked = FALSE
  /\ ends = {}
  /\ roots = {}
  /\ id = 0
  /\ stored = {}
  /\ past = {}
  /\ lo = 1
  /\ loop = [t \in Task |-> 0]

Next ==
  \/ BeginSplitTask
  \/ RegisterTask
  \/ \E a \in Addr, type \in Types, near \in BOOLEAN : DeclareAccess(a, type, near)
  \/ EndRegister
  \/ EndSplitTask
  \/ RecordAccess
  \/ RecordedAll
  \/ EndConstructDag
  \/ StoreDagInfo
  \/ ResetTaskGraph

Spec == Init /\ [][Next]_vars

-----------------------------------------------------------------------------
(***************************************************************************)
(* Properties.                                                             *)
(***************************************************************************)

\* All accesses declared for the graph so far, those that order nothing apart.
Accesses ==
  {x \in past \cup {tuples[i] : i \in 1 .. Len(tuples)} : x.type # "INOUT_NONE"}

Conflict(x, y) ==
  /\ x.addr = y.addr
  /\ x.task # y.task
  /\ Writes(x.type) \/ Writes(y.type)

\* The tasks of every loop are independent with regard to a: what the program
\* promises by calling the loop parallel.
Independent(a) ==
  \A x, y \in Accesses :
    x.addr = a /\ Conflict(x, y) => loop[x.task] # loop[y.task]

\* There is a path from t to u (or t = u): u is in every set that contains t and
\* the targets of its elements.
Closed(S) == \A t \in S : Targets(t) \subseteq S
Reach(t, u) == \A S \in SUBSET Node : t \in S /\ Closed(S) => u \in S

\* Type invariant: what each variable of the builder can hold.
TypeOK ==
  /\ pc \in {"idle", "loop", "task", "flush", "built", "stored"}
  /\ n \in 0 .. MaxTask
  /\ succ \in [Task -> SUBSET Task]
  /\ vert \in [Task -> Task \cup {NoTask}]
  /\ ref \in [Task -> Nat]
  /\ aff \in [Task -> Thread]
  /\ w \in [Addr -> Source \cup {NoTask}]
  /\ r \in [Addr -> Seq(Source)]
  /\ tuples \in Seq(Tuple)
  /\ linked \in BOOLEAN
  /\ ends \in SUBSET Task
  /\ roots \in SUBSET Task
  /\ id \in Thread
  /\ stored \in SUBSET Task
  /\ past \in SUBSET Tuple
  /\ lo \in Nat
  /\ loop \in [Task -> Nat]

\* Two tasks of different loops that access the same address, one of them to
\* write, are ordered by the graph as the loops are, although only the last
\* writer and the readers since then are remembered.
DependencesKept ==
  \A a \in Addr : Independent(a) =>
    \A x, y \in Accesses :
      x.addr = a /\ Conflict(x, y) /\ x.task < y.task => Reach(x.task, y.task)

\* Every edge is there for a conflict: the graph orders no two tasks next to each
\* other that the program left independent.
NoFalseDependence ==
  \A t \in Node : \A u \in Targets(t) \ (IF Finished THEN {n} ELSE {}) :
    \E x, y \in Accesses :
      x.task = t /\ y.task = u /\ Conflict(x, y) /\ loop[t] # loop[u]

\* A finished graph is one that DagExec can execute: acyclic, every task before
\* the end task, the counts equal to the number of predecessors, the roots the
\* tasks that have none.
FinishedWellFormed ==
  Finished /\ n > 1 =>
    /\ WellFormed(Graph, Task, Thread)
    /\ \A t \in Node : ref[t] = Indegree(Graph, t)
    /\ roots = Roots(Graph)

\* The recursive store_info, which starts from the roots, reaches every task:
\* none is deleted in a round and missing in the next.
StoreCoversAll == pc = "stored" /\ n > 1 => stored = Node

-----------------------------------------------------------------------------
(***************************************************************************)
(* The inductive invariant from which these properties follow.             *)
(***************************************************************************)

Splitting == pc \in {"loop", "task", "flush"}

\* Edges lead to younger tasks, and are counted.
Edges ==
  /\ \A t \in Task \ Node : succ[t] = {} /\ vert[t] = NoTask /\ ref[t] = 0
  /\ \A t \in Node : \A u \in Targets(t) : u \in Node /\ t < u
  /\ \A t \in Node : vert[t] \notin succ[t]
  /\ \A t \in Node : ref[t] = Cardinality({p \in Node : t \in Targets(p)})

\* The tasks registered completely.
Registered == Node \ (IF Finished \/ pc = "task" THEN {n} ELSE {})

\* Which tasks are roots, and which still need the end task.
RootsAndEnds ==
  /\ roots = {t \in Registered : \A p \in Node : t \notin Targets(p)}
  /\ pc = "task" => linked = (\E p \in Node : n \in Targets(p))
  /\ ~Finished => ends = {t \in Node : Targets(t) = {}}
  /\ Finished => /\ n \in Node
                 /\ \A t \in Node \ {n} : Targets(t) # {} /\ n \notin succ[t]
                 /\ ends = {t \in Node : n \in Targets(t)}
  /\ pc = "task" => n \in Node
  /\ ~Finished => n < MaxTask

\* The loops follow each other; the accesses of the current one are pending.
Loops ==
  /\ Splitting => lo <= n + 1
  /\ pc = "task" => loop[n] = lo
  /\ \A t \in Task : loop[t] <= t
  /\ Splitting => \A t \in Node : loop[t] <= lo
  /\ ~Finished => \A t, u \in Node : t < u => loop[t] <= loop[u]
  /\ \A x \in past : x.task \in Node /\ (pc \in {"loop", "task"} => loop[x.task] < lo)
  /\ \A i \in 1 .. Len(tuples) : tuples[i].task \in Node /\ loop[tuples[i].task] = lo
  /\ ~Splitting => tuples = <<>>

\* addr_task holds accesses that were made.
Recorded ==
  \A a \in Addr :
    /\ w[a] # NoTask =>
         \E x \in past : x.addr = a /\ x.task = w[a].task /\ Writes(x.type)
    /\ \A i \in 1 .. Len(r[a]) :
         \E x \in past : x.addr = a /\ x.task = r[a][i].task /\ x.type = "IN"

\* What addr_task has forgotten is ordered before what it remembers: the former
\* writers before the last, the former readers too, the last before the readers.
Summarised(a) ==
  /\ \A x \in past : x.addr = a /\ Writes(x.type) =>
       w[a] # NoTask /\ Reach(x.task, w[a].task)
  /\ \A x \in past : x.addr = a /\ x.type = "IN" =>
       \/ x.task \in TasksOf(r[a])
       \/ w[a] # NoTask /\ Reach(x.task, w[a].task)
  /\ w[a] # NoTask => \A t \in TasksOf(r[a]) : Reach(w[a].task, t)

Summary == \A a \in Addr : Independent(a) => Summarised(a)

BuildInv ==
  /\ TypeOK /\ Edges /\ RootsAndEnds /\ Loops /\ Recorded
  /\ Summary /\ DependencesKept /\ NoFalseDependence /\ StoreCoversAll
=============================================================================
