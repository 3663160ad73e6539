------------------------------ MODULE ClientC ------------------------------
(***************************************************************************)
(* The C interface: how a program declares accesses, generates tasks with  *)
(* copies of its arguments, gives them a type and an affinity, and waits.  *)
(* The memory that changes hands is modelled block by block: the arguments *)
(* of the tasks (ci_args) and the objects of acemesh_malloc_obj, which     *)
(* live to the end of the next acemesh_spawn_and_wait.                     *)
(*                                                                         *)
(* The dependences between the tasks are left to DagBuild and DagExec:     *)
(* here the tasks of a graph run in any order and overlap.                 *)
(***************************************************************************)
EXTENDS Integers, Sequences, FiniteSets, SequencesExt, FiniteSetsExt

CONSTANTS
  Thread, Main,
  NoTask,      \* neither running nor generated
  Accesses,    \* what a program declares: <<address, type, area>>
  Kinds,       \* how it generates tasks: <<arguments, their size, with neighbours>>
  Near,        \* neighbours of a task, by its arguments
  Block,       \* blocks of memory, numbers
  CORENUM, NODENUM,
  Beyond,      \* what may be read behind task_count, which has NODENUM counters
  NumThreads,  \* as given to acemesh_runtime_init
  Segs,        \* highest_seg_num of an array
  MaxTask, MaxTuple, MaxObj, MaxRound   \* bounds

AccessType == {"INOUT_NONE", "IN", "OUT", "INOUT"}
Area == {"NORMAL", "SHADE", "UNSHADE", "SHADE_AND_UNSHADE"}
TaskType == {"NOT_SET", "STENCIL_TASK", "NOAFFINITY_TASK", "BLOCKING_TASK"}

ASSUME ClientAssumption ==
  /\ Main \in Thread
  /\ Block \subseteq Nat \ {0} /\ MaxTask \in Nat
  /\ Accesses \subseteq (Nat \ {0}) \X AccessType \X Area
  /\ Kinds \subseteq Nat \X Nat \X BOOLEAN
  /\ \A k \in Kinds : Near[k[1]] \subseteq Nat
  /\ CORENUM \in Nat \ {0} /\ NODENUM \in Nat \ {0} /\ Segs \in Nat \ {0}
  /\ NumThreads \in Nat \ {0} /\ Beyond \subseteq Int

Task == 1 .. MaxTask
NULL == 0
Free == [kind |-> "free"]

\* What a block holds, what is declared, the ci_task objects and what they should be.
Args == [kind : {"arg"}, val : Nat, obj : Block \cup {NULL}]
Contents == {Free} \cup Args \cup [kind : {"obj"}, val : Nat]
Item == [addr : Nat \ {NULL}, type : AccessType, area : Area]
CiTask == [ci_args : Block \cup {NULL}, acc : SUBSET Item, nbs : SUBSET Nat, type : TaskType,
           aff : 0 .. NumThreads - 1, reused : BOOLEAN]
Wanted == [arg : Args, acc : SUBSET Item, nbs : SUBSET Nat, type : TaskType,
           seg : -1 .. Segs - 1, obj : Contents]

ASSUME NoTaskAssumption == NoTask \notin Task /\ NoTask \notin CiTask /\ NoTask \notin Wanted

VARIABLES
  pc,        \* the program: idle, build, exec, end
  vec,       \* _v_addr_tuple of the main thread
  pushed,    \* what the program declared since its last task (history)
  objs,      \* enlonged_local_objs
  heap,      \* contents of every block
  doubled,   \* a block was freed that was free (history)
  task,      \* the ci_task objects
  want,      \* what the program passed and declared for each (history)
  graph,     \* tasks registered for the next execution, or stored
  stored,    \* the graph is kept
  cur_task,  \* per thread
  count,     \* task_count
  step,      \* what each thread does with its task: none, body, release, delete
  running,   \* the task it does it with
  todo,      \* tasks not begun
  open,      \* tasks whose successors have not been released
  round      \* number of spawn_and_wait calls

program == <<pc, vec, pushed, round>>
memory  == <<heap, doubled, objs>>
tasks   == <<task, want, graph, stored>>
threads == <<step, running, todo, open>>
vars == <<program, memory, tasks, threads, cur_task, count>>

-----------------------------------------------------------------------------
(***************************************************************************)
(* Memory.                                                                 *)
(***************************************************************************)

Vacant == {b \in Block : heap[b] = Free}

\* malloc.
Malloc == CHOOSE b \in Vacant : TRUE

FreeAll(bs) ==
  /\ heap' = [b \in Block |-> IF b \in bs THEN Free ELSE heap[b]]
  /\ doubled' = (doubled \/ \E b \in bs : heap[b] = Free)

-----------------------------------------------------------------------------
(***************************************************************************)
(* Declaring and generating.                                               *)
(***************************************************************************)

\* acemesh_do_push, acemesh_do_push1: one address.  SHADE_AND_UNSHADE is two.
Push(a, type, area) ==
  LET item(kind) == [addr |-> a, type |-> type, area |-> kind]
      new == IF area = "SHADE_AND_UNSHADE" THEN <<item("SHADE"), item("UNSHADE")>>
             ELSE <<item(area)>>
  IN
  /\ pc = "build" /\ Len(pushed) < MaxTuple
  /\ vec' = vec \o new
  /\ pushed' = pushed \o new
  /\ UNCHANGED <<pc, round, memory, tasks, threads, cur_task, count>>

\* acemesh_malloc_obj; the program writes something of this round into the object.
MallocObj ==
  /\ pc = "build" /\ Vacant # {} /\ Len(objs) < MaxObj
  /\ heap' = [heap EXCEPT ![Malloc] = [kind |-> "obj", val |-> round]]
  /\ objs' = Append(objs, Malloc)
  /\ UNCHANGED <<program, doubled, tasks, threads, cur_task, count>>

\* Mutant: the declared accesses stay for the next task.
Kept == vec

Cleared == <<>>

\* acemesh_task_generator, acemesh_task_generator_with_neighbors.  The program
\* passes the address of a variable it assigns again for the next task, with a
\* value and perhaps the address of an object.  Arguments of size 0 are not copied.
Generate(v, obj, size, near) ==
  LET t == Cardinality({u \in Task : task[u] # NoTask}) + 1
      arg == [kind |-> "arg", val |-> v, obj |-> obj]
      item == [addr |-> NULL, type |-> "INOUT_NONE", area |-> "NORMAL"]
      decl == IF near THEN Append(vec, item) ELSE vec
      nbs == IF near THEN Near[v] ELSE {}
  IN
  /\ pc = "build" /\ t \in Task /\ (size > 0 => Vacant # {})
  /\ obj # NULL => size > 0 /\ obj \in ToSet(objs)
  /\ heap' = IF size > 0 THEN [heap EXCEPT ![Malloc] = arg] ELSE heap
  /\ task' = [task EXCEPT ![t] =
       [ci_args |-> IF size > 0 THEN Malloc ELSE NULL,
        acc |-> {x \in ToSet(decl) : x.addr # NULL}, nbs |-> nbs,
        type |-> "NOT_SET", aff |-> Cardinality(graph) % NumThreads, reused |-> FALSE]]
  /\ want' = [want EXCEPT ![t] =
       [arg |-> arg, acc |-> ToSet(pushed), nbs |-> nbs, type |-> "NOT_SET", seg |-> -1,
        obj |-> IF obj = NULL THEN Free ELSE heap[obj]]]
  /\ graph' = graph \cup {t}
  /\ cur_task' = [cur_task EXCEPT ![Main] = t]
  /\ vec' = Cleared
  /\ pushed' = <<>>
  /\ UNCHANGED <<pc, round, objs, doubled, stored, threads, count>>

\* acemesh_task_set_type, which the program calls after it has generated a task.
SetType(type) ==
  /\ pc = "build" /\ graph # {}
  /\ task' = [task EXCEPT ![cur_task[Main]].type = type]
  /\ want' = [want EXCEPT ![Max(graph)].type = type]
  /\ UNCHANGED <<program, memory, graph, stored, threads, cur_task, count>>

Ceil(a, b) == (a + b - 1) \div b

\* The remainder of C has the sign of n.
Rem(n, k) == IF n >= 0 THEN n % k ELSE -((-n) % k)

\* Mutant: the tasks of a node are not dealt round its cores.
AffinityUnbounded(node, n) == n + CORENUM * node

Affinity(node, n) ==
  LET rest == NumThreads % CORENUM
  IN  Rem(n, IF rest = 0 THEN CORENUM ELSE rest) + CORENUM * node

\* The node of a tile.  With less than CORENUM threads the tiles are divided among no
\* nodes: the quotient is infinite, and as an int the largest or the smallest there is.
NodeOf(seg) ==
  LET nodenum == NumThreads \div CORENUM
  IN  IF nodenum = 0 THEN 0 ELSE seg \div Ceil(Segs, nodenum)

\* acemesh_affinity_from_arraytile: the tile's node, and its cores in turn.  A node
\* without a counter reads what is behind task_count; what its increment destroys
\* there is not modelled.  The program calls it at most once for a task.
AffinityFromArraytile(seg) ==
  LET node == NodeOf(seg) IN
  /\ pc = "build" /\ graph # {} /\ want[cur_task[Main]].seg = -1
  /\ \E n \in IF node < NODENUM THEN {count[node]} ELSE Beyond :
       task' = [task EXCEPT ![cur_task[Main]].aff = Affinity(node, n)]
  /\ want' = [want EXCEPT ![cur_task[Main]].seg = seg]
  /\ count' = [k \in 0 .. NODENUM - 1 |-> IF k = node THEN count[k] + 1 ELSE count[k]]
  /\ UNCHANGED <<program, memory, graph, stored, threads, cur_task>>

\* acemesh_begin_split_task, of a program that builds a graph.
BeginSplit ==
  /\ pc = "idle" /\ ~stored /\ round < MaxRound
  /\ pc' = "build"
  /\ UNCHANGED <<vec, pushed, round, memory, tasks, threads, cur_task, count>>

\* acemesh_end_split_task: the next loop counts its tiles from zero.
EndSplit ==
  /\ pc = "build" /\ pushed = <<>> /\ graph # {}
  /\ count' = [n \in 0 .. NODENUM - 1 |-> 0]
  /\ pc' = "built"
  /\ UNCHANGED <<vec, pushed, round, memory, tasks, threads, cur_task>>

-----------------------------------------------------------------------------
(***************************************************************************)
(* acemesh_spawn_and_wait.                                                 *)
(***************************************************************************)

\* The graph may be stored, by dag_start: then its tasks use no objects.
Spawn(store) ==
  /\ pc = "built" \/ (pc = "idle" /\ stored /\ store /\ round < MaxRound)
  /\ store => objs = <<>> \/ stored
  /\ pc' = "exec"
  /\ stored' = store
  /\ task' = [t \in Task |-> IF t \in graph THEN [task[t] EXCEPT !.reused = store] ELSE task[t]]
  /\ todo' = graph /\ open' = graph
  /\ round' = round + 1
  /\ UNCHANGED <<vec, pushed, memory, want, graph, step, running, cur_task, count>>

\* A thread takes a task; execute() makes it the thread's current one.
Begin(th, t) ==
  /\ pc = "exec" /\ step[th] = "none" /\ t \in todo
  /\ todo' = todo \ {t}
  /\ running' = [running EXCEPT ![th] = t]
  /\ step' = [step EXCEPT ![th] = "body"]
  /\ UNCHANGED <<program, memory, tasks, open, cur_task, count>>

Current(th) == [cur_task EXCEPT ![th] = running[th]]

SetCurrent(th) ==
  /\ step[th] = "body"
  /\ cur_task' = Current(th)
  /\ step' = [step EXCEPT ![th] = "func"]
  /\ UNCHANGED <<program, memory, tasks, running, todo, open, count>>

\* The end of the body, ci_task_func(ci_args).
Body(th) ==
  /\ step[th] = "func"
  /\ step' = [step EXCEPT ![th] = "release"]
  /\ UNCHANGED <<program, memory, tasks, running, todo, open, cur_task, count>>

\* aceMesh_task::execute; main may stop waiting before the task is deleted.
Release(th) ==
  /\ step[th] = "release"
  /\ open' = open \ {running[th]}
  /\ step' = [step EXCEPT ![th] = "delete"]
  /\ UNCHANGED <<program, memory, tasks, running, todo, cur_task, count>>

\* Mutant: the arguments of a stored task are freed as well.
FreedAlways(t) == {task[t].ci_args} \ {NULL}

\* ~ci_task of a task that is not stored.
Freed(t) == IF task[t].reused THEN {} ELSE {task[t].ci_args} \ {NULL}

Delete(th) ==
  LET t == running[th] IN
  /\ step[th] = "delete"
  /\ FreeAll(Freed(t))
  /\ running' = [running EXCEPT ![th] = NoTask]
  /\ step' = [step EXCEPT ![th] = "none"]
  /\ UNCHANGED <<program, objs, tasks, todo, open, cur_task, count>>

\* Mutant: enlonged_local_objs is not cleared.
ObjsKept == objs

ObjsCleared == <<>>

\* The wait is over: acemesh_free_all_objs.  The main thread has deleted what it
\* executed itself; the workers may still be deleting.
Waited ==
  /\ pc = "exec" /\ open = {} /\ step[Main] = "none"
  /\ FreeAll(ToSet(objs))
  /\ objs' = ObjsCleared
  /\ graph' = IF stored THEN graph ELSE {}
  /\ pc' = "idle"
  /\ UNCHANGED <<vec, pushed, round, task, want, stored, threads, cur_task, count>>

\* acemesh_runtime_shutdown: free_tasks deletes the stored graph.  No worker is busy
\* with a task any more; DagExec is about those that are.
Shutdown ==
  /\ pc = "idle" /\ \A th \in Thread : step[th] = "none"
  /\ FreeAll(IF stored THEN {task[t].ci_args : t \in graph} \ {NULL} ELSE {})
  /\ graph' = {} /\ stored' = FALSE
  /\ pc' = "end"
  /\ UNCHANGED <<vec, pushed, round, objs, task, want, threads, cur_task, count>>

-----------------------------------------------------------------------------
Init ==
  /\ pc = "idle" /\ vec = <<>> /\ pushed = <<>> /\ objs = <<>> /\ round = 0
  /\ heap = [b \in Block |-> Free] /\ doubled = FALSE
  /\ task = [t \in Task |-> NoTask] /\ want = [t \in Task |-> NoTask]
  /\ graph = {} /\ stored = FALSE
  /\ cur_task = [th \in Thread |-> NoTask]
  /\ count = [n \in 0 .. NODENUM - 1 |-> 0]
  /\ step = [th \in Thread |-> "none"] /\ running = [th \in Thread |-> NoTask]
  /\ todo = {} /\ open = {}

Build ==
  \/ \E a \in Accesses : Push(a[1], a[2], a[3])
  \/ MallocObj
  \/ \E k \in Kinds, obj \in ToSet(objs) \cup {NULL} : Generate(k[1], obj, k[2], k[3])
  \/ SetType("STENCIL_TASK")
  \/ \E seg \in 0 .. Segs - 1 : AffinityFromArraytile(seg)
  \/ BeginSplit \/ EndSplit

Execute(th) ==
  \/ \E t \in todo : Begin(th, t)
  \/ SetCurrent(th) \/ Body(th) \/ Release(th) \/ Delete(th)

Next ==
  \/ Build
  \/ \E store \in BOOLEAN : Spawn(store)
  \/ \E th \in Thread : Execute(th)
  \/ Waited \/ Shutdown

Spec == Init /\ [][Next]_vars

-----------------------------------------------------------------------------
\* Every task is registered with the accesses declared for it and the neighbours
\* of its own arguments, whatever was declared before and is declared after.
OwnAccesses ==
  \A t \in Task : task[t] # NoTask =>
    task[t].acc = want[t].acc /\ task[t].nbs = want[t].nbs /\ task[t].type = want[t].type

TypeOK ==
  /\ pc \in {"idle", "build", "built", "exec", "end"} /\ round \in Nat
  /\ vec \in Seq(Item) /\ pushed \in Seq(Item) /\ objs \in Seq(Block)
  /\ heap \in [Block -> Contents] /\ doubled \in BOOLEAN
  /\ task \in [Task -> CiTask \cup {NoTask}] /\ want \in [Task -> Wanted \cup {NoTask}]
  /\ graph \subseteq Task /\ stored \in BOOLEAN /\ todo \subseteq Task /\ open \subseteq Task
  /\ cur_task \in [Thread -> Task \cup {NoTask}] /\ count \in [0 .. NODENUM - 1 -> Nat]
  /\ step \in [Thread -> {"none", "body", "func", "release", "delete"}]
  /\ running \in [Thread -> Task \cup {NoTask}]

\* Tasks are numbered as they are generated.
Generated ==
  \E n \in 0 .. MaxTask : \A t \in Task : /\ task[t] # NoTask <=> t <= n
                                          /\ want[t] # NoTask <=> t <= n

\* What the runtime has of the declarations is what was declared; a task that is being
\* described is the current one, and the last.
Described ==
  /\ vec = pushed
  /\ pc = "build" /\ graph # {} => cur_task[Main] \in graph /\ \A u \in graph : u <= cur_task[Main]

\* The graph of a round: built, executed, kept or gone.
RoundGraph ==
  /\ stored => pc \in {"exec", "idle"}
  /\ pc = "end" \/ (pc = "idle" /\ ~stored) => graph = {}
  /\ IF pc = "exec" THEN todo \subseteq open /\ open \subseteq graph ELSE open = {} /\ todo = {}
  /\ \A t \in graph : task[t] # NoTask /\ task[t].reused = stored

Busy(th) == step[th] \in {"body", "func", "release"}

\* A task that is run by two threads at once, or again, is one that is not deleted: a
\* worker may still be about to delete a task when main goes on.
Working ==
  \A th \in Thread :
    /\ step[th] = "none" <=> running[th] = NoTask
    /\ Busy(th) =>
         /\ pc = "exec" /\ running[th] \in open \ todo
         /\ \A o \in Thread : Busy(o) /\ running[o] = running[th] => o = th
    /\ running[th] # NoTask =>
         /\ task[running[th]] # NoTask
         /\ IF running[th] \in graph THEN pc = "exec" \/ stored ELSE ~task[running[th]].reused
         /\ ~task[running[th]].reused =>
              running[th] \notin todo /\ \A o \in Thread : running[o] = running[th] => o = th

\* The tasks that have not been deleted.
Live(t) ==
  \/ t \in todo \/ \E th \in Thread : running[th] = t
  \/ t \in graph /\ (stored \/ pc \in {"build", "built"})

\* Every block in use has one owner: a task whose arguments it holds, or the list of
\* objects, which are there for the tasks of the round that may point to them.
Owned ==
  /\ \A t \in Task : Live(t) /\ task[t].ci_args # NULL =>
       /\ heap[task[t].ci_args] = want[t].arg
       /\ \A u \in Task : Live(u) /\ task[u].ci_args = task[t].ci_args => u = t
  /\ \A b \in ToSet(objs) : heap[b].kind = "obj"
  /\ \A b \in Block : heap[b] # Free =>
       b \in ToSet(objs) \/ \E t \in Task : Live(t) /\ task[t].ci_args = b
  /\ pc \in {"idle", "end"} => objs = <<>>
  /\ \A t \in graph : want[t].arg.obj # NULL =>
       ~stored /\ want[t].arg.obj \in ToSet(objs) /\ heap[want[t].arg.obj] = want[t].obj
  /\ ~doubled

ClientInv ==
  TypeOK /\ Generated /\ Described /\ RoundGraph /\ Working /\ Owned /\ OwnAccesses

\* When a body runs, in the first round or a later one, its arguments are what the
\* program passed for it, although the variable has been assigned again since, and
\* the object they point to is alive and its own.
ArgsIntact ==
  \A th \in Thread : step[th] = "func" =>
    LET t == running[th]
        b == task[t].ci_args
    IN  b # NULL =>
          /\ heap[b] = want[t].arg
          /\ want[t].arg.obj # NULL => heap[want[t].arg.obj] = want[t].obj

\* The interface gives back every block exactly once.
MemoryReturned ==
  /\ ~doubled
  /\ pc = "end" => \A b \in Block : heap[b] = Free

\* Affinities name queues that exist, also those computed from a tile's place, with any
\* number of threads: less than a node has, and more than task_count has counters for.
AffinityInRange == \A t \in Task : task[t] # NoTask => task[t].aff \in 0 .. NumThreads - 1
=============================================================================
