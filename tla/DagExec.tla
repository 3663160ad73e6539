------------------------------ MODULE DagExec ------------------------------
(***************************************************************************)
(* Execution of task graphs by the main thread and the worker threads, in  *)
(* the default build of the library: every thread has a private stack      *)
(* without stealing (STATIC_STACK_STRATEGY), no MPI task (NOT_MPI_STRATEGY)*)
(* and the ready vertical task is returned by execute (_RETURN_VERTICAL).  *)
(*                                                                         *)
(* The main thread builds or resumes a graph, spawns its roots, takes part *)
(* in the execution until the reference count of the end task says that    *)
(* everything is finished, and starts over; in the end it frees the stored *)
(* graph and closes the workers.  One action is one access to shared state:*)
(* a pop, a decrement, a push, a deletion.  Building a graph is one action *)
(* (module DagBuild models it step by step), because no task of it is      *)
(* visible to a worker before it is spawned.                               *)
(***************************************************************************)
EXTENDS TaskGraph, Sequences

CONSTANTS
  Task,         \* addresses a task object can have, in order of creation
  Thread,       \* the generic_schedulers
  Main,         \* schedulers[0], run by the thread that calls the library
  Graphs,       \* the graphs the program may build
  GarbageFlag,  \* values an uninitialised bool can have
  GarbageRef,   \* values an uninitialised int can have
  MaxRound      \* bound: number of spawn_and_wait calls

ASSUME ExecAssumption ==
  /\ Task \subseteq Nat
  /\ NoTask \notin Task /\ NoTask \notin Graphs
  /\ Main \in Thread
  /\ GarbageFlag \subseteq BOOLEAN
  /\ GarbageRef \subseteq Int
  /\ \A g \in Graphs : WellFormed(g, Task, Thread)

VARIABLES
  graph,    \* need_spawn_tasks and endTask of the current DAG and what they reach
  saved,    \* the instance in dag_instance_map, NoTask if none was stored
  alloc,    \* the task objects that exist
  ref,      \* task::ref_count_t
  backup,   \* task::backup_ref
  reused,   \* task::reused
  done,     \* tasks whose body has run in this round (history)
  toSpawn,  \* the rest of need_spawn_tasks in spawn()
  stack,    \* private_queue of every scheduler, the top is the last element
  pc,       \* control state of every thread
  cur,      \* tmp: the task the thread has taken
  todo,     \* the rest of successor_tasks in execute()
  last,     \* vertical_task of the task in execute(), released last
  hand,     \* the task whose count the thread has brought to zero
  nxt,      \* the task execute() returns
  close,    \* close_all_threads
  round     \* number of spawn_and_wait calls so far

graphVars  == <<graph, saved, round>>
taskVars   == <<alloc, ref, backup, reused, done>>
threadVars == <<pc, cur, todo, last, hand, nxt>>
vars == <<graphVars, taskVars, threadVars, toSpawn, stack, close>>

Worker == Thread \ {Main}

Goto(th, label) == pc' = [pc EXCEPT ![th] = label]

Push(th, t) == stack' = [stack EXCEPT ![th] = Append(@, t)]

\* Mutant: the test is made before the decrement.
ReleasedNever(t) == ref[t] = 0

\* decrement_ref_count() == 0: the caller has taken the last reference.
Released(t) == ref[t] - 1 = 0

\* restore_ref_count.
Restored(t) == [ref EXCEPT ![t] = backup[t]]

\* Mutants: the flag is ignored.
FlagFalse(t) == {FALSE}
FlagTrue(t) == {TRUE}

\* get_reused_flag: the flag of an object that no longer exists can read as
\* anything.
FlagOf(t) == IF t \in alloc THEN {reused[t]} ELSE BOOLEAN

-----------------------------------------------------------------------------
(***************************************************************************)
(* The main thread, outside the execution of a graph.                      *)
(***************************************************************************)

\* A graph is built and, if store, saved for reuse: the constructor of task
\* leaves reused and backup_ref uninitialised, store_info sets them.
BuildFresh(g, store) ==
  /\ pc[Main] = "idle" /\ round < MaxRound
  /\ g.node \cap alloc = {}
  /\ store => saved = NoTask
  /\ graph' = g
  /\ saved' = IF store THEN g ELSE saved
  /\ round' = round + 1
  /\ alloc' = alloc \cup g.node
  /\ ref' = [t \in Task |-> IF t \in g.node THEN Indegree(g, t) ELSE ref[t]]
  /\ \E flag \in [g.node -> GarbageFlag], count \in GarbageRef :
       /\ reused' = [t \in Task |-> IF t \notin g.node THEN reused[t]
                                    ELSE store \/ flag[t]]
       /\ backup' = [t \in Task |-> IF t \notin g.node THEN backup[t]
                                    ELSE IF store THEN Indegree(g, t) ELSE count]
  /\ done' = {}
  /\ Goto(Main, "built")
  /\ UNCHANGED <<cur, todo, last, hand, nxt, toSpawn, stack, close>>

\* _resume_from_buffer: the stored graph is executed again as it is.
Resume ==
  /\ pc[Main] = "idle" /\ round < MaxRound
  /\ saved # NoTask
  /\ graph' = saved
  /\ round' = round + 1
  /\ done' = {}
  /\ Goto(Main, "built")
  /\ UNCHANGED <<saved, alloc, ref, backup, reused, cur, todo, last, hand, nxt,
                 toSpawn, stack, close>>

\* spawn(): one reference of its own keeps the end task above zero.
BeginSpawn ==
  /\ pc[Main] = "built"
  /\ ref' = [ref EXCEPT ![graph.end] = @ + 1]
  /\ toSpawn' = Roots(graph)
  /\ Goto(Main, "spawn")
  /\ UNCHANGED <<graphVars, alloc, backup, reused, done, cur, todo, last, hand, nxt,
                 stack, close>>

\* init_spawn of the next task of need_spawn_tasks, at the thread it names.
SpawnRoot ==
  /\ pc[Main] = "spawn"
  /\ \E t \in toSpawn :
       /\ \A u \in toSpawn : t <= u
       /\ toSpawn' = toSpawn \ {t}
       /\ Push(graph.aff[t], t)
  /\ UNCHANGED <<graphVars, taskVars, threadVars, close>>

EndSpawn ==
  /\ pc[Main] = "spawn" /\ toSpawn = {}
  /\ Goto(Main, "check")
  /\ UNCHANGED <<graphVars, taskVars, cur, todo, last, hand, nxt, toSpawn, stack, close>>

\* After the wait loop: main_kernel_func deletes the task it waited on.
DeleteEnd ==
  /\ pc[Main] = "leave"
  /\ alloc' = IF reused[graph.end] THEN alloc ELSE alloc \ {graph.end}
  /\ Goto(Main, "post")
  /\ UNCHANGED <<graphVars, ref, backup, reused, done, cur, todo, last, hand, nxt,
                 toSpawn, stack, close>>

\* spawn_and_wait reads the flag of the end task again, deleted or not, and
\* restores its count if the flag is set; then reset_task_graph.
RestoreEnd ==
  /\ pc[Main] = "post"
  /\ \E flag \in FlagOf(graph.end) :
       ref' = IF flag THEN Restored(graph.end) ELSE ref
  /\ Goto(Main, "idle")
  /\ UNCHANGED <<graphVars, alloc, backup, reused, done, cur, todo, last, hand, nxt,
                 toSpawn, stack, close>>

\* aceMesh_runtime_shutdown: the stored tasks are freed, ...
FreeTasks ==
  /\ pc[Main] = "idle"
  /\ alloc' = IF saved = NoTask THEN alloc ELSE alloc \ saved.node
  /\ Goto(Main, "close")
  /\ UNCHANGED <<graphVars, ref, backup, reused, done, cur, todo, last, hand, nxt,
                 toSpawn, stack, close>>

\* ... then the workers are told to stop ...
CloseWorkers ==
  /\ pc[Main] = "close"
  /\ close' = TRUE
  /\ Goto(Main, "join")
  /\ UNCHANGED <<graphVars, taskVars, cur, todo, last, hand, nxt, toSpawn, stack>>

\* ... and joined.
JoinWorkers ==
  /\ pc[Main] = "join"
  /\ \A w \in Worker : pc[w] = "exited"
  /\ Goto(Main, "halted")
  /\ UNCHANGED <<graphVars, taskVars, cur, todo, last, hand, nxt, toSpawn, stack, close>>

-----------------------------------------------------------------------------
(***************************************************************************)
(* The loop every thread runs: worker_kernel_func and main_kernel_func     *)
(* differ in the condition of the loop only.                               *)
(***************************************************************************)

\* Mutants: the main thread leaves one reference too early, the workers never.
KeepRunningLess(th) == IF th = Main THEN ref[graph.end] > 2 ELSE ~close
KeepRunningForever(th) == IF th = Main THEN ref[graph.end] > 1 ELSE TRUE

KeepRunning(th) ==
  IF th = Main THEN ref[graph.end] > 1 ELSE ~close

\* The test at the head of the loop.  A task returned by execute() is run
\* next without a pop.
Check(th) ==
  /\ pc[th] = "check"
  /\ Goto(th, IF ~KeepRunning(th)
              THEN IF th = Main THEN "leave" ELSE "exited"
              ELSE IF cur[th] = NoTask THEN "poll" ELSE "run")
  /\ UNCHANGED <<graphVars, taskVars, cur, todo, last, hand, nxt, toSpawn, stack, close>>

\* get_next_task takes the top of the thread's own stack ...
Pop(th) ==
  /\ pc[th] = "poll" /\ stack[th] # <<>>
  /\ cur' = [cur EXCEPT ![th] = stack[th][Len(stack[th])]]
  /\ stack' = [stack EXCEPT ![th] = SubSeq(@, 1, Len(@) - 1)]
  /\ Goto(th, "run")
  /\ UNCHANGED <<graphVars, taskVars, todo, last, hand, nxt, toSpawn, close>>

\* ... or returns NULL.
PopNothing(th) ==
  /\ pc[th] = "poll" /\ stack[th] = <<>>
  /\ Goto(th, "check")
  /\ UNCHANGED <<graphVars, taskVars, cur, todo, last, hand, nxt, toSpawn, stack, close>>

\* The body of the task ends and aceMesh_task::execute starts: a reused task
\* gets its count back for the next round before it releases a successor.
RunBody(th) ==
  /\ pc[th] = "run"
  /\ ref' = IF reused[cur[th]] THEN Restored(cur[th]) ELSE ref
  /\ done' = done \cup {cur[th]}
  /\ todo' = [todo EXCEPT ![th] = graph.succ[cur[th]]]
  /\ last' = [last EXCEPT ![th] = graph.vert[cur[th]]]
  /\ Goto(th, "dec")
  /\ UNCHANGED <<graphVars, alloc, backup, reused, cur, hand, nxt, toSpawn, stack, close>>

\* The next successor loses one reference; the one that takes the last spawns it.
Decrement(th) ==
  /\ pc[th] = "dec"
  /\ \E t \in todo[th] :
       /\ \A u \in todo[th] : t <= u
       /\ ref' = [ref EXCEPT ![t] = @ - 1]
       /\ todo' = [todo EXCEPT ![th] = @ \ {t}]
       /\ IF Released(t)
          THEN hand' = [hand EXCEPT ![th] = t] /\ Goto(th, "push")
          ELSE UNCHANGED <<hand, pc>>
  /\ UNCHANGED <<graphVars, alloc, backup, reused, done, cur, last, nxt, toSpawn, stack, close>>

\* task::spawn: spawn_to_id queues the ready task at the thread it names.
Spawn(th) ==
  /\ pc[th] = "push"
  /\ Push(graph.aff[hand[th]], hand[th])
  /\ hand' = [hand EXCEPT ![th] = NoTask]
  /\ Goto(th, "dec")
  /\ UNCHANGED <<graphVars, taskVars, cur, todo, last, nxt, toSpawn, close>>

\* The vertical task comes last; if it becomes ready, execute() returns it.
DecrementVertical(th) ==
  LET v == last[th] IN
  /\ pc[th] = "dec" /\ todo[th] = {}
  /\ IF v = NoTask
     THEN UNCHANGED <<ref, nxt>>
     ELSE /\ ref' = [ref EXCEPT ![v] = @ - 1]
          /\ nxt' = [nxt EXCEPT ![th] = IF Released(v) THEN v ELSE NoTask]
  /\ last' = [last EXCEPT ![th] = NoTask]
  /\ Goto(th, "fin")
  /\ UNCHANGED <<graphVars, alloc, backup, reused, done, cur, todo, hand, toSpawn,
                 stack, close>>

\* The thread deletes the task it has run unless its flag says it is reused.
Finish(th) ==
  /\ pc[th] = "fin"
  /\ \E flag \in FlagOf(cur[th]) :
       alloc' = IF flag THEN alloc ELSE alloc \ {cur[th]}
  /\ cur' = [cur EXCEPT ![th] = nxt[th]]
  /\ nxt' = [nxt EXCEPT ![th] = NoTask]
  /\ Goto(th, "check")
  /\ UNCHANGED <<graphVars, ref, backup, reused, done, todo, last, hand, toSpawn, stack, close>>

-----------------------------------------------------------------------------
Init ==
  /\ graph = NoTask
  /\ saved = NoTask
  /\ alloc = {}
  /\ ref = [t \in Task |-> 0]
  /\ backup = [t \in Task |-> 0]
  /\ reused = [t \in Task |-> FALSE]
  /\ done = {}
  /\ toSpawn = {}
  /\ stack = [th \in Thread |-> <<>>]
  /\ pc = [th \in Thread |-> IF th = Main THEN "idle" ELSE "check"]
  /\ cur = [th \in Thread |-> NoTask]
  /\ todo = [th \in Thread |-> {}]
  /\ last = [th \in Thread |-> NoTask]
  /\ hand = [th \in Thread |-> NoTask]
  /\ nxt = [th \in Thread |-> NoTask]
  /\ close = FALSE
  /\ round = 0

MainStep ==
  \/ \E g \in Graphs, store \in BOOLEAN : BuildFresh(g, store)
  \/ Resume
  \/ BeginSpawn \/ SpawnRoot \/ EndSpawn
  \/ DeleteEnd \/ RestoreEnd
  \/ FreeTasks \/ CloseWorkers \/ JoinWorkers

LoopStep(th) ==
  \/ Check(th) \/ Pop(th) \/ PopNothing(th)
  \/ RunBody(th) \/ Decrement(th) \/ Spawn(th) \/ DecrementVertical(th) \/ Finish(th)

\* After shutdown nothing is left to do.
Halted == pc[Main] = "halted" /\ UNCHANGED vars

Next == MainStep \/ (\E th \in Thread : LoopStep(th)) \/ Halted

\* The operating system runs every thread, and a task body terminates.
Fairness == WF_vars(MainStep) /\ \A th \in Thread : WF_vars(LoopStep(th))

Spec == Init /\ [][Next]_vars

FairSpec == Spec /\ Fairness

-----------------------------------------------------------------------------
(***************************************************************************)
(* Properties.                                                             *)
(***************************************************************************)

Label == {"check", "poll", "run", "dec", "push", "fin"}

MainLabel == {"idle", "built", "spawn", "leave", "post", "close", "join", "halted"}

\* The threads execute a graph / the wait is over and spawn_and_wait returns.
Executing == pc[Main] \in Label \cup {"spawn"}
Returning == pc[Main] \in {"leave", "post"}

\* spawn_and_wait is in progress / the shutdown has not begun.
Live == pc[Main] \notin {"idle", "close", "join", "halted"}
Open == pc[Main] \notin {"close", "join", "halted"}

\* The tasks whose bodies are running.
Running == {cur[th] : th \in {x \in Thread : pc[x] = "run"}}

\* Thread th is inside execute() of cur[th] and still owes these decrements.
Owes(th) == IF pc[th] \in {"dec", "push"}
            THEN todo[th] \cup ({last[th]} \ {NoTask})
            ELSE {}

\* The predecessors of t that have not yet released it.
Pending(t) ==
  {p \in Preds(graph, t) :
     p \notin done \/ \E th \in Thread : cur[th] = p /\ t \in Owes(th)}

\* Type invariant: what each variable of the scheduler and the tasks can hold.
TypeOK ==
  /\ graph \in Graphs \cup {NoTask}
  /\ saved \in Graphs \cup {NoTask}
  /\ alloc \in SUBSET Task
  /\ ref \in [Task -> Int]
  /\ backup \in [Task -> Int]
  /\ reused \in [Task -> BOOLEAN]
  /\ done \in SUBSET Task
  /\ toSpawn \in SUBSET Task
  /\ stack \in [Thread -> Seq(Task)]
  /\ pc \in [Thread -> Label \cup MainLabel \cup {"exited"}]
  /\ cur \in [Thread -> Task \cup {NoTask}]
  /\ todo \in [Thread -> SUBSET Task]
  /\ last \in [Thread -> Task \cup {NoTask}]
  /\ hand \in [Thread -> Task \cup {NoTask}]
  /\ nxt \in [Thread -> Task \cup {NoTask}]
  /\ close \in BOOLEAN
  /\ round \in Nat

\* A task runs only when every task it depends on has run: the decrements of
\* several threads never release a successor early.
Precedence ==
  \A th \in Thread : pc[th] = "run" => Preds(graph, cur[th]) \subseteq done

\* A task runs at most once in a round: no two threads get the same task, and
\* none is queued again, although spawn, pop and return are separate steps.
RunOnce ==
  \A th \in Thread : pc[th] = "run" =>
    /\ cur[th] \notin done
    /\ \A other \in Thread \ {th} : pc[other] = "run" => cur[other] # cur[th]

\* The reference count of a task that has not run is the number of predecessors
\* that have not released it; the end task has one reference more.
RefCount ==
  Executing =>
    /\ \A t \in Work(graph) \ done : ref[t] = Cardinality(Pending(t))
    /\ ref[graph.end] = Cardinality(Pending(graph.end)) + 1

\* Termination detection: when the wait of the main thread is over, every task
\* of the graph has run and none is left in a queue or in the hands of a thread.
AllDone ==
  Returning =>
    /\ done = Work(graph)
    /\ toSpawn = {}
    /\ \A th \in Thread : stack[th] = <<>> /\ hand[th] = NoTask /\ nxt[th] = NoTask

\* A stored graph can be executed again: between two rounds every count of it
\* is the one it was built with.
StoredReady ==
  (pc[Main] \in {"idle", "built"} /\ saved # NoTask) =>
    \A t \in saved.node : ref[t] = Indegree(saved, t)

\* Until the shutdown no thread holds, and no queue contains, a task object that
\* has been deleted.
NoDangling ==
  Open =>
    \A th \in Thread :
      /\ pc[th] \in {"run", "dec", "push", "fin"} => cur[th] \in alloc
      /\ Owes(th) \cup ({hand[th], nxt[th]} \ {NoTask}) \subseteq alloc
      /\ \A i \in 1 .. Len(stack[th]) : stack[th][i] \in alloc

\* Between two rounds only the stored graph exists, and what a thread that has
\* released the end task is about to delete.
NoLeak ==
  pc[Main] = "idle" =>
    \A t \in alloc : \/ (saved # NoTask /\ t \in saved.node)
                      \/ \E th \in Thread : pc[th] \in {"dec", "fin"} /\ cur[th] = t

\* Every spawn_and_wait returns.
RoundsEnd == pc[Main] = "built" ~> pc[Main] = "idle"

\* The library shuts down: no worker is left behind.
ShutsDown == <>(pc[Main] = "halted")

\* The runtime implements the abstract execution of task graphs.
Abstract == INSTANCE DagSpec WITH
  phase <- IF Live THEN "exec" ELSE "idle",
  running <- Running

\* Every step of the runtime is one that the abstract execution may take: a task
\* starts once, after its predecessors, and spawn_and_wait returns after the last.
RefinesDagSpec == Abstract!Spec

\* What the abstract execution must do eventually the runtime does: no ready task
\* waits forever, and a finished graph is returned.
ImplementsDagSpec == Abstract!Fairness

-----------------------------------------------------------------------------
(***************************************************************************)
(* The inductive invariant from which the safety properties follow.        *)
(***************************************************************************)

\* The ready tasks thread th alone knows of.
Ready(th) ==
  ({hand[th], nxt[th]} \ {NoTask})
    \cup (IF pc[th] \in {"check", "run"} THEN {cur[th]} \ {NoTask} ELSE {})

IsReady(t) == t \in Work(graph) \ done /\ Pending(t) = {}

\* Which local variables are in use in which control state.
Control ==
  /\ pc[Main] \in Label \cup MainLabel
  /\ \A w \in Worker : pc[w] \in Label \cup {"exited"}
  /\ \A th \in Thread :
       /\ hand[th] # NoTask <=> pc[th] = "push"
       /\ nxt[th] # NoTask => pc[th] = "fin"
       /\ pc[th] \in {"run", "dec", "push", "fin"} => cur[th] # NoTask
       /\ pc[th] \notin {"check", "run", "dec", "push", "fin"} => cur[th] = NoTask
       /\ pc[th] \notin {"dec", "push"} => todo[th] = {} /\ last[th] = NoTask
  /\ toSpawn # {} => pc[Main] = "spawn"
  /\ close => pc[Main] \in {"join", "halted"}
  /\ Live => graph \in Graphs
  /\ pc[Main] = "built" => done = {}

\* Outside the wait loop nothing is ready, queued or owed.
Quiet ==
  ~Executing => \A th \in Thread : Ready(th) = {} /\ Owes(th) = {} /\ stack[th] = <<>>

\* A task that is queued or held is ready ...
Places ==
  /\ \A t \in toSpawn : IsReady(t)
  /\ \A th \in Thread :
       /\ \A t \in Ready(th) : IsReady(t)
       /\ \A i \in 1 .. Len(stack[th]) : IsReady(stack[th][i])

\* ... and is in one place only.
Unique ==
  /\ \A th \in Thread : Ready(th) \cap toSpawn = {}
  /\ \A th \in Thread : \A i \in 1 .. Len(stack[th]) :
       /\ stack[th][i] \notin toSpawn
       /\ \A x \in Thread : stack[th][i] \notin Ready(x)
  /\ \A th, x \in Thread : th # x => Ready(th) \cap Ready(x) = {}
  /\ \A th, x \in Thread : \A i \in 1 .. Len(stack[th]), j \in 1 .. Len(stack[x]) :
       stack[th][i] = stack[x][j] => th = x /\ i = j

\* A thread owes decrements for a task that has run, to successors of it, and
\* no other thread does.
Bodies ==
  /\ \A th \in Thread : Owes(th) # {} =>
       /\ cur[th] \in done
       /\ todo[th] \subseteq graph.succ[cur[th]]
       /\ last[th] \in Vertical(graph, cur[th]) \cup {NoTask}
  /\ \A th, x \in Thread :
       Owes(th) # {} /\ Owes(x) # {} /\ cur[th] = cur[x] => th = x

\* The reference counts.
Counts ==
  Live =>
    /\ done \subseteq Work(graph)
    /\ \A t \in done : Pending(t) = {} /\ (reused[t] => ref[t] = backup[t])
    /\ \A t \in Work(graph) \ done : ref[t] = Cardinality(Pending(t))
    /\ ref[graph.end] =
         Cardinality(Pending(graph.end)) + (IF pc[Main] = "built" THEN 0 ELSE 1)
    /\ Returning => done = Work(graph)

\* The stored graph: its flags and backups, and its counts unless it is running.
Stored ==
  saved # NoTask =>
    /\ \A t \in saved.node : reused[t] /\ backup[t] = Indegree(saved, t)
    /\ ~(Live /\ graph = saved) =>
         \A t \in saved.node : ref[t] = Indegree(saved, t)
    /\ Live => graph = saved \/ graph.node \cap saved.node = {}

\* What exists, and who is about to delete what.
Memory ==
  Open =>
    /\ saved # NoTask => saved.node \subseteq alloc
    /\ Live => /\ Work(graph) \ done \subseteq alloc
               /\ pc[Main] # "post" => graph.end \in alloc
    /\ \A th \in Thread : pc[th] \in {"run", "dec", "push", "fin"} => cur[th] \in alloc
    /\ \A th \in Thread :
         pc[th] \in {"dec", "push", "fin"} /\ ~reused[cur[th]] =>
           /\ Live => cur[th] \notin graph.node \ done
           /\ \A x \in Thread \ {th} :
                pc[x] \in {"dec", "push", "fin"} => cur[x] # cur[th]

IInv ==
  /\ TypeOK /\ Control /\ Quiet /\ Places /\ Unique
  /\ Bodies /\ Counts /\ Stored /\ Memory

\* Where uninitialised flags read as false, the flags name the stored tasks and every
\* task that exists is stored, still to be executed, or about to be deleted.
Owned ==
  Open =>
    \A t \in alloc :
      /\ reused[t] => saved # NoTask /\ t \in saved.node
      /\ \/ saved # NoTask /\ t \in saved.node
         \/ Live /\ t \in Work(graph) \ done
         \/ Live /\ pc[Main] # "post" /\ t = graph.end
         \/ \E th \in Thread : pc[th] \in {"dec", "push", "fin"} /\ cur[th] = t
=============================================================================
