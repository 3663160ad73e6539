------------------------------ MODULE MpiExec ------------------------------
(***************************************************************************)
(* Execution of a task graph in the MPI build: EXTRA_THREAD, MTEST_LIGHT,  *)
(* _RETURN_VERTICAL.  A BLOCKING_TASK runs on one extra thread only.  Its  *)
(* body may start MPI requests, leave their handles in comm1 and comm2 and *)
(* ask to be suspended: the task is then executed again, from its          *)
(* beginning, after polling has found the requests complete; without       *)
(* handles it is just queued again.                                        *)
(*                                                                         *)
(* The threads and the release of successors are those of DagExec, in      *)
(* larger steps: a loop test with its pop, a decrement with its push.  The *)
(* steps of the extra thread are modelled access by access.                *)
(***************************************************************************)
EXTENDS TaskGraph, Sequences, SequencesExt

CONSTANTS
  Task,         \* addresses of task objects
  Thread,       \* the schedulers and the extra one
  Main,         \* schedulers[0]
  Mpi,          \* mpi_scheduler
  Graphs,       \* the graphs the program may build
  Blocking,     \* tasks of type BLOCKING_TASK
  Kinds,        \* the sets of handles a body may leave: subsets of {1, 2}
  GarbageRef,   \* the value of an uninitialised backup_ref
  MaxSuspend,   \* bound: suspensions of a task in a round
  MaxRound      \* bound: number of spawn_and_wait calls

\* affinity_id is the number of a scheduler, and the extra thread is none of them.
ASSUME MpiAssumption ==
  /\ Task \subseteq Nat /\ NoTask \notin Task
  /\ Main \in Thread /\ Mpi \in Thread /\ Main # Mpi
  /\ Blocking \subseteq Task
  /\ Kinds \subseteq SUBSET {1, 2}
  /\ GarbageRef \in Int
  /\ \A g \in Graphs : WellFormed(g, Task, Thread \ {Mpi})

VARIABLES
  graph,    \* need_spawn_tasks and endTask, and what they reach
  stored,   \* reused of every task of the graph
  ref,      \* task::ref_count_t
  backup,   \* task::backup_ref
  freed,    \* tasks of the graph that have been deleted
  stack,    \* private_queue of the schedulers that are not Mpi
  mpiq,     \* mpi_queue
  polling,  \* polling_queue of mtest_tasks: the task and its two handles
  comm,     \* comm1 and comm2, as the set of those that are not NULL
  suspend,  \* aceMesh_task::suspend
  mt,       \* mt and old_mt in the polling loop, with flag1
  pc, cur, todo, last, nxt,   \* as in DagExec
  round,    \* number of spawn_and_wait calls so far
  begun,    \* tasks whose body has begun in this round (history)
  done,     \* tasks whose body has run to its end (history)
  count,    \* suspensions of every task in this round (history)
  pending   \* the requests <<task, handle>> MPI has not completed

graphVars  == <<graph, stored, round>>
taskVars   == <<ref, backup, freed, suspend>>
queueVars  == <<stack, mpiq, polling>>
localVars  == <<cur, todo, last, nxt>>
historyVars == <<begun, done, count>>
vars == <<graphVars, taskVars, queueVars, localVars, historyVars, comm, mt, pc, pending>>

Goto(th, label) == pc' = [pc EXCEPT ![th] = label]

NoTest == [task |-> NoTask, comm |-> {}]

\* spawn_to_id, init_spawn and the test in execute(): by the type of the task.
Queue(t) ==
  IF t \in Blocking
  THEN mpiq' = Append(mpiq, t) /\ UNCHANGED stack
  ELSE stack' = [stack EXCEPT ![graph.aff[t]] = Append(@, t)] /\ UNCHANGED mpiq

-----------------------------------------------------------------------------
(***************************************************************************)
(* The main thread outside the execution of a graph, as in DagExec.        *)
(***************************************************************************)

\* The new objects are not those a thread is still busy with.
Build(g, store) ==
  /\ pc[Main] = "idle" /\ round < MaxRound /\ ~stored
  /\ \A th \in Thread : cur[th] \notin g.node
  /\ graph' = g
  /\ stored' = store
  /\ round' = round + 1
  /\ ref' = [t \in Task |-> IF t \in g.node THEN Indegree(g, t) ELSE 0]
  /\ backup' = [t \in Task |-> IF store /\ t \in g.node THEN Indegree(g, t) ELSE GarbageRef]
  /\ freed' = freed \ g.node
  /\ begun' = {} /\ done' = {}
  /\ count' = [t \in Task |-> 0]
  /\ Goto(Main, "built")
  /\ UNCHANGED <<queueVars, localVars, suspend, comm, mt, pending>>

Resume ==
  /\ pc[Main] = "idle" /\ round < MaxRound /\ stored
  /\ round' = round + 1
  /\ begun' = {} /\ done' = {}
  /\ count' = [t \in Task |-> 0]
  /\ Goto(Main, "built")
  /\ UNCHANGED <<graph, stored, taskVars, queueVars, localVars, comm, mt, pending>>

BeginSpawn ==
  /\ pc[Main] = "built"
  /\ ref' = [ref EXCEPT ![graph.end] = @ + 1]
  /\ todo' = [todo EXCEPT ![Main] = Roots(graph)]
  /\ Goto(Main, "spawn")
  /\ UNCHANGED <<graphVars, backup, freed, suspend, queueVars, cur, last, nxt,
                 historyVars, comm, mt, pending>>

SpawnRoot ==
  /\ pc[Main] = "spawn"
  /\ \E t \in todo[Main] :
       /\ \A u \in todo[Main] : t <= u
       /\ todo' = [todo EXCEPT ![Main] = @ \ {t}]
       /\ Queue(t)
  /\ UNCHANGED <<graphVars, taskVars, polling, cur, last, nxt, historyVars, comm, mt,
                 pc, pending>>

EndSpawn ==
  /\ pc[Main] = "spawn" /\ todo[Main] = {}
  /\ Goto(Main, "check")
  /\ UNCHANGED <<graphVars, taskVars, queueVars, localVars, historyVars, comm, mt, pending>>

\* The wait is over: a stored end task is restored, another one is deleted.
Leave ==
  /\ pc[Main] = "check" /\ ref[graph.end] <= 1
  /\ IF stored
     THEN ref' = [ref EXCEPT ![graph.end] = backup[graph.end]] /\ UNCHANGED freed
     ELSE freed' = freed \cup {graph.end} /\ UNCHANGED ref
  /\ Goto(Main, "idle")
  /\ UNCHANGED <<graphVars, backup, suspend, queueVars, localVars, historyVars, comm, mt,
                 pending>>

-----------------------------------------------------------------------------
(***************************************************************************)
(* The loop of the main thread and the workers.                            *)
(***************************************************************************)

Running(th) == th = Main => ref[graph.end] > 1

Take(th) ==
  /\ th # Mpi /\ pc[th] = "check" /\ cur[th] = NoTask
  /\ stack[th] # <<>> /\ Running(th)
  /\ cur' = [cur EXCEPT ![th] = Last(stack[th])]
  /\ stack' = [stack EXCEPT ![th] = Front(@)]
  /\ UNCHANGED <<graphVars, taskVars, mpiq, polling, todo, last, nxt, historyVars, comm,
                 mt, pc, pending>>

\* Which thread executes which task itself: the extra thread all it gets.
Keeps(th, t) == th = Mpi \/ t \notin Blocking

\* mpi_spawn by a thread that finds a blocking task, popped or returned.
HandOver(th) ==
  /\ pc[th] = "check" /\ cur[th] # NoTask /\ ~Keeps(th, cur[th])
  /\ mpiq' = Append(mpiq, cur[th])
  /\ cur' = [cur EXCEPT ![th] = NoTask]
  /\ UNCHANGED <<graphVars, taskVars, stack, polling, todo, last, nxt, historyVars, comm,
                 mt, pc, pending>>

Begin(th) ==
  /\ pc[th] = "check" /\ cur[th] # NoTask /\ Keeps(th, cur[th])
  /\ begun' = begun \cup {cur[th]}
  /\ Goto(th, "run")
  /\ UNCHANGED <<graphVars, taskVars, queueVars, localVars, done, count, comm, mt, pending>>

\* Mutant: the count of a stored task is not restored.
RestoredNot(t) == ref

\* The first lines of execute(): for every execution of a stored task.
Restored(t) == IF stored THEN [ref EXCEPT ![t] = backup[t]] ELSE ref

\* The body has come to its end without asking to be suspended.
RunBody(th) ==
  LET t == cur[th] IN
  /\ pc[th] = "run"
  /\ suspend' = [suspend EXCEPT ![t] = FALSE]
  /\ ref' = Restored(t)
  /\ done' = done \cup {t}
  /\ todo' = [todo EXCEPT ![th] = graph.succ[t]]
  /\ last' = [last EXCEPT ![th] = graph.vert[t]]
  /\ Goto(th, "dec")
  /\ UNCHANGED <<graphVars, backup, freed, queueVars, cur, nxt, begun, count, comm, mt,
                 pending>>

\* A successor loses a reference; the one that takes the last queues it.
Decrement(th) ==
  /\ pc[th] = "dec"
  /\ \E t \in todo[th] :
       /\ \A u \in todo[th] : t <= u
       /\ ref' = [ref EXCEPT ![t] = @ - 1]
       /\ todo' = [todo EXCEPT ![th] = @ \ {t}]
       /\ IF ref[t] = 1 THEN Queue(t) ELSE UNCHANGED <<stack, mpiq>>
  /\ UNCHANGED <<graphVars, backup, freed, suspend, polling, cur, last, nxt, historyVars,
                 comm, mt, pc, pending>>

\* The vertical task is returned whatever its type.
DecrementVertical(th) ==
  LET v == last[th] IN
  /\ pc[th] = "dec" /\ todo[th] = {}
  /\ IF v = NoTask
     THEN UNCHANGED <<ref, nxt>>
     ELSE /\ ref' = [ref EXCEPT ![v] = @ - 1]
          /\ nxt' = [nxt EXCEPT ![th] = IF ref[v] = 1 THEN v ELSE NoTask]
  /\ last' = [last EXCEPT ![th] = NoTask]
  /\ Goto(th, "fin")
  /\ UNCHANGED <<graphVars, backup, freed, suspend, queueVars, cur, todo, historyVars,
                 comm, mt, pending>>

\* Only the extra thread deletes: blocking tasks that are not suspended.  It
\* also restores the count of the returned task, stored or not.
Deleted(th) ==
  IF th = Mpi /\ ~stored /\ cur[th] \in Blocking /\ ~suspend[cur[th]]
  THEN {cur[th]} ELSE {}

Finish(th) ==
  /\ pc[th] = "fin"
  /\ freed' = freed \cup Deleted(th)
  /\ ref' = IF th = Mpi /\ nxt[th] # NoTask
            THEN [ref EXCEPT ![nxt[th]] = backup[nxt[th]]] ELSE ref
  /\ cur' = [cur EXCEPT ![th] = nxt[th]]
  /\ nxt' = [nxt EXCEPT ![th] = NoTask]
  /\ Goto(th, IF th = Mpi /\ nxt[th] = NoTask THEN "poll" ELSE "check")
  /\ UNCHANGED <<graphVars, backup, suspend, queueVars, todo, last, historyVars, comm, mt,
                 pending>>

-----------------------------------------------------------------------------
(***************************************************************************)
(* The extra thread.                                                       *)
(***************************************************************************)

\* The body starts requests, leaves their handles (acemesh_set_mtest_handle)
\* and asks to be suspended (acemesh_set_suspend).
SuspendBody ==
  LET t == cur[Mpi] IN
  /\ pc[Mpi] = "run" /\ t \in Blocking /\ count[t] < MaxSuspend
  /\ \E k \in Kinds :
       /\ pending' = pending \cup {<<t, i>> : i \in k}
       /\ comm' = IF k = {} THEN comm ELSE {<<t, i>> : i \in k}
  /\ suspend' = [suspend EXCEPT ![t] = TRUE]
  /\ count' = [count EXCEPT ![t] = @ + 1]
  /\ Goto(Mpi, "requeue")
  /\ UNCHANGED <<graphVars, ref, backup, freed, queueVars, localVars, begun, done, mt>>

\* mpi_polling_local_spawn takes the handles and clears the globals.
CommCleared == {}

\* execute() of a suspended task: to polling_queue if there are handles.
Requeue ==
  LET t == cur[Mpi] IN
  /\ pc[Mpi] = "requeue"
  /\ ref' = Restored(t)
  /\ IF comm = {}
     THEN mpiq' = Append(mpiq, t) /\ UNCHANGED <<polling, comm>>
     ELSE /\ polling' = Append(polling, [task |-> t, comm |-> comm])
          /\ comm' = CommCleared
          /\ UNCHANGED mpiq
  /\ Goto(Mpi, "fin")
  /\ UNCHANGED <<graphVars, backup, freed, suspend, stack, localVars, historyVars, mt,
                 pending>>

\* Polling starts with the first mtest_task, if there is one.
PollBegin ==
  /\ pc[Mpi] = "poll"
  /\ IF polling = <<>>
     THEN Goto(Mpi, "pop") /\ UNCHANGED <<polling, mt>>
     ELSE /\ mt' = [cur |-> Head(polling), old |-> NoTest, flag1 |-> FALSE]
          /\ polling' = Tail(polling)
          /\ Goto(Mpi, "test1")
  /\ UNCHANGED <<graphVars, taskVars, stack, mpiq, localVars, historyVars, comm, pending>>

\* MPI_Test of a handle; a NULL handle counts as complete.
Complete(c, i) == \A r \in c : r[2] = i => r \notin pending

TestFirst ==
  /\ pc[Mpi] = "test1"
  /\ mt' = [mt EXCEPT !.flag1 = Complete(mt.cur.comm, 1)]
  /\ Goto(Mpi, "test2")
  /\ UNCHANGED <<graphVars, taskVars, queueVars, localVars, historyVars, comm, pending>>

\* Mutant: one complete request is enough.
BothEither(f, g) == f \/ g

Both(f, g) == f /\ g

\* Mutant: the mtest_task taken to see that the loop may end is lost.
PutBackNot(queue) == IF queue = <<>> THEN queue ELSE Tail(queue)

\* The loop ends: the mtest_task it has just taken goes back.
PutBack(queue) == IF queue = <<>> THEN queue ELSE Append(Tail(queue), Head(queue))

\* The second test and what follows it: the task goes to mpi_queue or its
\* mtest_task back to polling_queue; the loop ends when that queue is empty or
\* the first one that went back comes round again.
TestSecond ==
  LET ready == Both(mt.flag1, Complete(mt.cur.comm, 2))
      queue == IF ready THEN polling ELSE Append(polling, mt.cur)
      old   == IF ~ready /\ mt.old = NoTest THEN mt.cur ELSE mt.old
      ends  == queue = <<>> \/ Head(queue) = old
  IN
  /\ pc[Mpi] = "test2"
  /\ mpiq' = IF ready THEN Append(mpiq, mt.cur.task) ELSE mpiq
  /\ polling' = IF ends THEN PutBack(queue) ELSE Tail(queue)
  /\ mt' = IF ends THEN [mt EXCEPT !.cur = NoTest, !.old = NoTest]
           ELSE [mt EXCEPT !.cur = Head(queue), !.old = old]
  /\ Goto(Mpi, IF ends THEN "pop" ELSE "test1")
  /\ UNCHANGED <<graphVars, taskVars, stack, localVars, historyVars, comm, pending>>

PopMpi ==
  /\ pc[Mpi] = "pop"
  /\ IF mpiq = <<>>
     THEN Goto(Mpi, "poll") /\ UNCHANGED <<mpiq, cur>>
     ELSE /\ cur' = [cur EXCEPT ![Mpi] = Head(mpiq)]
          /\ mpiq' = Tail(mpiq)
          /\ Goto(Mpi, "check")
  /\ UNCHANGED <<graphVars, taskVars, stack, polling, todo, last, nxt, historyVars, comm,
                 mt, pending>>

\* MPI completes a request.
CompleteRequest(r) ==
  /\ r \in pending
  /\ pending' = pending \ {r}
  /\ UNCHANGED <<graphVars, taskVars, queueVars, localVars, historyVars, comm, mt, pc>>

-----------------------------------------------------------------------------
Init ==
  /\ graph = NoTask /\ stored = FALSE /\ round = 0
  /\ ref = [t \in Task |-> 0] /\ backup = [t \in Task |-> 0] /\ freed = {}
  /\ stack = [th \in Thread |-> <<>>] /\ mpiq = <<>> /\ polling = <<>>
  /\ comm = {} /\ suspend = [t \in Task |-> FALSE]
  /\ mt = [cur |-> NoTest, old |-> NoTest, flag1 |-> FALSE]
  /\ pc = [th \in Thread |-> CASE th = Main -> "idle" [] th = Mpi -> "poll"
                               [] OTHER -> "check"]
  /\ cur = [th \in Thread |-> NoTask] /\ nxt = [th \in Thread |-> NoTask]
  /\ todo = [th \in Thread |-> {}] /\ last = [th \in Thread |-> NoTask]
  /\ begun = {} /\ done = {} /\ count = [t \in Task |-> 0] /\ pending = {}

MainStep ==
  \/ \E g \in Graphs, store \in BOOLEAN : Build(g, store)
  \/ Resume \/ BeginSpawn \/ SpawnRoot \/ EndSpawn \/ Leave

LoopStep(th) ==
  \/ Take(th) \/ HandOver(th) \/ Begin(th) \/ RunBody(th)
  \/ Decrement(th) \/ DecrementVertical(th) \/ Finish(th)

MpiStep == SuspendBody \/ Requeue \/ PollBegin \/ TestFirst \/ TestSecond \/ PopMpi

Next ==
  \/ MainStep
  \/ \E th \in Thread : LoopStep(th)
  \/ MpiStep
  \/ \E t \in Blocking, i \in {1, 2} : CompleteRequest(<<t, i>>)

Spec == Init /\ [][Next]_vars

\* Threads run, bodies end, and MPI completes every request.
Fairness ==
  /\ WF_vars(MainStep)
  /\ \A th \in Thread \ {Mpi} : WF_vars(LoopStep(th))
  /\ WF_vars(LoopStep(Mpi) \/ MpiStep)
  /\ \A t \in Blocking, i \in {1, 2} : WF_vars(CompleteRequest(<<t, i>>))

FairSpec == Spec /\ Fairness

-----------------------------------------------------------------------------
\* A suspended task is not executed again before all its requests are complete,
\* although handles pass through globals and are tested in two steps.
ResumedWhenReady ==
  pc[Mpi] = "run" => \A i \in {1, 2} : <<cur[Mpi], i>> \notin pending

\* A task that has begun and not ended is alive and in one place: executed,
\* queued, or waiting in polling_queue or in the loop that tests it.  A thread
\* that has executed it, in this round or an earlier one, no longer counts.
SuspendedOnce ==
  \A t \in begun \ done :
    /\ t \notin freed
    /\ Cardinality({i \in DOMAIN mpiq : mpiq[i] = t})
         + Cardinality({i \in DOMAIN polling : polling[i].task = t})
         + (IF mt.cur.task = t THEN 1 ELSE 0)
         + Cardinality({th \in Thread : cur[th] = t /\ pc[th] \notin {"dec", "fin"}}) = 1

\* Suspension is invisible to the graph: the build implements the abstract
\* execution, where a task starts once and completes once, in dependence order,
\* and every spawn_and_wait returns.
Abstract == INSTANCE DagSpec WITH
  phase <- IF pc[Main] = "idle" THEN "idle" ELSE "exec",
  running <- begun \ done

ImplementsDag == Abstract!FairSpec

\* The part of it that fairness has no share in.
RefinesDag == Abstract!Spec

-----------------------------------------------------------------------------
(***************************************************************************)
(* The inductive invariant from which the safety properties follow.        *)
(***************************************************************************)

Executing == pc[Main] \notin {"idle", "built"}
Live == pc[Main] # "idle"

\* Thread th is inside execute() of cur[th] and still owes these decrements.
Owes(th) == IF pc[th] = "dec" THEN todo[th] \cup ({last[th]} \ {NoTask}) ELSE {}

\* The predecessors of t that have not yet released it.
Pending(t) ==
  {p \in Preds(graph, t) :
     p \notin done \/ \E th \in Thread : cur[th] = p /\ t \in Owes(th)}

IsReady(t) == t \in Work(graph) \ done /\ Pending(t) = {}

\* The ready tasks thread th alone knows of.
Hand(th) ==
  ({nxt[th]} \ {NoTask})
    \cup (IF pc[th] \in {"check", "run", "requeue"} THEN {cur[th]} \ {NoTask} ELSE {})
    \cup (IF pc[th] = "spawn" THEN todo[th] ELSE {})

MtestTask == [task : Task, comm : SUBSET (Task \X {1, 2})]

\* The tasks of a queue of mtest_tasks.
TaskOf(queue) == [i \in DOMAIN queue |-> queue[i].task]

\* Where a ready task can be, and the tasks that are there.
Place ==
  ({"hand", "stack"} \X Thread) \cup ({"mpiq", "polling", "test"} \X {Mpi})

In(p) ==
  CASE p[1] = "hand"    -> Hand(p[2])
    [] p[1] = "stack"   -> ToSet(stack[p[2]])
    [] p[1] = "mpiq"    -> ToSet(mpiq)
    [] p[1] = "polling" -> ToSet(TaskOf(polling))
    [] p[1] = "test"    -> {mt.cur.task} \ {NoTask}

MainLabel   == {"idle", "built", "spawn", "check", "run", "dec", "fin"}
WorkerLabel == {"check", "run", "dec", "fin"}
MpiLabel    == WorkerLabel \cup {"requeue", "poll", "pop", "test1", "test2"}

\* Type invariant: what each variable of the threads, tasks and queues can hold.
TypeOK ==
  /\ graph \in Graphs \cup {NoTask} /\ stored \in BOOLEAN /\ round \in Nat
  /\ ref \in [Task -> Int] /\ backup \in [Task -> Int]
  /\ freed \in SUBSET Task /\ suspend \in [Task -> BOOLEAN]
  /\ stack \in [Thread -> Seq(Task)] /\ mpiq \in Seq(Task) /\ polling \in Seq(MtestTask)
  /\ comm \in SUBSET (Task \X {1, 2})
  /\ mt \in [cur : MtestTask \cup {NoTest}, old : MtestTask \cup {NoTest}, flag1 : BOOLEAN]
  /\ pc \in [Thread -> MainLabel \cup MpiLabel]
  /\ cur \in [Thread -> Task \cup {NoTask}] /\ nxt \in [Thread -> Task \cup {NoTask}]
  /\ todo \in [Thread -> SUBSET Task] /\ last \in [Thread -> Task \cup {NoTask}]
  /\ begun \in SUBSET Task /\ done \in SUBSET Task /\ count \in [Task -> Nat]
  /\ pending \in SUBSET (Task \X {1, 2})

\* Which local variables are in use in which control state.
Control ==
  /\ pc[Main] \in MainLabel /\ pc[Mpi] \in MpiLabel
  /\ \A w \in Thread \ {Main, Mpi} : pc[w] \in WorkerLabel
  /\ \A th \in Thread :
       /\ todo[th] # {} => pc[th] \in {"spawn", "dec"}
       /\ last[th] # NoTask => pc[th] = "dec"
       /\ nxt[th] # NoTask => pc[th] = "fin"
       /\ pc[th] \in {"run", "requeue", "dec", "fin"} => cur[th] # NoTask
       /\ pc[th] \notin {"check", "run", "requeue", "dec", "fin"} => cur[th] = NoTask
       /\ pc[th] = "run" /\ th # Mpi => cur[th] \notin Blocking
  /\ pc[Mpi] = "requeue" => suspend[cur[Mpi]]
  /\ \A t \in Task : suspend[t] => t \in Blocking
  /\ comm # {} => pc[Mpi] = "requeue"
  /\ mt.cur = NoTest <=> pc[Mpi] \notin {"test1", "test2"}
  /\ Live \/ stored => graph \in Graphs

\* The history of a round.
Rounds ==
  /\ done \subseteq begun
  /\ Live => begun \subseteq Work(graph)
  /\ pc[Main] = "built" => begun = {}
  /\ pc[Main] = "idle" => begun = done /\ (stored => done = Work(graph))

\* Outside the wait loop nothing is ready, queued or owed.
Quiet ==
  ~Executing => /\ \A p \in Place : In(p) = {}
                /\ \A th \in Thread : Owes(th) = {}

\* A task that is queued or held is ready and in one place only, there once.
Places == \A p \in Place : \A t \in In(p) : IsReady(t)

OnePlace ==
  /\ \A p, q \in Place : p # q => In(p) \cap In(q) = {}
  /\ \A th \in Thread : IsInjective(stack[th])
  /\ IsInjective(mpiq) /\ IsInjective(TaskOf(polling))

\* The places of the tasks that have begun, and of those that have not.
Suspension ==
  /\ \A t \in begun \ done : \E p \in Place : t \in In(p)
  /\ \A th \in Thread :
       /\ pc[th] \in {"run", "requeue"} => cur[th] \in begun
       /\ pc[th] = "spawn" => todo[th] \cap begun = {}
       /\ pc[th] = "check" /\ th # Mpi => cur[th] \notin begun
       /\ nxt[th] \notin begun
       /\ ToSet(stack[th]) \cap begun = {}

\* A thread owes decrements for a task that has run, to successors of it, and
\* no other thread does.
Bodies ==
  /\ \A th \in Thread : Owes(th) # {} =>
       /\ cur[th] \in done
       /\ todo[th] \subseteq graph.succ[cur[th]]
       /\ last[th] \in Vertical(graph, cur[th]) \cup {NoTask}
  /\ \A th, x \in Thread :
       Owes(th) # {} /\ Owes(x) # {} /\ cur[th] = cur[x] => th = x

\* The reference counts: that of a ready task no longer matters.
Counts ==
  /\ pc[Main] = "built" => \A t \in graph.node : ref[t] = Indegree(graph, t)
  /\ Executing =>
       /\ \A t \in done : Pending(t) = {}
       /\ \A t \in Work(graph) \ done : Pending(t) # {} => ref[t] = Cardinality(Pending(t))
       /\ ref[graph.end] = Cardinality(Pending(graph.end)) + 1

\* A stored graph can be executed again.
Stored ==
  stored =>
    /\ \A t \in graph.node : backup[t] = Indegree(graph, t)
    /\ \A t \in done : ref[t] = backup[t]
    /\ pc[Main] = "idle" => ref[graph.end] = backup[graph.end]

\* What has been deleted, and who is about to delete what.
Alive ==
  /\ stored => freed \cap graph.node = {}
  /\ Live => freed \cap (graph.node \ done) = {}
  /\ Live /\ ~stored =>
       \A th \in Thread : pc[th] \in {"dec", "fin"} /\ cur[th] \in graph.node \ done =>
         th = Mpi /\ pc[th] = "fin" /\ suspend[cur[th]]

\* The handle of a request that is not complete is with its task.
Requests ==
  \A r \in pending :
    \/ pc[Mpi] = "requeue" /\ r \in comm /\ r[1] = cur[Mpi]
    \/ \E i \in DOMAIN polling : r \in polling[i].comm /\ r[1] = polling[i].task
    \/ /\ r \in mt.cur.comm /\ r[1] = mt.cur.task
       /\ ~(pc[Mpi] = "test2" /\ r[2] = 1 /\ mt.flag1)

MpiInv ==
  /\ TypeOK /\ Control /\ Rounds /\ Quiet /\ Places /\ OnePlace /\ Suspension
  /\ Bodies /\ Counts /\ Stored /\ Alive /\ Requests
=============================================================================
