---------------------------- MODULE RuntimeLife ----------------------------
(***************************************************************************)
(* The life of the runtime: aceMesh_runtime_init creates the schedulers    *)
(* and their threads, spawn_and_wait uses them, aceMesh_runtime_shutdown   *)
(* closes them, and a program may start the runtime again.  The statics    *)
(* that survive a shutdown (is_run, close_all_threads, index, schedulers)  *)
(* are kept as the code keeps them.                                        *)
(*                                                                         *)
(* The tasks of a round are released as in DagExec, in one step; a queue   *)
(* is a set, for order plays no role here.                                 *)
(***************************************************************************)
EXTENDS Integers, FiniteSets

CONSTANTS
  ThreadNums,   \* the arguments of aceMesh_runtime_init
  Task,         \* tasks of a round
  After,        \* the task each task releases, NoTask for the end task
  NoTask,
  None,         \* NULL, or the handle 0 of a thread that was not created
  MayFail,      \* whether pthread_create may fail
  MaxInit,      \* bound: calls of aceMesh_runtime_init
  MaxRound      \* bound: calls of spawn_and_wait

\* The numbers of threads have a greatest one.
ASSUME ThreadNumsAssumption ==
  ThreadNums \subseteq Nat \ {0} /\ \E n \in ThreadNums : \A m \in ThreadNums : m <= n

\* The tasks of a round form chains: joins and forks are DagExec's.
ASSUME AfterAssumption ==
  /\ IsFiniteSet(Task) /\ NoTask \notin Task
  /\ After \in [Task -> Task \cup {NoTask}]
  /\ \A t, u \in Task : After[t] = After[u] => t = u \/ After[t] = NoTask


VARIABLES
  is_run, close_all_threads,
  index,        \* scheduler objects created so far: each is named by its number
  num_threads,
  schedulers,   \* the table, at first with NULLs
  threads,      \* handles of the threads, as the scheduler they were given
  alive,        \* scheduler objects that have not been deleted
  queue,        \* private_queue of every scheduler object
  wpc,          \* what the thread of each scheduler object does
  wcur,         \* the task it executes
  mpc, i, mcur, \* the main thread, its loop counter and its task
  place,        \* affinity ids of the tasks of this round
  left,         \* tasks that have not released the end task
  inits, rounds

statics == <<is_run, close_all_threads, index, num_threads>>
tables  == <<schedulers, threads, alive>>
work    == <<queue, wpc, wcur, mcur, place, left>>
vars == <<statics, tables, work, mpc, i, inits, rounds>>

Slots == 0 .. num_threads - 1
MaxThreads == CHOOSE n \in ThreadNums : \A m \in ThreadNums : m <= n
Object == 0 .. MaxInit * MaxThreads - 1
Roots == {t \in Task : \A u \in Task : After[u] # t}

\* NULL is no object.
ASSUME BoundsAssumption == MaxInit \in Nat /\ MaxRound \in Nat /\ None \notin Object

-----------------------------------------------------------------------------
\* create_worker_thread up to its loop: the tables and the main scheduler.
Start(n) ==
  /\ mpc = "out" /\ inits < MaxInit
  /\ num_threads' = n
  /\ schedulers' = [k \in 0 .. n - 1 |-> IF k = 0 THEN index ELSE None]
  /\ threads' = [k \in 1 .. n - 1 |-> None]
  /\ alive' = alive \cup {index}
  /\ index' = index + 1
  /\ is_run' = FALSE
  /\ i' = 1
  /\ inits' = inits + 1
  /\ mpc' = "create"
  /\ UNCHANGED <<close_all_threads, work, rounds>>

\* One scheduler and its thread; new_thread returns 0 if it cannot create it,
\* and nobody looks.
CreateWorker ==
  /\ mpc = "create" /\ i < num_threads
  /\ schedulers' = [schedulers EXCEPT ![i] = index]
  /\ alive' = alive \cup {index}
  /\ index' = index + 1
  /\ \/ /\ threads' = [threads EXCEPT ![i] = index]
        /\ wpc' = [wpc EXCEPT ![index] = "gate"]
     \/ MayFail /\ UNCHANGED <<threads, wpc>>
  /\ i' = i + 1
  /\ UNCHANGED <<is_run, close_all_threads, num_threads, queue, wcur, mcur, place, left,
                 mpc, inits, rounds>>

OpenGate ==
  /\ mpc = "create" /\ i = num_threads
  /\ is_run' = TRUE
  /\ mpc' = "ready"
  /\ UNCHANGED <<close_all_threads, index, num_threads, tables, work, i, inits, rounds>>

-----------------------------------------------------------------------------
\* spawn_and_wait of a graph whose tasks are placed by their affinity ids.
SpawnAndWait(p) ==
  /\ mpc = "ready" /\ rounds < MaxRound
  /\ rounds' = rounds + 1
  /\ place' = p
  /\ left' = Cardinality(Task)
  /\ queue' = [o \in Object |->
       queue[o] \cup {t \in Roots : schedulers[p[t]] = o}]
  /\ mpc' = "wait"
  /\ UNCHANGED <<statics, tables, wpc, wcur, mcur, i, inits>>

\* Mutant: the next task goes to the scheduler with that number.
ReleaseByNumber(t) ==
  /\ left' = left - 1
  /\ queue' = IF After[t] = NoTask THEN queue
              ELSE [queue EXCEPT ![place[After[t]]] = @ \cup {After[t]}]

\* A task ends: it releases the next, which goes to the scheduler of its id.
Release(t) ==
  /\ left' = left - 1
  /\ queue' = IF After[t] = NoTask THEN queue
              ELSE [queue EXCEPT ![schedulers[place[After[t]]]] = @ \cup {After[t]}]

MainTake ==
  /\ mpc = "wait" /\ left > 0 /\ mcur = NoTask
  /\ \E t \in queue[schedulers[0]] :
       /\ mcur' = t
       /\ queue' = [queue EXCEPT ![schedulers[0]] = @ \ {t}]
  /\ UNCHANGED <<statics, tables, wpc, wcur, place, left, mpc, i, inits, rounds>>

MainExecute ==
  /\ mpc = "wait" /\ mcur # NoTask
  /\ Release(mcur)
  /\ mcur' = NoTask
  /\ UNCHANGED <<statics, tables, wpc, wcur, place, mpc, i, inits, rounds>>

MainReturn ==
  /\ mpc = "wait" /\ left = 0 /\ mcur = NoTask
  /\ mpc' = "ready"
  /\ UNCHANGED <<statics, tables, work, i, inits, rounds>>

-----------------------------------------------------------------------------
Goto(o, label) == wpc' = [wpc EXCEPT ![o] = label]

PassGate(o) ==
  /\ wpc[o] = "gate" /\ is_run
  /\ Goto(o, "test")
  /\ UNCHANGED <<statics, tables, queue, wcur, mcur, place, left, mpc, i, inits, rounds>>

TestClose(o) ==
  /\ wpc[o] = "test"
  /\ Goto(o, IF close_all_threads THEN "ended" ELSE "take")
  /\ UNCHANGED <<statics, tables, queue, wcur, mcur, place, left, mpc, i, inits, rounds>>

WorkerTake(o) ==
  /\ wpc[o] = "take"
  /\ IF queue[o] = {}
     THEN Goto(o, "test") /\ UNCHANGED <<queue, wcur>>
     ELSE \E t \in queue[o] :
            /\ queue' = [queue EXCEPT ![o] = @ \ {t}]
            /\ wcur' = [wcur EXCEPT ![o] = t]
            /\ Goto(o, "execute")
  /\ UNCHANGED <<statics, tables, mcur, place, left, mpc, i, inits, rounds>>

WorkerExecute(o) ==
  /\ wpc[o] = "execute"
  /\ Release(wcur[o])
  /\ wcur' = [wcur EXCEPT ![o] = NoTask]
  /\ Goto(o, "test")
  /\ UNCHANGED <<statics, tables, mcur, place, mpc, i, inits, rounds>>

-----------------------------------------------------------------------------
\* Mutant: the gate is closed with the runtime.
GateShut == FALSE

\* close_worker_thread leaves the gate as it is.
GateKept == is_run

CloseAll ==
  /\ mpc = "ready"
  /\ close_all_threads' = TRUE
  /\ is_run' = GateKept
  /\ i' = 1
  /\ mpc' = "join"
  /\ UNCHANGED <<index, num_threads, tables, work, inits, rounds>>

\* Mutant: the thread is not waited for.
JoinedNot(o) == TRUE

\* pthread_join returns.
Joined(o) == wpc[o] = "ended"

JoinWorker ==
  /\ mpc = "join" /\ i < num_threads /\ threads[i] # None
  /\ Joined(threads[i])
  /\ alive' = alive \ {schedulers[i]}
  /\ i' = i + 1
  /\ UNCHANGED <<statics, schedulers, threads, work, mpc, inits, rounds>>

\* pthread_join of a handle that is 0 is undefined: it crashes or returns.
JoinNothing ==
  /\ mpc = "join" /\ i < num_threads /\ threads[i] = None
  /\ \/ mpc' = "crashed" /\ UNCHANGED <<alive, i>>
     \/ alive' = alive \ {schedulers[i]} /\ i' = i + 1 /\ UNCHANGED mpc
  /\ UNCHANGED <<statics, schedulers, threads, work, inits, rounds>>

CloseEnd ==
  /\ mpc = "join" /\ i = num_threads
  /\ alive' = alive \ {schedulers[0]}
  /\ mpc' = "out"
  /\ UNCHANGED <<statics, schedulers, threads, work, i, inits, rounds>>

-----------------------------------------------------------------------------
Init ==
  /\ is_run = FALSE /\ close_all_threads = FALSE /\ index = 0 /\ num_threads = 1
  /\ schedulers = [k \in {} |-> None] /\ threads = [k \in {} |-> None] /\ alive = {}
  /\ queue = [o \in Object |-> {}]
  /\ wpc = [o \in Object |-> "none"] /\ wcur = [o \in Object |-> NoTask]
  /\ mpc = "out" /\ i = 1 /\ mcur = NoTask
  /\ place = [t \in Task |-> 0] /\ left = 0 /\ inits = 0 /\ rounds = 0

MainStep ==
  \/ \E n \in ThreadNums : Start(n)
  \/ CreateWorker \/ OpenGate
  \/ \E p \in [Task -> Slots] : SpawnAndWait(p)
  \/ MainTake \/ MainExecute \/ MainReturn
  \/ CloseAll \/ JoinWorker \/ JoinNothing \/ CloseEnd

WorkerStep(o) == PassGate(o) \/ TestClose(o) \/ WorkerTake(o) \/ WorkerExecute(o)

Next == MainStep \/ \E o \in Object : WorkerStep(o)

Spec == Init /\ [][Next]_vars

\* Every thread gets processor time.
FairSpec == Spec /\ WF_vars(MainStep) /\ \A o \in Object : WF_vars(WorkerStep(o))

-----------------------------------------------------------------------------
\* The slots of the tables: none before the first start.
Filled == IF inits = 0 THEN {} ELSE Slots

TypeOK ==
  /\ is_run \in BOOLEAN /\ close_all_threads \in BOOLEAN
  /\ inits \in 0 .. MaxInit /\ rounds \in 0 .. MaxRound
  /\ index \in Nat /\ num_threads \in ThreadNums \cup {1} /\ i \in 1 .. num_threads
  /\ schedulers \in [Filled -> Object \cup {None}]
  /\ threads \in [Filled \ {0} -> Object \cup {None}]
  /\ alive \subseteq Object
  /\ queue \in [Object -> SUBSET Task]
  /\ wpc \in [Object -> {"none", "gate", "test", "take", "execute", "ended"}]
  /\ wcur \in [Object -> Task \cup {NoTask}] /\ mcur \in Task \cup {NoTask}
  /\ mpc \in {"out", "create", "ready", "wait", "join", "crashed"}
  /\ place \in [Task -> Nat] /\ left \in Nat

\* Slots of the current life that hold a scheduler: filled one by one by the
\* creating thread, emptied one by one by the closing one, the first slot last.
Held(k) ==
  CASE mpc = "create" -> k < i
    [] mpc \in {"join", "crashed"} -> k = 0 \/ k >= i
    [] mpc = "out" -> FALSE
    [] OTHER -> TRUE

\* The table holds the newest objects in order; whatever is still alive is in it.
Table ==
  /\ inits = 0 => mpc = "out" /\ alive = {}
  /\ inits > 0 =>
       /\ schedulers[0] \in Object
       /\ \A k \in Slots : schedulers[k] = IF mpc = "create" /\ k >= i THEN None
                                            ELSE schedulers[0] + k
       /\ index = schedulers[0] + IF mpc = "create" THEN i ELSE num_threads
       /\ \A k \in Slots \ {0} : threads[k] \in {None, schedulers[k]}
       /\ alive = {schedulers[k] : k \in {k \in Slots : Held(k)}}

\* Every object has a number: the bound on them is never met.
Numbered == index + (IF mpc = "create" THEN num_threads - i ELSE 0) <= inits * MaxThreads

\* A thread that runs is that of a slot whose scheduler has not been deleted, and it
\* has passed the gate only once the table was complete.
Running ==
  /\ mpc = "create" => ~is_run
  /\ \A o \in Object : wpc[o] \notin {"none", "ended"} =>
       /\ \E k \in Slots \ {0} : Held(k) /\ threads[k] = o
       /\ mpc = "create" => wpc[o] = "gate"

\* A task is in one place, if anywhere.
OnePlace ==
  /\ \A o \in Object : wpc[o] = "execute" <=> wcur[o] # NoTask
  /\ \A o \in Object : wcur[o] # NoTask => \A p \in Object :
       wcur[o] \notin queue[p] /\ (wcur[o] = wcur[p] => o = p)
  /\ \A o \in Object : mcur \notin queue[o] /\ (mcur # NoTask => mcur # wcur[o])
  /\ \A o, p \in Object : o # p => queue[o] \cap queue[p] = {}

Active(t) == mcur = t \/ \E o \in Object : t \in queue[o] \/ wcur[o] = t

\* S are the tasks that have not ended: with a task all that follow it, none that
\* precedes one that has been released.
Unended(S) ==
  /\ left = Cardinality(S)
  /\ \A t \in S : After[t] \in S \cup {NoTask}
  /\ \A t \in Task : Active(t) => t \in S /\ \A u \in S : After[u] # t

\* The round is over when spawn_and_wait returns.
Rounds ==
  /\ \E S \in SUBSET Task : Unended(S)
  /\ left > 0 \/ mcur # NoTask => mpc = "wait"
  /\ mpc = "wait" => place \in [Task -> Slots]

LifeInv == TypeOK /\ Table /\ Numbered /\ Running /\ OnePlace /\ Rounds

\* A thread that has not ended has its scheduler, and one that executes a task
\* finds every scheduler it may have to push to in the table: schedulers are
\* deleted one by one while other threads still run.
SchedulersAlive ==
  \A o \in Object :
    /\ wpc[o] \notin {"none", "ended"} => o \in alive
    /\ wpc[o] = "execute" => \A k \in Slots : schedulers[k] \in alive

\* The thread of a slot serves its queue: it exists, and it belongs to the first
\* start, for close_all_threads stays set.
Served(k) == k = 0 \/ (threads[k] # None /\ inits = 1)

\* spawn_and_wait returns if every task is placed where a thread serves it.
RoundsEnd ==
  (mpc = "wait" /\ \A t \in Task : Served(place[t])) ~> mpc # "wait"

\* The shutdown ends, whatever the threads are doing when it is called: before
\* the gate, between the test and the queue, in a second life of the runtime.
Stops == mpc = "join" ~> mpc \in {"out", "crashed"}
=============================================================================
