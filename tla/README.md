# AceMesh runtime: specification and verification

AceMesh (`src/DAG_C_Interface`) executes loops as graphs of tasks. The program
declares what every task of a loop reads and writes; `task_dag_graph` derives
the dependences; `spawn_and_wait` hands the roots to a set of threads, which
execute tasks and release their successors through reference counts until the
end task is released. A graph can be kept and executed again (*reuse*).

Unless said otherwise the specifications describe the **default build**:
`scheduler_common.h` defines `STATIC_STACK_STRATEGY` (one private stack per
thread, no stealing), the makefile `NOT_MPI_STRATEGY` and `_RETURN_VERTICAL`.
`MpiExec` describes the MPI build, `HierTask` the one with thread groups,
`GraphCheck`, `Partition`, `MemPool` and `RaceTrace` the options that add a part.
Assertions are compiled in.

## 1. Inventory

| part | source | state | operations | module |
|---|---|---|---|---|
| task | `task.h`, `task.cpp` | `ref_count_t` (atomic), `backup_ref`, `reused`, `stored`, `affinity_id`, `next` | increment, decrement, store and restore the count; `spawn`, `init_spawn`, `wait_for_all` | `DagExec` |
| aceMesh_task | `aceMesh_task.h/.cpp` | `successor_tasks`, `vertical_task` | `add_successor`, `set_vertical_task`, `add_end_successor`, `execute`, `store_info` | `DagExec`, `DagBuild` |
| scheduler | `scheduler.h/.cpp` | `schedulers`, per thread `private_queue`; `is_run`, `close_all_threads`, `index` | `create_worker_thread`, `worker_kernel_func`, `main_kernel_func`, `spawn_to_id`, `init_spawn`, `close_worker_thread` | `DagExec`, `RuntimeLife` |
| runtime | `aceMesh_runtime.cpp`, `aceMesh_scheduler_init_v2.cpp` | the environment, `core_ids`, the vector `addrs` | initialisation, binding to cores, registration, shutdown | `Startup`, `RuntimeLife`, `Registration` |
| stack | `aceMesh_stack.h/.cpp` | `task_pool`, `task::next` | `push`, `try_push`, `try_pop` | `TaskStack` |
| graph construction | `task_dag_graph.h/.cpp` | `addr_task` (last writer and readers of an address), `one_virtual_task_tuples`, `end_tasks`, `need_spawn_tasks`, `endTask` | `begin_split_task`, `register_task`, `end_split_task`, `end_construct_dag`, `reset_task_graph` | `DagBuild` |
| graph checker | `dag_graph_check.cpp`, `task_dag_graph.cpp` | `ref_count_for_check`, flags per address | `check_graph_bfs`, `update_write_addr`, warnings of `end_split_task` | `GraphCheck` |
| partition | `disjoin_set.cpp`, `task_dag_graph.cpp` | disjoint sets over the roots, `group_id` | `make_set`, `find_set`, `union_set`, `get_sep_data` | `Partition` |
| reuse table | `task_dag_graph.cpp` | `dag_reuse_flag`, `dag_reuse_cnt`, `dag_instance_map`, `curr_dagNo` | `dag_start`, `spawn_and_wait`, `_store_dag_info`, `_resume_from_buffer`, `free_tasks` | `DagReuse` |
| MPI tasks | `scheduler.cpp`, `aceMesh_clang.cpp` | `mpi_queue`, `polling_queue`, the globals `comm1`, `comm2` | `mpi_worker_kernel_func`, suspension, polling, resumption | `MpiExec` |
| thread group | `aceMesh_hierarchy_task.h`, `splitter.h`, `thread_group.cpp` | ranges, one control struct per sub-thread, condition variables | `execute`, `split`, `run_task`, `wait_all_tasks` | `HierTask` |
| C interface | `aceMesh_clang.cpp` | `vec`, `ci_task`, `ci_args`, objects, `task_count` | `acemesh_push_*`, `acemesh_task_generator`, `acemesh_malloc_obj`, tile functions, strided copies | `ClientC`, `TileLoop` |
| memory pool | `MemPool.c` | lists of free and allocated blocks | `acemesh_myalloc_aligned_*`, `ReInitial` | `MemPool` |
| race trace | `DataRaceTrace.cpp` | numbers of the tasks, latest reader and writer of an address, the task of a thread | `__AddTask2Trace`, `__AddData2Trace`, `__EnterTaskExec`, `__ReadTrace`, `__WriteTrace`, the two for halos, `spawn_and_wait_wrap` | `RaceTrace` |
| examples | `examples/` | arrays | 26 programs of 2d5p, 3d7p, fdtd, adifull, cholesky | `Programs` |
| other queues, stealing, concurrent construction | `aceMesh_stack.cpp`, `scheduler.cpp`, `concurrent_*` | | | section 6 |

**Interaction.** One thread, *Main*, calls the library. It builds a graph alone
(no worker sees a task before it is spawned), then shares with the workers the
reference counts, the flags and memory of the tasks, the stacks (anyone pushes,
only the owner pops) and `close_all_threads`. There are no messages and no
locks: the atomic decrement of a reference count is the only synchronisation
between tasks, and one count, that of the end task, is how Main learns that a
graph is finished. The MPI build adds a thread that alone executes blocking
tasks, fed by an atomic queue; a thread group adds, per worker, sub-threads that
talk to it with mutexes and condition variables. The C interface sits above: it
allocates what tasks carry, and gives it back when tasks are deleted.

**Hard behaviours.** Decrements and pushes of several threads interleave in any
order; a thread still holds its task after it has let Main go on; flags decide
who deletes a task; counts are restored for the next round while the current
one runs; the shutdown overlaps the last step of a worker; threads may be
created, closed and started again; a suspended task travels through globals and
queues before it is run again; wake-ups may get lost or come unasked; declared
accesses stand for real ones. Nothing is persisted or sent.

**What makes each part correct.** Execution: every task once, after its
predecessors; the wait ends exactly when the graph is finished; a stored graph
is ready again; no task is used after its deletion or kept for ever; every wait
ends. Construction: conflicting accesses of different loops are ordered by the
graph; the graph is acyclic; counts are in-degrees. Stack: LIFO for one popper
and many pushers. Reuse table: a stored graph is executed only when the program
asked for it. Life of the runtime: no thread uses a scheduler that is gone, and
every shutdown ends. MPI: a task resumes only when its requests are complete.
Thread groups: a range is executed completely before successors are released.
C interface: a task runs with the arguments and accesses it was given, memory is
returned once. Programs: the graph orders all that really conflicts.

`PROJECT.json` lists the hazards line by line.

## 2. Modules

| module | what it is |
|---|---|
| `TaskGraph` | the graph as a record (`node`, `end`, `succ`, `vert`, `aff`), in-degrees, roots, and `WellFormed`, what the builder guarantees |
| `DagExec` | the execution of graphs by Main and the workers, access by access |
| `DagSpec` | the abstract promise: submit a graph, start and complete tasks in dependence order, return after the last |
| `DagBuild` | the construction of a graph from the declared accesses |
| `GraphCheck`, `Partition` | what a debug build checks of a graph, what a partitioned build makes of it |
| `TaskStack`, `Lifo` | the stack of a thread, exchange by exchange, and its abstract promise |
| `DagReuse`, `DagService` | the tables that decide between a new and a stored graph, and the abstract promise of `dag_start` and `spawn_and_wait` |
| `MpiExec` | execution with blocking tasks and the MPI thread |
| `RuntimeLife`, `Startup`, `RuntimeStart` | threads and tables over several lives of the runtime; settings and cores; both together |
| `HierTask` | a hierarchy task and the sub-threads of its group |
| `ClientC` | a program that uses the C interface, block of memory by block |
| `MemPool`, `Registration`, `ClientLibrary` | the memory pool; the registration functions of the C++ interface; both beside `ClientC` |
| `TileLoop` | tile functions and strided copies around a tile's body |
| `ProgramText`, `Programs`, `RaceTrace` | texts of programs, their execution, and their execution in a build with the race tracer |
| `Stencils`, `Fdtd`, `Adi`, `Cholesky` | the example programs as texts |
| `DagExecProofs`, `DagBuildProofs`, `TaskStackProofs`, `DagReuseProofs`, `MpiExecProofs`, `RuntimeLifeProofs`, `HierTaskProofs`, `ClientCProofs` | theorems (`HierTaskProofs` also about `TileLoop`, `DagBuildProofs` about `GraphCheck` and `Partition`, `RuntimeLifeProofs` about `Startup`, `Programs` and `RaceTrace`, `ClientCProofs` about `MemPool` and `Registration`) |
| `MC*` | instances for TLC |

**How they compose.** `DagBuild` and `DagExec` meet in `TaskGraph`: the first
proves of every finished graph what the second assumes of it
(`FinishedWellFormed`, `ExecAssumption`). `GraphCheck` and `Partition` extend
`DagBuild` and look at every graph it finishes. `TaskStack` implements `Lifo`, the
reason why `DagExec` may push and pop in one step. `DagExec` and `MpiExec` both
implement `DagSpec`; `DagReuse`, which implements `DagService`, decides which graph
is executed next, while `DagExec` allows any order and shows that a graph can be
executed again. `Programs` uses these promises: a task may run when the tasks of
earlier loops that conflict with it have run (`DagBuild` and `DagExec`), `dag_start`
answers as `DagService` says.

### DagExec

State and code: `graph` is what `need_spawn_tasks` and `endTask` reach; `saved`
the instance of `dag_instance_map`; `alloc` the task objects that exist; `ref`,
`backup`, `reused` the fields of `task`; `stack` the private queues, top last;
`toSpawn` the loop variable of `spawn()`. Per thread, `pc` is the place in the
kernel function and `execute()`, `cur` is `tmp`, `todo`/`last` what is left of
`successor_tasks`/`vertical_task`, `hand` a task whose count has just reached
zero and that is not queued yet, `nxt` the return value of `execute()`. `done`
is a history variable: the bodies that have run in this round.

One action is one access to something another thread can see:

* Main: `BuildFresh` or `Resume` -> `BeginSpawn` (the extra reference on the end
  task) -> `SpawnRoot`* -> `EndSpawn` -> the loop below -> `DeleteEnd` ->
  `RestoreEnd` -> again, or `FreeTasks` -> `CloseWorkers` -> `JoinWorkers`.
* Every thread: `Check` -> `Pop` or `PopNothing` -> `RunBody` -> (`Decrement`,
  `Spawn`)* -> `DecrementVertical` -> `Finish` -> `Check`.

Abstractions: a task body is one step that touches nothing of the runtime; a
push and a pop are one step each (a `try_pop` that loses its swap to a push goes
round the loop once more: a stutter); building is one step; a graph object is
stored for reuse at most once; task addresses of a deleted graph may be used
again by a later one, which `BuildFresh` allows. An uninitialised `bool` or
`int` takes any value of `GarbageFlag`, `GarbageRef`; the flag of a deleted task
reads as either value. All tasks have an affinity id that names a thread, as
`set_affinity_id` in the C interface gives them; the default build has no shared
queue for the others (`enqueue` asserts).

### DagBuild

State and code: `succ`, `vert`, `ref`, `aff` are the fields of the tasks, numbered
as they are created; `w` and `r` are `addr_task`, the last writer of an address and
the readers since then; `tuples` is `one_virtual_task_tuples`, `linked` says that
`sum_pre` is not zero, `ends` and `roots` are `end_tasks` and `need_spawn_tasks`,
`id` the counter of `affinity_id_generator`. History: `past`, the accesses recorded
so far, and `loop`, the loop of a task (named by its first task).

One action is one call, or one iteration over the declared accesses:
`BeginSplitTask` -> (`RegisterTask` -> `DeclareAccess`* -> `EndRegister`)* ->
`EndSplitTask` -> `RecordAccess`* -> `RecordedAll` -> the next loop, or
`EndConstructDag` -> `StoreDagInfo` -> `ResetTaskGraph`. `DeclareAccess` contains
all of `build_releationship`: which tasks are the sources, whether a source keeps
the new task as successor or as vertical task, and what `add_successor` and
`set_vertical_task` do with an edge that exists. `EndConstructDag` contains
`add_end_successor` for every end task. `StoreDagInfo` states the set `store_info`
reaches: the least one that contains the roots and what they point to.

Abstractions: addresses are those `get_true_addr` returns; a neighbour is an access
with `near`, whichever way `get_neighbor` finds it; vectors of successors are sets
(see `TaskGraph`). The tasks of a graph may declare any accesses, also conflicting
ones in one loop; only `DependencesKept` assumes a loop's tasks to be independent,
and only for the address in question.

### TaskStack

State and code: `top` is `task_pool`, `next` the field of the tasks; per thread `pc`
is the place in `push`, `try_push` or `try_pop`, `hand` the argument of a push,
`old`/`new` are `old_top`/`new_top`. `list` is history: the tasks pushed and not
popped. One action is one access to `task_pool` or to a `next` pointer: `PushBegin`
-> `PushRead` -> `PushLink` -> `PushDone` or, if the exchange fails, `PushRetry` (or
`TryPushFails`); `PopRead` -> `PopNext` -> `PopDone` or `PopFails`. `fresh` and `out`
are the environment, a stored graph: each task is pushed once in a round, by any
thread, and the next round (`NewRound`) starts when all have been popped, which is
what the end task guarantees (`AllDone`). `Poppers` is the set of threads that pop:
the owner only in the default build. Accesses are sequentially consistent, as the
locked exchange and the store order of x86 make them here.

### DagReuse

State and code: `curr`, `flag`, `vec`, `inst` are `curr_dagNo`, `dag_reuse_flag`, the
two parameter maps and `dag_instance_map`; `cnt` is `dag_reuse_cnt` by what the code
tells apart: no entry, -1 (`new`), anything else (`used`). `built` stands for
`need_spawn_tasks` and `end_tasks`, as the set of loops whose tasks they hold. The
program is `phase`, `asked`, `started`: as in the examples, `dag_start`, the loops of
the DAG if the answer is 0, `spawn_and_wait`. Loops of no DAG are executed before the
first `dag_start`, or at any time if `Bare`. A return path of `dag_start`, and a branch
of `spawn_and_wait`, is an action: `StartFirst`, `StartOther`, `StartReuse`;
`SpawnStored`, `SpawnAndStore`, `SpawnOnce`. The execution of the graph is part of
them (`AllDone` and `StoredReady` of `DagExec`), and so is the deletion of an end task
that was not marked (`Marks`). Parameters are equal or not; a double that is not a
number differs from itself, so such a DAG is never reused, as in `StartOther`.

### GraphCheck and Partition

`CheckGraphBfs` is the loop of `check_graph_bfs`, turn by turn (`Turns`): a queue of tasks,
a copy of the counts. `UpdateWriteAddr` is one turn of the flags behind the warnings of
`end_split_task`. `Partition` follows `union_set` and the disjoint sets through the
registration of every task (`FindSet`, `Compressed`), task by task and predecessor
by predecessor; it is computed from the finished graph, for which the order of the
edges into a task is the order of their sources. The check is a debug build's, the
partition that of `AUTO_PARTITION`.

### MpiExec

The build with `EXTRA_THREAD` and `MTEST_LIGHT`. Schedulers work as in `DagExec`, in
larger steps: a loop test with its pop, a decrement with its push. The extra
thread's steps are those of `mpi_worker_kernel_func`: `SuspendBody` (the body ends early,
`Kinds` are the handles it leaves in `comm1` and `comm2`), `Requeue` (no handles) or
`PollBegin`, `TestFirst`, `TestSecond` (the two `MPI_Test` calls, one handle at a time),
`PopMpi`. MPI itself is external: `CompleteRequest` may happen at any time. A task
counts as started from its first execution to its last.

### RuntimeLife and Startup

`RuntimeLife` keeps the statics that outlive a shutdown (`is_run`,
`close_all_threads`, `index`, `schedulers`) and does not reset what the code does
not reset. `Start` and `CreateWorker` are `aceMesh_runtime_init` and
`create_worker_thread` (a thread may fail to be created), `OpenGate` sets `is_run`,
`CloseAll`, `JoinWorker` and `CloseEnd` are the shutdown. Workers: `PassGate`,
`TestClose`, `WorkerTake`, `WorkerExecute`. The tasks of a round are three, `After`
says which one releases which.

`Startup` translates `get_env_settings` and the two initialisation functions as
operators: numbers of threads, sizes of groups, the list of cores, and the core
every thread is bound to, in the builds with and without thread groups and with the
extra thread. A failed assertion is the value `Failed`. `StartupAssumption` has one condition
the code does not check: a program asks for fewer threads than `MAX_THREADS`, the length of
`core_ids`. `RuntimeStart` looks at the settings before the first start.

### HierTask

One critical section, or what lies between two, is a step; a wait on a condition
variable is two, so that a signal can come before, and a wake-up without a signal
(`SpuriousReturn`, `SpuriousWake`) can come at any time. `Split` is the splitter's
arithmetic: chunks per dimension, the last one cut off at the end of the range.
`executed` counts how often each point was executed.

### ClientC, MemPool and Registration

`heap` says of every block of memory what it holds: the copied arguments of a task,
an object, or nothing. `Push`, `Generate`, `SetType`, `AffinityFromArraytile`,
`BeginSplit`, `EndSplit`, `Spawn`, `Begin`, `Body`, `Release`, `Delete`, `Waited`,
`Shutdown` are the calls and steps; the tasks of a graph run in any order and
overlap, since dependences are the matter of other modules. `want` is history: what
the program declared and passed. `Waited` frees the objects and clears what the
code clears, in its order.

`MemPool` and `Registration` are sequential: a state and a function for each call.
Their properties range over all sequences of calls up to a bound (`ClientLibrary`).
`PoolServes` asks that what the pool gives lies in its blocks, overlaps nothing given
since the last `ReInitial` and is aligned, and that a program which repeats its requests
gets the same memory in every round, without another `malloc`. `PoolAssumption` has one
condition the code does not check: a request fits in an empty block (`UNITSIZE`, 20 MB).

### TileLoop

A loop nest as the compiler of the C interface generates it: number and bounds of
the tiles, the fetch of a tile in strided blocks, expansion to the size of a full
tile, the body, compression, write back. The arithmetic is the code's, with C's
division and remainder for negative numbers.

### Programs and the examples

A text is the sequence of calls a program makes: loops with the declared reads and
writes of every task and its body, `dag_start`, waits. Bodies are sequences of
assignments to array elements; arithmetic is replaced by an expression that tells
operands and their order apart, modulo 9973, so that a wrong order shows (`Value`, `Do`).
Bodies, declared addresses and neighbour functions are translated separately, for
whether they fit is the question. Each text has the serial version the example's
`check()` compares with. OpenMP versions have loops whose iterations conflict with
nothing in the same loop and wait at its end. `began`, the arrays when a wait began to
execute its loops, is a history variable.

`Programs` states what it needs of its texts, and TLC evaluates it for all of them:
`TextsAssumption` (they are texts, and a `dag_start` is followed by a wait),
`ParallelLoops` (the tasks of one loop do not conflict as declared) and
`DeclaredAccesses`: of two tasks with no wait between them that really touch the same
element, the later one depends on the other through declared addresses, perhaps through
others of the loops between. It says nothing of executions, only of what a program
declares; that it is enough is what section 4 proves.

`RaceTrace` adds the build with `DATA_RACE_TRACE`, in which the bodies of the tasks call the
tracer. `RegisterTraced` numbers the tasks and makes records for the addresses they declare,
`WaitedTraced` clears both. `Enter` and `Leave` are the begin and the end of a task on a
thread, and between them each access to a record is an action: `Call` searches the tables,
`CheckRead` and `CheckWrite` compare, `Compare`, `Reread` and `Store` are the macro `MAX`
and the assignment, which no lock holds together. `accessed`, `earlier` and `lost` are
history: the calls that have updated a record, those of them before the call of a thread
began, and the records that have lost an update. The examples are compiled without the
tracer, so the traced programs are small ones of `MCPrograms`: what the order of the graph
forces is what their tasks declare, and what they trace need not agree with it.

## 3. Runs

| run | instance | checks |
|---|---|---|
| `exec` | 3 threads; graphs of five, two and four tasks: vertical edges, a join and a fork over the three threads, independent tasks, two roots with two joins; 3 rounds; with fairness | `IInv` (the inductive invariant), `NoDangling`, `NoLeak`, `ShutsDown`, and the refinement `RefinesDagSpec`, `ImplementsDagSpec` |
| `build` | graphs of three tasks with two accesses a loop on 2 addresses (symmetric), and of four with one access a loop of every type on one address | `BuildInv` (the inductive invariant), `NoFalseDependence`, `FinishedWellFormed`, `DependencesKept`; of the checker `CheckDecides`, `WarnsOfDependentLoops`; of the partition `PartsAreComponents` |
| `stack` | 3 tasks, 3 threads, one popper; with fairness | `StackInv` (the inductive invariant), `RefinesLifo`, `RoundsComplete` |
| `reuse` | 2 numbers, 3 parameters, DAGs with tasks | `ReuseInv` (the inductive invariant), `ExecutesAsked`, `ImplementsService` |
| `mpi` | 2 schedulers and the MPI thread; graphs of four and two tasks, of which three are blocking; 2 rounds; with fairness | `MpiInv` (the inductive invariant), `ResumedWhenReady`, `ImplementsDag` (refinement of `DagSpec` with its progress) |
| `life` | 1 or 3 threads, started twice, creation may fail, 2 rounds; with fairness | `LifeInv` (the inductive invariant), `RoundsEnd`, `Stops`; `CoresOfStarts` |
| `hier` | 2 x 2 chunks, 3 sub-threads, 2 tasks over three ranges; with fairness | `HierInv` (the inductive invariant), `WholeRange`, `Completes` |
| `tiles` | nests of two dimensions with all bounds below 6, tile sizes 1-4 and offsets, and nests of three | `ComputedOnce`, `TileOfData` |
| `client` | 2 threads, 3 blocks, 2 tasks, 2 executions; 8 threads on nodes of 3 cores, one counter | `ClientInv` (the inductive invariant), `ArgsIntact`, `MemoryReturned`, `AffinityInRange`; `PoolSound`, `RegistrationSound` |
| `programs` | 26 programs on arrays of about 6 x 5 in tiles of 2 or 3; 69 traced programs of up to three loops, 3 threads | `NoRace`, `SameAsSerial`; `ReportsBrokenOrder` |
| `exec_garbage` | as `exec`, uninitialised flags of both values | `NoLeak` is **violated** |
| `reuse_bare` | as `reuse`, other loops at any time | `ExecutesAsked` is **violated** |

**Bounds.** `exec`, `mpi`: `MaxRound` bounds the calls of `spawn_and_wait`; three rounds
give fresh-then-stored, stored-then-resumed and resumed-then-fresh, the transitions
between the ways a graph can start; two are enough for suspension in a graph that
is executed again. Three threads give Main and two workers that compete for one
successor and one that finishes late. A task suspends at most `MaxSuspend` (2) times
in a round, with no, one or two handles: a second suspension finds what the first
left in the globals. No symmetry is used there: the graphs name threads. `build`:
four tasks on one address are write, two reads and write, or three writes and a
read: what is two steps back has been forgotten; two accesses in a loop give two
readers, a task with two sources, one source met twice, and a read and a write of
one task; two addresses let the edges of one task come from different reasons. The
state constraint `Explored` keeps these two kinds of graph, with neighbours that are
read, and cuts the rest; it forbids no call within them. (The theorems hold without
it.) `stack` has no bound on its rounds; three tasks let the
stack change above and below the one a thread has read, three threads let two pushes
and a pop meet. `reuse` has no bound on the number of calls; three parameters give
a number one that is stored and two that are not. `life`: two starts are the
smallest number with a second one. `Startup` is evaluated for cores 0-3, core lists
of up to three numbers with any dashes, and 0-3 threads and groups: lists shorter
than, as long as and longer than the threads. `hier`: ranges with fewer points than
chunks, lengths that divide and that do not, negative bounds. `tiles`: every
remainder of bounds, sizes and offsets occurs on one dimension while the others are
cut too. `client`: one access, one object and one pending declaration at a time;
three blocks let a freed block be used again; a node has three cores, two of them in the
remainder of eight threads, and the second node has no counter: what is read in its place
is -1, whose remainder is negative, or 7. `MemPool`: blocks of 32 bytes, requests
of 1, 8, 20 and 32, aligned to 8, 16 and 32, two between two `ReInitial`, eight
choices of what `malloc` returns; `Registration`: three calls with up to two accesses
each. Both are evaluated in the initial state of `client` only, over all these inputs.
`programs`: the arrays are large enough for whole, cut off and border tiles; time steps
are 2 to 8, so that graphs are reused at least once. The traced programs have three loops
of one task, each with a call of the tracer on the same address, in every combination of
reads, reads of halos, and writes that are declared or not, and two with writes of halos;
besides two rounds, a stored graph and an address that nobody declares. The tasks of three
loops are unordered, partly ordered or a chain; three threads can be in their calls at once,
and an update that is lost to another hides a broken order from the third (`vrv`). The threads are symmetric.

Deadlock is checked except where a program really ends (`life`, `hier`, `tiles`,
`client`); in `exec` and `reuse`, `Halted` is the only state allowed to stop, in
`programs` it is `Ended`, or a traced program that the tracer has stopped.

**Fairness.** Weak fairness of Main's steps and of every thread's loop: the
operating system runs each thread, and the body of a task terminates. Nothing
stronger is needed in `exec`: only the owner pops a stack, so a task in it stays
until taken. In `stack` the popper keeps polling and every thread that only pushes
pushes what is ready; a failed exchange means that another thread's exchange
succeeded, so weak fairness suffices where the tasks of a round are finite. `mpi`
adds that MPI completes every request, which is the promise of MPI for matched
messages; the extra thread is one fair loop. `life` promises the end of a round only
where a thread serves every queue that is used (`Served`): threads that were not
created, or belong to a second start, serve none. `hier` never relies on a wake-up
without a signal.

**Conditions.** `WholeRange` and `RangesAlive` (which follows from `HierInv`) exclude a
master that has left its wait without a signal (`early`): `wait_all_tasks` waits under
an `if`, so that a spurious wake-up breaks them. `DependencesKept` speaks of independent
tasks in a loop; `WarnsOfDependentLoops` shows that the others are reported.
`PoolServes` excludes alignments of 32, which depend on where a block lies.
`RegistersDeclared` states what a task after a `do_register` inherits. `CoresOfStarts`
speaks of starts that succeed with enough cores. `AffinityInRange` has no condition on
the number of threads, but what the increment of a counter behind `task_count` destroys
is not modelled. `ReportsBrokenOrder` excuses a call that misses an access through a
record that has lost an update (`lost`), and asks nothing of the functions for halos, which
check nothing.

**Findings with a run.**

* `exec_garbage`: `task::task` leaves `reused` uninitialised (`task.cpp:5`); a task
  never marked can read as marked and is never deleted.
* `reuse_bare`: `spawn_and_wait` resumes a graph "when dag_start return 1"
  (`task_dag_graph.cpp:818`), but keeps the answer: a later `spawn_and_wait` for other
  loops executes the stored graph again and drops the loops.

**Other disagreements met while modelling.** The models contain them, or exclude
them by the conditions above; they have no run.

* Execution: `spawn_and_wait` reads `reused` of the end task after
  `main_kernel_func` may have deleted it (`task_dag_graph.cpp:880`); stored tasks are
  freed before the workers are stopped (`aceMesh_runtime.cpp:984`), while the worker
  that released the end task may not have read the flag of its own task yet. Two
  poppers of one stack, which the stealing builds have, suffer from ABA that the
  comment of `aceMesh_stack.h:12-15` excludes because "task only push and pop one
  time": tasks of a stored graph are pushed in every round.
* Reuse: a DAG without tasks is stored with an end task that is deleted;
  `dag_start` twice before the first `spawn_and_wait` answers 1 although nothing is
  stored.
* Start-up: `aceMesh_runtime_init()` without `ACEMESH_NUM_THREADS` fails its
  assertion although it prints that it uses one thread; `ACEMESH_CORE_LIST` needs
  `ACEMESH_NUM_THREADS`, for -1 is compared as an unsigned number; zero threads or
  groups are accepted (a division by zero follows); `total / group` is an integer
  division, which leaves threads unused, and a core list that is too short binds
  group threads to core 0; with the extra thread, a list exactly as long as the
  threads binds that thread to core 0 as well. A second start never resets
  `close_all_threads` and `index`: its workers end at once. A thread that could not be
  created has the handle 0, which is joined.
* Registration: `do_register` discards pending accesses and leaves its own in `addrs`,
  where the next `register_task` finds them.
* Checker: a count that is one too small is accepted.
* Thread group: the destructor signals without joining; `wait_all_tasks` waits under
  an `if`.
* MPI: the test of the second request is guarded by `comm_kind1`; the objects
  that carry a suspended task to the polling queue are never deleted.
* C interface: negative lower bounds lose iterations in the tile functions;
  `acemesh_task_get_priority_id` returns the affinity; with fewer threads
  than cores of a node, the affinity of a tile divides by zero nodes in floating point
  (`aceMesh_clang.cpp:1528`) and converts infinity to `int`, which is undefined (the usual
  results, the smallest and the largest `int`, both give node 0); with more than
  `CORENUM * (NODENUM + 1) - 1` threads it reads and increments what lies behind
  `task_count`; strided copies overrun where the block size does not divide the length.
* Memory pool: `~ci_task` gives memory of the pool to `free`; `ReInitial` makes the
  arguments of stored tasks vacant; a request aligned to 32 can be misaligned after
  a change of block, and a request larger than a block overruns it.
* Examples: `fdtd_omp_bk` shares `jj` between the threads; `fdtd_dag_bk`'s loop 4 reads a
  neighbour it does not declare (its loop 3 orders it all the same); loops 4 and 6 of
  `upch-adifull` differ from its check; `3d7p_dag.f` swaps the indices of one address
  for first index 1; the `outer` variants need a multiple of eight iterations, the
  2IterPerDag variants an even number.
* Race trace: a stored graph that is executed again stops the program ("can't find task in
  map", `DataRaceTrace.cpp:190-193`), for the numbers of its tasks were cleared by the wait
  of the round that built it. The records are updated without a lock: of two updates at once
  the smaller number can remain, and a broken order is then not reported
  (`ReportsBrokenOrder` says that this is the only way).

## 4. Proofs

`DagExecProofs` proves, for every set of tasks and threads, every set of
well-formed graphs, any number of rounds and any values of uninitialised memory:
`Invariance` (`Spec => []IInv`), and from it `TypeOK`, `Precedence`, `RunOnce`,
`RefCount`, `AllDone`, `StoredReady`, `NoDangling`; and `Refinement`: `Spec =>
RefinesDagSpec`. (Those but the last two follow from `IInv`, which the run `exec`
checks; they have no run of their own.) The only assumption is `ExecAssumption`: task
addresses are numbers, Main is a thread, and graphs satisfy `WellFormed`. `NoLeak`
is a theorem where uninitialised flags read as false (`GarbageFlag \subseteq {FALSE}`),
and that condition is needed: `exec_garbage` violates it without. `Owned` says why each
object exists: it is stored, still to be executed, or held by a thread that has run it.

*The argument.* The properties are not inductive. `RefCount` needs to know what
is still owed: `Pending(t)`, the predecessors that have not run or whose thread
still has `t` on its list (`Owes`). Then a decrement removes one element from
`Pending` and one from the count (`Counts`), which needs that a task is on the
list of one thread only (`Bodies`) and that what is on the list is a successor.
A count reaches zero when `Pending` becomes empty: the task is ready, and the
thread that saw zero is the only one that knows of it. `Places` says that
everything queued or held is ready, `Unique` that it is there once; a task that
is still pending is in no place, which is why the new entry is unique. Main's
wait ends at one reference: `Pending(end)` is empty, so every task without
successors has run, and by acyclicity (every nonempty set of tasks has one with
no successor in it) all have: that is `AllDone`, and why nothing is queued
(`Quiet`). `Stored` carries the backups over the rounds, `Memory` says what
exists and that no two threads delete the same task: a thread that has still to
delete `cur` holds a task that is done, or is of an earlier graph.

`DagBuildProofs` proves of the builder, for any addresses, access types, number of
threads and bounds: `Invariance` (`Spec => []BuildInv`), `Dependences`,
`Precision`, `StoreComplete` and `FinishedGraphs`. The assumption is
`BuildAssumption`: there is a thread, and NULL is neither a task nor a record.

*The argument.* Edges lead from older tasks to younger ones (`Edges`), because a
source was recorded in an earlier loop (`Loops`, `Recorded`): that is why a finished
graph is acyclic, by the greatest task of a set, and why each task but the first
roots has an older predecessor, by the least task `store_info` would miss. Counts
are in-degrees, as `Newly` are just the sources without an edge. `DependencesKept`
needs `Summary`: of what was recorded on an address, all writes lead to the last
writer, all reads lead to it or are among the readers since, and these follow it.
A new access then follows its sources, and they stand for everything before
(`SourcesFollow`); when `end_split_task` records an access (`HeadFollows`), what it
replaces is ordered before it by `DependencesKept` itself, so the two are proved
together.

`TaskStackProofs` proves, for any tasks, any threads and any number of rounds, but
one popper (`OnePopper`): `Invariance` (`Spec => []StackInv`) and `Refinement`
(`Spec => RefinesLifo`).

*The argument.* `Chain` needs to know that a successful exchange is still entitled to
its pointers (`Locals`): a push that finds the top unchanged has linked its task to
it, and nobody else writes the link of a task that is not in the stack (`Conserved`
says that one thread holds it); a pop has read the link of a task that is still in
the stack, which only another popper could have taken out, pushed again and linked
to something else. This is the one place where `OnePopper` is used.

`DagReuseProofs` proves, for any numbers, parameters and DAGs: `Invariance` (`Spec =>
[]ReuseInv`), `Once`; for programs that do not execute other loops after their first
`dag_start` (`~Bare`) `Asked` and `Service` (`Spec => ImplementsService`); and `Kept` if
every DAG has a task (`Empty = {}`). The first condition is what the run `reuse_bare`
violates; without the second, the end task of an empty DAG is deleted and resumed.

*The argument.* The tables are written at two times: `dag_start` records the
parameters, `spawn_and_wait` the graph. In between `cnt` is -1, and `Stored` says that
this is so for the current number only and only until the next `spawn_and_wait`;
`Answered` says that the recorded parameters are then those the program asked for, so
that the graph stored is theirs. After that neither changes.

`MpiExecProofs` proves of the build with an MPI thread, for any graphs, threads,
blocking tasks and bounds (`MpiAssumption`): `MpiIsInvariant` (`Spec => []MpiInv`), and
from it `ResumedWhenReadyHolds`, `SuspendedOnceHolds` and `MpiRefinesDag`, the safety
part of `ImplementsDag`.

*The argument.* It is that of `IInv` with three new places a task can be in: the queue
of the MPI thread, the polling queue, and the record `mt` the MPI thread takes from
it (`Place`, `OnePlace`). `Suspension` says that a task that has begun is in one of them
until it is done. The count of a task that is ready is no longer exact, for each part
of its body restores it; so `Counts` speaks of tasks that still wait for a predecessor,
`Stored` of those that are done, and `Alive` allows the one case in which a thread is
past `execute()` with a task that is not done: the MPI thread with a suspended one.
`Requests` says who holds the handles of pending requests: they pass through the globals
`comm1` and `comm2`, which are read by the thread that has just returned from a body,
so that they must be those of *its* task. `ResumedWhenReady` follows: a task leaves
the polling queue when none of its handles is pending.

One of the properties had to be corrected on the way. `SuspendedOnce` counted a thread as
holding its task until it had left `execute()`. A worker that lags behind may still be
there with a task of the round before, when the graph is stored and the same task has
begun again; it only tests the flag of the task any more. The property now counts the
threads that still decide about the task.

`RuntimeLifeProofs` proves for any numbers of threads, starts and rounds
(`LifeIsInvariant`, `SchedulersStayAlive`): a running thread has its scheduler,
although the shutdown deletes schedulers while later workers run. The tasks of a round
are chains there (`AfterAssumption`: a task releases at most one, and is released by at
most one).

*The argument.* `Table` says that the table holds the newest objects in order and that
what is alive is in it: schedulers are deleted in the order of the table, each after the
join of its thread, so that a thread that runs has its scheduler (`Running`). One that
executes a task needs all of them: then the round has not ended. `Rounds` says that tasks
are left as long as one is in a queue or executed, and main is waiting (`OnePlace`: it
is in one place, so the count of those left is right), and while main waits nothing is
deleted. `Numbered` is the arithmetic of the objects' numbers over several lives.

`HierTaskProofs` proves for any ranges, chunks and sub-threads: `HierIsInvariant`,
`RangesStayAlive`, `WholeRangeExecuted`. `DimensionSplit` is the lemma on `splitter`: with
chunks of the length rounded up, `low + x * size` cut off at the end, each coordinate of
the dimension lies in exactly one of them, whatever the length and their number, by
Euclidean division. `Radix` is the lemma on its counter: the number of a chunk, read in
a mixed radix, stands for one combination of pieces, and every combination has a number,
for any number of dimensions. It is proved by induction over the dimensions, as is the
existence of the recursive function `Weight`. The induction theorems of the library cannot
be instantiated, but for the *set* of the numbers with a property the well-foundedness of
`<` can (`Induction`). The assumptions are the types of the constants.

*The argument.* `Given` says which chunk a sub-thread has got and that it is one of the
current task; the master waits for the sub-threads in order (`AlreadyAwaited`), and
`is_idle` is read under the mutex it is written under, so that a sub-thread it has
passed is finished with its chunk (`Counted`: `executed` is the number of finished chunks
a point lies in). Both exclude a master that left its wait without a signal (`early`).

`ClientCProofs` proves for any accesses, kinds of tasks, blocks, threads and bounds:
`ClientIsInvariant`, `AccessesAreOwn`, `ArgumentsIntact`, `MemoryIsReturned` and
`AffinitiesInRange`. `ClientAssumption` gives the types of the constants, and asks for a
thread, a core and a node. `AffinitiesInRange` holds of every number of threads
(`AffinityBounded`): with fewer than a node has cores the tile is on node 0 and its counter
is divided by their number; a node without a counter is not node 0, so that even a negative
remainder of whatever is read behind `task_count` (`Beyond`) leaves a thread there is.

*The argument.* Each block that is not free has one owner (`Owned`): the list of
objects, or one task that is still live, which frees its arguments once. Whether a
task is live depends on where the threads are, and a worker may still be between the
release of the successors and the deletion when `spawn_and_wait` has returned and the
program builds the next graph. `Working` therefore speaks of all threads in all phases:
a thread holds a task of the round, or one that was not stored and that it alone will
delete.

The sequential parts are proved for inputs of any size. `DagBuildProofs`: `Warnings` (a
debug build warns of a loop exactly for the addresses through which its tasks depend on
each other), `Decision` (the check in advance accepts every graph the builder finishes, and
rejects any in which one task waits for one predecessor too many) and `Partitioning` (the
parts are the connected components). `ClientCProofs`: `PoolSoundness` and
`RegistrationSoundness` (a task is registered with what was declared for it).
`HierTaskProofs`: `TilesCover`, `OffsetTilesCover`, `TilesOfData`. `RuntimeLifeProofs`:
`CoresAreOwn` (threads get cores of the list, each its own).

*The arguments.* These modules compute with recursive functions over numbers, of which
`Induction` shows that they exist and `Iteration`, `GuidedIteration` what they keep. The
check: after `k` turns `k` tasks are executed, the counts are the predecessors left, and
the queue holds the tasks that are ready (`CheckInv`); the least task not executed is
ready, so the loop ends with all of them, and the task that waits for one predecessor too
many is never queued. The disjoint sets: compression, linking and `make_set` keep the
representatives, for which the ranks play no role (`Found`); the labels number them, every
edge joins its ends, and a set of tasks that no edge leaves is a union of parts
(`Parted`), which is why none can be split. That a part has an end task, its greatest,
needs more of the builder than a count: the last conjunct of `RootsAndEnds`. The pool:
used blocks, the one that is cut and the free ones are together always the blocks of
`malloc`, in order (`Listed`, `Serving`), so that after `ReInitial` the same requests cut
the same blocks at the same places, with more free blocks behind them (`Alike`). The
tiles: a tile is the set of the indices with one quotient by the tile size (`InTile`,
`InTileOff`), so that tiles neither overlap nor leave a gap, and `TileNum`, which counts
the tiles cut off on either side by their own cases, counts those quotients (`TileNumIs`).
Registration: `addrs` is what a thread group left in it and what was named since the last
call that registered a task (`Holding`), and that call moves with each registration
(`LastEndStep`). The cores: each number of a list adds a piece to the ids, which lies in one
of its ranges (`PieceInRange`); the pieces of a range follow each other, and those of
different ranges share nothing if no core is named twice (`PiecesApart`), so that no id
is repeated (`IdsOfList`); threads of different slots or places in a group read different
entries (`EntriesApart`). Core lists and accesses are flattened with the fold of the
library, which steps over an append (`FlattenLast`).

About the programs that use the runtime, `RuntimeLifeProofs` proves, for any texts that
satisfy the three assumptions of `Programs`, on arrays of any size and with any number of
loops and waits: `NoRaces` (`ProgramSpec => []NoRace`) and `Deterministic` (`ProgramSpec => []AsRegistered`): when a wait ends, the
arrays hold what its loops compute one after the other, whatever the order of the tasks
and whether the graph was built or kept. `AsRegistered` is a theorem only; the run
`programs` checks `SameAsSerial`, which compares with the serial version of an example as
well, and so also says whether its loops are the right ones.

*The argument.* `Placed` and `Kept` say that what is registered, executed or stored is a
`Segment` of the text: loops in the order of their statements with no wait between them,
so that the assumptions, which speak of statements, apply to it. `Ordered`: what has run
is closed under the dependences declared. For `NoRaces`, whatever a
task that is ready depends on, directly or not, has run (`Above` stays within a closed
set), so by `DeclaredAccesses` a task of an earlier loop that touches the same elements is
not ready, but done. `Deterministic` needs the values. `Computed` says of each element
separately: if the tasks that assign it and have run are exactly those of the first `k`
loops, it has the value it has after these loops. A task that runs reads elements for
which that is so, by the argument of `NoRaces`, in both directions: what assigned them
earlier has run, what will assign them later has not, as it depends on this task. So the
task computes what it computes in turn (`Value`, `Part`, `Do` and `DoLoop` depend only on
what is read and change only what is assigned), and no other task of its loop assigns the
same. When all have run, `k` is the number of loops, for every element.

For programs in a build with the race tracer it proves `TracedPrograms` (`TraceSpec =>
ProgramSpec`: a traced program is executed like any other, so that the theorems above hold
of it as far as it is not stopped) and `Reports` (`TraceSpec => []ReportsBrokenOrder`), for
any traced programs, any calls in their tasks and any number of threads.

*The argument.* `TraceInv` says what a thread may rely on between two accesses to a record:
a record holds 0 or the number of a call that has updated it (so who is accused is accused
with reason), and it is at least the number of every completed call, unless an update was
lost (so whoever has passed a check has found all that was complete before its call). An
update is lost only by a store of a smaller number that was taken before, and `Undone`
finds that thread at the larger store. `OrderInv` relates numbers and statements: tasks of
one round have numbers in the order of the text, and what has updated a record is a task
that has run or is running. If the program declares what it traces, the earlier of two
tasks is `Above` the later one, which begins only when that one has run; so while it is
running it finds no access of the later one (`Unfounded`).

*Only model-checked.* Liveness (`ShutsDown`, `ImplementsDagSpec`, `RoundsComplete`,
`RoundsEnd`, `Stops`, `Completes`, the progress in `ImplementsDag`): fairness and ENABLED
are out of the prover's reach. `ComputedOnce`: the blocks of a strided copy are counted in a
mixed radix over the dimensions of an array, and written back by folds over all of them; only
its tiles are proved (`TilesCover`). `SameAsSerial`: it is about the given programs, whose
texts have to be computed. That the texts satisfy `ParallelLoops` and `DeclaredAccesses`
is evaluated for the sizes of `MCPrograms`, not proved for all.

## 5. Plan

1. Done: `DagExec`, `DagSpec`, `DagBuild`, `TaskStack`, `Lifo`, `DagReuse`,
   `DagService`, with their proofs.
2. Done: `MpiExec`, `RuntimeLife`, `HierTask`, `ClientC`, model-checked and proved.
3. Done: `GraphCheck`, `Partition`, `MemPool` and the tile functions of `TileLoop`,
   `Startup` and `Registration`, model-checked and proved; `Programs` and `RaceTrace`
   likewise, for any texts; the texts of the examples and the copies of `TileLoop`,
   model-checked.
4. Open: the copies of a tile, whose positions are numbers in a mixed radix (`Radix`), to
   prove `ComputedOnce`.

## 6. Not modelled

* Concurrent construction: `concurrent_task_dag_graph.cpp` does not compile;
  `spawn()` would use the end task before it exists, and nothing sets `ready`.
* Strategies `scheduler_common.h` does not select: stealing, shared queues, NUMA;
  and what only they use: `concurrent_aceMesh_queue` (which frees nodes others may still
  read) and `aceMesh_deque`, whose code is commented out.
* `BLOCKING_QUEUE`, where a blocking task blocks its thread inside MPI;
  `SUPPORT_PARTITION`, where the program numbers the parts; `FreePool`; the depth-first
  graph check, which nothing calls.
* Functions of the C interface that only forward a call, and the counters of
  `NUMA_PROFILING`; the binding to MIC cores; profiling, tracing and printing.
* Vendored atomics and thread-local storage, taken as atomic, and the declarations
  of `aceMesh_runtime_f.h`.
* Examples: `swim`, `cpi_aceMesh`, `ori-adifull` (which indexes outside its arrays),
  `fdtd_omp_bk`, `fdtd_serial_bk`, `3d7p_dag_reuse.f`, the copies in `3d7p_chuanxing` and
  `NUMA_3d7p`. Tests: `simple_test` calls functions the library does not have.
