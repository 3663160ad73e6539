----------------------------- MODULE HierTask -----------------------------
(***************************************************************************)
(* A hierarchy task (__ACEMESH_THREAD_GROUP): the thread that executes it  *)
(* splits its range into chunks, gives one to every thread of its group,   *)
(* executes the last one itself and waits for the others before it         *)
(* releases the successors.  A critical section, or what a thread does     *)
(* between two of them, is one step; a wait on a condition is two.         *)
(***************************************************************************)
EXTENDS Integers, Sequences, SequencesExt, FiniteSetsExt, Functions

CONSTANTS
  Chunks,     \* splitter::chunks_on_dim
  Ranges,     \* base ranges: a sequence of [low, high) per dimension
  MaxTask     \* bound: tasks executed

\* The number of combinations of chunks on the dimensions before d.
Weight[d \in Nat] == IF d - 1 \in DOMAIN Chunks THEN Weight[d - 1] * Chunks[d - 1] ELSE 1

Total == Weight[Len(Chunks) + 1]     \* get_total_chunks
Group == 1 .. Total - 1              \* the subthreads

ASSUME ChunksAssumption == Chunks \in Seq(Nat \ {0}) /\ Chunks # <<>>
ASSUME RangesAssumption == Ranges \subseteq [DOMAIN Chunks -> [low : Int, high : Int]]
ASSUME MaxTaskAssumption == MaxTask \in Nat

VARIABLES
  mpc, m,       \* the master: where it is, the subthread its loops are at
  base,         \* base_range of its task
  ranges,       \* splitted_ranges, <<>> when the vector does not exist
  tasks,        \* tasks executed so far
  subthreads_run,
  is_idle, p_param,   \* of every control struct: the chunk, by task and number
  spc,          \* the subthreads
  executed,     \* how often each point was executed (history)
  early         \* the master has left a wait without a signal (history)

vars == <<mpc, m, base, ranges, tasks, subthreads_run, is_idle, p_param, spc, executed,
          early>>

Points(r) ==
  {p \in [DOMAIN r -> UNION {r[d].low .. r[d].high - 1 : d \in DOMAIN r}] :
     \A d \in DOMAIN r : r[d].low <= p[d] /\ p[d] < r[d].high}

\* Mutant: the size of a chunk is rounded down.
SizeDown(r, d) == (r[d].high - r[d].low) \div Chunks[d]

\* dim_chunk_size.
Size(r, d) == (r[d].high - r[d].low + Chunks[d] - 1) \div Chunks[d]

\* dim_range_index of the k-th chunk: the first dimension runs fastest.
Digit(k, d) == (k \div Weight[d]) % Chunks[d]

\* Where the x-th piece of dimension d begins, and the one before it ends.
Bound(r, d, x) == Min({r[d].high, r[d].low + x * Size(r, d)})

\* The k-th chunk that split() puts out, from 0.
Chunk(r, k) ==
  [d \in DOMAIN r |->
     [low |-> Bound(r, d, Digit(k, d)), high |-> Bound(r, d, Digit(k, d) + 1)]]

Split(r) == [k \in 1 .. Total |-> Chunk(r, k - 1)]

\* A body is executed on a range.
Executed(r) == [p \in DOMAIN executed |-> executed[p] + IF p \in Points(r) THEN 1 ELSE 0]

-----------------------------------------------------------------------------
\* execute() up to its loop.  The last chunk leaves the vector, but is kept.
Execute(r) ==
  /\ mpc = "idle" /\ tasks < MaxTask /\ subthreads_run
  /\ base' = r
  /\ ranges' = Split(r)
  /\ tasks' = tasks + 1
  /\ executed' = [p \in Points(r) |-> 0]
  /\ m' = 1
  /\ mpc' = "start"
  /\ UNCHANGED <<subthreads_run, is_idle, p_param, spc, early>>

\* set_task_param, set_task: no lock is held.
SetParam ==
  /\ mpc = "start" /\ m \in Group
  /\ p_param' = [p_param EXCEPT ![m] = <<tasks, m>>]
  /\ mpc' = "run"
  /\ UNCHANGED <<m, base, ranges, tasks, subthreads_run, is_idle, spc, executed, early>>

\* Mutant: the signal is lost.
WakeNot(s) == spc

\* pthread_cond_signal of cond_go.
Wake(s) == IF spc[s] = "waiting" THEN [spc EXCEPT ![s] = "lock"] ELSE spc

RunTask ==
  /\ mpc = "run"
  /\ is_idle' = [is_idle EXCEPT ![m] = FALSE]
  /\ spc' = Wake(m)
  /\ m' = m + 1
  /\ mpc' = "start"
  /\ UNCHANGED <<base, ranges, tasks, subthreads_run, p_param, executed, early>>

OwnChunk ==
  /\ mpc = "start" /\ m \notin Group
  /\ executed' = Executed(ranges[m])
  /\ m' = 1
  /\ mpc' = "wait"
  /\ UNCHANGED <<base, ranges, tasks, subthreads_run, is_idle, p_param, spc, early>>

\* Mutant: the last subthread is not waited for.
AwaitedButLast == Group \ {Max(Group)}

\* The subthreads that wait_all_tasks waits for.
Awaited == Group

\* wait_all_tasks, under the lock of one subthread: a test, not a loop.
WaitTask ==
  /\ mpc = "wait" /\ m \in Awaited
  /\ IF is_idle[m] THEN m' = m + 1 /\ UNCHANGED mpc
                   ELSE mpc' = "waiting" /\ UNCHANGED m
  /\ UNCHANGED <<base, ranges, tasks, subthreads_run, is_idle, p_param, spc, executed,
                 early>>

\* The wait is over without a signal, which POSIX allows.
SpuriousReturn ==
  /\ mpc = "waiting"
  /\ mpc' = "wait" /\ m' = m + 1 /\ early' = TRUE
  /\ UNCHANGED <<base, ranges, tasks, subthreads_run, is_idle, p_param, spc, executed>>

WaitedAll ==
  /\ mpc = "wait" /\ m \notin Awaited
  /\ mpc' = "release"
  /\ UNCHANGED <<m, base, ranges, tasks, subthreads_run, is_idle, p_param, spc, executed,
                 early>>

\* aceMesh_task::execute; the vector goes with the frame.
Release ==
  /\ mpc = "release"
  /\ ranges' = <<>>
  /\ mpc' = "idle"
  /\ UNCHANGED <<m, base, tasks, subthreads_run, is_idle, p_param, spc, executed, early>>

\* ~thread_group: nobody is joined, and is_idle stays.
Destroy ==
  /\ mpc = "idle" /\ subthreads_run
  /\ subthreads_run' = FALSE
  /\ spc' = [s \in Group |-> IF spc[s] = "waiting" THEN "lock" ELSE spc[s]]
  /\ UNCHANGED <<mpc, m, base, ranges, tasks, is_idle, p_param, executed, early>>

-----------------------------------------------------------------------------
Goto(s, label) == spc' = [spc EXCEPT ![s] = label]

TestRun(s) ==
  /\ spc[s] = "top"
  /\ Goto(s, IF subthreads_run THEN "lock" ELSE "ended")
  /\ UNCHANGED <<mpc, m, base, ranges, tasks, subthreads_run, is_idle, p_param, executed,
                 early>>

\* Under the lock, at first or after a signal: wait while idle.
TestIdle(s) ==
  /\ spc[s] = "lock"
  /\ Goto(s, IF is_idle[s] THEN "waiting" ELSE "body")
  /\ UNCHANGED <<mpc, m, base, ranges, tasks, subthreads_run, is_idle, p_param, executed,
                 early>>

SpuriousWake(s) ==
  /\ spc[s] = "waiting"
  /\ Goto(s, "lock")
  /\ UNCHANGED <<mpc, m, base, ranges, tasks, subthreads_run, is_idle, p_param, executed,
                 early>>

Body(s) ==
  /\ spc[s] = "body"
  /\ executed' = IF ranges = <<>> THEN executed ELSE Executed(ranges[p_param[s][2]])
  /\ Goto(s, "done")
  /\ UNCHANGED <<mpc, m, base, ranges, tasks, subthreads_run, is_idle, p_param, early>>

\* Idle again, and cond_finish is signalled: the master leaves its wait.
Finish(s) ==
  /\ spc[s] = "done"
  /\ is_idle' = [is_idle EXCEPT ![s] = TRUE]
  /\ IF mpc = "waiting" /\ m = s
     THEN mpc' = "wait" /\ m' = m + 1
     ELSE UNCHANGED <<mpc, m>>
  /\ Goto(s, "top")
  /\ UNCHANGED <<base, ranges, tasks, subthreads_run, p_param, executed, early>>

-----------------------------------------------------------------------------
\* thread_group::init and start.
Init ==
  /\ mpc = "idle" /\ m = 1 /\ base = <<>> /\ ranges = <<>> /\ tasks = 0
  /\ subthreads_run = TRUE
  /\ is_idle = [s \in Group |-> TRUE]
  /\ p_param = [s \in Group |-> <<0, 0>>]
  /\ spc = [s \in Group |-> "top"]
  /\ executed = [p \in {} |-> 0] /\ early = FALSE

MasterStep ==
  \/ \E r \in Ranges : Execute(r)
  \/ SetParam \/ RunTask \/ OwnChunk \/ WaitTask \/ WaitedAll \/ Release \/ Destroy

SubStep(s) == TestRun(s) \/ TestIdle(s) \/ Body(s) \/ Finish(s)

Next ==
  \/ MasterStep \/ SpuriousReturn
  \/ \E s \in Group : SubStep(s) \/ SpuriousWake(s)

Spec == Init /\ [][Next]_vars

\* Every thread gets processor time; a wake-up without a signal may never come.
FairSpec == Spec /\ WF_vars(MasterStep) /\ \A s \in Group : WF_vars(SubStep(s))

-----------------------------------------------------------------------------
TypeOK ==
  /\ mpc \in {"idle", "start", "run", "wait", "waiting", "release"}
  /\ m \in 1 .. Total /\ tasks \in 0 .. MaxTask
  /\ IF mpc = "idle" THEN ranges = <<>> ELSE base \in Ranges /\ ranges = Split(base)
  /\ mpc # "idle" => executed \in [Points(base) -> Nat]
  /\ subthreads_run \in BOOLEAN /\ early \in BOOLEAN
  /\ is_idle \in [Group -> BOOLEAN]
  /\ p_param \in [Group -> Nat \X Nat]
  /\ spc \in [Group -> {"top", "lock", "waiting", "body", "done", "ended"}]

\* The master is in its last loop, over the subthreads it waits for.
Waits == mpc \in {"wait", "waiting"}

\* Its loops have passed chunk k: it has been given to subthread k, or executed by the
\* master; and it has been waited for.
Given(k) == (mpc \in {"start", "run"} /\ k < m) \/ Waits \/ mpc = "release"
AlreadyAwaited(k) == (Waits /\ k < m) \/ mpc \in {"release", "idle"}

\* A subthread is busy with the chunk it was given last, and the master has not left it.
BusyWithOwn ==
  /\ mpc \in {"run", "waiting"} => m \in Group
  /\ mpc = "run" => p_param[m] = <<tasks, m>>
  /\ \A s \in Group : spc[s] \in {"body", "done"} => ~is_idle[s]
  /\ ~early => \A s \in Group : ~is_idle[s] =>
       Given(s) /\ ~AlreadyAwaited(s) /\ p_param[s] = <<tasks, s>>

Done(k) == Given(k) /\ (k \in Group => is_idle[k] \/ spc[k] = "done")

\* What has been executed is the chunks that are done, each of them once.
Counted ==
  mpc # "idle" /\ ~early =>
    \A p \in Points(base) : \A k \in 1 .. Total :
      p \in Points(ranges[k]) => executed[p] = IF Done(k) THEN 1 ELSE 0

HierInv == TypeOK /\ BusyWithOwn /\ Counted

\* Successors are released when every point of the range has been executed,
\* once, whatever the number of chunks on each dimension, the length of the
\* range and the pace of the subthreads; unless the master has left a wait
\* without a signal.
WholeRange ==
  mpc = "release" /\ ~early =>
    DOMAIN executed = Points(base) /\ \A p \in Points(base) : executed[p] = 1

\* p_param points into a vector of execute(): a subthread that goes to use it
\* finds the vector of the task that set it.
RangesAlive ==
  ~early => \A s \in Group : spc[s] = "body" => ranges # <<>> /\ p_param[s] = <<tasks, s>>

\* No wake-up is lost between the two sides: every task that is split ends.
Completes == mpc = "start" ~> mpc = "idle"
=============================================================================
