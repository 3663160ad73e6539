------------------------------ MODULE DagReuse ------------------------------
(***************************************************************************)
(* The table that decides whether spawn_and_wait executes the graph just   *)
(* built or one stored earlier: dag_start, spawn_and_wait and free_tasks   *)
(* of task_dag_graph, called by one thread.                                *)
(*                                                                         *)
(* The program calls dag_start with a number and parameters.  If the answer*)
(* is 0 it registers the loops of that DAG, then it calls spawn_and_wait.  *)
(* It may also have loops that belong to no DAG.  The construction and the *)
(* execution of a graph are one step each: DagBuild and DagExec show what  *)
(* they do.                                                                *)
(***************************************************************************)
EXTENDS Naturals

CONSTANTS
  No,       \* numbers of DAGs
  Zero,     \* the number 0, initial value of curr_dagNo
  Par,      \* contents of int_vec and float_vec
  NoPar,    \* no parameters recorded
  NoDag,    \* no instance recorded
  Other,    \* a loop that belongs to no DAG
  Empty,    \* the DAGs whose loops have no task
  Bare      \* the program may execute Other also after a dag_start

\* What a DAG consists of: the loop with its tasks, or nothing.
Body(n, p) == {<<n, p>>} \ Empty

Loop == (No \X Par) \cup {Other}

\* dag_instance: its tasks, by loop, and whether its end task exists.
Instance == [loops : SUBSET Loop, end : BOOLEAN]

ASSUME ReuseAssumption ==
  /\ Zero \in No
  /\ NoPar \notin Par
  /\ NoDag \notin Instance
  /\ Other \notin No \X Par
  /\ Empty \subseteq No \X Par
  /\ Bare \in BOOLEAN

VARIABLES
  curr,     \* curr_dagNo
  flag,     \* dag_reuse_flag
  cnt,      \* dag_reuse_cnt: none, new (-1) or used (0 and more)
  vec,      \* dag_ivec_map and dag_fvec_map
  inst,     \* dag_instance_map
  built,    \* the loops registered and not executed yet
  phase,    \* the program: idle, building, ready, halted
  asked,    \* number and parameters of its last dag_start
  started,  \* it has called dag_start
  ran       \* what the last spawn_and_wait executed (history)

table   == <<curr, flag, cnt, vec, inst>>
program == <<phase, asked, started>>
vars == <<table, built, program, ran>>

\* Mutant: dag_start does not reset the answer to the last call.
FlagKept(n) == flag

FlagReset(n) == [flag EXCEPT ![n] = FALSE]

\* Mutant: the parameters are not compared.
MatchesAny(n, p) == TRUE

Matches(n, p) == vec[n] = p

\* Mutant: the count of a DAG that has been stored stays at -1.
CountKept(n) == cnt

CountZero(n) == [cnt EXCEPT ![n] = "used"]

\* init in spawn_and_wait.
Stores(n) == cnt[n] = "new"

\* store_info starts from the roots: it reaches the end task if there is a task.
Marks(loops) == loops # {}

-----------------------------------------------------------------------------
(***************************************************************************)
(* dag_start.                                                              *)
(***************************************************************************)

Called(n, p) ==
  /\ phase = "idle" /\ built = {}
  /\ curr' = n
  /\ asked' = <<n, p>>
  /\ started' = TRUE
  /\ UNCHANGED <<inst, built, ran>>

\* The number is new: its parameters are recorded.
StartFirst(n, p) ==
  /\ Called(n, p)
  /\ cnt[n] = "none"
  /\ flag' = FlagReset(n)
  /\ cnt' = [cnt EXCEPT ![n] = "new"]
  /\ vec' = [vec EXCEPT ![n] = p]
  /\ phase' = "building"

\* Other parameters: the graph has to be built, the table stays.
StartOther(n, p) ==
  /\ Called(n, p)
  /\ cnt[n] # "none" /\ ~Matches(n, p)
  /\ flag' = FlagReset(n)
  /\ phase' = "building"
  /\ UNCHANGED <<cnt, vec>>

\* The same parameters: the answer is 1.
StartReuse(n, p) ==
  /\ Called(n, p)
  /\ cnt[n] # "none" /\ Matches(n, p)
  /\ flag' = [FlagReset(n) EXCEPT ![n] = TRUE]
  /\ cnt' = [cnt EXCEPT ![n] = "used"]
  /\ phase' = "ready"
  /\ UNCHANGED vec

-----------------------------------------------------------------------------
(***************************************************************************)
(* The loops of the program.                                               *)
(***************************************************************************)

RegisterBody ==
  /\ phase = "building"
  /\ built' = built \cup Body(asked[1], asked[2])
  /\ phase' = "ready"
  /\ UNCHANGED <<table, asked, started, ran>>

RegisterOther ==
  /\ phase = "idle" /\ (Bare \/ ~started)
  /\ built' = {Other}
  /\ UNCHANGED <<table, program, ran>>

-----------------------------------------------------------------------------
(***************************************************************************)
(* spawn_and_wait, called when the DAG is ready or there are other loops.  *)
(***************************************************************************)

Spawned ==
  /\ phase = "ready" \/ (phase = "idle" /\ built # {})
  /\ phase' = "idle"
  /\ built' = {}
  /\ UNCHANGED <<curr, flag, vec, asked, started>>

\* The stored graph replaces what has been built.
SpawnStored ==
  /\ Spawned
  /\ flag[curr]
  /\ ran' = IF inst[curr] = NoDag THEN {} ELSE inst[curr].loops
  /\ UNCHANGED <<cnt, inst>>

\* The graph is executed and kept.  An end task that is not marked keeps the flag it
\* was created with; if it reads as false the end task is deleted after the execution.
SpawnAndStore ==
  /\ Spawned
  /\ ~flag[curr] /\ Stores(curr)
  /\ cnt' = CountZero(curr)
  /\ \E marked \in BOOLEAN :
       /\ Marks(built) => marked
       /\ inst' = [inst EXCEPT ![curr] = [loops |-> built, end |-> marked]]
  /\ ran' = built

\* The graph is executed and deleted.
SpawnOnce ==
  /\ Spawned
  /\ ~flag[curr] /\ ~Stores(curr)
  /\ ran' = built
  /\ UNCHANGED <<cnt, inst>>

\* aceMesh_runtime_shutdown: free_tasks deletes what the roots of the stored graphs
\* reach; the tables keep the pointers.
Shutdown ==
  /\ phase = "idle" /\ built = {}
  /\ phase' = "halted"
  /\ inst' = [n \in No |->
                IF inst[n] = NoDag \/ inst[n].loops = {} THEN inst[n]
                ELSE [inst[n] EXCEPT !.end = FALSE]]
  /\ UNCHANGED <<curr, flag, cnt, vec, built, asked, started, ran>>

Halted == phase = "halted" /\ UNCHANGED vars

Init ==
  /\ curr = Zero
  /\ flag = [n \in No |-> FALSE]
  /\ cnt = [n \in No |-> "none"]
  /\ vec = [n \in No |-> NoPar]
  /\ inst = [n \in No |-> NoDag]
  /\ built = {}
  /\ phase = "idle"
  /\ asked = <<>>
  /\ started = FALSE
  /\ ran = {}

Start(n, p) == StartFirst(n, p) \/ StartOther(n, p) \/ StartReuse(n, p)
SpawnAndWait == SpawnStored \/ SpawnAndStore \/ SpawnOnce

Next ==
  \/ \E n \in No, p \in Par : Start(n, p)
  \/ RegisterBody \/ RegisterOther
  \/ SpawnAndWait
  \/ Shutdown \/ Halted

Spec == Init /\ [][Next]_vars

-----------------------------------------------------------------------------
(***************************************************************************)
(* Properties.                                                             *)
(***************************************************************************)

\* Type invariant.
TypeOK ==
  /\ curr \in No
  /\ flag \in [No -> BOOLEAN]
  /\ cnt \in [No -> {"none", "new", "used"}]
  /\ vec \in [No -> Par \cup {NoPar}]
  /\ inst \in [No -> Instance \cup {NoDag}]
  /\ built \in SUBSET Loop
  /\ phase \in {"idle", "building", "ready", "halted"}
  /\ asked \in (No \X Par) \cup {<<>>}
  /\ started \in BOOLEAN
  /\ ran \in SUBSET Loop

\* What is stored under a number is the DAG of the recorded parameters, and it is
\* stored as soon as the table says that it may be used again.
Stored ==
  \A n \in No :
    /\ inst[n] # NoDag => inst[n].loops = Body(n, vec[n])
    /\ inst[n] # NoDag <=> cnt[n] = "used"
    /\ vec[n] = NoPar <=> cnt[n] = "none"
    /\ flag[n] => cnt[n] = "used"
    /\ cnt[n] = "new" => n = curr /\ phase \in {"building", "ready"}

\* The answer of dag_start agrees with what spawn_and_wait is going to do.
Answered ==
  /\ started <=> asked # <<>>
  /\ ~started => phase \in {"idle", "halted"} /\ \A n \in No : cnt[n] = "none"
  /\ phase \in {"building", "ready"} =>
       /\ started /\ curr = asked[1] /\ cnt[curr] # "none"
       /\ flag[curr] \/ cnt[curr] = "new" => vec[curr] = asked[2]
       /\ ~flag[curr] /\ cnt[curr] = "used" => vec[curr] # asked[2]
  /\ phase = "building" => built = {} /\ ~flag[curr]
  /\ phase = "ready" => built = IF flag[curr] THEN {} ELSE Body(asked[1], asked[2])
  /\ phase = "idle" => built = {} \/ (built = {Other} /\ (Bare \/ ~started))
  /\ phase = "halted" => built = {}

\* The inductive invariant.
ReuseInv == TypeOK /\ Stored /\ Answered

\* "if (reuse) //when dag_start return 1": spawn_and_wait executes the DAG of the last
\* dag_start, stored or just built, and loops without a dag_start as they are.
ExecutesAsked ==
  [][/\ phase = "ready" /\ phase' = "idle" => ran' = Body(asked[1], asked[2])
     /\ phase = "idle" /\ built # {} /\ built' = {} => ran' = built]_vars

\* The graph stored under a number is never replaced before the shutdown: nothing else
\* refers to its tasks, and free_tasks could not delete them.
StoredOnce ==
  [][phase' # "halted" => \A n \in No : inst[n] # NoDag => inst'[n] = inst[n]]_vars

\* "if marked, when executing dont delete": the end task of a stored graph still
\* exists when spawn_and_wait resumes the graph.
EndKept == phase = "ready" /\ flag[curr] => inst[curr].end

\* The table implements the service: a DAG is a hit exactly if it has been executed
\* under its number before any other.
S == INSTANCE DagService
       WITH kept <- [n \in No |-> IF inst[n] = NoDag THEN NoPar ELSE vec[n]]
ImplementsService == S!Spec
=============================================================================
