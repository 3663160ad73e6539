------------------------------ MODULE Startup ------------------------------
(***************************************************************************)
(* How aceMesh_runtime_init settles the number of threads and the core     *)
(* each of them is bound to, from the argument of the program and from     *)
(* ACEMESH_NUM_THREADS, ACEMESH_THREAD_GROUP_SIZE and ACEMESH_CORE_LIST.   *)
(*                                                                         *)
(* A core list, "[0-2,5]", is its numbers and the set of those followed by *)
(* a dash; a variable that is not set is Unset.  The builds differ: with   *)
(* thread groups each thread leads a group of sub-threads, without them a  *)
(* thread more may serve MPI (EXTRA_THREAD).                               *)
(***************************************************************************)
EXTENDS Integers, Sequences, SequencesExt

CONSTANTS
  Unset,
  CoreNum, ListLen,  \* bounds: the cores and the length of a core list
  Given,             \* bound: the numbers of threads and the group sizes given
  MAX_THREADS        \* length of the array core_ids

CoreLists ==
  UNION {[num : [1 .. n -> CoreNum], dash : SUBSET (1 .. n - 1)] : n \in 1 .. ListLen}

\* The code does not check that a program asks for fewer threads than that.
ASSUME StartupAssumption ==
  /\ MAX_THREADS \in Nat /\ Given \subseteq 0 .. MAX_THREADS - 1
  /\ ListLen \in Nat /\ CoreNum \subseteq Nat
  /\ Unset \notin Given /\ Unset \notin CoreLists

\* Mutant: a range repeats its first core.
RangeAgain(first, last) == [k \in 1 .. last - first + 1 |-> first + k - 1]

\* What a range adds to its first core, which has been read already.
RangeRest(first, last) == [k \in 1 .. last - first |-> first + k]

CoreIds(list) ==
  FlattenSeq([k \in DOMAIN list.num |->
                IF k - 1 \in list.dash THEN RangeRest(list.num[k - 1], list.num[k])
                ELSE <<list.num[k]>>])

\* get_env_settings, up to its exit and assertions.  An unset number of threads is -1, which
\* is compared with the length of the list as an unsigned number.
GetEnvSettings(env) ==
  IF env.list = Unset THEN [ids |-> <<>>, ok |-> TRUE]
  ELSE [ids |-> CoreIds(env.list),
        ok |-> /\ \A k \in env.list.dash : env.list.num[k] < env.list.num[k + 1]
               /\ env.total # Unset /\ Len(CoreIds(env.list)) \in env.total .. MAX_THREADS]

Failed == [ok |-> FALSE]

\* The array core_ids, whose other entries are 0.
Started(threads, group, ids) ==
  [ok |-> TRUE, threads |-> threads, group |-> group, listed |-> Len(ids),
   core |-> [k \in 0 .. MAX_THREADS - 1 |-> IF k < Len(ids) THEN ids[k + 1] ELSE 0]]

\* The cores of a program or an environment that names none.
InOrder(n) == [k \in 1 .. n |-> k - 1]

\* aceMesh_runtime_init without thread groups.  Without an argument (n = 0) the
\* environment gives the number of threads; an unset one fails the assertion that
\* there are enough cores, and to start no thread at all is undefined.
InitPlain(n, env, extra) ==
  LET set == GetEnvSettings(env)
      total == IF n = 0 THEN env.total ELSE n
      ids == IF set.ids # <<>> THEN set.ids
             ELSE InOrder(IF n # 0 /\ extra THEN total + 1 ELSE total)
  IN  IF ~set.ok \/ total \in {Unset, 0} THEN Failed
      ELSE IF total > Len(ids) THEN Failed
      ELSE Started(total, 1, ids)

\* aceMesh_runtime_init with thread groups, and apply_runtime_init: as many groups as
\* the threads fill.  Groups of no thread divide by zero; no group is undefined.
InitGroups(n, env) ==
  LET set == GetEnvSettings(env)
      total == IF n # 0 THEN n ELSE IF env.total = Unset THEN 1 ELSE env.total
      group == IF env.group = Unset THEN 1 ELSE env.group
      ids == IF set.ids # <<>> THEN set.ids ELSE InOrder(total)
  IN  IF ~set.ok \/ group = 0 \/ total < group THEN Failed
      ELSE Started(total \div group, group, ids)

\* create_worker_thread binds the scheduler of slot i to p[i]; with thread groups
\* on_scheduler_entry numbers the threads as they arrive, and gives each leader and
\* its sub-threads consecutive cores.
BoundTo(start, slot, sub) == start.core[slot * start.group + sub]

\* The thread that serves MPI takes the entry after the last.
MpiBoundTo(start) == start.core[start.threads]

-----------------------------------------------------------------------------
Settings ==
  [total : Given \cup {Unset}, group : Given \cup {Unset}, list : CoreLists \cup {Unset}]

\* The ranges of a core list: "0-2-4" is one.
Ranges(list) ==
  LET last(k) == CHOOSE j \in k .. Len(list.num) :
                   j \notin list.dash /\ \A x \in k .. j - 1 : x \in list.dash
  IN  [k \in {x \in DOMAIN list.num : x - 1 \notin list.dash} |->
         list.num[k] .. list.num[last(k)]]

Named(list) == UNION {Ranges(list)[k] : k \in DOMAIN Ranges(list)}

NamedOnce(list) ==
  \A j, k \in DOMAIN Ranges(list) : j # k => Ranges(list)[j] \cap Ranges(list)[k] = {}

\* The threads of a start that succeeds, and their sub-threads, get cores of the list,
\* and each its own if the list names no core twice and, with groups, is long enough.
BoundApart(start, env) ==
  start.ok /\ start.threads * start.group <= start.listed =>
    LET place == (0 .. start.threads - 1) \X (0 .. start.group - 1)
        core(p) == BoundTo(start, p[1], p[2])
    IN  env.list # Unset =>
          /\ \A p \in place : core(p) \in Named(env.list)
          /\ NamedOnce(env.list) => \A p, q \in place : core(p) = core(q) => p = q

\* Without thread groups the list is always long enough; the thread that serves MPI
\* has a core of its own if the program asks for threads and no list is set.
OwnCores ==
  \A n \in Given, env \in Settings :
    /\ BoundApart(InitGroups(n, env), env)
    /\ \A extra \in BOOLEAN :
         LET start == InitPlain(n, env, extra) IN
         /\ start.ok => start.threads <= start.listed
         /\ BoundApart(start, env)
         /\ start.ok /\ extra /\ n # 0 /\ env.list = Unset =>
              \A i \in 0 .. start.threads - 1 : MpiBoundTo(start) # BoundTo(start, i, 0)
=============================================================================
