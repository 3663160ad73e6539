----------------------------- MODULE GraphCheck -----------------------------
(***************************************************************************)
(* The checks of a build with DEBUG_GRAPH and MERGE_SAME_ADDR: dag_graph_  *)
(* check executes the finished graph in advance, breadth first, on a copy  *)
(* of the counts; end_split_task warns of a parallel loop whose tasks      *)
(* conflict with each other.                                               *)
(***************************************************************************)
EXTENDS DagBuild, SequencesExt

\* ref_count_for_check of a task that is not looked at.
Unseen == -1

\* Mutant: the count is not copied when the task is first seen.
SeenFromOne(count, check, t) == IF check[t] = Unseen THEN 1 ELSE check[t]

\* ref_count_for_check before it is decremented.
Seen(count, check, t) == IF check[t] = Unseen THEN count[t] ELSE check[t]

\* The tasks of S, which are ready now, in the order in which they are queued: the
\* vertical task of t, then successors.
Queued(t, S) ==
  (IF vert[t] \in S THEN <<vert[t]>> ELSE <<>>) \o SetToSeq(S \ {vert[t]})

\* One turn of the loop: the first task of the queue q is executed on paper.  Every
\* edge from it is followed, and the queue takes the targets of which none is left.
\* The assertion on a count that is used up fails for good.
Turn(count, s) ==
  LET t == Head(s.q)
      left(u) == Seen(count, s.check, u) - 1
  IN  IF s.q = <<>> THEN [s EXCEPT !.failed = TRUE]
      ELSE [q      |-> Tail(s.q) \o Queued(t, {u \in Targets(t) : left(u) = 0}),
            check  |-> [u \in Node |-> IF u = t THEN Unseen
                                       ELSE IF u \in Targets(t) THEN left(u)
                                       ELSE s.check[u]],
            failed |-> s.failed \/ \E u \in Targets(t) : s.check[u] = 0]

\* The roots are queued.
StartCheck(count) ==
  [q      |-> SetToSeq(roots),
   check  |-> [t \in Node |-> IF t \in roots THEN count[t] ELSE Unseen],
   failed |-> FALSE]

\* The check after every number of turns.
Turns(count) ==
  LET after[k \in Nat] == IF k = 0 THEN StartCheck(count) ELSE Turn(count, after[k - 1])
  IN  after

\* check_graph_bfs, for counts that need not be those of the graph: as many turns
\* as there are tasks, the end task among them.
CheckGraphBfs(count) == ~Turns(count)[n].failed

-----------------------------------------------------------------------------
\* type_add, over the accesses of one task to one address.
TypeAdd(types) ==
  LET reads  == types \cap {"IN", "INOUT"} # {}
      writes == types \cap {"OUT", "INOUT"} # {}
  IN  CASE reads /\ writes   -> "INOUT"
        [] ~reads /\ writes  -> "OUT"
        [] reads /\ ~writes  -> "IN"
        [] ~reads /\ ~writes -> "INOUT_NONE"

\* unique_tuples: the merged access of task t to a.
Merged(t, a) ==
  TypeAdd({tuples[i].type : i \in {j \in 1 .. Len(tuples) :
                                     tuples[j].task = t /\ tuples[j].addr = a}})

\* Mutant: only a second write is reported.
UpdateWriteAddrWrites(f, type) ==
  [f EXCEPT !.w = @ \/ Writes(type), !.warned = @ \/ (f.w /\ Writes(type))]

\* update_write_addr: the flags of an address after one more task's access.
UpdateWriteAddr(f, type) ==
  [r |-> f.r \/ type = "IN",
   w |-> f.w \/ Writes(type),
   warned |-> f.warned \/ (f.w /\ type # "INOUT_NONE") \/ (f.r /\ Writes(type))]

\* The flags of the address a after the tasks 1 .. t.  end_split_task takes them in the
\* order of their objects' addresses, which makes no difference.
Flags(a) ==
  LET flags[t \in Nat] ==
        IF t = 0 THEN [r |-> FALSE, w |-> FALSE, warned |-> FALSE]
        ELSE UpdateWriteAddr(flags[t - 1], Merged(t, a))
  IN  flags

\* The warning of end_split_task about the address a.
Warned(a) == Flags(a)[n].warned

-----------------------------------------------------------------------------
\* Before a graph is executed, the check accepts it; it rejects the graph when a
\* task waits for one predecessor more than it has, which would never be executed.
CheckDecides ==
  pc = "built" /\ n > 1 =>
    /\ CheckGraphBfs(ref)
    /\ \A t \in Node \ roots : ~CheckGraphBfs([ref EXCEPT ![t] = @ + 1])

\* The loop is reported at its end exactly for the addresses through which its
\* tasks depend on each other, the dependences that get no edge.
WarnsOfDependentLoops ==
  pc = "loop" =>
    \A a \in Addr :
      Warned(a) <=> \E i, j \in 1 .. Len(tuples) :
                      tuples[i].addr = a /\ tuples[i].type # "INOUT_NONE" /\
                      tuples[j].type # "INOUT_NONE" /\ Conflict(tuples[i], tuples[j])
=============================================================================
