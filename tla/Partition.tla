------------------------------ MODULE Partition -----------------------------
(***************************************************************************)
(* The build with AUTO_PARTITION: while a graph is constructed, a disjoint *)
(* set structure over its roots collects the parts that have no edge to    *)
(* each other.  spawn_and_wait_with_separation gives each part an end task *)
(* of its own and executes the parts one after the other.                  *)
(*                                                                         *)
(* The structure is computed from the finished graph: the tasks in the     *)
(* order of their registration, the edges into a task by their sources.    *)
(***************************************************************************)
EXTENDS DagBuild

\* group_id of a task that has none yet.
NoGroup == -1

\* The elements on the way from x to the representative of its set: those of the least
\* set that contains x and the father of each of its elements.
Way(father, x) ==
  {y \in DOMAIN father :
     \A S \in SUBSET DOMAIN father : x \in S /\ (\A z \in S : father[z] \in S) => y \in S}

\* find_set: the representative, and the structure after the way is compressed.
FindSet(father, x) == CHOOSE y \in Way(father, x) : father[y] = y
Compressed(father, x) ==
  LET way == Way(father, x)
      fx  == FindSet(father, x)
  IN  [y \in DOMAIN father |-> IF y \in way THEN fx ELSE father[y]]

\* make_set.
MakeSet(d, x) ==
  [father |-> [y \in DOMAIN d.father \cup {x} |-> IF y = x THEN x ELSE d.father[y]],
   rank   |-> [y \in DOMAIN d.rank \cup {x} |-> IF y = x THEN 0 ELSE d.rank[y]]]

\* The union by rank of two sets with the representatives fx # fy.
Link(d, fx, fy) ==
  IF d.rank[fx] > d.rank[fy] THEN [d EXCEPT !.father[fy] = fx]
  ELSE [d EXCEPT !.father[fx] = fy,
                 !.rank[fy] = IF d.rank[fx] = d.rank[fy] THEN @ + 1 ELSE @]

\* disjoin_set::union_set.
UnionSet(d, x, y) ==
  LET fx == FindSet(d.father, x)
      fy == FindSet(d.father, y)
      c  == [d EXCEPT !.father = Compressed(Compressed(@, x), y)]
  IN  IF fx = fy THEN c ELSE Link(c, fx, fy)

\* Mutant: only the first source counts.
JoinFirst(s, src, dest) ==
  IF s.group[dest] = NoGroup THEN [s EXCEPT !.group[dest] = s.group[src]] ELSE s

\* task_dag_graph::union_set, for the edge from src to dest: dest joins the group
\* of its first source, the others are united with it.
JoinGroup(s, src, dest) ==
  IF s.group[dest] = NoGroup THEN [s EXCEPT !.group[dest] = s.group[src]]
  ELSE LET d == UnionSet(s.sets, s.group[src], s.group[dest])
       IN  [s EXCEPT !.sets = d,
                     !.group[dest] = FindSet(d.father, s.group[src])]

\* The edges into t are drawn: the structure after those from the tasks 1 .. p.
Joins(s, t) ==
  LET join[p \in Nat] ==
        IF p = 0 THEN s
        ELSE IF p \in Preds(Graph, t) THEN JoinGroup(join[p - 1], p, t)
        ELSE join[p - 1]
  IN  join

\* register_task: a task without predecessors is a set of its own, the number
\* sep_id.
Register(s, t) ==
  LET sep_id == Len(s.sep_task) + 1 IN
  IF t \in roots
  THEN [sets     |-> MakeSet(s.sets, sep_id),
        group    |-> [s.group EXCEPT ![t] = sep_id],
        sep_task |-> Append(s.sep_task, t)]
  ELSE Joins(s, t)[n]

\* begin: no task has a group yet.
Ungrouped ==
  [sets     |-> [father |-> <<>>, rank |-> <<>>],
   group    |-> [t \in Node |-> NoGroup],
   sep_task |-> <<>>]

\* The structure after the tasks 1 .. t are registered.
Registering ==
  LET after[t \in Nat] == IF t = 0 THEN Ungrouped ELSE Register(after[t - 1], t)
  IN  after

\* The structure when spawn_and_wait_with_separation is called; the end task has not
\* been registered.
Separated == Registering[n - 1]

\* The part of a root, by its number, and of a task, by its group_id.
PartOfRoot(s, i) == FindSet(s.sets.father, i)
PartOf(s, t) == FindSet(s.sets.father, s.group[t])

\* get_sep_data: the roots of every part, by the part's representative.
SepData(s) ==
  [x \in {PartOfRoot(s, i) : i \in DOMAIN s.sep_task} |->
     {s.sep_task[i] : i \in {j \in DOMAIN s.sep_task : PartOfRoot(s, j) = x}}]

\* end_construct_dag_separation: the tasks that the end task of a part follows.
SepEndTasks(s) ==
  [x \in {PartOf(s, t) : t \in ends} |-> {t \in ends : PartOf(s, t) = x}]

-----------------------------------------------------------------------------
\* Every part has an end task to wait for, its tasks have all their predecessors
\* in the part, and two tasks with an edge between them are in one part: executed
\* one after the other, the parts need nothing of each other, and none could be
\* split further.
PartsAreComponents ==
  pc = "built" /\ n > 1 =>
    LET s      == Separated
        part   == SepData(s)
        within(x) == {t \in Node \ {n} : PartOf(s, t) = x}
        joined(S) == \A t, u \in Node \ {n} : u \in Targets(t) => (t \in S <=> u \in S)
    IN
    /\ DOMAIN part = DOMAIN SepEndTasks(s)
    /\ \A x \in DOMAIN part :
         /\ joined(within(x))
         /\ part[x] = roots \cap within(x)
         /\ \A S \in (SUBSET within(x)) \ {{}, within(x)} : ~joined(S)
=============================================================================
