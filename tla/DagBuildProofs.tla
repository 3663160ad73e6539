--------------------------- MODULE DagBuildProofs ---------------------------
(***************************************************************************)
(* Proofs about the construction of task graphs: the inductive invariant   *)
(* of DagBuild, the dependences a graph keeps, that a finished graph is    *)
(* one that DagExec can execute, the warnings and the check of a debug     *)
(* build, and the parts into which a graph falls.                          *)
(***************************************************************************)
EXTENDS GraphCheck, Partition, FiniteSetTheorems, SequenceTheorems, WellFoundedInduction, TLAPS

-----------------------------------------------------------------------------
(***************************************************************************)
(* Numbers.                                                                *)
(***************************************************************************)

\* A nonempty set of numbers up to m has a greatest element.
LEMMA Greatest ==
  ASSUME NEW m \in Nat, NEW S \in SUBSET (1 .. m), S # {}
  PROVE  \E x \in S : \A y \in S : y <= x
<1> DEFINE Bounds == {1 .. k : k \in {j \in Nat : S \subseteq 1 .. j}}
<1>1. IsWellFoundedOn(StrictSubsetOrdering(Nat), FiniteSubsetsOf(Nat))
  BY FS_StrictSubsetOrderingWellFounded
<1>2. Bounds \subseteq FiniteSubsetsOf(Nat)
  <2>1. \A k \in Nat : 1 .. k \in SUBSET Nat /\ IsFiniteSet(1 .. k)
    BY FS_Interval
  <2>2. QED
    BY <2>1 DEF FiniteSubsetsOf
<1>3. Bounds # {}
  OBVIOUS
<1>4. PICK B \in Bounds : \A C \in Bounds : <<C, B>> \notin StrictSubsetOrdering(Nat)
  <2> HIDE DEF Bounds
  <2>1. QED
    BY <1>1, <1>2, <1>3, WFMin
<1>5. PICK k \in Nat : B = 1 .. k /\ S \subseteq 1 .. k
  BY <1>4
<1>6. k \in S
  <2>1. SUFFICES ASSUME k \notin S
                 PROVE  FALSE
    OBVIOUS
  <2>2. k # 0
    <3>1. PICK y : y \in S
      OBVIOUS
    <3>2. y \in 1 .. k
      BY <1>5, <3>1
    <3>3. QED
      BY <3>2
  <2>3. k - 1 \in Nat /\ S \subseteq 1 .. (k - 1)
    BY <1>5, <2>1, <2>2
  <2>4. 1 .. (k - 1) \in Bounds
    BY <2>3
  <2>5. 1 .. (k - 1) \subseteq 1 .. k /\ 1 .. (k - 1) # 1 .. k
    <3>1. k \in 1 .. k /\ k \notin 1 .. (k - 1)
      BY <2>2
    <3>2. QED
      BY <3>1, <2>2
  <2>6. <<1 .. (k - 1), 1 .. k>> \in StrictSubsetOrdering(Nat)
    BY <2>3, <2>5 DEF StrictSubsetOrdering
  <2>7. QED
    BY <1>4, <1>5, <2>4, <2>6
<1>7. QED
  BY <1>5, <1>6

\* ... and a least one.
LEMMA Least ==
  ASSUME NEW m \in Nat, NEW S \in SUBSET (1 .. m), S # {}
  PROVE  \E x \in S : \A y \in S : x <= y
<1> DEFINE R == {m + 1 - y : y \in S}
<1>1. R \in SUBSET (1 .. m) /\ R # {}
  <2>1. \A y \in S : m + 1 - y \in 1 .. m
    OBVIOUS
  <2>2. PICK y : y \in S
    OBVIOUS
  <2>3. m + 1 - y \in R
    BY <2>2
  <2>4. QED
    BY <2>1, <2>3
<1>2. PICK z \in R : \A y \in R : y <= z
  <2> HIDE DEF R
  <2>1. QED
    BY <1>1, Greatest
<1>3. PICK x \in S : z = m + 1 - x
  BY <1>2
<1>4. ASSUME NEW y \in S
      PROVE  x <= y
  <2>1. m + 1 - y <= z
    BY <1>2
  <2>2. QED
    BY <2>1, <1>3
<1>5. QED
  BY <1>3, <1>4

\* Induction, for the set of the numbers that have a property.
LEMMA Induction ==
  ASSUME NEW T, 0 \in T, \A k \in Nat : k \in T => k + 1 \in T
  PROVE  \A k \in Nat : k \in T
<1>1. SUFFICES ASSUME Nat \ T # {} PROVE FALSE
  OBVIOUS
<1>2. PICK k \in Nat \ T : \A y \in Nat \ T : ~ (<<y, k>> \in OpToRel(<, Nat))
  BY <1>1, NatLessThanWellFounded, WFMin
<1>3. \A y \in Nat : y < k => y \in T
  BY <1>2 DEF OpToRel
<1>4. k \in Nat /\ k \notin T /\ k # 0
  BY <1>2
<1>5. k - 1 \in Nat /\ k - 1 < k /\ (k - 1) + 1 = k
  BY <1>4
<1>6. (k - 1) + 1 \in T
  BY <1>3, <1>5
<1>7. QED
  BY <1>4, <1>5, <1>6

\* What is computed step by step from a first value is defined: values that are right
\* up to k give values that are right up to k + 1.
LEMMA Iteration ==
  ASSUME NEW S, NEW first \in S, NEW Step \in [Nat -> [S -> S]]
  PROVE  \E f \in [Nat -> S] :
           f = [k \in Nat |-> IF k = 0 THEN first ELSE Step[k][f[k - 1]]]
<1> DEFINE Right(f, k) == f[k] = IF k = 0 THEN first ELSE Step[k][f[k - 1]]
           T == {m \in Nat : \E f \in [Nat -> S] : \A k \in 0 .. m : Right(f, k)}
<1>1. 0 \in T
  <2> DEFINE f == [k \in Nat |-> first]
  <2>1. f \in [Nat -> S] /\ \A k \in 0 .. 0 : Right(f, k)
    OBVIOUS
  <2> HIDE DEF f
  <2>2. QED
    BY <2>1
<1>2. ASSUME NEW m \in Nat, m \in T PROVE m + 1 \in T
  <2>1. PICK f \in [Nat -> S] : \A k \in 0 .. m : Right(f, k)
    BY <1>2
  <2> DEFINE g == [f EXCEPT ![m + 1] = Step[m + 1][f[m]]]
  <2>2. Step[m + 1][f[m]] \in S
    <3>1. m + 1 \in Nat /\ f[m] \in S
      BY <2>1
    <3>2. QED
      BY <3>1
  <2>3. g \in [Nat -> S] /\ g[m + 1] = Step[m + 1][f[m]] /\ \A k \in 0 .. m : g[k] = f[k]
    BY <2>1, <2>2
  <2> HIDE DEF g
  <2>4. ASSUME NEW k \in 0 .. m + 1 PROVE Right(g, k)
    <3>1. CASE k = m + 1
      <4>1. k # 0 /\ k - 1 = m /\ m \in 0 .. m
        BY <3>1
      <4>2. QED
        BY <2>3, <3>1, <4>1
    <3>2. CASE k \in 0 .. m
      <4>1. k # 0 => k - 1 \in 0 .. m
        BY <3>2
      <4>2. QED
        BY <2>1, <2>3, <3>2, <4>1
    <3>3. QED
      BY <3>1, <3>2
  <2>5. QED
    BY <2>3, <2>4
<1> HIDE DEF T
<1>3. \A m \in Nat : m \in T
  BY <1>1, <1>2, Induction
<1> DEFINE Upto(m) == CHOOSE f \in [Nat -> S] : \A k \in 0 .. m : Right(f, k)
<1>4. \A m \in Nat : Upto(m) \in [Nat -> S] /\ \A k \in 0 .. m : Right(Upto(m), k)
  BY <1>3 DEF T
\* Two of them agree where both are right.
<1>5. ASSUME NEW m \in Nat, NEW k \in 0 .. m
      PROVE  Upto(m)[k] = Upto(k)[k]
  <2> DEFINE U == {j \in Nat : j <= k => Upto(m)[j] = Upto(k)[j]}
  <2> HIDE DEF Upto
  <2>1. 0 \in U
    BY <1>4
  <2>2. ASSUME NEW j \in Nat, j \in U PROVE j + 1 \in U
    <3>1. SUFFICES ASSUME j + 1 <= k PROVE Upto(m)[j + 1] = Upto(k)[j + 1]
      BY DEF U
    <3>2. j + 1 \in 0 .. m /\ j + 1 \in 0 .. k /\ k \in Nat /\ j + 1 # 0 /\ (j + 1) - 1 = j
      BY <3>1
    <3>3. Right(Upto(m), j + 1) /\ Right(Upto(k), j + 1)
      BY <1>4, <3>2
    <3>4. Upto(m)[j] = Upto(k)[j]
      BY <2>2, <3>1
    <3>5. QED
      BY <3>2, <3>3, <3>4
  <2>3. k \in Nat
    OBVIOUS
  <2> HIDE DEF U
  <2>4. k \in U
    BY <2>1, <2>2, <2>3, Induction
  <2>5. QED
    BY <2>3, <2>4 DEF U
<1> HIDE DEF Upto
<1> DEFINE h == [k \in Nat |-> Upto(k)[k]]
<1>6. h \in [Nat -> S]
  BY <1>4
<1>7. ASSUME NEW k \in Nat PROVE Right(h, k)
  <2>1. Right(Upto(k), k)
    BY <1>4
  <2>2. k # 0 => h[k - 1] = Upto(k)[k - 1]
    BY <1>5
  <2>3. QED
    BY <2>1, <2>2
<1>8. h = [k \in Nat |-> IF k = 0 THEN first ELSE Step[k][h[k - 1]]]
  BY <1>7
<1> HIDE DEF h
<1>9. QED
  BY <1>6, <1>8

\* What is computed step by step is defined also when a step is only known to be right
\* where the steps before it lead.
LEMMA GuidedIteration ==
  ASSUME NEW Good, NEW first \in Good[0], NEW Step,
         \A k \in Nat : \A x \in Good[k] : Step[k + 1][x] \in Good[k + 1]
  PROVE  \E f : f = [k \in Nat |-> IF k = 0 THEN first ELSE Step[k][f[k - 1]]]
<1> DEFINE S == UNION {Good[k] : k \in Nat}
           Clipped == [k \in Nat |-> [x \in S |-> IF Step[k][x] \in S THEN Step[k][x] ELSE x]]
<1>1. first \in S /\ Clipped \in [Nat -> [S -> S]]
  OBVIOUS
<1>2. \A k \in Nat : \A x \in Good[k] : x \in S
  OBVIOUS
<1>3. \A k \in Nat : \A x \in Good[k] : k + 1 \in Nat /\ Clipped[k + 1][x] = Step[k + 1][x]
  <2>1. SUFFICES ASSUME NEW k \in Nat, NEW x \in Good[k]
                 PROVE  k + 1 \in Nat /\ Clipped[k + 1][x] = Step[k + 1][x]
    OBVIOUS
  <2>2. k + 1 \in Nat /\ x \in S
    BY <1>2
  <2>3. Step[k + 1][x] \in S
    BY <1>2, <2>2
  <2>4. QED
    BY <2>2, <2>3
<1> HIDE DEF S, Clipped
<1>4. PICK f \in [Nat -> S] : f = [k \in Nat |-> IF k = 0 THEN first ELSE Clipped[k][f[k - 1]]]
  BY <1>1, Iteration
<1> DEFINE T == {k \in Nat : f[k] \in Good[k]}
<1>5. 0 \in T
  BY <1>4
<1>6. \A k \in Nat : k + 1 \in Nat /\ k + 1 # 0 /\ (k + 1) - 1 = k
  OBVIOUS
<1>7. \A k \in Nat : k \in T => k + 1 \in T
  <2>1. \A k \in Nat : f[k + 1] = Clipped[k + 1][f[k]]
    BY <1>4, <1>6
  <2>2. QED
    BY <1>3, <1>6, <2>1
<1> HIDE DEF T
<1>8. \A k \in Nat : f[k] \in Good[k]
  BY <1>5, <1>7, Induction DEF T
<1>9. ASSUME NEW k \in Nat, k # 0 PROVE Clipped[k][f[k - 1]] = Step[k][f[k - 1]]
  <2>1. k - 1 \in Nat /\ (k - 1) + 1 = k
    BY <1>9
  <2>2. Clipped[(k - 1) + 1][f[k - 1]] = Step[(k - 1) + 1][f[k - 1]]
    BY <1>3, <1>8, <2>1
  <2>3. QED
    BY <2>1, <2>2
<1>10. f = [k \in Nat |-> IF k = 0 THEN first ELSE Step[k][f[k - 1]]]
  BY <1>4, <1>9
<1>11. QED
  BY <1>10

-----------------------------------------------------------------------------
(***************************************************************************)
(* Sources and targets.                                                    *)
(***************************************************************************)

LEMMA NodesAreTasks ==
  ASSUME TypeOK
  PROVE  /\ n \in Nat
         /\ Node \subseteq Task
         /\ IsFiniteSet(Node)
         /\ NoTask \notin Task
         /\ \A t \in Task : t \in Nat \ {0}
<1>1. n \in Nat /\ MaxTask \in Nat /\ n <= MaxTask /\ NoTask \notin Nat
  BY BuildAssumption DEF TypeOK
<1>2. IsFiniteSet(1 .. n)
  BY <1>1, FS_Interval
<1>3. QED
  BY <1>1, <1>2 DEF Node, Task

\* The predecessors of a task are finitely many.
LEMMA PredsFinite ==
  ASSUME TypeOK, NEW t
  PROVE  /\ IsFiniteSet({p \in Node : t \in Targets(p)})
         /\ Cardinality({p \in Node : t \in Targets(p)}) \in Nat
<1>1. IsFiniteSet({p \in Node : t \in Targets(p)})
  BY NodesAreTasks, FS_Subset
<1>2. QED
  BY <1>1, FS_CardinalityType

\* What addr_task offers as a source is a task that accessed the address.
LEMMA SourcesType ==
  ASSUME TypeOK, NEW a \in Addr, NEW type
  PROVE  /\ Sources(a, type) \in Seq(Source)
         /\ TasksOf(Sources(a, type)) \subseteq Task
         /\ Sources(a, type) # <<>> <=> TasksOf(Sources(a, type)) # {}
         /\ type # "INOUT_NONE" /\ type # "IN" /\ r[a] # <<>> =>
              TasksOf(Sources(a, type)) = TasksOf(r[a])
         /\ type # "INOUT_NONE" /\ (type = "IN" \/ r[a] = <<>>) /\ w[a] # NoTask =>
              TasksOf(Sources(a, type)) = {w[a].task}
         /\ \A t \in TasksOf(Sources(a, type)) :
              /\ type # "INOUT_NONE"
              /\ \/ type # "IN" /\ t \in TasksOf(r[a])
                 \/ w[a] # NoTask /\ t = w[a].task
<1> DEFINE s == Sources(a, type)
<1>1. r[a] \in Seq(Source) /\ (w[a] # NoTask => w[a] \in Source)
  BY DEF TypeOK
<1>2. w[a] # NoTask => <<w[a]>> \in Seq(Source) /\ TasksOf(<<w[a]>>) = {w[a].task}
  BY <1>1 DEF TasksOf
<1>3. <<>> \in Seq(Source) /\ TasksOf(<<>>) = {}
  BY DEF TasksOf
<1>4. s \in Seq(Source)
  BY <1>1, <1>2, <1>3 DEF Sources
<1>5. TasksOf(s) \subseteq Task
  <2>1. \A i \in 1 .. Len(s) : s[i] \in Source
    BY <1>4
  <2>2. QED
    BY <2>1 DEF TasksOf, Source
<1>6. s # <<>> <=> TasksOf(s) # {}
  <2>1. ASSUME s # <<>> PROVE TasksOf(s) # {}
    <3>1. 1 \in 1 .. Len(s)
      BY <1>4, <2>1
    <3>2. QED
      BY <3>1 DEF TasksOf
  <2>2. QED
    BY <2>1, <1>3
<1>7. QED
  BY <1>1, <1>2, <1>3, <1>4, <1>5, <1>6 DEF Sources

\* The sources of an access are tasks of the graph, and the access conflicts with
\* theirs.
LEMMA SourcesConflict ==
  ASSUME TypeOK, Recorded, Loops, NEW a \in Addr, NEW type,
         NEW t \in TasksOf(Sources(a, type))
  PROVE  /\ t \in Node
         /\ type # "INOUT_NONE"
         /\ \E x \in past : /\ x.addr = a /\ x.task = t /\ x.type # "INOUT_NONE"
                            /\ type = "IN" => Writes(x.type)
<1>1. \/ type # "IN" /\ t \in TasksOf(r[a])
      \/ w[a] # NoTask /\ t = w[a].task
  BY SourcesType
<1>2. CASE type # "IN" /\ t \in TasksOf(r[a])
  <2>1. PICK i \in 1 .. Len(r[a]) : t = r[a][i].task
    BY <1>2 DEF TasksOf
  <2>2. PICK x \in past : x.addr = a /\ x.task = t /\ x.type = "IN"
    BY <2>1 DEF Recorded
  <2>3. t \in Node
    BY <2>2 DEF Loops
  <2>4. QED
    BY <1>2, <2>2, <2>3, SourcesType
<1>3. CASE w[a] # NoTask /\ t = w[a].task
  BY <1>3, SourcesType DEF Recorded, Loops, Writes
<1>4. QED
  BY <1>1, <1>2, <1>3

\* build_releationship gives every source an edge to the new task, whichever of
\* the two kinds, and touches no other.
LEMMA NewEdges ==
  ASSUME BuildInv, NEW a \in Addr, NEW type, NEW near, DeclareAccess(a, type, near)
  PROVE  /\ Node' = Node /\ n' = n
         /\ \A t \in Task : Targets(t)' =
              IF t \in TasksOf(Sources(a, type)) THEN Targets(t) \cup {n} ELSE Targets(t)
         /\ \A t \in Node : vert'[t] \notin succ'[t]
         /\ \A t \in Task \ Node : succ'[t] = succ[t] /\ vert'[t] = vert[t]
<1> DEFINE s == Sources(a, type)
<1> USE DEF BuildInv
<1>1. n \in Nat /\ n # NoTask /\ n \in Node /\ TasksOf(s) \subseteq Node /\ Node \subseteq Task
  BY NodesAreTasks, SourcesConflict, BuildAssumption DEF DeclareAccess, RootsAndEnds
<1>2. n' = n /\ Node' = Node
  BY DEF DeclareAccess, Node
<1>3. PICK keeps \in [Task -> BOOLEAN] :
         /\ \A t \in Task : keeps[t] => vert[t] = NoTask
         /\ succ' = [t \in Task |-> IF t \in Newly(s) /\ ~keeps[t]
                                    THEN succ[t] \cup {n} ELSE succ[t]]
         /\ vert' = [t \in Task |-> IF t \in Newly(s) /\ keeps[t] THEN n ELSE vert[t]]
  <2> DEFINE k == [t \in Task |-> (~near /\ ~Near(s, t) /\ vert[t] = NoTask) = TRUE]
  <2>1. k \in [Task -> BOOLEAN]
    OBVIOUS
  <2>2. \A t \in Task : k[t] <=> (~near /\ ~Near(s, t) /\ vert[t] = NoTask)
    OBVIOUS
  <2>3. succ' = [t \in Task |-> IF t \in Newly(s) /\ ~k[t]
                                THEN succ[t] \cup {n} ELSE succ[t]]
    BY <2>2 DEF DeclareAccess
  <2>4. vert' = [t \in Task |-> IF t \in Newly(s) /\ k[t] THEN n ELSE vert[t]]
    BY <2>2 DEF DeclareAccess
  <2>5. QED
    BY <2>1, <2>2, <2>3, <2>4
<1>4. ASSUME NEW t \in Task
      PROVE  /\ t \notin Newly(s) => succ'[t] = succ[t] /\ vert'[t] = vert[t]
             /\ t \in Newly(s) /\ keeps[t] => succ'[t] = succ[t] /\ vert'[t] = n
             /\ t \in Newly(s) /\ ~keeps[t] => succ'[t] = succ[t] \cup {n} /\ vert'[t] = vert[t]
  BY <1>3
<1>5. ASSUME NEW t \in Task
      PROVE  Targets(t)' = IF t \in TasksOf(s) THEN Targets(t) \cup {n} ELSE Targets(t)
  <2>1. Targets(t)' = succ'[t] \cup ({vert'[t]} \ {NoTask})
    BY DEF Targets
  <2>2. CASE t \in Newly(s)
    BY <1>1, <1>3, <1>4, <2>1, <2>2 DEF Newly, Targets
  <2>3. CASE t \notin Newly(s)
    BY <1>4, <2>1, <2>3 DEF Newly, Targets
  <2>4. QED
    BY <2>2, <2>3
<1>6. ASSUME NEW t \in Node
      PROVE  vert'[t] \notin succ'[t]
  <2>1. vert[t] \notin succ[t]
    BY DEF Edges
  <2>2. t \in Newly(s) => n \notin succ[t] /\ n # vert[t]
    BY <1>1 DEF Newly, Targets
  <2>3. QED
    BY <1>1, <1>4, <2>1, <2>2
<1>7. ASSUME NEW t \in Task \ Node
      PROVE  succ'[t] = succ[t] /\ vert'[t] = vert[t]
  BY <1>1, <1>4 DEF Newly
<1>8. QED
  BY <1>2, <1>5, <1>6, <1>7

-----------------------------------------------------------------------------
(***************************************************************************)
(* The inductive invariant, conjunct by conjunct.                          *)
(***************************************************************************)

LEMMA InitInv == Init => BuildInv
<1> SUFFICES ASSUME Init
             PROVE  BuildInv
  OBVIOUS
<1> USE DEF Init
<1>1. Node = {}
  BY DEF Node
<1>2. TypeOK
  <2>1. 0 \in Thread
    BY BuildAssumption DEF Thread
  <2>2. <<>> \in Seq(Source) /\ <<>> \in Seq(Tuple)
    OBVIOUS
  <2>3. 0 \in 0 .. MaxTask
    BY BuildAssumption
  <2>4. QED
    BY <2>1, <2>2, <2>3 DEF TypeOK
<1>3. Accesses = {} /\ past = {} /\ \A i \in 1 .. Len(tuples) : FALSE
  BY DEF Accesses
<1>4. \A a \in Addr : TasksOf(r[a]) = {} /\ w[a] = NoTask /\ Len(r[a]) = 0
  BY DEF TasksOf
<1>5. ~Finished /\ pc # "task" /\ ~Splitting
  BY DEF Finished, Splitting
<1>6. Edges
  BY <1>1 DEF Edges
<1>7. RootsAndEnds
  BY <1>1, <1>5, BuildAssumption DEF RootsAndEnds, Registered
<1>8. Loops
  BY <1>1, <1>3, <1>5 DEF Loops
<1>9. Recorded /\ Summary
  BY <1>3, <1>4 DEF Recorded, Summary, Summarised
<1>10. DependencesKept /\ NoFalseDependence /\ StoreCoversAll
  BY <1>1, <1>3, <1>5 DEF DependencesKept, NoFalseDependence, StoreCoversAll
<1>11. QED
  BY <1>2, <1>6, <1>7, <1>8, <1>9, <1>10 DEF BuildInv

LEMMA TypeStep ==
  ASSUME BuildInv, [Next]_vars
  PROVE  TypeOK'
<1> USE DEF BuildInv, edgeVars, addrVars
<1>0. /\ TypeOK
      /\ n \in Nat /\ Node \subseteq Task /\ Task \subseteq Nat /\ NThread \in Nat \ {0}
      /\ 0 \in Thread
  BY NodesAreTasks, BuildAssumption DEF Thread
<1>1. CASE BeginSplitTask
  BY <1>0, <1>1 DEF BeginSplitTask, TypeOK
<1>2. CASE RegisterTask
  <2>1. n + 1 \in Task /\ n + 1 \in 0 .. MaxTask
    BY <1>0, <1>2, BuildAssumption DEF RegisterTask, Task
  <2>2. NextId \in Thread
    <3>1. id \in Nat
      BY DEF TypeOK, Thread
    <3>2. QED
      BY <1>0, <3>1 DEF NextId, Thread
  <2>3. QED
    BY <1>0, <1>2, <2>1, <2>2 DEF RegisterTask, TypeOK
<1>3. ASSUME NEW a \in Addr, NEW type \in Types, NEW near \in BOOLEAN,
             DeclareAccess(a, type, near)
      PROVE  TypeOK'
  <2> DEFINE s == Sources(a, type)
  <2>1. n \in Node
    BY <1>3 DEF DeclareAccess, RootsAndEnds
  <2>2. [task |-> n, addr |-> a, type |-> type, near |-> near] \in Tuple
    BY <1>0, <2>1, BuildAssumption DEF Tuple
  <2>3. Newly(s) \subseteq Node
    BY SourcesConflict DEF Newly
  <2>4. Cardinality(Newly(s)) \in Nat
    BY <1>0, <2>3, NodesAreTasks, FS_Subset, FS_CardinalityType
  <2>5. tuples' \in Seq(Tuple)
    BY <1>3, <2>2 DEF DeclareAccess, TypeOK
  <2>6. succ' \in [Task -> SUBSET Task]
    BY <1>0, <1>3, <2>1 DEF DeclareAccess, TypeOK
  <2>7. vert' \in [Task -> Task \cup {NoTask}]
    BY <1>0, <1>3, <2>1 DEF DeclareAccess, TypeOK
  <2>8. ref' \in [Task -> Nat]
    BY <1>0, <1>3, <2>1, <2>4 DEF DeclareAccess, TypeOK
  <2>9. ends' \in SUBSET Task /\ linked' \in BOOLEAN
    BY <1>3 DEF DeclareAccess, TypeOK, StillEnds
  <2>10. QED
    BY <1>3, <2>5, <2>6, <2>7, <2>8, <2>9 DEF DeclareAccess, TypeOK
<1>4. CASE EndRegister
  <2>1. n \in Task
    BY <1>0, <1>4 DEF EndRegister, RootsAndEnds
  <2>2. QED
    BY <1>0, <1>4, <2>1 DEF EndRegister, TypeOK
<1>5. CASE EndSplitTask
  BY <1>5 DEF EndSplitTask, TypeOK
<1>6. CASE RecordAccess
  <2>1. Head(tuples) \in Tuple /\ Tail(tuples) \in Seq(Tuple)
    BY <1>6, HeadTailProperties DEF RecordAccess, TypeOK
  <2>2. PICK x \in Tuple : x = Head(tuples)
    BY <2>1
  <2>3. x.task \in Task /\ x.addr \in Addr /\ x.near \in BOOLEAN
    BY DEF Tuple
  <2>4. [task |-> x.task, near |-> x.near] \in Source
    BY <2>3 DEF Source
  <2>5. w' \in [Addr -> Source \cup {NoTask}]
    BY <1>6, <2>2, <2>4 DEF RecordAccess, TypeOK
  <2>6. r[x.addr] \in Seq(Source)
    BY <2>3 DEF TypeOK
  <2>7. Readers(x) \in Seq(Source)
    BY <2>4, <2>6 DEF Readers
  <2>8. r' \in [Addr -> Seq(Source)]
    BY <1>6, <2>2, <2>7 DEF RecordAccess, TypeOK
  <2>9. QED
    BY <1>6, <2>1, <2>5, <2>8 DEF RecordAccess, TypeOK
<1>7. CASE RecordedAll
  BY <1>7 DEF RecordedAll, TypeOK
<1>8. CASE EndConstructDag
  <2>1. n + 1 \in Task
    BY <1>0, <1>8, BuildAssumption DEF EndConstructDag, RootsAndEnds, Finished, Task
  <2>2. Cardinality(ends) \in Nat
    BY <1>0, <1>8, NodesAreTasks, FS_Subset, FS_CardinalityType
       DEF EndConstructDag, RootsAndEnds, Finished
  <2>3. QED
    BY <1>0, <1>8, <2>1, <2>2 DEF EndConstructDag, TypeOK, Task
<1>9. CASE StoreDagInfo
  BY <1>0, <1>9 DEF StoreDagInfo, TypeOK
<1>10. CASE ResetTaskGraph
  BY <1>0, <1>10, BuildAssumption DEF ResetTaskGraph, TypeOK
<1>11. CASE UNCHANGED vars
  BY <1>11 DEF vars, TypeOK
<1>12. QED
  BY <1>1, <1>2, <1>3, <1>4, <1>5, <1>6, <1>7, <1>8, <1>9, <1>10, <1>11 DEF Next

\* The actions that change no edge and no count.
LEMMA Untouched ==
  ASSUME UNCHANGED <<n, succ, vert>>
  PROVE  /\ Node' = Node
         /\ \A t : Targets(t)' = Targets(t)
BY DEF Node, Targets

LEMMA EdgesStep ==
  ASSUME BuildInv, [Next]_vars
  PROVE  Edges'
<1> USE DEF BuildInv, edgeVars, addrVars
<1>0. /\ n \in Nat /\ Node \subseteq Task /\ Task \subseteq Nat
      /\ NoTask \notin Task /\ NoTask \notin Nat
  BY NodesAreTasks, BuildAssumption
<1>1. ASSUME UNCHANGED <<n, succ, vert, ref>>
      PROVE  Edges'
  BY <1>1, Untouched DEF Edges
<1>2. CASE RegisterTask
  <2>1. /\ Node' = Node \cup {n + 1} /\ n + 1 \in Task \ Node
        /\ succ' = succ /\ vert' = vert /\ ref' = ref
        /\ \A t : Targets(t)' = Targets(t)
    BY <1>0, <1>2, BuildAssumption DEF RegisterTask, Node, Task, Targets
  <2>2. Targets(n + 1) = {} /\ ref[n + 1] = 0 /\ vert[n + 1] \notin succ[n + 1]
    BY <2>1 DEF Targets, Edges
  <2>3. ASSUME NEW t \in Node'
        PROVE  {p \in Node : t \in Targets(p)}
                 = {p \in Node' : t \in Targets(p)'}
    BY <2>1, <2>2
  <2>4. {p \in Node : n + 1 \in Targets(p)} = {}
    BY <2>1 DEF Edges
  <2>5. ASSUME NEW t \in Node'
        PROVE  ref'[t] = Cardinality({p \in Node' : t \in Targets(p)'})
    <3>1. {p \in Node' : t \in Targets(p)'} = {p \in Node : t \in Targets(p)}
      BY <2>3
    <3>2. CASE t \in Node
      BY <2>1, <3>1, <3>2 DEF Edges
    <3>3. CASE t = n + 1
      <4>1. {p \in Node' : t \in Targets(p)'} = {}
        BY <2>4, <3>1, <3>3
      <4>2. Cardinality({p \in Node' : t \in Targets(p)'}) = 0
        BY <4>1, FS_EmptySet
      <4>3. QED
        BY <2>1, <2>2, <3>3, <4>2
    <3>4. QED
      BY <2>1, <3>2, <3>3
  <2>6. \A t \in Node' : \A u \in Targets(t)' : u \in Node' /\ t < u
    BY <2>1, <2>2 DEF Edges
  <2>7. QED
    BY <2>1, <2>2, <2>5, <2>6 DEF Edges
<1>3. ASSUME NEW a \in Addr, NEW type \in Types, NEW near \in BOOLEAN,
             DeclareAccess(a, type, near)
      PROVE  Edges'
  <2> DEFINE s == Sources(a, type)
  <2>1. /\ Node' = Node
        /\ \A t \in Task : Targets(t)' =
             IF t \in TasksOf(s) THEN Targets(t) \cup {n} ELSE Targets(t)
        /\ \A t \in Node : vert'[t] \notin succ'[t]
        /\ \A t \in Task \ Node : succ'[t] = succ[t] /\ vert'[t] = vert[t]
    BY <1>3, NewEdges
  <2>2. n \in Node /\ TasksOf(s) \subseteq Node /\ Newly(s) \subseteq Node
    BY <1>3, SourcesConflict DEF DeclareAccess, RootsAndEnds, Newly
  <2>3. ref' = [ref EXCEPT ![n] = @ + Cardinality(Newly(s))]
    BY <1>3 DEF DeclareAccess
  <2>4. \A t \in TasksOf(s) : t < n
    <3>1. SUFFICES ASSUME NEW t \in TasksOf(s)
                   PROVE  t # n
      BY <2>2, <1>0 DEF Node
    <3>2. PICK x \in past : x.task = t
      BY SourcesConflict
    <3>3. loop[t] < lo /\ loop[n] = lo
      BY <1>3, <3>2 DEF DeclareAccess, Loops
    <3>4. lo \in Nat
      BY DEF TypeOK
    <3>5. QED
      BY <3>3, <3>4
  <2>5. ASSUME NEW t \in Node
        PROVE  \A u \in Targets(t)' : u \in Node' /\ t < u
    <3>1. Targets(t)' = IF t \in TasksOf(s) THEN Targets(t) \cup {n} ELSE Targets(t)
      BY <1>0, <2>1
    <3>2. \A u \in Targets(t) : u \in Node /\ t < u
      BY DEF Edges
    <3>3. t \in TasksOf(s) => n \in Node /\ t < n
      BY <2>2, <2>4
    <3> HIDE DEF s
    <3>4. QED
      BY <2>1, <3>1, <3>2, <3>3
  <2>6. ASSUME NEW t \in Node, t # n
        PROVE  ref'[t] = Cardinality({p \in Node' : t \in Targets(p)'})
    <3>1. {p \in Node' : t \in Targets(p)'} = {p \in Node : t \in Targets(p)}
      <4>1. ASSUME NEW p \in Node
            PROVE  t \in Targets(p)' <=> t \in Targets(p)
        <5>1. p \in Task
          BY <1>0
        <5>2. Targets(p)' = IF p \in TasksOf(s) THEN Targets(p) \cup {n} ELSE Targets(p)
          BY <5>1, <2>1
        <5>3. QED
          BY <5>2, <2>6
      <4>2. QED
        BY <4>1, <2>1
    <3>2. ref'[t] = ref[t]
      BY <2>3, <2>6, <1>0 DEF TypeOK
    <3>3. QED
      BY <3>1, <3>2 DEF Edges
  <2>7. ref'[n] = Cardinality({p \in Node' : n \in Targets(p)'})
    <3> DEFINE P == {p \in Node : n \in Targets(p)}
    <3>1. {p \in Node' : n \in Targets(p)'} = P \cup Newly(s) /\ P \cap Newly(s) = {}
      BY <1>0, <2>1, <2>2 DEF Newly
    <3>2. IsFiniteSet(P) /\ IsFiniteSet(Newly(s)) /\ Cardinality(P) \in Nat
            /\ Cardinality(Newly(s)) \in Nat
      BY <2>2, NodesAreTasks, FS_Subset, FS_CardinalityType
    <3>3. Cardinality(P \cup Newly(s)) = Cardinality(P) + Cardinality(Newly(s))
      <4> HIDE DEF P
      <4>1. Cardinality(P \cup Newly(s))
              = Cardinality(P) + Cardinality(Newly(s)) - Cardinality(P \cap Newly(s))
        BY <3>2, FS_Union
      <4>2. Cardinality(P \cap Newly(s)) = 0
        BY <3>1, FS_EmptySet
      <4>3. QED
        BY <4>1, <4>2, <3>2
    <3>4. ref'[n] = ref[n] + Cardinality(Newly(s))
      BY <2>2, <2>3, <1>0 DEF TypeOK
    <3>5. QED
      BY <2>2, <3>1, <3>3, <3>4 DEF Edges
  <2>8. \A t \in Task \ Node : ref'[t] = ref[t]
    BY <1>0, <2>2, <2>3 DEF TypeOK
  <2>9. QED
    BY <2>1, <2>5, <2>6, <2>7, <2>8, <1>0 DEF Edges
<1>4. CASE EndConstructDag
  <2>1. /\ Node' = Node \cup {n + 1} /\ n + 1 \in Task \ Node
        /\ succ' = succ
        /\ vert' = [t \in Task |-> IF t \in ends THEN n + 1 ELSE vert[t]]
        /\ ref' = [ref EXCEPT ![n + 1] = Cardinality(ends)]
    BY <1>0, <1>4, BuildAssumption DEF EndConstructDag, Node, Task, RootsAndEnds, Finished
  <2>2. ends = {t \in Node : Targets(t) = {}}
    BY <1>4 DEF EndConstructDag, RootsAndEnds, Finished
  <2>3. ASSUME NEW t \in Task
        PROVE  Targets(t)' = IF t \in ends THEN {n + 1} ELSE Targets(t)
    <3>1. Targets(t)' = succ[t] \cup ({vert'[t]} \ {NoTask})
      BY <2>1 DEF Targets
    <3>2. CASE t \in ends
      BY <1>0, <2>1, <2>2, <3>1, <3>2 DEF Targets
    <3>3. CASE t \notin ends
      BY <2>1, <3>1, <3>3 DEF Targets
    <3>4. QED
      BY <3>2, <3>3
  <2>4. Targets(n + 1) = {} /\ ref[n + 1] = 0 /\ succ[n + 1] = {} /\ vert[n + 1] = NoTask
    BY <2>1 DEF Targets, Edges
  <2>5. \A t \in Task \ Node' : succ'[t] = {} /\ vert'[t] = NoTask /\ ref'[t] = 0
    BY <1>0, <2>1, <2>2 DEF Edges, TypeOK
  <2>6. ASSUME NEW t \in Node', NEW u \in Targets(t)'
        PROVE  u \in Node' /\ t < u
    BY <1>0, <2>1, <2>2, <2>3, <2>4 DEF Edges, Node
  <2>7. ASSUME NEW t \in Node'
        PROVE  vert'[t] \notin succ'[t]
    BY <1>0, <2>1, <2>2, <2>4 DEF Edges, Targets
  <2>8. ASSUME NEW t \in Node
        PROVE  ref'[t] = Cardinality({p \in Node' : t \in Targets(p)'})
    <3>1. {p \in Node' : t \in Targets(p)'} = {p \in Node : t \in Targets(p)}
      <4>1. ASSUME NEW p \in Node
            PROVE  t \in Targets(p)' <=> t \in Targets(p)
        <5>1. p \in Task /\ t # n + 1
          BY <1>0, <2>1
        <5>2. Targets(p)' = IF p \in ends THEN {n + 1} ELSE Targets(p)
          BY <5>1, <2>3
        <5>3. p \in ends => Targets(p) = {}
          BY <2>2
        <5>4. QED
          BY <5>1, <5>2, <5>3
      <4>2. \A e \in Task : e = n + 1 => t \notin Targets(e)'
        <5>1. \A e \in Task : e = n + 1 => Targets(e)' = {} \cup Targets(e)
          BY <2>1, <2>2, <2>3
        <5>2. QED
          BY <5>1, <2>4
      <4>3. QED
        BY <4>1, <4>2, <2>1
    <3>2. ref'[t] = ref[t]
      BY <1>0, <2>1 DEF TypeOK
    <3>3. QED
      BY <3>1, <3>2 DEF Edges
  <2>9. ref'[n + 1] = Cardinality({p \in Node' : n + 1 \in Targets(p)'})
    <3>1. {p \in Node' : n + 1 \in Targets(p)'} = ends
      <4>1. \A p \in Node : n + 1 \notin Targets(p)
        BY <2>1 DEF Edges
      <4>2. QED
        BY <1>0, <2>1, <2>2, <2>3, <2>4, <4>1
    <3>2. ref'[n + 1] = Cardinality(ends)
      BY <2>1 DEF TypeOK
    <3>3. QED
      BY <3>1, <3>2
  <2>10. QED
    BY <2>1, <2>5, <2>6, <2>7, <2>8, <2>9 DEF Edges
<1>5. CASE ResetTaskGraph
  BY <1>5 DEF ResetTaskGraph, Edges, Node
<1>6. QED
  BY <1>1, <1>2, <1>3, <1>4, <1>5
     DEF Next, BeginSplitTask, EndRegister, EndSplitTask, RecordAccess, RecordedAll,
         StoreDagInfo, vars

\* A new task is no target and has none; the other edges stay.
LEMMA RegisterEdges ==
  ASSUME BuildInv, RegisterTask
  PROVE  /\ Node' = Node \cup {n + 1} /\ n + 1 \in Task \ Node
         /\ \A t : Targets(t)' = Targets(t)
         /\ Targets(n + 1) = {}
         /\ \A p \in Node' : n + 1 \notin Targets(p)
<1>1. /\ Node' = Node \cup {n + 1} /\ n + 1 \in Task \ Node
      /\ \A t : Targets(t)' = Targets(t)
  BY NodesAreTasks, BuildAssumption
     DEF BuildInv, RegisterTask, Node, Task, Targets, edgeVars
<1>2. Targets(n + 1) = {}
  BY <1>1 DEF Targets, BuildInv, Edges
<1>3. QED
  BY <1>1, <1>2 DEF BuildInv, Edges

\* end_construct_dag gives the end task to every task without a target.
LEMMA EndEdges ==
  ASSUME BuildInv, EndConstructDag
  PROVE  /\ Node' = Node \cup {n + 1} /\ n + 1 \in Task \ Node /\ n' = n + 1
         /\ \A t \in Task : Targets(t)' = IF t \in ends THEN {n + 1} ELSE Targets(t)
         /\ ends = {t \in Node : Targets(t) = {}}
         /\ \A e \in Task : e = n + 1 => Targets(e)' = {}
         /\ \A p \in Node : n + 1 \notin Targets(p)
<1> USE DEF BuildInv
<1>0. n \in Nat /\ Node \subseteq Task /\ Task \subseteq Nat /\ NoTask \notin Nat
  BY NodesAreTasks, BuildAssumption
<1>1. /\ Node' = Node \cup {n + 1} /\ n + 1 \in Task \ Node /\ n' = n + 1
      /\ succ' = succ
      /\ vert' = [t \in Task |-> IF t \in ends THEN n + 1 ELSE vert[t]]
  BY <1>0, BuildAssumption
     DEF EndConstructDag, Node, Task, RootsAndEnds, Finished
<1>2. ends = {t \in Node : Targets(t) = {}}
  BY DEF EndConstructDag, RootsAndEnds, Finished
<1>3. ASSUME NEW t \in Task
      PROVE  Targets(t)' = IF t \in ends THEN {n + 1} ELSE Targets(t)
  <2>1. Targets(t)' = succ[t] \cup ({vert'[t]} \ {NoTask})
    BY <1>1 DEF Targets
  <2>2. CASE t \in ends
    BY <1>0, <1>1, <1>2, <2>1, <2>2 DEF Targets
  <2>3. CASE t \notin ends
    BY <1>1, <2>1, <2>3 DEF Targets
  <2>4. QED
    BY <2>2, <2>3
<1>4. Targets(n + 1) = {}
  BY <1>1 DEF Targets, Edges
<1>5. \A e \in Task : e = n + 1 => Targets(e)' = {}
  BY <1>1, <1>2, <1>3, <1>4
<1>6. \A p \in Node : n + 1 \notin Targets(p)
  BY <1>1 DEF Edges
<1>7. QED
  BY <1>1, <1>2, <1>3, <1>5, <1>6

LEMMA RootsAndEndsStep ==
  ASSUME BuildInv, [Next]_vars
  PROVE  RootsAndEnds'
<1> USE DEF BuildInv, edgeVars, addrVars
<1>0. /\ n \in Nat /\ Node \subseteq Task /\ Task \subseteq Nat /\ MaxTask \in Nat \ {0}
      /\ NoTask \notin Task /\ NoTask \notin Nat
  BY NodesAreTasks, BuildAssumption
<1>1. ASSUME UNCHANGED <<n, succ, vert, ends, roots, linked>>,
             Finished' <=> Finished, pc' = "task" <=> pc = "task"
      PROVE  RootsAndEnds'
  <2>1. Node' = Node /\ \A t : Targets(t)' = Targets(t)
    BY <1>1, Untouched
  <2>2. Registered' = Registered
    BY <1>1, <2>1 DEF Registered
  <2>3. roots' = {t \in Registered' : \A p \in Node' : t \notin Targets(p)'}
    BY <1>1, <2>1, <2>2 DEF RootsAndEnds
  <2>4. pc' = "task" => linked' = \E p \in Node' : n' \in Targets(p)'
    BY <1>1, <2>1 DEF RootsAndEnds
  <2>5. ~Finished' => ends' = {t \in Node' : Targets(t)' = {}}
    BY <1>1, <2>1 DEF RootsAndEnds
  <2>6. Finished' => /\ n' \in Node'
                     /\ \A t \in Node' \ {n'} : Targets(t)' # {} /\ n' \notin succ'[t]
                     /\ ends' = {t \in Node' : n' \in Targets(t)'}
    BY <1>1, <2>1 DEF RootsAndEnds
  <2>7. (pc' = "task" => n' \in Node') /\ (~Finished' => n' < MaxTask)
    BY <1>1, <2>1 DEF RootsAndEnds
  <2>8. QED
    BY <2>3, <2>4, <2>5, <2>6, <2>7 DEF RootsAndEnds
<1>2. CASE RegisterTask
  <2>1. pc' = "task" /\ ~Finished' /\ ~Finished /\ pc # "task"
    BY <1>2 DEF RegisterTask, Finished
  <2>2. n' = n + 1 /\ Registered' = Node /\ Registered = Node
    BY <1>2, <2>1, RegisterEdges DEF RegisterTask, Registered
  <2>3. roots' = {t \in Registered' : \A p \in Node' : t \notin Targets(p)'}
    <3>1. roots' = {t \in Node : \A p \in Node : t \notin Targets(p)}
      BY <1>2, <2>2 DEF RootsAndEnds, RegisterTask
    <3>2. ASSUME NEW t \in Node
          PROVE  (\A p \in Node' : t \notin Targets(p)') <=> (\A p \in Node : t \notin Targets(p))
      BY <1>2, RegisterEdges
    <3>3. QED
      BY <2>2, <3>1, <3>2
  <2>4. linked' = FALSE /\ \A p \in Node' : n' \notin Targets(p)'
    BY <1>2, <2>2, RegisterEdges DEF RegisterTask
  <2>5. ends' = {t \in Node' : Targets(t)' = {}}
    <3>1. ends' = {t \in Node : Targets(t) = {}} \cup {n + 1}
      BY <1>2, <2>1 DEF RegisterTask, RootsAndEnds
    <3>2. \A t \in Node' : Targets(t)' = Targets(t)
      BY <1>2, RegisterEdges
    <3>3. QED
      BY <1>2, <3>1, <3>2, RegisterEdges
  <2>6. n' \in Node' /\ n' < MaxTask
    BY <1>2, <2>2, RegisterEdges DEF RegisterTask
  <2>7. QED
    BY <2>1, <2>3, <2>4, <2>5, <2>6 DEF RootsAndEnds
<1>3. ASSUME NEW a \in Addr, NEW type \in Types, NEW near \in BOOLEAN,
             DeclareAccess(a, type, near)
      PROVE  RootsAndEnds'
  <2> DEFINE s == Sources(a, type)
  <2>1. /\ Node' = Node /\ n' = n
        /\ \A t \in Task : Targets(t)' =
             IF t \in TasksOf(s) THEN Targets(t) \cup {n} ELSE Targets(t)
    BY <1>3, NewEdges
  <2>2. /\ pc = "task" /\ pc' = "task" /\ ~Finished /\ ~Finished' /\ n \in Node
        /\ Registered = Node \ {n} /\ Registered' = Node \ {n}
    BY <1>3, <2>1 DEF DeclareAccess, RootsAndEnds, Finished, Registered
  <2>3. /\ TasksOf(s) \subseteq Node
        /\ s # <<>> <=> TasksOf(s) # {}
    BY SourcesConflict, SourcesType
  <2>4. \A t \in Registered, p \in Node : t \in Targets(p)' <=> t \in Targets(p)
    BY <1>0, <2>1, <2>2
  <2>5. roots' = {t \in Registered' : \A p \in Node' : t \notin Targets(p)'}
    <3>1. roots' = roots
      BY <1>3 DEF DeclareAccess
    <3>2. QED
      BY <2>1, <2>2, <2>4, <3>1 DEF RootsAndEnds
  <2>6. linked' = \E p \in Node' : n' \in Targets(p)'
    <3>1. linked' = (linked \/ s # <<>>)
      BY <1>3 DEF DeclareAccess
    <3>2. linked = \E p \in Node : n \in Targets(p)
      BY <2>2 DEF RootsAndEnds
    <3>3. ASSUME NEW p \in Node
          PROVE  n \in Targets(p)' <=> (n \in Targets(p) \/ p \in TasksOf(s))
      BY <1>0, <2>1
    <3>4. (\E p \in Node : n \in Targets(p)')
            <=> ((\E p \in Node : n \in Targets(p)) \/ TasksOf(s) # {})
      BY <2>3, <3>3
    <3>5. linked' \in BOOLEAN
      BY TypeStep, <1>3 DEF TypeOK, Next
    <3>6. QED
      BY <2>1, <2>3, <3>1, <3>2, <3>4, <3>5
  <2>7. ends' = {t \in Node' : Targets(t)' = {}}
    <3>1. ends' = ends \ TasksOf(s)
      BY <1>3 DEF DeclareAccess, StillEnds
    <3>2. ends = {t \in Node : Targets(t) = {}}
      BY <2>2 DEF RootsAndEnds
    <3>3. ASSUME NEW t \in Node
          PROVE  Targets(t)' = {} <=> (Targets(t) = {} /\ t \notin TasksOf(s))
      BY <1>0, <2>1
    <3>4. QED
      BY <2>1, <3>1, <3>2, <3>3
  <2>8. QED
    BY <2>1, <2>2, <2>5, <2>6, <2>7 DEF RootsAndEnds
<1>4. CASE EndRegister
  <2>1. /\ pc = "task" /\ pc' = "loop" /\ ~Finished /\ ~Finished' /\ n \in Node
        /\ Node' = Node /\ \A t : Targets(t)' = Targets(t)
    BY <1>4, Untouched DEF EndRegister, RootsAndEnds, Finished
  <2>2. Registered = Node \ {n} /\ Registered' = Node
    BY <2>1 DEF Registered
  <2>3. linked = \E p \in Node : n \in Targets(p)
    BY <2>1 DEF RootsAndEnds
  <2>4. roots' = {t \in Registered' : \A p \in Node' : t \notin Targets(p)'}
    BY <1>4, <2>1, <2>2, <2>3 DEF EndRegister, RootsAndEnds
  <2>5. QED
    BY <1>4, <2>1, <2>4 DEF EndRegister, RootsAndEnds
<1>5. CASE EndConstructDag
  <2>1. ~Finished /\ Finished' /\ pc # "task" /\ pc' # "task"
    BY <1>5 DEF EndConstructDag, Finished
  <2>2. n' = n + 1 /\ Registered' = Node /\ Registered = Node
    BY <1>0, <1>5, <2>1, EndEdges DEF Registered
  <2>3. ASSUME NEW t \in Node
        PROVE  (\A p \in Node' : t \notin Targets(p)') <=> (\A p \in Node : t \notin Targets(p))
    <3>1. \A p \in Node : t \in Targets(p)' <=> t \in Targets(p)
      BY <1>0, <1>5, EndEdges
    <3>2. QED
      BY <1>5, <3>1, EndEdges
  <2>4. roots' = {t \in Registered' : \A p \in Node' : t \notin Targets(p)'}
    BY <1>5, <2>2, <2>3 DEF EndConstructDag, RootsAndEnds
  <2>5. n' \in Node' /\ Node' \ {n'} = Node
    BY <1>5, <2>2, EndEdges
  <2>6. \A t \in Node : Targets(t)' # {} /\ n' \notin succ'[t]
    <3>1. succ' = succ
      BY <1>5 DEF EndConstructDag
    <3>2. \A t \in Node : n + 1 \notin succ[t]
      BY <1>5, EndEdges DEF Targets
    <3>3. QED
      BY <1>0, <1>5, <2>2, <3>1, <3>2, EndEdges
  <2>7. ends' = {t \in Node' : n' \in Targets(t)'}
    <3>1. ends' = ends /\ ends \subseteq Node
      BY <1>5, EndEdges DEF EndConstructDag
    <3>2. \A t \in Node : n' \in Targets(t)' <=> t \in ends
      BY <1>0, <1>5, <2>2, EndEdges
    <3>3. \A t \in Node' : t = n' => n' \notin Targets(t)' /\ t \notin ends
      <4>1. n + 1 \in Task \ Node /\ \A e \in Task : e = n + 1 => Targets(e)' = {}
        BY <1>5, EndEdges
      <4>2. QED
        BY <2>2, <3>1, <4>1
    <3>4. QED
      BY <2>5, <3>1, <3>2, <3>3
  <2>8. QED
    BY <2>1, <2>4, <2>5, <2>6, <2>7 DEF RootsAndEnds
<1>6. CASE ResetTaskGraph
  BY <1>0, <1>6 DEF ResetTaskGraph, RootsAndEnds, Registered, Node, Targets, Finished
<1>7. QED
  BY <1>1, <1>2, <1>3, <1>4, <1>5, <1>6
     DEF Next, BeginSplitTask, EndSplitTask, RecordAccess, RecordedAll,
         StoreDagInfo, vars, Finished

LEMMA LoopsStep ==
  ASSUME BuildInv, [Next]_vars
  PROVE  Loops'
<1> USE DEF BuildInv, edgeVars, addrVars
<1>0. /\ n \in Nat /\ Node \subseteq Task /\ Task \subseteq Nat /\ lo \in Nat
      /\ \A t \in Task : loop[t] \in Nat
      /\ tuples \in Seq(Tuple)
  BY NodesAreTasks DEF TypeOK
<1>1. CASE BeginSplitTask
  <2>1. /\ ~Splitting /\ Splitting' /\ ~Finished /\ pc' = "loop" /\ Node' = Node
        /\ lo' = n + 1 /\ n' = n /\ loop' = loop /\ past' = past /\ tuples' = <<>>
    BY <1>1 DEF BeginSplitTask, Splitting, Finished, Node
  <2>2. \A t \in Node : loop[t] < n + 1
    <3>1. \A t \in Node : t < n + 1 /\ loop[t] <= t
      BY <1>0 DEF Loops, Node
    <3>2. QED
      BY <1>0, <3>1
  <2>3. \A i \in 1 .. Len(tuples') : FALSE
    BY <2>1
  <2>4. \A x \in past : x.task \in Node /\ loop[x.task] < n + 1
    BY <2>2 DEF Loops
  <2>5. (\A t \in Node : loop[t] <= n + 1) /\ lo' <= n + 1
    BY <1>0, <2>1, <2>2
  <2>6. QED
    BY <2>1, <2>3, <2>4, <2>5 DEF Loops
<1>2. CASE RegisterTask
  <2>1. /\ Splitting /\ Splitting' /\ ~Finished /\ pc = "loop" /\ pc' = "task"
        /\ n' = n + 1 /\ loop' = [loop EXCEPT ![n + 1] = lo]
        /\ lo' = lo /\ past' = past /\ tuples' = tuples
    BY <1>2 DEF RegisterTask, Splitting, Finished
  <2>2. Node' = Node \cup {n + 1} /\ n + 1 \in Task \ Node
    BY <1>2, RegisterEdges
  <2>3. /\ loop'[n + 1] = lo /\ \A t \in Task \ {n + 1} : loop'[t] = loop[t]
        /\ \A t \in Node : loop'[t] = loop[t] /\ t # n + 1 /\ t < n + 1
    BY <1>0, <2>1, <2>2 DEF TypeOK, Node
  <2>4. lo <= n + 1
    BY <2>1 DEF Loops
  <2>5. \A t \in Task : loop'[t] <= t
    BY <1>0, <2>3, <2>4 DEF Loops
  <2>6. \A t \in Node' : loop'[t] <= lo
    BY <1>0, <2>1, <2>2, <2>3 DEF Loops
  <2>7. \A t, u \in Node' : t < u => loop'[t] <= loop'[u]
    BY <1>0, <2>1, <2>2, <2>3 DEF Loops
  <2>8. \A x \in past : x.task \in Node' /\ loop'[x.task] < lo
    BY <1>0, <2>1, <2>2, <2>3 DEF Loops
  <2>9. \A i \in 1 .. Len(tuples) : tuples[i].task \in Node' /\ loop'[tuples[i].task] = lo
    BY <1>0, <2>1, <2>2, <2>3 DEF Loops
  <2>10. QED
    BY <1>0, <2>1, <2>3, <2>4, <2>5, <2>6, <2>7, <2>8, <2>9 DEF Loops
<1>3. ASSUME NEW a \in Addr, NEW type \in Types, NEW near \in BOOLEAN,
             DeclareAccess(a, type, near)
      PROVE  Loops'
  <2> DEFINE x == [task |-> n, addr |-> a, type |-> type, near |-> near]
  <2>1. /\ Splitting /\ Splitting' /\ ~Finished /\ pc = "task" /\ pc' = "task"
        /\ n' = n /\ Node' = Node /\ loop' = loop /\ lo' = lo /\ past' = past
        /\ tuples' = Append(tuples, x) /\ n \in Node
    BY <1>3 DEF DeclareAccess, Splitting, Finished, Node, RootsAndEnds
  <2>2. x \in Tuple /\ x.task = n
    BY <1>0, <2>1, BuildAssumption DEF Tuple
  <2>3. /\ Len(tuples') = Len(tuples) + 1
        /\ \A i \in 1 .. Len(tuples) + 1 :
             tuples'[i] = IF i <= Len(tuples) THEN tuples[i] ELSE x
    BY <1>0, <2>1, <2>2
  <2>4. \A i \in 1 .. Len(tuples') : tuples'[i].task \in Node /\ loop[tuples'[i].task] = lo
    BY <1>0, <2>1, <2>2, <2>3 DEF Loops
  <2>5. QED
    BY <2>1, <2>4 DEF Loops
<1>4. CASE EndRegister
  BY <1>4 DEF EndRegister, Loops, Splitting, Finished, Node
<1>5. CASE EndSplitTask
  BY <1>5 DEF EndSplitTask, Loops, Splitting, Finished, Node
<1>6. CASE RecordAccess
  <2>1. /\ Splitting /\ Splitting' /\ ~Finished /\ pc = "flush" /\ pc' = "flush"
        /\ n' = n /\ Node' = Node /\ loop' = loop /\ lo' = lo /\ tuples # <<>>
        /\ tuples' = Tail(tuples) /\ past' = past \cup {Head(tuples)}
    BY <1>6 DEF RecordAccess, Splitting, Finished, Node
  <2>2. /\ Head(tuples) = tuples[1] /\ Len(tuples) >= 1
        /\ Len(tuples') = Len(tuples) - 1
        /\ \A i \in 1 .. Len(tuples) - 1 : tuples'[i] = tuples[i + 1]
    BY <1>0, <2>1
  <2>3. \A y \in past' : y.task \in Node
    BY <1>0, <2>1, <2>2 DEF Loops
  <2>4. \A i \in 1 .. Len(tuples') : tuples'[i].task \in Node /\ loop[tuples'[i].task] = lo
    BY <1>0, <2>2 DEF Loops
  <2>5. QED
    BY <2>1, <2>3, <2>4 DEF Loops
<1>7. CASE RecordedAll
  BY <1>7 DEF RecordedAll, Loops, Splitting, Finished, Node
<1>8. CASE EndConstructDag
  <2>1. /\ ~Splitting /\ ~Splitting' /\ Finished' /\ pc' = "built" /\ loop' = loop
        /\ past' = past /\ tuples' = tuples /\ Node \subseteq Node'
    BY <1>8, EndEdges DEF EndConstructDag, Splitting, Finished
  <2>2. QED
    BY <2>1 DEF Loops
<1>9. CASE StoreDagInfo
  BY <1>9 DEF StoreDagInfo, Loops, Splitting, Finished, Node
<1>10. CASE ResetTaskGraph
  <2>1. ~Splitting /\ ~Splitting' /\ past' = {} /\ Node' = {} /\ tuples' = <<>>
    BY <1>10 DEF ResetTaskGraph, Loops, Splitting, Finished, Node
  <2>2. \A t \in Task : loop'[t] = 0
    BY <1>10 DEF ResetTaskGraph
  <2>3. \A i \in 1 .. Len(tuples') : FALSE
    BY <2>1
  <2>4. pc' = "idle"
    BY <1>10 DEF ResetTaskGraph
  <2>5. QED
    BY <1>0, <2>1, <2>2, <2>3, <2>4 DEF Loops
<1>11. CASE UNCHANGED vars
  BY <1>11 DEF vars, Loops, Splitting, Finished, Node
<1>12. QED
  BY <1>1, <1>2, <1>3, <1>4, <1>5, <1>6, <1>7, <1>8, <1>9, <1>10, <1>11 DEF Next

LEMMA RecordedStep ==
  ASSUME BuildInv, [Next]_vars
  PROVE  Recorded'
<1> USE DEF BuildInv, edgeVars, addrVars
<1>1. ASSUME UNCHANGED <<w, r, past>>
      PROVE  Recorded'
  BY <1>1 DEF Recorded
<1>2. CASE RecordAccess
  <2>1. Head(tuples) \in Tuple
    BY <1>2, HeadTailProperties DEF RecordAccess, TypeOK
  <2>2. PICK x \in Tuple : x = Head(tuples)
    BY <2>1
  <2>3. /\ x.addr \in Addr /\ x.task \in Task /\ x.near \in BOOLEAN /\ x.type \in Type
        /\ r[x.addr] \in Seq(Source)
    BY DEF Tuple, TypeOK
  <2>4. past' = past \cup {x}
    BY <1>2, <2>2 DEF RecordAccess
  <2>5. \A a \in Addr : a # x.addr => w'[a] = w[a] /\ r'[a] = r[a]
    BY <1>2, <2>2 DEF RecordAccess, TypeOK
  <2>6. w'[x.addr] = IF Writes(x.type) THEN [task |-> x.task, near |-> x.near] ELSE w[x.addr]
    BY <1>2, <2>2, <2>3 DEF RecordAccess, TypeOK, Writes
  <2>7. r'[x.addr] = IF x.type = "INOUT_NONE" THEN r[x.addr] ELSE Readers(x)
    BY <1>2, <2>2, <2>3 DEF RecordAccess, TypeOK
  <2>8. ASSUME NEW a \in Addr, w'[a] # NoTask
        PROVE  \E y \in past' : y.addr = a /\ y.task = w'[a].task /\ Writes(y.type)
    <3>1. CASE a = x.addr /\ Writes(x.type)
      BY <2>4, <2>6, <3>1
    <3>2. CASE ~(a = x.addr /\ Writes(x.type))
      BY <2>4, <2>5, <2>6, <2>8, <3>2 DEF Recorded
    <3>3. QED
      BY <3>1, <3>2
  <2>9. ASSUME NEW a \in Addr, NEW i \in 1 .. Len(r'[a])
        PROVE  \E y \in past' : y.addr = a /\ y.task = r'[a][i].task /\ y.type = "IN"
    <3>1. CASE r'[a] = r[a]
      BY <2>4, <2>9, <3>1 DEF Recorded
    <3>2. CASE a = x.addr /\ r'[a] = Readers(x)
      <4>1. x.type = "IN"
        BY <2>9, <3>2 DEF Readers
      <4>2. r'[a] = Append(r[a], [task |-> x.task, near |-> x.near])
        BY <3>2, <4>1 DEF Readers
      <4>3. /\ i <= Len(r[a]) => r'[a][i] = r[a][i] /\ i \in 1 .. Len(r[a])
            /\ ~(i <= Len(r[a])) => r'[a][i] = [task |-> x.task, near |-> x.near]
        <5>1. Len(r'[a]) = Len(r[a]) + 1
          BY <2>3, <3>2, <4>2
        <5>2. QED
          BY <2>3, <2>9, <3>2, <4>2, <5>1
      <4>4. QED
        BY <2>4, <3>2, <4>1, <4>3 DEF Recorded
    <3>3. QED
      BY <2>5, <2>7, <3>1, <3>2
  <2>10. QED
    BY <2>8, <2>9 DEF Recorded
<1>3. CASE ResetTaskGraph
  BY <1>3 DEF ResetTaskGraph, Recorded
<1>4. QED
  BY <1>1, <1>2, <1>3
     DEF Next, BeginSplitTask, RegisterTask, DeclareAccess, EndRegister, EndSplitTask,
         RecordedAll, EndConstructDag, StoreDagInfo, vars

-----------------------------------------------------------------------------
(***************************************************************************)
(* Paths.                                                                  *)
(***************************************************************************)

LEMMA ReachSelf ==
  ASSUME NEW t
  PROVE  Reach(t, t)
BY DEF Reach

LEMMA ReachTrans ==
  ASSUME NEW t, NEW u, NEW v, Reach(t, u), Reach(u, v)
  PROVE  Reach(t, v)
BY DEF Reach

LEMMA ReachEdge ==
  ASSUME NEW t, NEW u \in Targets(t)
  PROVE  Reach(t, u)
BY DEF Reach, Closed

\* Until the graph is dropped it only grows.
LEMMA GraphGrows ==
  ASSUME BuildInv, [Next]_vars, ~ResetTaskGraph
  PROVE  /\ Node \subseteq Node'
         /\ \A t \in Node : Targets(t) \subseteq Targets(t)'
<1> USE DEF edgeVars, addrVars
<1>0. Node \subseteq Task
  BY NodesAreTasks DEF BuildInv
<1>1. ASSUME UNCHANGED <<n, succ, vert>>
      PROVE  Node \subseteq Node' /\ \A t \in Node : Targets(t) \subseteq Targets(t)'
  BY <1>1, Untouched
<1>2. CASE RegisterTask
  BY <1>2, RegisterEdges
<1>3. ASSUME NEW a \in Addr, NEW type \in Types, NEW near \in BOOLEAN,
             DeclareAccess(a, type, near)
      PROVE  Node \subseteq Node' /\ \A t \in Node : Targets(t) \subseteq Targets(t)'
  BY <1>0, <1>3, NewEdges
<1>4. CASE EndConstructDag
  BY <1>0, <1>4, EndEdges
<1>5. QED
  BY <1>1, <1>2, <1>3, <1>4
     DEF Next, BeginSplitTask, EndRegister, EndSplitTask, RecordAccess, RecordedAll,
         StoreDagInfo, vars

\* ... so that what is ordered stays ordered.
LEMMA ReachStep ==
  ASSUME BuildInv, [Next]_vars, ~ResetTaskGraph,
         NEW t \in Node, NEW u, Reach(t, u)
  PROVE  Reach(t, u)'
<1> SUFFICES ASSUME NEW S \in SUBSET Node', t \in S, \A p \in S : Targets(p)' \subseteq S
             PROVE  u \in S
  BY DEF Reach, Closed
<1>1. S \cap Node \in SUBSET Node /\ t \in S \cap Node
  OBVIOUS
<1>2. \A p \in S \cap Node : Targets(p) \subseteq S \cap Node
  BY GraphGrows DEF BuildInv, Edges
<1>3. QED
  BY <1>1, <1>2 DEF Reach, Closed

-----------------------------------------------------------------------------
(***************************************************************************)
(* Accesses.                                                               *)
(***************************************************************************)

\* An access belongs to a task of the graph, and is recorded or of this loop.
LEMMA AccessNodes ==
  ASSUME BuildInv, NEW x \in Accesses
  PROVE  /\ x \in Tuple /\ x.task \in Node /\ x.type # "INOUT_NONE"
         /\ x \in past \/ (loop[x.task] = lo /\ Splitting)
<1>1. x \in past \/ \E i \in 1 .. Len(tuples) : x = tuples[i]
  BY DEF Accesses
<1>2. tuples \in Seq(Tuple) /\ past \in SUBSET Tuple
  BY DEF BuildInv, TypeOK
<1>3. CASE x \in past
  BY <1>2, <1>3 DEF BuildInv, Loops, Accesses
<1>4. ASSUME NEW i \in 1 .. Len(tuples), x = tuples[i]
      PROVE  x \in Tuple /\ x.task \in Node /\ loop[x.task] = lo /\ Splitting
  <2>1. tuples # <<>> /\ x \in Tuple
    BY <1>2, <1>4
  <2>2. QED
    BY <1>4, <2>1 DEF BuildInv, Loops
<1>5. QED
  BY <1>1, <1>3, <1>4 DEF Accesses

\* Only DeclareAccess adds an access; end_split_task moves them.
LEMMA AccessesStep ==
  ASSUME BuildInv, [Next]_vars, ~ResetTaskGraph
  PROVE  /\ Accesses \subseteq Accesses'
         /\ \/ Accesses' = Accesses
            \/ \E a \in Addr, type \in Types, near \in BOOLEAN :
                 /\ DeclareAccess(a, type, near)
                 /\ Accesses' = Accesses \cup
                      (IF type = "INOUT_NONE" THEN {} ELSE
                       {[task |-> n, addr |-> a, type |-> type, near |-> near]})
         /\ \A x \in Accesses : loop'[x.task] = loop[x.task]
<1> USE DEF BuildInv, edgeVars, addrVars
<1> DEFINE Pending == {tuples[i] : i \in 1 .. Len(tuples)}
<1>0. tuples \in Seq(Tuple) /\ Node \subseteq Task
  BY NodesAreTasks DEF TypeOK
<1>1. \A x \in Accesses : x.task \in Node
  BY AccessNodes
<1>2. ASSUME UNCHANGED <<past, tuples, loop>>
      PROVE  Accesses' = Accesses /\ \A x \in Accesses : loop'[x.task] = loop[x.task]
  BY <1>2 DEF Accesses
<1>3. CASE BeginSplitTask
  <2>1. tuples = <<>> /\ tuples' = <<>>
    BY <1>3 DEF BeginSplitTask, Loops, Splitting
  <2>2. QED
    BY <1>2, <1>3, <2>1 DEF BeginSplitTask
<1>4. CASE RegisterTask
  <2>1. Accesses' = Accesses
    BY <1>4 DEF RegisterTask, Accesses
  <2>2. \A t \in Node : loop'[t] = loop[t]
    BY <1>0, <1>4, RegisterEdges DEF RegisterTask, TypeOK
  <2>3. QED
    BY <1>1, <2>1, <2>2
<1>5. ASSUME NEW a \in Addr, NEW type \in Types, NEW near \in BOOLEAN,
             DeclareAccess(a, type, near)
      PROVE  /\ Accesses' = Accesses \cup
                  (IF type = "INOUT_NONE" THEN {} ELSE
                   {[task |-> n, addr |-> a, type |-> type, near |-> near]})
             /\ \A x \in Accesses : loop'[x.task] = loop[x.task]
  <2> DEFINE z == [task |-> n, addr |-> a, type |-> type, near |-> near]
  <2>1. past' = past /\ loop' = loop /\ tuples' = Append(tuples, z)
    BY <1>5 DEF DeclareAccess
  <2>2. z \in Tuple
    BY <1>0, <1>5, BuildAssumption DEF Tuple, DeclareAccess, RootsAndEnds
  <2>3. {tuples'[i] : i \in 1 .. Len(tuples')} = Pending \cup {z}
    <3> HIDE DEF z
    <3>1. /\ Len(tuples') = Len(tuples) + 1
          /\ \A i \in 1 .. Len(tuples) + 1 :
               tuples'[i] = IF i <= Len(tuples) THEN tuples[i] ELSE z
      BY <1>0, <2>1, <2>2
    <3>2. Len(tuples) \in Nat
      BY <1>0
    <3>3. \A i \in 1 .. Len(tuples') : tuples'[i] \in Pending \cup {z}
      BY <3>1, <3>2
    <3>4. \A i \in 1 .. Len(tuples) : i \in 1 .. Len(tuples') /\ tuples'[i] = tuples[i]
      BY <3>1, <3>2
    <3>5. Len(tuples) + 1 \in 1 .. Len(tuples') /\ tuples'[Len(tuples) + 1] = z
      BY <3>1, <3>2
    <3>6. QED
      BY <3>3, <3>4, <3>5
  <2>4. Accesses' = {x \in past \cup (Pending \cup {z}) : x.type # "INOUT_NONE"}
    BY <2>1, <2>3 DEF Accesses
  <2>5. z.type = type
    OBVIOUS
  <2>6. QED
    BY <2>1, <2>4, <2>5 DEF Accesses
<1>6. CASE RecordAccess
  <2>1. /\ tuples # <<>> /\ tuples' = Tail(tuples) /\ past' = past \cup {Head(tuples)}
        /\ loop' = loop
    BY <1>6 DEF RecordAccess
  <2>2. /\ Len(tuples) \in Nat /\ Len(tuples) >= 1 /\ Head(tuples) = tuples[1]
        /\ Len(tuples') = Len(tuples) - 1
        /\ \A i \in 1 .. Len(tuples) - 1 : tuples'[i] = tuples[i + 1]
    BY <1>0, <2>1
  <2>3. {Head(tuples)} \cup {tuples'[i] : i \in 1 .. Len(tuples')} = Pending
    <3>1. \A i \in 1 .. Len(tuples') : tuples'[i] \in Pending
      BY <2>2
    <3>2. \A i \in 1 .. Len(tuples) :
            i = 1 \/ (i - 1 \in 1 .. Len(tuples') /\ tuples'[i - 1] = tuples[i])
      BY <2>2
    <3>3. Head(tuples) \in Pending
      BY <2>2
    <3>4. ASSUME NEW i \in 1 .. Len(tuples)
          PROVE  tuples[i] \in {Head(tuples)} \cup {tuples'[j] : j \in 1 .. Len(tuples')}
      <4>1. CASE i = 1
        BY <2>2, <4>1
      <4>2. CASE i # 1
        BY <3>2, <4>2
      <4>3. QED
        BY <4>1, <4>2
    <3>5. QED
      BY <3>1, <3>3, <3>4
  <2>4. past' \cup {tuples'[i] : i \in 1 .. Len(tuples')} = past \cup Pending
    BY <2>1, <2>3
  <2>5. QED
    BY <2>1, <2>4 DEF Accesses
<1>7. QED
  BY <1>2, <1>3, <1>4, <1>5, <1>6
     DEF Next, EndRegister, EndSplitTask, RecordedAll, EndConstructDag, StoreDagInfo, vars

\* Accesses that are independent now were so before.
LEMMA IndependentStep ==
  ASSUME BuildInv, [Next]_vars, ~ResetTaskGraph, NEW a, Independent(a)'
  PROVE  Independent(a)
BY AccessesStep DEF Independent, Conflict

\* A task of the current loop does not depend on the others of its loop: an access
\* that conflicts with its own is of an earlier task.
LEMMA EarlierLoop ==
  ASSUME BuildInv, Splitting, NEW a, Independent(a), NEW x \in Accesses, NEW y \in Accesses,
         x.addr = a, Conflict(y, x), loop[x.task] = lo
  PROVE  y.task < x.task
<1>1. /\ x.task \in Node /\ y.task \in Node /\ Node \subseteq Task
      /\ \A t \in Task : t \in Nat /\ loop[t] \in Nat
  BY AccessNodes, NodesAreTasks DEF BuildInv, TypeOK
<1>2. loop[y.task] # lo /\ x.task # y.task
  BY DEF Independent, Conflict
<1>3. loop[y.task] <= lo /\ lo \in Nat
  BY <1>1 DEF BuildInv, Loops, TypeOK
<1>4. x.task < y.task => loop[x.task] <= loop[y.task]
  BY <1>1 DEF BuildInv, Loops, Splitting, Finished
<1>5. QED
  BY <1>1, <1>2, <1>3, <1>4

-----------------------------------------------------------------------------
(***************************************************************************)
(* The dependences.                                                        *)
(***************************************************************************)

\* When end_split_task records an access, all earlier ones that conflict with it
\* are ordered before it.
LEMMA HeadFollows ==
  ASSUME BuildInv, RecordAccess, NEW x, x = Head(tuples), x.type # "INOUT_NONE",
         Independent(x.addr), NEW y \in past, y.addr = x.addr, y.type # "INOUT_NONE",
         Writes(x.type) \/ Writes(y.type)
  PROVE  Reach(y.task, x.task)
<1>1. /\ x \in Accesses /\ x \in Tuple /\ loop[x.task] = lo /\ Splitting
  <2>1. tuples \in Seq(Tuple) /\ tuples # <<>> /\ pc = "flush"
    BY DEF RecordAccess, BuildInv, TypeOK
  <2>2. 1 \in 1 .. Len(tuples) /\ x = tuples[1]
    BY <2>1
  <2>3. QED
    BY <2>1, <2>2 DEF BuildInv, Loops, Accesses, Splitting
<1>2. y \in Accesses /\ x.addr \in Addr
  BY <1>1 DEF Accesses, Tuple
<1>3. CASE x.task = y.task
  BY <1>3, ReachSelf
<1>4. CASE x.task # y.task
  <2>1. Conflict(y, x)
    BY <1>4 DEF Conflict
  <2>2. y.task < x.task
    BY <1>1, <1>2, <2>1, EarlierLoop
  <2>3. QED
    BY <1>1, <1>2, <2>1, <2>2 DEF BuildInv, DependencesKept
<1>5. QED
  BY <1>3, <1>4

LEMMA AppendTasks ==
  ASSUME NEW s \in Seq(Source), NEW e \in Source
  PROVE  TasksOf(Append(s, e)) = TasksOf(s) \cup {e.task}
<1>1. /\ Len(s) \in Nat /\ Len(Append(s, e)) = Len(s) + 1
      /\ \A i \in 1 .. Len(s) + 1 :
           Append(s, e)[i] = IF i <= Len(s) THEN s[i] ELSE e
  OBVIOUS
<1>2. \A i \in 1 .. Len(s) : i \in 1 .. Len(s) + 1 /\ Append(s, e)[i] = s[i]
  BY <1>1
<1>3. Len(s) + 1 \in 1 .. Len(s) + 1 /\ Append(s, e)[Len(s) + 1] = e
  BY <1>1
<1>4. \A i \in 1 .. Len(s) + 1 : i \in 1 .. Len(s) \/ i = Len(s) + 1
  BY <1>1
<1>5. QED
  BY <1>1, <1>2, <1>3, <1>4 DEF TasksOf

LEMMA SummaryStep ==
  ASSUME BuildInv, [Next]_vars
  PROVE  Summary'
<1> USE DEF edgeVars, addrVars
<1>0. /\ \A a \in Addr : r[a] \in Seq(Source)
      /\ \A y \in past : y \in Tuple /\ y.task \in Node
      /\ \A a \in Addr : w[a] # NoTask => w[a].task \in Node
      /\ \A a \in Addr : \A t \in TasksOf(r[a]) : t \in Node
  <2>1. \A y \in past : y \in Tuple /\ y.task \in Node
    BY DEF BuildInv, TypeOK, Loops
  <2>2. \A a \in Addr : w[a] # NoTask => w[a].task \in Node
    BY <2>1 DEF BuildInv, Recorded
  <2>3. \A a \in Addr : \A t \in TasksOf(r[a]) : t \in Node
    BY <2>1 DEF BuildInv, Recorded, TasksOf
  <2>4. QED
    BY <2>1, <2>2, <2>3 DEF BuildInv, TypeOK
<1>1. ASSUME UNCHANGED <<w, r, past>>, ~ResetTaskGraph, NEW a \in Addr, Independent(a)'
      PROVE  Summarised(a)'
  <2>1. Independent(a)
    BY <1>1, IndependentStep
  <2>2. \A t \in Node : \A u : Reach(t, u) => Reach(t, u)'
    BY <1>1, ReachStep
  <2>3. PICK wa, ra : wa = w[a] /\ ra = r[a]
    OBVIOUS
  <2>4. /\ \A x \in past : x.addr = a /\ Writes(x.type) =>
                  wa # NoTask /\ Reach(x.task, wa.task)
        /\ \A x \in past : x.addr = a /\ x.type = "IN" =>
                  \/ x.task \in TasksOf(ra)
                  \/ wa # NoTask /\ Reach(x.task, wa.task)
        /\ wa # NoTask => \A t \in TasksOf(ra) : Reach(wa.task, t)
    BY <2>1, <2>3 DEF BuildInv, Summary, Summarised
  <2>5. /\ \A x \in past : x.addr = a /\ Writes(x.type) =>
                  wa # NoTask /\ Reach(x.task, wa.task)'
        /\ \A x \in past : x.addr = a /\ x.type = "IN" =>
                  \/ x.task \in TasksOf(ra)
                  \/ wa # NoTask /\ Reach(x.task, wa.task)'
        /\ wa # NoTask => \A t \in TasksOf(ra) : Reach(wa.task, t)'
    BY <1>0, <2>2, <2>3, <2>4
  <2>6. w'[a] = wa /\ r'[a] = ra /\ past' = past
    BY <1>1, <2>3
  <2>7. QED
    BY <2>5, <2>6 DEF Summarised
<1>2. ASSUME UNCHANGED <<w, r, past>>, ~ResetTaskGraph
      PROVE  Summary'
  BY <1>1, <1>2 DEF Summary
<1>3. CASE RecordAccess
  <2>1. /\ \A t, u : Reach(t, u)' <=> Reach(t, u)
        /\ ~ResetTaskGraph
    BY <1>3, Untouched DEF Reach, Closed, RecordAccess, ResetTaskGraph, Finished
  <2>2. Head(tuples) \in Tuple
    BY <1>3, HeadTailProperties DEF RecordAccess, BuildInv, TypeOK
  <2>3. PICK x \in Tuple : x = Head(tuples)
    BY <2>2
  <2>4. /\ x.addr \in Addr /\ x.task \in Task /\ x.near \in BOOLEAN /\ x.type \in Type
        /\ r[x.addr] \in Seq(Source)
    BY <1>0, <2>3 DEF Tuple
  <2>5. past' = past \cup {x}
    BY <1>3, <2>3 DEF RecordAccess
  <2>6. \A a \in Addr : a # x.addr => w'[a] = w[a] /\ r'[a] = r[a]
    BY <1>3, <2>3 DEF RecordAccess, BuildInv, TypeOK
  <2>7. w'[x.addr] = IF Writes(x.type) THEN [task |-> x.task, near |-> x.near] ELSE w[x.addr]
    BY <1>3, <2>3, <2>4 DEF RecordAccess, BuildInv, TypeOK, Writes
  <2>8. r'[x.addr] = IF x.type = "INOUT_NONE" THEN r[x.addr] ELSE Readers(x)
    BY <1>3, <2>3, <2>4 DEF RecordAccess, BuildInv, TypeOK
  <2>9. ASSUME NEW a \in Addr, Independent(a)'
        PROVE  Summarised(a)'
    <3>1. Independent(a)
      BY <2>1, <2>9, IndependentStep
    <3>2. /\ \A y \in past : y.addr = a /\ Writes(y.type) =>
                  w[a] # NoTask /\ Reach(y.task, w[a].task)
          /\ \A y \in past : y.addr = a /\ y.type = "IN" =>
                  \/ y.task \in TasksOf(r[a])
                  \/ w[a] # NoTask /\ Reach(y.task, w[a].task)
          /\ w[a] # NoTask => \A t \in TasksOf(r[a]) : Reach(w[a].task, t)
      BY <3>1 DEF BuildInv, Summary, Summarised
    <3>3. CASE a # x.addr
      BY <2>1, <2>5, <2>6, <3>2, <3>3 DEF Summarised
    <3>4. CASE a = x.addr /\ x.type = "INOUT_NONE"
      BY <2>1, <2>5, <2>7, <2>8, <3>2, <3>4 DEF Writes, Summarised
    <3>5. CASE a = x.addr /\ x.type = "IN"
      <4>1. w'[a] = w[a] /\ r'[a] = Append(r[a], [task |-> x.task, near |-> x.near])
        BY <2>7, <2>8, <3>5 DEF Writes, Readers
      <4>2. TasksOf(r'[a]) = TasksOf(r[a]) \cup {x.task}
        <5>1. [task |-> x.task, near |-> x.near] \in Source
          BY <2>4 DEF Source
        <5>2. TasksOf(Append(r[a], [task |-> x.task, near |-> x.near]))
                = TasksOf(r[a]) \cup {[task |-> x.task, near |-> x.near].task}
          BY <2>4, <3>5, <5>1, AppendTasks
        <5>3. QED
          BY <4>1, <5>2
      <4>3. w[a] # NoTask => Reach(w[a].task, x.task)
        <5>1. SUFFICES ASSUME w[a] # NoTask
                       PROVE  Reach(w[a].task, x.task)
          OBVIOUS
        <5>2. PICK y \in past : y.addr = a /\ y.task = w[a].task /\ Writes(y.type)
          BY <5>1 DEF BuildInv, Recorded
        <5>3. QED
          BY <1>3, <2>3, <3>1, <3>5, <5>2, HeadFollows DEF Writes
      <4>4. QED
        BY <2>1, <2>5, <3>2, <3>5, <4>1, <4>2, <4>3 DEF Writes, Summarised
    <3>6. CASE a = x.addr /\ Writes(x.type)
      <4>1. w'[a] = [task |-> x.task, near |-> x.near] /\ r'[a] = <<>>
        BY <2>7, <2>8, <3>6 DEF Writes, Readers
      <4>2. w'[a] # NoTask /\ w'[a].task = x.task /\ TasksOf(r'[a]) = {}
        <5>1. w'[a] # NoTask
          BY <2>4, <4>1, BuildAssumption DEF Source
        <5>2. TasksOf(r'[a]) = {}
          BY <4>1 DEF TasksOf
        <5>3. QED
          BY <4>1, <5>1, <5>2
      <4>3. \A y \in past : y.addr = a /\ y.type # "INOUT_NONE" => Reach(y.task, x.task)
        BY <1>3, <2>3, <3>1, <3>6, HeadFollows DEF Writes
      <4>4. QED
        BY <2>1, <2>5, <4>2, <4>3, ReachSelf DEF Writes, Summarised
    <3>7. QED
      BY <2>4, <3>3, <3>4, <3>5, <3>6 DEF Type, Writes
  <2>10. QED
    BY <2>9 DEF Summary
<1>4. CASE ResetTaskGraph
  <2>1. /\ past' = {} /\ \A a \in Addr : w'[a] = NoTask
    BY <1>4 DEF ResetTaskGraph
  <2>2. QED
    BY <2>1 DEF Summary, Summarised
<1>5. QED
  BY <1>2, <1>3, <1>4
     DEF Next, BeginSplitTask, RegisterTask, DeclareAccess, EndRegister, EndSplitTask,
         RecordedAll, EndConstructDag, StoreDagInfo, vars

\* The sources of an access stand for all the earlier accesses it conflicts with.
LEMMA SourcesFollow ==
  ASSUME BuildInv, NEW a \in Addr, NEW type \in Type, type # "INOUT_NONE", Independent(a),
         NEW x \in past, x.addr = a, x.type # "INOUT_NONE", Writes(x.type) \/ Writes(type)
  PROVE  \E t \in TasksOf(Sources(a, type)) : Reach(x.task, t)
<1> DEFINE s == Sources(a, type)
<1>1. Summarised(a) /\ r[a] \in Seq(Source)
  BY DEF BuildInv, Summary, TypeOK
<1>2. x.type = "IN" \/ Writes(x.type)
  BY DEF BuildInv, TypeOK, Tuple, Type, Writes
<1>3. CASE type # "IN" /\ r[a] # <<>>
  <2>1. TasksOf(s) = TasksOf(r[a])
    BY <1>3, SourcesType DEF BuildInv
  <2>2. PICK t : t \in TasksOf(r[a])
    <3>1. 1 \in 1 .. Len(r[a])
      BY <1>1, <1>3
    <3>2. QED
      BY <3>1 DEF TasksOf
  <2>3. x.task \in TasksOf(r[a]) \/ (w[a] # NoTask /\ Reach(x.task, w[a].task))
    BY <1>1, <1>2 DEF Summarised
  <2>4. CASE x.task \in TasksOf(r[a])
    BY <2>1, <2>4, ReachSelf
  <2>5. CASE w[a] # NoTask /\ Reach(x.task, w[a].task)
    <3>1. Reach(w[a].task, t)
      BY <1>1, <2>2, <2>5 DEF Summarised
    <3>2. QED
      BY <2>1, <2>2, <2>5, <3>1, ReachTrans
  <2>6. QED
    BY <2>3, <2>4, <2>5
<1>4. CASE type = "IN" \/ r[a] = <<>>
  <2>1. r[a] = <<>> => TasksOf(r[a]) = {}
    BY DEF TasksOf
  <2>2. type = "IN" => Writes(x.type)
    BY DEF Writes
  <2>3. w[a] # NoTask /\ Reach(x.task, w[a].task)
    BY <1>1, <1>2, <1>4, <2>1, <2>2 DEF Summarised
  <2>4. TasksOf(s) = {w[a].task}
    BY <1>4, <2>3, SourcesType DEF BuildInv
  <2>5. QED
    BY <2>3, <2>4
<1>5. QED
  BY <1>3, <1>4

LEMMA DependencesStep ==
  ASSUME BuildInv, [Next]_vars
  PROVE  DependencesKept'
<1>1. CASE ResetTaskGraph
  <2>1. past' = {} /\ tuples' = <<>>
    BY <1>1 DEF ResetTaskGraph, BuildInv, Loops, Splitting, Finished
  <2>2. Accesses' = {}
    BY <2>1 DEF Accesses
  <2>3. QED
    BY <2>2 DEF DependencesKept
<1>2. ASSUME ~ResetTaskGraph, NEW b \in Addr, Independent(b)', NEW x \in Accesses,
             NEW y \in Accesses, x.addr = b, Conflict(x, y), x.task < y.task
      PROVE  Reach(x.task, y.task)'
  <2>1. Reach(x.task, y.task)
    BY <1>2, IndependentStep DEF BuildInv, DependencesKept
  <2>2. x.task \in Node
    BY AccessNodes
  <2>3. QED
    BY <1>2, <2>1, <2>2, ReachStep
<1>3. ASSUME ~ResetTaskGraph, Accesses' = Accesses
      PROVE  DependencesKept'
  BY <1>2, <1>3 DEF DependencesKept, Conflict
<1>4. ASSUME NEW a \in Addr, NEW type \in Types, NEW near \in BOOLEAN,
             DeclareAccess(a, type, near), type # "INOUT_NONE",
             Accesses' = Accesses \cup {[task |-> n, addr |-> a, type |-> type, near |-> near]}
      PROVE  DependencesKept'
  <2> DEFINE s == Sources(a, type)
  <2>0. PICK z : z = [task |-> n, addr |-> a, type |-> type, near |-> near]
    OBVIOUS
  <2>1. z.task = n /\ z.addr = a /\ z.type = type
    BY <2>0
  <2>2. /\ pc = "task" /\ Splitting /\ n \in Node /\ loop[n] = lo /\ loop' = loop
        /\ ~ResetTaskGraph /\ Node \subseteq Task /\ type \in Type /\ lo \in Nat
        /\ n \in Nat
    BY <1>4, NodesAreTasks, BuildAssumption
       DEF DeclareAccess, Splitting, BuildInv, Loops, RootsAndEnds, ResetTaskGraph, Finished,
           TypeOK
  <2>3. Accesses' = Accesses \cup {z}
    BY <1>4, <2>0
  <2>4. SUFFICES ASSUME NEW b \in Addr, Independent(b)', NEW x \in Accesses', NEW y \in Accesses',
                        x.addr = b, Conflict(x, y), x.task < y.task
                 PROVE  Reach(x.task, y.task)'
    BY DEF DependencesKept, Conflict
  <2>5. CASE x \in Accesses /\ y \in Accesses
    BY <1>2, <2>2, <2>4, <2>5
  <2>6. CASE x \in Accesses /\ y = z
    <3>1. b = a /\ x.addr = a /\ x.task \in Node /\ x.type # "INOUT_NONE"
      BY <2>1, <2>4, <2>6, AccessNodes DEF Conflict
    <3>2. loop[x.task] # lo
      BY <2>1, <2>2, <2>3, <2>4, <2>6 DEF Independent
    <3>3. x \in past
      BY <2>6, <3>2, AccessNodes
    <3>4. Independent(a)
      BY <1>4, <2>2, <2>4, <3>1, IndependentStep
    <3>5. PICK t \in TasksOf(s) : Reach(x.task, t)
      BY <1>4, <2>1, <2>2, <2>4, <2>6, <3>1, <3>3, <3>4, SourcesFollow DEF Conflict
    <3>6. Reach(x.task, t)'
      BY <2>2, <3>1, <3>5, ReachStep
    <3>7. n \in Targets(t)' /\ n = y.task
      <4>1. t \in Task
        BY <2>2, <3>5, SourcesConflict DEF BuildInv
      <4>2. QED
        BY <1>4, <2>1, <2>6, <3>5, <4>1, NewEdges
    <3>8. Reach(t, y.task)'
      BY <3>7 DEF Reach, Closed
    <3>9. QED
      BY <3>6, <3>8 DEF Reach
  <2>7. CASE x = z
    <3>1. y = z \/ y.task \in 1 .. n
      BY <2>3, AccessNodes DEF Node
    <3>2. QED
      BY <2>1, <2>2, <2>4, <2>7, <3>1
  <2>8. QED
    BY <2>3, <2>5, <2>6, <2>7
<1>5. CASE ~ResetTaskGraph
  BY <1>3, <1>4, <1>5, AccessesStep
<1>6. QED
  BY <1>1, <1>5

LEMMA NoFalseDependenceStep ==
  ASSUME BuildInv, [Next]_vars
  PROVE  NoFalseDependence'
<1> USE DEF BuildInv, edgeVars, addrVars
<1>0. /\ Node \subseteq Task /\ n \in Nat
      /\ \A t \in Node : \A u \in Targets(t) : u \in Node
  BY NodesAreTasks DEF Edges
<1> DEFINE Reason(t, u) ==
      \E x, y \in Accesses :
        x.task = t /\ y.task = u /\ Conflict(x, y) /\ loop[t] # loop[u]
<1>1. ASSUME ~ResetTaskGraph, NEW t \in Node, NEW u \in Node, Reason(t, u)
      PROVE  Reason(t, u)'
  <2>1. PICK x \in Accesses, y \in Accesses :
          x.task = t /\ y.task = u /\ Conflict(x, y) /\ loop[t] # loop[u]
    BY <1>1
  <2>2. x \in Accesses' /\ y \in Accesses' /\ loop'[t] # loop'[u]
    BY <1>1, <2>1, AccessesStep
  <2>3. QED
    BY <2>1, <2>2 DEF Conflict
<1>2. ASSUME ~ResetTaskGraph,
             \A t \in Node' : \A u \in Targets(t)' \ (IF Finished' THEN {n'} ELSE {}) :
               (t \in Node /\ u \in Targets(t) \ (IF Finished THEN {n} ELSE {})) \/ Reason(t, u)'
      PROVE  NoFalseDependence'
  <2>1. \A t \in Node' : \A u \in Targets(t)' \ (IF Finished' THEN {n'} ELSE {}) : Reason(t, u)'
    BY <1>0, <1>1, <1>2 DEF NoFalseDependence
  <2>2. QED
    BY <2>1 DEF NoFalseDependence
<1>3. ASSUME UNCHANGED <<n, succ, vert>>, Finished' <=> Finished, ~ResetTaskGraph
      PROVE  NoFalseDependence'
  BY <1>2, <1>3, Untouched
<1>4. CASE RegisterTask
  <2>1. ~Finished /\ ~Finished' /\ ~ResetTaskGraph
    BY <1>4 DEF RegisterTask, Finished, ResetTaskGraph
  <2>2. QED
    BY <1>2, <1>4, <2>1, RegisterEdges
<1>5. ASSUME NEW a \in Addr, NEW type \in Types, NEW near \in BOOLEAN,
             DeclareAccess(a, type, near)
      PROVE  NoFalseDependence'
  <2> DEFINE s == Sources(a, type)
  <2> DEFINE z == [task |-> n, addr |-> a, type |-> type, near |-> near]
  <2>1. /\ ~Finished /\ ~Finished' /\ ~ResetTaskGraph /\ type \in Type /\ loop' = loop
        /\ n \in Node /\ loop[n] = lo /\ lo \in Nat
    BY <1>5, BuildAssumption
       DEF DeclareAccess, Finished, ResetTaskGraph, Loops, RootsAndEnds, TypeOK
  <2>2. /\ Node' = Node /\ \A t \in Task : Targets(t)' =
             IF t \in TasksOf(s) THEN Targets(t) \cup {n} ELSE Targets(t)
    BY <1>5, NewEdges
  <2>3. ASSUME NEW t \in TasksOf(s), NEW m, m = n
        PROVE  Reason(t, m)'
    <3>1. PICK x \in past : /\ x.addr = a /\ x.task = t /\ x.type # "INOUT_NONE"
                            /\ type = "IN" => Writes(x.type)
      BY SourcesConflict
    <3>2. type # "INOUT_NONE"
      BY SourcesConflict
    <3>3. x \in Accesses' /\ z \in Accesses'
      <4>1. x \in Accesses
        BY <3>1 DEF Accesses
      <4>2. tuples' = Append(tuples, z) /\ tuples \in Seq(Tuple) /\ z \in Tuple
        BY <1>0, <1>5, <2>1 DEF DeclareAccess, TypeOK, Tuple
      <4>3. Len(tuples) + 1 \in 1 .. Len(tuples') /\ tuples'[Len(tuples) + 1] = z
        BY <4>2
      <4>4. z \in Accesses'
        <5>1. z.type # "INOUT_NONE"
          BY <3>2
        <5> HIDE DEF z
        <5>2. QED
          BY <4>3, <5>1 DEF Accesses
      <4>5. QED
        BY <2>1, <4>1, <4>4, AccessesStep
    <3>4. loop[t] < lo
      BY <1>5, <3>1 DEF DeclareAccess, Loops
    <3>5. loop'[t] # loop'[m] /\ t # m
      BY <1>0, <2>1, <2>3, <3>1, <3>4 DEF Loops, TypeOK
    <3>6. Writes(x.type) \/ Writes(type)
      BY <2>1, <3>1, <3>2 DEF Writes, Type
    <3>7. Conflict(x, z) /\ z.task = m
      BY <2>3, <3>1, <3>5, <3>6 DEF Conflict
    <3>8. QED
      <4>1. PICK zz : zz = z
        OBVIOUS
      <4>2. zz \in Accesses' /\ Conflict(x, zz) /\ zz.task = m
        BY <3>3, <3>7, <4>1
      <4>3. Conflict(x, zz)'
        BY <4>2 DEF Conflict
      <4>4. QED
        BY <3>1, <3>3, <3>5, <4>2, <4>3
  <2>4. PICK m : m = n
    OBVIOUS
  <2> HIDE DEF s, Reason
  <2>5. ASSUME NEW t \in Node', NEW u \in Targets(t)'
        PROVE  (t \in Node /\ u \in Targets(t)) \/ Reason(t, u)'
    <3>1. t \in Node /\ t \in Task
      BY <1>0, <2>2
    <3>2. u \in Targets(t) \/ (t \in TasksOf(s) /\ u = n)
      BY <2>2, <3>1
    <3>3. QED
      BY <2>3, <3>1, <3>2
  <2>6. QED
    BY <1>2, <2>1, <2>5
<1>6. CASE EndConstructDag
  <2>1. ~Finished /\ Finished' /\ ~ResetTaskGraph
    BY <1>6 DEF EndConstructDag, Finished, ResetTaskGraph
  <2>2. \A t \in Node' : \A u \in Targets(t)' \ {n'} : t \in Node /\ u \in Targets(t)
    BY <1>0, <1>6, EndEdges
  <2>3. QED
    BY <1>2, <2>1, <2>2
<1>7. CASE ResetTaskGraph
  BY <1>7 DEF ResetTaskGraph, NoFalseDependence, Node
<1>8. QED
  BY <1>3, <1>4, <1>5, <1>6, <1>7
     DEF Next, BeginSplitTask, EndRegister, EndSplitTask, RecordAccess, RecordedAll,
         StoreDagInfo, vars, Finished

-----------------------------------------------------------------------------
(***************************************************************************)
(* The finished graph.                                                     *)
(***************************************************************************)

\* Every task of a finished graph but a root has an older predecessor, so that
\* what the roots and their followers contain is everything.
LEMMA RootsReachAll ==
  ASSUME BuildInv, Finished, n > 1, NEW S \in SUBSET Node, roots \subseteq S, Follows(S)
  PROVE  S = Node
<1> SUFFICES ASSUME Node \ S # {}
             PROVE  FALSE
  OBVIOUS
<1>1. /\ n \in Nat /\ n \in Node /\ \A t \in Node : t \in Nat \ {0} /\ t <= n
      /\ \A t \in Node : \A u \in Targets(t) : u \in Node /\ t < u
  BY NodesAreTasks DEF BuildInv, Edges, RootsAndEnds, Node
<1>2. PICK x \in Node \ S : \A y \in Node \ S : x <= y
  BY <1>1, Least DEF Node
<1>3. \A p \in Node : p < x => p \in S /\ x \notin Targets(p)
  <2>1. \A p \in Node : p < x => p \in S
    BY <1>1, <1>2
  <2>2. QED
    BY <1>2, <2>1 DEF Follows
<1>4. CASE x = n
  <2>1. PICK p \in Node : p = n - 1 /\ p # n /\ p < n
    BY <1>1 DEF Node
  <2>2. PICK u : u \in Targets(p)
    BY <2>1 DEF BuildInv, RootsAndEnds
  <2>3. u \in Nat /\ p < u /\ u <= n
    BY <1>1, <2>2
  <2>4. u = n
    BY <1>1, <2>1, <2>3
  <2>5. QED
    BY <1>3, <1>4, <2>1, <2>2, <2>4
<1>5. CASE x # n
  <2>1. x \in Registered
    BY <1>2, <1>5 DEF Registered
  <2>2. \A p \in Node : x \notin Targets(p)
    BY <1>1, <1>2, <1>3
  <2>3. x \in roots
    BY <2>1, <2>2 DEF BuildInv, RootsAndEnds
  <2>4. QED
    BY <1>2, <2>3
<1>6. QED
  BY <1>4, <1>5

LEMMA StoreStep ==
  ASSUME BuildInv, [Next]_vars
  PROVE  StoreCoversAll'
<1>1. CASE StoreDagInfo
  <2>1. n' = n /\ Node' = Node /\ Finished
    BY <1>1 DEF StoreDagInfo, Node, Finished
  <2>2. stored' = {t \in Node : \A S \in SUBSET Node : roots \subseteq S /\ Follows(S) => t \in S}
    BY <1>1 DEF StoreDagInfo
  <2>3. n > 1 => \A S \in SUBSET Node : roots \subseteq S /\ Follows(S) => S = Node
    BY <2>1, RootsReachAll
  <2>4. QED
    BY <2>1, <2>2, <2>3 DEF StoreCoversAll
<1>2. CASE UNCHANGED vars
  BY <1>2 DEF vars, BuildInv, StoreCoversAll, Node
<1>3. CASE pc' # "stored"
  BY <1>3 DEF StoreCoversAll
<1>4. QED
  BY <1>1, <1>2, <1>3
     DEF Next, BeginSplitTask, RegisterTask, DeclareAccess, EndRegister, EndSplitTask,
         RecordAccess, RecordedAll, EndConstructDag, ResetTaskGraph, BuildInv, StoreCoversAll

\* Whatever the program declares, the invariant of the builder holds: in particular
\* the types, the counts of the predecessors, the tasks found to be roots or ends.
THEOREM Invariance == Spec => []BuildInv
<1>1. Init => BuildInv
  BY InitInv
<1>2. BuildInv /\ [Next]_vars => BuildInv'
  <2> SUFFICES ASSUME BuildInv, [Next]_vars
               PROVE  BuildInv'
    OBVIOUS
  <2>1. TypeOK'
    BY TypeStep
  <2>2. Edges' /\ RootsAndEnds' /\ Loops' /\ Recorded'
    BY EdgesStep, RootsAndEndsStep, LoopsStep, RecordedStep
  <2>3. Summary' /\ DependencesKept' /\ NoFalseDependence' /\ StoreCoversAll'
    BY SummaryStep, DependencesStep, NoFalseDependenceStep, StoreStep
  <2>4. QED
    BY <2>1, <2>2, <2>3 DEF BuildInv
<1>3. QED
  BY <1>1, <1>2, PTL DEF Spec

\* The last writer and the readers since then are enough of a memory: all accesses
\* of different loops that conflict are ordered as their loops are.
THEOREM Dependences == Spec => []DependencesKept
<1>1. BuildInv => DependencesKept
  BY DEF BuildInv
<1>2. QED
  BY <1>1, Invariance, PTL

\* ... and no task waits for another without a conflict between the two.
THEOREM Precision == Spec => []NoFalseDependence
<1>1. BuildInv => NoFalseDependence
  BY DEF BuildInv
<1>2. QED
  BY <1>1, Invariance, PTL

\* store_info, which starts from the roots, misses no task of a finished graph.
THEOREM StoreComplete == Spec => []StoreCoversAll
<1>1. BuildInv => StoreCoversAll
  BY DEF BuildInv
<1>2. QED
  BY <1>1, Invariance, PTL

LEMMA WellFormedness ==
  ASSUME BuildInv
  PROVE  FinishedWellFormed
<1> SUFFICES ASSUME Finished, n > 1
             PROVE  /\ WellFormed(Graph, Task, Thread)
                    /\ \A t \in Node : ref[t] = Indegree(Graph, t)
                    /\ roots = Roots(Graph)
  BY DEF FinishedWellFormed
<1> USE DEF BuildInv
<1>1. /\ Graph.node = Node /\ Graph.end = n
      /\ Graph.succ = [t \in Node |-> succ[t]]
      /\ Graph.vert = [t \in Node |-> vert[t]]
      /\ Graph.aff = [t \in Node |-> aff[t]]
      /\ Work(Graph) = Node \ {n}
      /\ \A t \in Node : Graph.succ[t] = succ[t] /\ Graph.vert[t] = vert[t]
                         /\ Out(Graph, t) = Targets(t)
  BY DEF Graph, Work, Out, Vertical, Targets
<1>2. \A t : Preds(Graph, t) = {p \in Node : t \in Targets(p)}
  BY <1>1 DEF Preds
<1>3. /\ n \in Nat /\ n \in Node /\ Node \subseteq Task /\ IsFiniteSet(Node) /\ NoTask \notin Task
      /\ \A t \in Node : t \in Nat \ {0} /\ t <= n
      /\ \A t \in Node : \A u \in Targets(t) : u \in Node /\ t < u
  BY NodesAreTasks DEF Edges, RootsAndEnds, Node
<1>4. \A t \in Node : ref[t] = Indegree(Graph, t)
  BY <1>2 DEF Indegree, Edges
<1>5. roots = Roots(Graph)
  BY <1>1, <1>2 DEF Roots, RootsAndEnds, Registered
<1>6. Targets(n) = {}
  <2>1. \A u \in Targets(n) : u \in Nat /\ n < u /\ u <= n
    BY <1>3
  <2>2. \A u \in Nat : ~(n < u /\ u <= n)
    BY <1>3
  <2>3. QED
    BY <2>1, <2>2
<1>7. \A t \in Work(Graph) : Out(Graph, t) # {} /\ Graph.vert[t] \notin Graph.succ[t]
  BY <1>1 DEF RootsAndEnds, Edges
<1>8. Graph.succ \in [Graph.node -> SUBSET Work(Graph)]
  <2>1. \A t \in Node : succ[t] \subseteq Node \ {n}
    BY <1>3, <1>6 DEF Targets, RootsAndEnds
  <2>2. QED
    BY <1>1, <2>1
<1>9. Graph.vert \in [Graph.node -> Graph.node \cup {NoTask}]
  BY <1>1, <1>3 DEF Targets
<1>10. Graph.aff \in [Graph.node -> Thread]
  BY <1>1, <1>3 DEF TypeOK
<1>11. ASSUME NEW S \in SUBSET Work(Graph), S # {}
       PROVE  \E t \in S : Out(Graph, t) \cap S = {}
  <2>1. S \subseteq Node
    BY <1>1
  <2>2. PICK t \in S : \A u \in S : u <= t
    BY <1>3, <1>11, <2>1, Greatest DEF Node
  <2>3. ASSUME NEW u \in Targets(t)
        PROVE  u \notin S
    <3>1. t \in Nat /\ u \in Nat /\ t < u
      BY <1>3, <2>1
    <3>2. ~(u <= t)
      BY <3>1
    <3>3. QED
      BY <2>2, <3>2
  <2>4. QED
    BY <1>1, <2>1, <2>3
<1>12. Work(Graph) # {}
  <2>1. 1 \in Node /\ 1 # n
    BY <1>3 DEF Node
  <2>2. QED
    BY <1>1, <2>1
<1>13. QED
  BY <1>1, <1>3, <1>4, <1>5, <1>6, <1>7, <1>8, <1>9, <1>10, <1>11, <1>12 DEF WellFormed

\* A finished graph with a task in it is one that DagExec can execute, and satisfies
\* what DagExec assumes of its graphs.
THEOREM FinishedGraphs == Spec => []FinishedWellFormed
<1>1. BuildInv => FinishedWellFormed
  BY WellFormedness
<1>2. QED
  BY <1>1, Invariance, PTL

-----------------------------------------------------------------------------
(***************************************************************************)
(* The warnings of end_split_task.                                         *)
(***************************************************************************)

\* The flags of an address, task by task.
LEMMA FlagsDef ==
  ASSUME NEW a
  PROVE  /\ Flags(a)[0] = [r |-> FALSE, w |-> FALSE, warned |-> FALSE]
         /\ \A t \in Nat : Flags(a)[t + 1] = UpdateWriteAddr(Flags(a)[t], Merged(t + 1, a))
<1> DEFINE S == [r : BOOLEAN, w : BOOLEAN, warned : BOOLEAN]
           none == [r |-> FALSE, w |-> FALSE, warned |-> FALSE]
           Step == [t \in Nat |-> [f \in S |-> UpdateWriteAddr(f, Merged(t, a))]]
           After(f) == [t \in Nat |-> IF t = 0 THEN none
                                      ELSE UpdateWriteAddr(f[t - 1], Merged(t, a))]
<1>1. none \in S
  OBVIOUS
<1>2. Step \in [Nat -> [S -> S]]
  <2>1. \A f \in S : \A type : UpdateWriteAddr(f, type) \in S
    BY DEF UpdateWriteAddr, Writes
  <2>2. QED
    BY <2>1
<1> HIDE DEF none
<1>3. PICK f \in [Nat -> S] : f = [t \in Nat |-> IF t = 0 THEN none ELSE Step[t][f[t - 1]]]
  <2> HIDE DEF Step, S
  <2>1. QED
    BY <1>1, <1>2, Iteration
<1>4. f = After(f)
  <2>1. \A t \in Nat : t # 0 => f[t - 1] \in S
    BY <1>3
  <2> HIDE DEF S
  <2>2. \A t \in Nat : t # 0 => Step[t][f[t - 1]] = UpdateWriteAddr(f[t - 1], Merged(t, a))
    BY <2>1
  <2>3. QED
    BY <1>3, <2>2
<1>5. Flags(a) = CHOOSE g : g = After(g)
  BY DEF Flags, none
<1>6. Flags(a) = After(Flags(a))
  BY <1>4, <1>5
<1> DEFINE F == Flags(a)
<1> HIDE DEF F
<1>7. F[0] = none /\ \A t \in Nat : F[t + 1] = UpdateWriteAddr(F[t], Merged(t + 1, a))
  <2>1. F = After(F)
    BY <1>6 DEF F
  <2>2. \A t \in Nat : F[t] = IF t = 0 THEN none ELSE UpdateWriteAddr(F[t - 1], Merged(t, a))
    BY <2>1
  <2>3. \A t \in Nat : t + 1 \in Nat /\ t + 1 # 0 /\ (t + 1) - 1 = t
    OBVIOUS
  <2>4. QED
    BY <2>2, <2>3
<1>8. QED
  BY <1>7 DEF F, none

\* What the flags say of the tasks they have seen.
LEMMA FlagsMean ==
  ASSUME NEW a, NEW m \in Nat
  PROVE  Flags(a)[m] =
           [r |-> \E t \in 1 .. m : Merged(t, a) = "IN",
            w |-> \E t \in 1 .. m : Writes(Merged(t, a)),
            warned |-> \E t, u \in 1 .. m :
                         /\ t < u
                         /\ \/ Writes(Merged(t, a)) /\ Merged(u, a) # "INOUT_NONE"
                            \/ Merged(t, a) = "IN" /\ Writes(Merged(u, a))]
<1> DEFINE M(t) == Merged(t, a)
           R(k) == \E t \in 1 .. k : M(t) = "IN"
           W(k) == \E t \in 1 .. k : Writes(M(t))
           Pair(t, u) == \/ Writes(M(t)) /\ M(u) # "INOUT_NONE"
                         \/ M(t) = "IN" /\ Writes(M(u))
           D(k) == \E t, u \in 1 .. k : t < u /\ Pair(t, u)
           T == {k \in Nat : Flags(a)[k] = [r |-> R(k), w |-> W(k), warned |-> D(k)]}
<1>1. 0 \in T
  <2>1. R(0) = FALSE /\ W(0) = FALSE /\ D(0) = FALSE
    OBVIOUS
  <2> HIDE DEF R, W, D
  <2>2. QED
    BY <2>1, FlagsDef
<1>2. ASSUME NEW k \in Nat, k \in T PROVE k + 1 \in T
  <2> DEFINE f == Flags(a)[k]
  <2>1. f = [r |-> R(k), w |-> W(k), warned |-> D(k)]
    BY <1>2
  <2>2. Flags(a)[k + 1] = UpdateWriteAddr(f, M(k + 1))
    BY FlagsDef
  <2>3. \A t \in 1 .. k + 1 : t \in 1 .. k \/ t = k + 1
    OBVIOUS
  <2>4. 1 .. k \subseteq 1 .. k + 1 /\ k + 1 \in 1 .. k + 1
    OBVIOUS
  <2>5. R(k + 1) = (R(k) \/ M(k + 1) = "IN")
    <3> HIDE DEF M
    <3>1. QED
      BY <2>3, <2>4
  <2>6. W(k + 1) = (W(k) \/ Writes(M(k + 1)))
    <3> HIDE DEF M
    <3>1. QED
      BY <2>3, <2>4
  <2>7. D(k + 1) = (D(k) \/ \E t \in 1 .. k : Pair(t, k + 1))
    <3> HIDE DEF Pair
    <3>1. \A t \in 1 .. k : t < k + 1
      OBVIOUS
    <3>2. \A t \in 1 .. k + 1 : ~(k + 1 < t)
      OBVIOUS
    <3>3. QED
      BY <2>3, <2>4, <3>1, <3>2
  <2>8. (\E t \in 1 .. k : Pair(t, k + 1)) =
          ((W(k) /\ M(k + 1) # "INOUT_NONE") \/ (R(k) /\ Writes(M(k + 1))))
    <3> HIDE DEF M
    <3>1. QED
      OBVIOUS
  <2>9. /\ f.r = R(k) /\ f.w = W(k) /\ f.warned = D(k)
    <3> HIDE DEF R, W, D, f
    <3>1. QED
      BY <2>1
  <2> HIDE DEF f
  <2>10. Flags(a)[k + 1] = [r |-> f.r \/ M(k + 1) = "IN", w |-> f.w \/ Writes(M(k + 1)),
              warned |-> f.warned \/ (f.w /\ M(k + 1) # "INOUT_NONE") \/ (f.r /\ Writes(M(k + 1)))]
    <3> HIDE DEF M
    <3>1. QED
      BY <2>2 DEF UpdateWriteAddr
  <2>11. k + 1 \in Nat
    OBVIOUS
  <2> HIDE DEF R, W, D, M, Pair
  <2>12. Flags(a)[k + 1] = [r |-> R(k + 1), w |-> W(k + 1), warned |-> D(k + 1)]
    BY <2>5, <2>6, <2>7, <2>8, <2>9, <2>10
  <2>13. QED
    BY <2>11, <2>12
<1> HIDE DEF T
<1>3. m \in T
  BY <1>1, <1>2, Induction
<1>4. QED
  BY <1>3 DEF T

\* The merged access of a task is one of its accesses, or a read and a write.
LEMMA MergedMeans ==
  ASSUME TypeOK, NEW t, NEW a
  PROVE  LET of == {i \in 1 .. Len(tuples) : tuples[i].task = t /\ tuples[i].addr = a}
         IN  /\ Writes(Merged(t, a)) <=> \E i \in of : Writes(tuples[i].type)
             /\ Merged(t, a) # "INOUT_NONE" <=> \E i \in of : tuples[i].type # "INOUT_NONE"
             /\ Merged(t, a) = "IN" <=> Merged(t, a) # "INOUT_NONE" /\ ~Writes(Merged(t, a))
<1> DEFINE of == {i \in 1 .. Len(tuples) : tuples[i].task = t /\ tuples[i].addr = a}
           types == {tuples[i].type : i \in of}
<1>1. \A i \in of : tuples[i].type \in Type
  <2>1. \A i \in 1 .. Len(tuples) : tuples[i] \in Tuple
    BY ElementOfSeq DEF TypeOK
  <2>2. \A x \in Tuple : x.type \in Type
    BY DEF Tuple
  <2>3. QED
    BY <2>1, <2>2
<1>2. types \subseteq Type
  BY <1>1
<1>3. Merged(t, a) = TypeAdd(types)
  BY DEF Merged
<1>4. /\ (\E i \in of : Writes(tuples[i].type)) <=> (\E x \in types : Writes(x))
      /\ (\E i \in of : tuples[i].type # "INOUT_NONE") <=> (\E x \in types : x # "INOUT_NONE")
  OBVIOUS
<1> HIDE DEF types
<1>5. TypeAdd(types) \in Type
  BY DEF TypeAdd, Type
<1>6. /\ Writes(TypeAdd(types)) <=> types \cap {"OUT", "INOUT"} # {}
      /\ TypeAdd(types) = "INOUT_NONE" <=> types \cap {"IN", "OUT", "INOUT"} = {}
  <2> DEFINE reads  == types \cap {"IN", "INOUT"} # {}
             writes == types \cap {"OUT", "INOUT"} # {}
  <2>1. TypeAdd(types) = CASE reads /\ writes   -> "INOUT"
                           [] ~reads /\ writes  -> "OUT"
                           [] reads /\ ~writes  -> "IN"
                           [] ~reads /\ ~writes -> "INOUT_NONE"
    BY DEF TypeAdd
  <2>2. types \cap {"IN", "OUT", "INOUT"} = {} <=> ~reads /\ ~writes
    OBVIOUS
  <2> HIDE DEF reads, writes
  <2>3. /\ TypeAdd(types) \in {"OUT", "INOUT"} <=> writes
        /\ TypeAdd(types) = "INOUT_NONE" <=> ~reads /\ ~writes
    BY <2>1
  <2>4. QED
    BY <2>2, <2>3 DEF Writes, writes
<1>8. (\E x \in types : Writes(x)) <=> types \cap {"OUT", "INOUT"} # {}
  BY DEF Writes
<1>9. (\E x \in types : x # "INOUT_NONE") <=> types \cap {"IN", "OUT", "INOUT"} # {}
  BY <1>2 DEF Type
<1>10. TypeAdd(types) = "IN" <=> TypeAdd(types) # "INOUT_NONE" /\ ~Writes(TypeAdd(types))
  BY <1>5 DEF Type, Writes
<1> HIDE DEF of
<1>11. QED
  BY <1>3, <1>4, <1>6, <1>8, <1>9, <1>10 DEF of

LEMMA WarnsOfDependences ==
  ASSUME BuildInv
  PROVE  WarnsOfDependentLoops
<1> SUFFICES ASSUME pc = "loop", NEW a \in Addr
             PROVE  Warned(a) <=> \E i, j \in 1 .. Len(tuples) :
                      tuples[i].addr = a /\ tuples[i].type # "INOUT_NONE" /\
                      tuples[j].type # "INOUT_NONE" /\ Conflict(tuples[i], tuples[j])
  BY DEF WarnsOfDependentLoops
<1> DEFINE M(t) == Merged(t, a)
           Of(t) == {i \in 1 .. Len(tuples) : tuples[i].task = t /\ tuples[i].addr = a}
           Pair(t, u) == \/ Writes(M(t)) /\ M(u) # "INOUT_NONE"
                         \/ M(t) = "IN" /\ Writes(M(u))
           Orders(i) == tuples[i].type # "INOUT_NONE"
<1>1. TypeOK /\ n \in Nat
  BY DEF BuildInv, TypeOK, Task
<1>2. \A i \in 1 .. Len(tuples) : tuples[i].task \in 1 .. n
  BY DEF BuildInv, Loops, Node
<1>3. Warned(a) <=> \E t, u \in 1 .. n : t < u /\ Pair(t, u)
  <2> DEFINE R == \E t \in 1 .. n : M(t) = "IN"
             W == \E t \in 1 .. n : Writes(M(t))
             D == \E t, u \in 1 .. n : t < u /\ Pair(t, u)
  <2>1. Flags(a)[n].warned = D
    <3>1. Flags(a)[n] = [r |-> R, w |-> W, warned |-> D]
      BY <1>1, FlagsMean
    <3> HIDE DEF R, W, D
    <3>2. QED
      BY <3>1
  <2>2. QED
    BY <2>1 DEF Warned
<1>4. \A t : /\ Writes(M(t)) <=> \E i \in Of(t) : Writes(tuples[i].type)
             /\ M(t) # "INOUT_NONE" <=> \E i \in Of(t) : Orders(i)
             /\ M(t) = "IN" <=> M(t) # "INOUT_NONE" /\ ~Writes(M(t))
  BY <1>1, MergedMeans
<1>5. \A i \in 1 .. Len(tuples) : Writes(tuples[i].type) => Orders(i)
  BY DEF Writes
<1> HIDE DEF M, Orders
<1>6. ASSUME Warned(a)
      PROVE  \E i, j \in 1 .. Len(tuples) :
               tuples[i].addr = a /\ Orders(i) /\ Orders(j) /\ Conflict(tuples[i], tuples[j])
  <2>1. PICK t \in 1 .. n, u \in 1 .. n : t < u /\ Pair(t, u)
    BY <1>3, <1>6
  <2>2. t # u
    BY <1>1, <2>1
  <2>3. PICK i \in Of(t), j \in Of(u) :
          Orders(i) /\ Orders(j) /\ (Writes(tuples[i].type) \/ Writes(tuples[j].type))
    BY <1>4, <1>5, <2>1
  <2>4. QED
    BY <2>2, <2>3 DEF Conflict
<1>7. ASSUME NEW i \in 1 .. Len(tuples), NEW j \in 1 .. Len(tuples),
             tuples[i].addr = a, Orders(i), Orders(j), Conflict(tuples[i], tuples[j])
      PROVE  Warned(a)
  <2> DEFINE t == tuples[i].task
             u == tuples[j].task
  <2>1. t \in 1 .. n /\ u \in 1 .. n /\ t # u /\ i \in Of(t) /\ j \in Of(u)
    BY <1>2, <1>7 DEF Conflict
  <2>2. Writes(tuples[i].type) \/ Writes(tuples[j].type)
    BY <1>7 DEF Conflict
  <2> HIDE DEF t, u
  <2>3. M(t) # "INOUT_NONE" /\ M(u) # "INOUT_NONE" /\ (Writes(M(t)) \/ Writes(M(u)))
    BY <1>4, <1>7, <2>1, <2>2
  <2>4. Pair(t, u) /\ Pair(u, t)
    BY <1>4, <2>3
  <2>5. t < u \/ u < t
    BY <1>1, <2>1
  <2>6. QED
    BY <1>3, <2>1, <2>4, <2>5
<1>8. QED
  BY <1>6, <1>7 DEF Orders

\* The warning of a parallel loop is exact: whatever the tasks of a loop declare, and
\* in whatever order, it is given for an address just if two of them conflict there.
THEOREM Warnings == Spec => []WarnsOfDependentLoops
<1>1. BuildInv => WarnsOfDependentLoops
  BY WarnsOfDependences
<1>2. QED
  BY <1>1, Invariance, PTL

-----------------------------------------------------------------------------
(***************************************************************************)
(* The check of a finished graph.                                          *)
(***************************************************************************)

\* The sequence q contains every element of S once, and nothing else.
Lists(q, S) == q \in Seq(S) /\ IsInjective(q) /\ ToSet(q) = S

LEMMA ListOfSet ==
  ASSUME NEW S, IsFiniteSet(S)
  PROVE  Lists(SetToSeq(S), S)
<1> DEFINE c == Cardinality(S)
           q == SetToSeq(S)
<1>1. c \in Nat /\ ExistsBijection(1 .. c, S)
  BY FS_CardinalityType
<1>2. \E f \in [1 .. c -> S] : IsInjective(f)
  BY <1>1 DEF ExistsBijection, Bijection, Injection
<1>3. q \in [1 .. c -> S] /\ IsInjective(q)
  BY <1>2 DEF SetToSeq
<1> HIDE DEF q
<1>4. q \in Injection(1 .. c, S)
  BY <1>3 DEF Injection
<1>5. Cardinality(1 .. c) = c
  <2>1. Cardinality(1 .. c) = IF 1 > c THEN 0 ELSE c - 1 + 1
    BY <1>1, FS_Interval
  <2>2. QED
    BY <1>1, <2>1
<1>6. q \in Surjection(1 .. c, S)
  BY <1>4, <1>5, FS_Injection
<1>7. ToSet(q) = S
  BY <1>3, <1>6 DEF Surjection, ToSet
<1>8. q \in Seq(S)
  BY <1>1, <1>3, SeqDef
<1>9. QED
  BY <1>3, <1>7, <1>8 DEF Lists, q

LEMMA ListOfOne ==
  ASSUME NEW x
  PROVE  Lists(<<x>>, {x})
<1>1. <<x>> \in Seq({x}) /\ DOMAIN <<x>> = 1 .. 1 /\ <<x>>[1] = x
  OBVIOUS
<1>2. QED
  BY <1>1 DEF Lists, IsInjective, ToSet

LEMMA ListOfNone == Lists(<<>>, {})
  BY DEF Lists, IsInjective, ToSet

LEMMA ListConcat ==
  ASSUME NEW S, NEW T, NEW p, NEW q, Lists(p, S), Lists(q, T), S \cap T = {}
  PROVE  Lists(p \o q, S \cup T)
<1> DEFINE U == S \cup T
           pq == p \o q
<1>1. p \in Seq(U) /\ q \in Seq(U) /\ p \in Seq(S) /\ q \in Seq(T)
  BY SeqMonotonic DEF Lists
<1>2. /\ Len(p) \in Nat /\ DOMAIN p = 1 .. Len(p) /\ Len(q) \in Nat /\ DOMAIN q = 1 .. Len(q)
      /\ \A i \in 1 .. Len(p) : p[i] \in S
      /\ \A i \in 1 .. Len(q) : q[i] \in T
  BY <1>1, LenProperties, ElementOfSeq
<1>3. /\ pq \in Seq(U) /\ Len(pq) = Len(p) + Len(q) /\ DOMAIN pq = 1 .. Len(pq)
      /\ \A i \in 1 .. Len(p) + Len(q) : pq[i] = IF i <= Len(p) THEN p[i] ELSE q[i - Len(p)]
  BY <1>1, ConcatProperties, LenProperties
<1> HIDE DEF pq
<1>4. ASSUME NEW i \in 1 .. Len(pq)
      PROVE  /\ i <= Len(p) => i \in 1 .. Len(p) /\ pq[i] = p[i] /\ pq[i] \in S
             /\ ~(i <= Len(p)) => i - Len(p) \in 1 .. Len(q) /\ pq[i] = q[i - Len(p)] /\ pq[i] \in T
  BY <1>2, <1>3
<1>5. IsInjective(pq)
  <2>1. SUFFICES ASSUME NEW i \in 1 .. Len(pq), NEW j \in 1 .. Len(pq), pq[i] = pq[j]
                 PROVE  i = j
    BY <1>3 DEF IsInjective
  <2>2. CASE i <= Len(p) /\ j <= Len(p)
    BY <1>2, <1>4, <2>1, <2>2 DEF Lists, IsInjective
  <2>3. CASE ~(i <= Len(p)) /\ ~(j <= Len(p))
    <3>1. i - Len(p) = j - Len(p)
      BY <1>2, <1>4, <2>1, <2>3 DEF Lists, IsInjective
    <3>2. QED
      BY <1>2, <1>3, <3>1
  <2>4. QED
    BY <1>4, <2>1, <2>2, <2>3
<1>6. ToSet(pq) = U
  <2>1. ToSet(pq) \subseteq U
    BY <1>3, <1>4 DEF ToSet
  <2>2. ASSUME NEW x \in S PROVE x \in ToSet(pq)
    <3>1. PICK i \in 1 .. Len(p) : x = p[i]
      BY <1>2 DEF Lists, ToSet
    <3>2. i \in 1 .. Len(pq) /\ pq[i] = x
      BY <1>2, <1>3, <3>1
    <3>3. QED
      BY <1>3, <3>2 DEF ToSet
  <2>3. ASSUME NEW x \in T PROVE x \in ToSet(pq)
    <3>1. PICK i \in 1 .. Len(q) : x = q[i]
      BY <1>2 DEF Lists, ToSet
    <3>2. Len(p) + i \in 1 .. Len(pq) /\ pq[Len(p) + i] = x
      BY <1>2, <1>3, <3>1
    <3>3. QED
      BY <1>3, <3>2 DEF ToSet
  <2>4. QED
    BY <2>1, <2>2, <2>3
<1>7. QED
  BY <1>3, <1>5, <1>6 DEF Lists, pq

LEMMA ListTail ==
  ASSUME NEW S, NEW q, Lists(q, S), q # <<>>
  PROVE  Head(q) \in S /\ Lists(Tail(q), S \ {Head(q)})
<1> DEFINE p == Tail(q)
           h == Head(q)
<1>1. q \in Seq(S) /\ Len(q) \in Nat \ {0} /\ DOMAIN q = 1 .. Len(q) /\ h = q[1]
  BY EmptySeq, LenProperties DEF Lists
<1>2. /\ h \in S /\ p \in Seq(S) /\ Len(p) = Len(q) - 1 /\ DOMAIN p = 1 .. Len(p)
      /\ \A i \in 1 .. Len(p) : p[i] = q[i + 1]
  BY <1>1, HeadTailProperties, LenProperties
<1> HIDE DEF p, h
<1>3. \A i, j \in 1 .. Len(q) : q[i] = q[j] => i = j
  BY <1>1 DEF Lists, IsInjective
<1>4. \A i \in 1 .. Len(p) : i + 1 \in 1 .. Len(q) /\ i + 1 # 1 /\ 1 \in 1 .. Len(q)
  BY <1>1, <1>2
<1>5. \A i \in 1 .. Len(p) : p[i] \in S \ {h}
  BY <1>1, <1>2, <1>3, <1>4, ElementOfSeq
<1>6. p \in Seq(S \ {h})
  <2>1. p = [i \in 1 .. Len(p) |-> p[i]] /\ Len(p) \in Nat
    BY <1>1, <1>2, LenProperties
  <2>2. p \in [1 .. Len(p) -> S \ {h}]
    BY <1>5, <2>1
  <2>3. QED
    BY <2>1, <2>2, SeqDef
<1>7. IsInjective(p)
  <2>1. SUFFICES ASSUME NEW i \in 1 .. Len(p), NEW j \in 1 .. Len(p), p[i] = p[j]
                 PROVE  i = j
    BY <1>2 DEF IsInjective
  <2>2. i + 1 = j + 1
    BY <1>2, <1>3, <1>4, <2>1
  <2>3. QED
    BY <1>1, <1>2, <2>2
<1>8. ToSet(p) = S \ {h}
  <2>1. ToSet(p) \subseteq S \ {h}
    BY <1>2, <1>5 DEF ToSet
  <2>2. ASSUME NEW x \in S \ {h} PROVE x \in ToSet(p)
    <3>1. PICK i \in 1 .. Len(q) : x = q[i]
      BY <1>1 DEF Lists, ToSet
    <3>2. i # 1
      BY <1>1, <2>2, <3>1
    <3>3. i - 1 \in 1 .. Len(p) /\ (i - 1) + 1 = i
      BY <1>1, <1>2, <3>2
    <3>4. p[i - 1] = x
      BY <1>2, <3>1, <3>3
    <3>5. QED
      BY <1>2, <3>3, <3>4 DEF ToSet
  <2>3. QED
    BY <2>1, <2>2
<1>9. QED
  BY <1>2, <1>6, <1>7, <1>8 DEF Lists, p, h

\* The targets that become ready are queued, each once.
LEMMA QueuedLists ==
  ASSUME NEW t, NEW S, IsFiniteSet(S)
  PROVE  Lists(Queued(t, S), S)
<1> DEFINE first == IF vert[t] \in S THEN <<vert[t]>> ELSE <<>>
           V == IF vert[t] \in S THEN {vert[t]} ELSE {}
<1>1. Lists(first, V)
  BY ListOfOne, ListOfNone
<1>2. Lists(SetToSeq(S \ {vert[t]}), S \ {vert[t]})
  BY FS_RemoveElement, ListOfSet
<1>3. V \cap (S \ {vert[t]}) = {} /\ V \cup (S \ {vert[t]}) = S
  OBVIOUS
<1>4. Queued(t, S) = first \o SetToSeq(S \ {vert[t]})
  BY DEF Queued
<1> HIDE DEF first, V
<1>5. Lists(first \o SetToSeq(S \ {vert[t]}), V \cup (S \ {vert[t]}))
  BY <1>1, <1>2, <1>3, ListConcat
<1>6. QED
  BY <1>3, <1>4, <1>5

\* What is left to wait for when the tasks of X have been executed: predecessors, and
\* one more for the tasks of late.
Left(X, late, t) ==
  Cardinality({p \in Node \ X : t \in Targets(p)}) + (IF t \in late THEN 1 ELSE 0)

Ready(X, late) == {t \in Node \ X : Left(X, late, t) = 0}

\* What the check has found out when it has executed X.
CheckInv(count, late, X, s) ==
  /\ X \subseteq Node \ late
  /\ \A t \in X : \A p \in Node : t \in Targets(p) => p \in X
  /\ s.failed = FALSE
  /\ Lists(s.q, Ready(X, late))
  /\ \A t \in Node \ X : Seen(count, s.check, t) = Left(X, late, t)

States == [q : Seq(Node), check : [Node -> Int], failed : BOOLEAN]

LEMMA LeftType ==
  ASSUME TypeOK, NEW X, NEW late, NEW t
  PROVE  /\ Left(X, late, t) \in Nat
         /\ Left(X, late, t) = 0 <=> t \notin late /\ \A p \in Node \ X : t \notin Targets(p)
<1> DEFINE P == {p \in Node \ X : t \in Targets(p)}
<1>1. IsFiniteSet(P)
  BY NodesAreTasks, FS_Subset
<1>2. Cardinality(P) \in Nat /\ (Cardinality(P) = 0 <=> P = {})
  BY <1>1, FS_CardinalityType, FS_EmptySet
<1>3. P = {} <=> \A p \in Node \ X : t \notin Targets(p)
  OBVIOUS
<1>4. Left(X, late, t) = Cardinality(P) + (IF t \in late THEN 1 ELSE 0)
  BY DEF Left
<1> HIDE DEF P
<1>5. QED
  BY <1>2, <1>3, <1>4

\* A task that is executed leaves one predecessor less to its targets.
LEMMA LeftStep ==
  ASSUME TypeOK, NEW X, NEW late, NEW t \in Node \ X, NEW u
  PROVE  Left(X \cup {t}, late, u) =
           IF u \in Targets(t) THEN Left(X, late, u) - 1 ELSE Left(X, late, u)
<1> DEFINE P == {p \in Node \ X : u \in Targets(p)}
           Q == {p \in Node \ (X \cup {t}) : u \in Targets(p)}
<1>1. IsFiniteSet(P) /\ Q = P \ {t} /\ (t \in P <=> u \in Targets(t))
  BY NodesAreTasks, FS_Subset
<1> HIDE DEF P, Q
<1>2. Cardinality(P) \in Nat
        /\ Cardinality(Q) = IF t \in P THEN Cardinality(P) - 1 ELSE Cardinality(P)
  BY <1>1, FS_RemoveElement, FS_CardinalityType
<1>3. QED
  BY <1>1, <1>2 DEF Left, P, Q

LEMMA TurnType ==
  ASSUME BuildInv, NEW count \in [Task -> Int], NEW s \in States
  PROVE  Turn(count, s) \in States
<1> DEFINE t == Head(s.q)
           left(u) == Seen(count, s.check, u) - 1
           S == {u \in Targets(t) : left(u) = 0}
<1>1. /\ s.q \in Seq(Node) /\ s.check \in [Node -> Int] /\ s.failed \in BOOLEAN
      /\ Node \subseteq Task /\ IsFiniteSet(Node)
  BY NodesAreTasks DEF States, BuildInv
<1>2. \A u \in Node : left(u) \in Int
  BY <1>1 DEF Seen
<1>3. CASE s.q = <<>>
  BY <1>1, <1>3 DEF Turn, States
<1>4. CASE s.q # <<>>
  <2>1. t \in Node /\ Tail(s.q) \in Seq(Node)
    BY <1>1, <1>4, HeadTailProperties
  <2>2. S \subseteq Node /\ IsFiniteSet(S)
    <3>1. Targets(t) \subseteq Node
      BY <2>1 DEF BuildInv, Edges
    <3>2. S \subseteq Node
      BY <3>1
    <3>3. QED
      BY <1>1, <3>2, FS_Subset
  <2>3. Queued(t, S) \in Seq(Node)
    BY <2>2, QueuedLists, SeqMonotonic DEF Lists
  <2>4. Tail(s.q) \o Queued(t, S) \in Seq(Node)
    BY <2>1, <2>3, ConcatProperties
  <2> DEFINE check == [u \in Node |-> IF u = t THEN Unseen
                                      ELSE IF u \in Targets(t) THEN left(u) ELSE s.check[u]]
             failed == s.failed \/ \E u \in Targets(t) : s.check[u] = 0
  <2>5. check \in [Node -> Int]
    BY <1>1, <1>2 DEF Unseen
  <2>6. failed \in BOOLEAN
    BY <1>1
  <2>7. Turn(count, s) = [q |-> Tail(s.q) \o Queued(t, S), check |-> check, failed |-> failed]
    BY <1>4 DEF Turn
  <2> HIDE DEF check, failed, S
  <2>8. QED
    BY <2>4, <2>5, <2>6, <2>7 DEF States
<1>5. QED
  BY <1>3, <1>4

LEMMA StartType ==
  ASSUME BuildInv, NEW count \in [Task -> Int]
  PROVE  StartCheck(count) \in States /\ IsFiniteSet(roots) /\ roots \subseteq Node
<1>1. Node \subseteq Task /\ IsFiniteSet(Node)
  BY NodesAreTasks DEF BuildInv
<1>2. roots \subseteq Node /\ IsFiniteSet(roots)
  <2>1. roots \subseteq Node
    BY DEF BuildInv, RootsAndEnds, Registered
  <2>2. QED
    BY <1>1, <2>1, FS_Subset
<1>3. SetToSeq(roots) \in Seq(Node)
  BY <1>2, ListOfSet, SeqMonotonic DEF Lists
<1>4. [t \in Node |-> IF t \in roots THEN count[t] ELSE Unseen] \in [Node -> Int]
  BY <1>1 DEF Unseen
<1>5. QED
  BY <1>2, <1>3, <1>4 DEF StartCheck, States

\* The check, turn by turn.
LEMMA TurnsDef ==
  ASSUME BuildInv, NEW count \in [Task -> Int]
  PROVE  /\ Turns(count) \in [Nat -> States]
         /\ Turns(count)[0] = StartCheck(count)
         /\ \A k \in Nat : Turns(count)[k + 1] = Turn(count, Turns(count)[k])
<1> DEFINE Step == [k \in Nat |-> [s \in States |-> Turn(count, s)]]
           first == StartCheck(count)
           After(f) == [k \in Nat |-> IF k = 0 THEN first ELSE Turn(count, f[k - 1])]
<1>1. first \in States /\ Step \in [Nat -> [States -> States]]
  BY StartType, TurnType
<1> HIDE DEF first
<1>2. PICK f \in [Nat -> States] : f = [k \in Nat |-> IF k = 0 THEN first ELSE Step[k][f[k - 1]]]
  <2> HIDE DEF Step
  <2>1. QED
    BY <1>1, Iteration
<1>3. f = After(f)
  <2>1. \A k \in Nat : k # 0 => k - 1 \in Nat
    OBVIOUS
  <2>2. \A k \in Nat : k # 0 => f[k - 1] \in States
    BY <1>2, <2>1
  <2>3. \A k \in Nat : k # 0 => Step[k][f[k - 1]] = Turn(count, f[k - 1])
    BY <2>2
  <2>4. QED
    BY <1>2, <2>3
<1>4. Turns(count) = CHOOSE g : g = After(g)
  BY DEF Turns, first
<1>5. Turns(count) = After(Turns(count))
  BY <1>3, <1>4
<1> DEFINE F == Turns(count)
<1>6. F = After(F)
  BY <1>5
<1> HIDE DEF F
<1>7. F[0] = first /\ \A k \in Nat : F[k + 1] = Turn(count, F[k])
  <2>1. \A k \in Nat : F[k] = IF k = 0 THEN first ELSE Turn(count, F[k - 1])
    BY <1>6
  <2>2. \A k \in Nat : k + 1 \in Nat /\ k + 1 # 0 /\ (k + 1) - 1 = k
    OBVIOUS
  <2>3. QED
    BY <2>1, <2>2
<1>8. F \in [Nat -> States]
  <2> DEFINE T == {k \in Nat : F[k] \in States}
  <2>1. 0 \in T
    BY <1>1, <1>7
  <2>2. \A k \in Nat : k \in T => k + 1 \in T
    BY <1>7, TurnType
  <2> HIDE DEF T
  <2>3. \A k \in Nat : k \in T
    BY <2>1, <2>2, Induction
  <2>4. QED
    BY <1>6, <2>3 DEF T
<1>9. QED
  BY <1>7, <1>8 DEF F, first

\* The roots of a finished graph are the tasks that follow none; the end task follows some.
LEMMA RootsFollowNone ==
  ASSUME BuildInv, pc = "built", n > 1
  PROVE  \A t \in Node : t \in roots <=> \A p \in Node : t \notin Targets(p)
<1>1. \A t \in Node \ {n} : t \in roots <=> \A p \in Node : t \notin Targets(p)
  BY DEF BuildInv, RootsAndEnds, Registered, Finished
<1>2. n \notin roots
  BY DEF BuildInv, RootsAndEnds, Registered, Finished
<1>3. \E p \in Node : n \in Targets(p)
  <2>1. n \in Nat /\ \A t \in Node : \A u \in Targets(t) : u \in Node /\ t < u
    BY NodesAreTasks DEF BuildInv, Edges
  <2>2. n - 1 \in Node /\ n - 1 # n
    BY <2>1 DEF Node
  <2>3. PICK u : u \in Targets(n - 1)
    BY <2>2 DEF BuildInv, RootsAndEnds, Finished
  <2>4. u \in Node /\ n - 1 < u
    BY <2>1, <2>2, <2>3
  <2>5. u = n
    BY <2>1, <2>4 DEF Node
  <2>6. QED
    BY <2>2, <2>3, <2>5
<1>4. QED
  BY <1>1, <1>2, <1>3

\* The roots are what can be executed at first.
LEMMA CheckStarts ==
  ASSUME BuildInv, pc = "built", n > 1, NEW late \in SUBSET (Node \ roots),
         NEW count \in [Task -> Int],
         \A t \in Node : count[t] = ref[t] + (IF t \in late THEN 1 ELSE 0)
  PROVE  CheckInv(count, late, {}, StartCheck(count))
<1> DEFINE s == StartCheck(count)
<1>1. \A t \in Node : Left({}, late, t) = count[t]
  <2>1. SUFFICES ASSUME NEW t \in Node PROVE Left({}, late, t) = count[t]
    OBVIOUS
  <2>2. ref[t] = Cardinality({p \in Node : t \in Targets(p)})
    BY DEF BuildInv, Edges
  <2>3. Node \ {} = Node
    OBVIOUS
  <2>4. QED
    BY <2>2, <2>3 DEF Left
<1>2. TypeOK /\ IsFiniteSet(roots) /\ roots \subseteq Node
  BY StartType DEF BuildInv
<1>3. Ready({}, late) = roots
  <2>1. \A t \in Node : t \in roots <=> \A p \in Node : t \notin Targets(p)
    BY RootsFollowNone
  <2>2. \A t \in Node : Left({}, late, t) = 0 <=> t \notin late /\ \A p \in Node : t \notin Targets(p)
    BY <1>2, LeftType
  <2>3. QED
    BY <1>2, <2>1, <2>2 DEF Ready
<1>4. s.failed = FALSE /\ s.q = SetToSeq(roots)
      /\ s.check = [t \in Node |-> IF t \in roots THEN count[t] ELSE Unseen]
  BY DEF StartCheck
<1>5. Lists(s.q, Ready({}, late))
  BY <1>2, <1>3, <1>4, ListOfSet
<1>6. \A t \in Node : Seen(count, s.check, t) = Left({}, late, t)
  BY <1>1, <1>4 DEF Seen
<1>7. QED
  BY <1>4, <1>5, <1>6 DEF CheckInv

\* A turn executes one more task.
LEMMA CheckTurns ==
  ASSUME BuildInv, NEW late, NEW count \in [Task -> Int], NEW X, NEW s \in States,
         CheckInv(count, late, X, s), s.q # <<>>
  PROVE  \E t \in Node \ X : CheckInv(count, late, X \cup {t}, Turn(count, s))
<1> DEFINE t == Head(s.q)
           Y == X \cup {t}
           left(u) == Seen(count, s.check, u) - 1
           S == {u \in Targets(t) : left(u) = 0}
           check == [u \in Node |-> IF u = t THEN Unseen
                                    ELSE IF u \in Targets(t) THEN left(u) ELSE s.check[u]]
           failed == s.failed \/ \E u \in Targets(t) : s.check[u] = 0
           q == Tail(s.q) \o Queued(t, S)
<1>1. /\ TypeOK /\ IsFiniteSet(Node)
      /\ \A x \in Node : \A u \in Targets(x) : u \in Node /\ u # x
  <2>1. \A x \in Node : \A u \in Targets(x) : u \in Node /\ x < u
    BY DEF BuildInv, Edges
  <2>2. \A x \in Node : x \in Nat
    BY DEF Node
  <2>3. QED
    BY <2>1, <2>2, NodesAreTasks DEF BuildInv
<1>2. t \in Ready(X, late) /\ Lists(Tail(s.q), Ready(X, late) \ {t})
  BY ListTail DEF CheckInv
<1>3. t \in Node \ X /\ Left(X, late, t) = 0
  BY <1>2 DEF Ready
<1>4. t \notin late /\ \A p \in Node \ X : t \notin Targets(p)
  BY <1>1, <1>3, LeftType
<1>5. Turn(count, s) = [q |-> q, check |-> check, failed |-> failed]
  BY DEF Turn
<1> HIDE DEF t
<1>6. ASSUME NEW u \in Targets(t)
      PROVE  /\ u \in Node \ Y /\ Left(X, late, u) >= 1 /\ left(u) = Left(Y, late, u)
             /\ Seen(count, s.check, u) = Left(X, late, u)
  <2>1. u \in Node /\ u # t
    BY <1>1, <1>3
  <2>2. u \notin X
    BY <1>3 DEF CheckInv
  <2>3. Left(X, late, u) \in Nat /\ Left(X, late, u) # 0
    BY <1>1, <1>3, LeftType
  <2>4. Left(Y, late, u) = Left(X, late, u) - 1
    BY <1>1, <1>3, LeftStep
  <2>5. Seen(count, s.check, u) = Left(X, late, u)
    BY <2>1, <2>2 DEF CheckInv
  <2>6. QED
    BY <2>1, <2>2, <2>3, <2>4, <2>5
<1>7. \A u \in Node \ Targets(t) : Left(Y, late, u) = Left(X, late, u)
  BY <1>1, <1>3, LeftStep
<1>8. failed = FALSE
  <2>1. ASSUME NEW u \in Targets(t) PROVE s.check[u] # 0
    <3>1. Seen(count, s.check, u) >= 1
      BY <1>6
    <3>2. QED
      BY <3>1 DEF Seen, Unseen
  <2>2. QED
    BY <2>1 DEF CheckInv
<1>9. Ready(Y, late) = (Ready(X, late) \ {t}) \cup S
  <2>1. ASSUME NEW u \in Node
        PROVE  u \in Ready(Y, late) <=> u \in (Ready(X, late) \ {t}) \cup S
    <3>1. CASE u \in Targets(t)
      <4>1. u \notin Ready(X, late) /\ (u \in S <=> Left(Y, late, u) = 0)
        <5>1. Left(X, late, u) >= 1 /\ left(u) = Left(Y, late, u)
          BY <1>6, <3>1
        <5>2. u \in S <=> Left(Y, late, u) = 0
          BY <3>1, <5>1
        <5>3. u \notin Ready(X, late)
          BY <5>1 DEF Ready
        <5>4. QED
          BY <5>2, <5>3
      <4>2. u \in Node \ Y
        BY <1>6, <3>1
      <4>3. QED
        BY <4>1, <4>2 DEF Ready
    <3>2. CASE u \notin Targets(t)
      <4>1. Left(Y, late, u) = Left(X, late, u)
        BY <1>7, <3>2
      <4>2. QED
        BY <3>2, <4>1 DEF Ready
    <3>3. QED
      BY <3>1, <3>2
  <2>2. Ready(Y, late) \subseteq Node /\ Ready(X, late) \subseteq Node /\ S \subseteq Node
    <3>1. Ready(Y, late) \subseteq Node /\ Ready(X, late) \subseteq Node
      BY DEF Ready
    <3>2. S \subseteq Node
      BY <1>6
    <3>3. QED
      BY <3>1, <3>2
  <2>3. QED
    BY <2>1, <2>2
<1>10. Lists(q, Ready(Y, late))
  <2>1. S \cap (Ready(X, late) \ {t}) = {}
    <3>1. ASSUME NEW u \in Targets(t) PROVE u \notin Ready(X, late)
      <4>1. Left(X, late, u) >= 1
        BY <1>6
      <4>2. QED
        BY <4>1 DEF Ready
    <3>2. QED
      BY <3>1
  <2>2. IsFiniteSet(S)
    <3>1. S \subseteq Node
      BY <1>6
    <3>2. QED
      BY <1>1, <3>1, FS_Subset
  <2> HIDE DEF S
  <2>3. Lists(Queued(t, S), S)
    BY <2>2, QueuedLists
  <2>4. Lists(q, (Ready(X, late) \ {t}) \cup S)
    BY <1>2, <2>1, <2>3, ListConcat
  <2>5. QED
    BY <1>9, <2>4
<1>11. ASSUME NEW u \in Node \ Y PROVE Seen(count, check, u) = Left(Y, late, u)
  <2>1. CASE u \in Targets(t)
    <3>1. check[u] = Left(Y, late, u)
      BY <1>6, <1>11, <2>1
    <3>2. Left(Y, late, u) \in Nat
      BY <1>1, LeftType
    <3>3. QED
      BY <3>1, <3>2 DEF Seen, Unseen
  <2>2. CASE u \notin Targets(t)
    <3>1. check[u] = s.check[u]
      BY <1>11, <2>2
    <3>2. Seen(count, check, u) = Seen(count, s.check, u)
      BY <3>1 DEF Seen
    <3>3. QED
      BY <1>7, <1>11, <2>2, <3>2 DEF CheckInv
  <2>3. QED
    BY <2>1, <2>2
<1>12. Y \subseteq Node \ late /\ \A x \in Y : \A p \in Node : x \in Targets(p) => p \in Y
  BY <1>3, <1>4 DEF CheckInv
<1> HIDE DEF q, check, failed
<1> DEFINE next == Turn(count, s)
<1>13. next.q = q /\ next.check = check /\ next.failed = FALSE
  BY <1>5, <1>8
<1> HIDE DEF next, Y, left, S
<1>14. CheckInv(count, late, Y, next)
  BY <1>10, <1>11, <1>12, <1>13 DEF CheckInv
<1>15. QED
  BY <1>3, <1>14 DEF next, Y

\* As long as tasks are left and none is late, one of them can be executed: the oldest.
LEMMA CheckGoesOn ==
  ASSUME BuildInv, NEW X, NEW count, NEW s, CheckInv(count, {}, X, s), X # Node
  PROVE  s.q # <<>>
<1>1. /\ TypeOK /\ n \in Nat
      /\ \A t \in Node : \A u \in Targets(t) : u \in Node /\ t < u
  BY NodesAreTasks DEF BuildInv, Edges
<1>2. Node \ X # {}
  BY DEF CheckInv
<1>3. PICK t \in Node \ X : \A u \in Node \ X : t <= u
  BY <1>1, <1>2, Least DEF Node
<1>4. ASSUME NEW p \in Node \ X, t \in Targets(p) PROVE FALSE
  <2>1. p < t /\ t <= p /\ p \in Nat /\ t \in Nat
    BY <1>1, <1>3, <1>4 DEF Node
  <2>2. QED
    BY <2>1
<1>5. Left(X, {}, t) = 0
  BY <1>1, <1>4, LeftType
<1>6. t \in ToSet(s.q)
  BY <1>3, <1>5 DEF CheckInv, Lists, Ready
<1>7. QED
  BY <1>6, ListOfNone DEF Lists

\* After k turns without a failure k tasks have been executed.
LEMMA CheckCounts ==
  ASSUME BuildInv, pc = "built", n > 1, NEW late \in SUBSET (Node \ roots),
         NEW count \in [Task -> Int],
         \A t \in Node : count[t] = ref[t] + (IF t \in late THEN 1 ELSE 0),
         NEW k \in Nat
  PROVE  LET s == Turns(count)[k]
         IN  \/ s.failed /\ (late = {} => k > n)
             \/ \E X : IsFiniteSet(X) /\ Cardinality(X) = k /\ CheckInv(count, late, X, s)
<1> DEFINE S(j) == Turns(count)[j]
           Fine(j) == \E X : IsFiniteSet(X) /\ Cardinality(X) = j /\ CheckInv(count, late, X, S(j))
           T == {j \in Nat : (S(j).failed /\ (late = {} => j > n)) \/ Fine(j)}
<1>0. /\ Turns(count) \in [Nat -> States]
      /\ S(0) = StartCheck(count) /\ \A j \in Nat : S(j + 1) = Turn(count, S(j)) /\ S(j) \in States
      /\ n \in Nat /\ IsFiniteSet(Node) /\ Cardinality(Node) = n
  <2>1. n \in Nat
    BY NodesAreTasks DEF BuildInv
  <2>2. IsFiniteSet(1 .. n) /\ Cardinality(1 .. n) = IF 1 > n THEN 0 ELSE n - 1 + 1
    BY <2>1, FS_Interval
  <2>3. IsFiniteSet(Node) /\ Cardinality(Node) = n
    BY <2>1, <2>2 DEF Node
  <2>4. QED
    BY <2>1, <2>3, TurnsDef
<1> HIDE DEF S
<1>1. 0 \in T
  <2>1. CheckInv(count, late, {}, S(0))
    BY <1>0, CheckStarts
  <2>2. QED
    BY <2>1, FS_EmptySet
<1>2. ASSUME NEW j \in Nat, j \in T PROVE j + 1 \in T
  <2> DEFINE s == S(j)
  <2>1. S(j + 1) = Turn(count, s) /\ s \in States
    BY <1>0
  <2>2. CASE s.failed /\ (late = {} => j > n)
    <3>1. Turn(count, s).failed
      BY <2>1, <2>2 DEF Turn, States
    <3>2. j > n => j + 1 > n
      BY <1>0
    <3>3. QED
      BY <2>1, <2>2, <3>1, <3>2
  <2>3. CASE Fine(j)
    <3>1. PICK X : IsFiniteSet(X) /\ Cardinality(X) = j /\ CheckInv(count, late, X, s)
      BY <2>3
    <3>2. CASE s.q = <<>>
      <4>1. Turn(count, s).failed
        BY <2>1, <3>2 DEF Turn, States
      <4>2. late = {} => X = Node
        BY <3>1, <3>2, CheckGoesOn
      <4>3. late = {} => j + 1 > n
        BY <1>0, <3>1, <4>2
      <4>4. QED
        BY <2>1, <4>1, <4>3
    <3>3. CASE s.q # <<>>
      <4>1. PICK t \in Node \ X : CheckInv(count, late, X \cup {t}, Turn(count, s))
        BY <2>1, <3>1, <3>3, CheckTurns
      <4>2. IsFiniteSet(X \cup {t}) /\ Cardinality(X \cup {t}) = j + 1
        BY <3>1, <4>1, FS_AddElement
      <4>3. Fine(j + 1)
        BY <2>1, <4>1, <4>2
      <4>4. QED
        BY <4>3
    <3>4. QED
      BY <3>2, <3>3
  <2>4. QED
    BY <1>2, <2>2, <2>3
<1> HIDE DEF T
<1>3. k \in T
  BY <1>1, <1>2, Induction
<1>4. QED
  BY <1>3 DEF T, S

LEMMA CheckIsExact ==
  ASSUME BuildInv
  PROVE  CheckDecides
<1> SUFFICES ASSUME pc = "built", n > 1
             PROVE  /\ CheckGraphBfs(ref)
                    /\ \A t \in Node \ roots : ~CheckGraphBfs([ref EXCEPT ![t] = @ + 1])
  BY DEF CheckDecides
<1>1. n \in Nat /\ ref \in [Task -> Nat] /\ Node \subseteq Task
        /\ IsFiniteSet(Node) /\ Cardinality(Node) = n
  <2>1. n \in Nat /\ ref \in [Task -> Nat] /\ Node \subseteq Task
    BY NodesAreTasks DEF BuildInv, TypeOK
  <2>2. IsFiniteSet(1 .. n) /\ Cardinality(1 .. n) = IF 1 > n THEN 0 ELSE n - 1 + 1
    BY <2>1, FS_Interval
  <2>3. QED
    BY <2>1, <2>2 DEF Node
<1>2. CheckGraphBfs(ref)
  <2> DEFINE s == Turns(ref)[n]
  <2>1. ref \in [Task -> Int] /\ {} \in SUBSET (Node \ roots)
        /\ \A t \in Node : ref[t] = ref[t] + (IF t \in {} THEN 1 ELSE 0)
    BY <1>1
  <2>2. \/ s.failed /\ ({} = {} => n > n)
        \/ \E X : IsFiniteSet(X) /\ Cardinality(X) = n /\ CheckInv(ref, {}, X, s)
    BY <1>1, <2>1, CheckCounts
  <2>3. ~(n > n)
    BY <1>1
  <2>4. s.failed = FALSE
    BY <2>2, <2>3 DEF CheckInv
  <2>5. QED
    BY <2>4 DEF CheckGraphBfs
<1>3. ASSUME NEW t \in Node \ roots
      PROVE  ~CheckGraphBfs([ref EXCEPT ![t] = @ + 1])
  <2> DEFINE count == [ref EXCEPT ![t] = @ + 1]
             s == Turns(count)[n]
  <2>1. count \in [Task -> Int] /\ {t} \in SUBSET (Node \ roots)
        /\ \A u \in Node : count[u] = ref[u] + (IF u \in {t} THEN 1 ELSE 0)
    BY <1>1
  <2> HIDE DEF count
  <2>2. \/ s.failed
        \/ \E X : IsFiniteSet(X) /\ Cardinality(X) = n /\ CheckInv(count, {t}, X, s)
    BY <1>1, <2>1, CheckCounts
  <2>3. ASSUME NEW X, IsFiniteSet(X), Cardinality(X) = n, CheckInv(count, {t}, X, s)
        PROVE  FALSE
    <3>1. X \subseteq Node /\ t \in Node \ X
      BY <2>3 DEF CheckInv
    <3>2. X = Node
      BY <1>1, <2>3, <3>1, FS_Subset
    <3>3. QED
      BY <3>1, <3>2
  <2>4. s.failed
    BY <2>2, <2>3
  <2>5. QED
    BY <2>4 DEF CheckGraphBfs, count
<1>4. QED
  BY <1>2, <1>3

\* The check in advance decides: it accepts every graph the builder finishes, and any
\* graph in which one task waits for one predecessor more than it has is rejected.
THEOREM Decision == Spec => []CheckDecides
<1>1. BuildInv => CheckDecides
  BY CheckIsExact
<1>2. QED
  BY <1>1, Invariance, PTL

-----------------------------------------------------------------------------
(***************************************************************************)
(* The parts of a finished graph.                                          *)
(***************************************************************************)

\* In the disjoint sets over D the way up from x leads to the representative R[x].
Found(father, R, D) ==
  /\ father \in [D -> D] /\ R \in [D -> D]
  /\ \A x \in D : /\ R[father[x]] = R[x]
                  /\ father[R[x]] = R[x]
                  /\ father[x] = x => R[x] = x
                  /\ R[x] \in Way(father, x)

LEMMA WayDef ==
  ASSUME NEW D, NEW father \in [D -> D], NEW x \in D
  PROVE  \A y : y \in Way(father, x) <=>
           /\ y \in D
           /\ \A S \in SUBSET D : x \in S /\ (\A z \in S : father[z] \in S) => y \in S
<1>1. DOMAIN father = D
  OBVIOUS
<1>2. QED
  BY <1>1 DEF Way

LEMMA WayIn ==
  ASSUME NEW D, NEW father \in [D -> D], NEW x \in D, NEW y \in Way(father, x),
         NEW S \in SUBSET D, x \in S, \A z \in S : father[z] \in S
  PROVE  y \in S
BY WayDef

\* find_set finds the representative.
LEMMA FindSetFinds ==
  ASSUME NEW D, NEW father, NEW R, Found(father, R, D), NEW x \in D
  PROVE  /\ FindSet(father, x) = R[x]
         /\ \A y \in Way(father, x) : y \in D /\ R[y] = R[x]
<1> DEFINE S == {y \in D : R[y] = R[x]}
<1>1. S \in SUBSET D /\ x \in S /\ \A z \in S : father[z] \in S
  BY DEF Found
<1>2. \A y \in Way(father, x) : y \in S
  <2>1. father \in [D -> D]
    BY DEF Found
  <2> HIDE DEF S
  <2>2. QED
    BY <1>1, <2>1, WayDef
<1>3. \A y \in Way(father, x) : father[y] = y => y = R[x]
  BY <1>2 DEF Found
<1>4. R[x] \in Way(father, x) /\ father[R[x]] = R[x]
  BY DEF Found
<1>5. QED
  BY <1>2, <1>3, <1>4 DEF FindSet

\* The compression of a way moves no element to another set.
LEMMA CompressedFinds ==
  ASSUME NEW D, NEW father, NEW R, Found(father, R, D), NEW x \in D
  PROVE  Found(Compressed(father, x), R, D)
<1> DEFINE c == Compressed(father, x)
           W == Way(father, x)
<1>1. /\ father \in [D -> D] /\ R \in [D -> D] /\ DOMAIN father = D
      /\ \A y \in D : /\ R[father[y]] = R[y] /\ father[R[y]] = R[y]
                      /\ (father[y] = y => R[y] = y) /\ R[y] \in Way(father, y)
  BY DEF Found
<1>2. FindSet(father, x) = R[x] /\ \A y \in W : y \in D /\ R[y] = R[x]
  BY FindSetFinds
<1>3. c = [y \in D |-> IF y \in W THEN R[x] ELSE father[y]]
  BY <1>1, <1>2 DEF Compressed
<1> HIDE DEF c, W
<1>4. c \in [D -> D]
  BY <1>1, <1>3
<1>5. \A y \in D : R[R[y]] = R[y]
  BY <1>1
<1>6. ASSUME NEW y \in D
      PROVE  R[c[y]] = R[y] /\ c[R[y]] = R[y] /\ (c[y] = y => R[y] = y)
  <2>1. R[c[y]] = R[y]
    BY <1>1, <1>2, <1>3, <1>5
  <2>2. c[R[y]] = R[y]
    <3>1. R[y] \in D
      BY <1>1
    <3>2. CASE R[y] \in W
      BY <1>2, <1>3, <1>5, <3>1, <3>2
    <3>3. CASE R[y] \notin W
      BY <1>1, <1>3, <3>1, <3>3
    <3>4. QED
      BY <3>2, <3>3
  <2>3. ASSUME c[y] = y PROVE R[y] = y
    BY <1>1, <1>2, <1>3, <1>5, <2>3
  <2>4. QED
    BY <2>1, <2>2, <2>3
<1>7. ASSUME NEW y \in D PROVE R[y] \in Way(c, y)
  <2>1. SUFFICES ASSUME NEW S \in SUBSET D, y \in S, \A z \in S : c[z] \in S
                 PROVE  R[y] \in S
    BY <1>1, <1>4, WayDef
  <2> DEFINE U == {z \in D : z \in S \/ R[z] \in S}
  <2>2. y \in U /\ U \in SUBSET D
    BY <2>1
  <2>3. ASSUME NEW z \in U PROVE father[z] \in U
    <3>1. CASE R[z] \in S
      BY <1>1, <3>1
    <3>2. CASE z \in S /\ z \in W
      <4>1. R[z] \in S
        BY <1>2, <1>3, <2>1, <3>2
      <4>2. QED
        BY <3>1, <4>1
    <3>3. CASE z \in S /\ z \notin W
      <4>1. father[z] \in S
        BY <1>3, <2>1, <3>3
      <4>2. QED
        BY <4>1
    <3>4. QED
      BY <3>1, <3>2, <3>3
  <2> HIDE DEF U
  <2>4. R[y] \in U
    <3>1. \A V \in SUBSET D : y \in V /\ (\A z \in V : father[z] \in V) => R[y] \in V
      <4>1. R[y] \in Way(father, y) /\ father \in [D -> D]
        BY <1>1
      <4>2. QED
        BY <4>1, WayDef
    <3>2. QED
      BY <2>2, <2>3, <3>1
  <2>5. QED
    BY <1>5, <2>4 DEF U
<1>8. QED
  BY <1>1, <1>4, <1>6, <1>7 DEF Found, c

\* The union of two sets: the elements of the first get the representative of the other.
LEMMA LinkedFinds ==
  ASSUME NEW D, NEW father, NEW R, Found(father, R, D), NEW x \in D, NEW y \in D,
         R[x] = x, R[y] = y,
         NEW l \in [D -> D], \A z \in D : l[z] = IF z = x THEN y ELSE father[z],
         NEW Q \in [D -> D], \A z \in D : Q[z] = IF R[z] = x THEN y ELSE R[z]
  PROVE  Found(l, Q, D)
<1>1. /\ father \in [D -> D] /\ R \in [D -> D]
      /\ \A z \in D : /\ R[father[z]] = R[z] /\ father[R[z]] = R[z]
                      /\ (father[z] = z => R[z] = z) /\ R[z] \in Way(father, z)
      /\ father[x] = x /\ father[y] = y
  BY DEF Found
<1>2. l \in [D -> D] /\ \A z \in D : l[z] = IF z = x THEN y ELSE father[z]
  BY <1>1
<1>3. Q \in [D -> D] /\ \A z \in D : Q[z] = IF R[z] = x THEN y ELSE R[z]
  BY <1>1
<1>4. ASSUME NEW z \in D
      PROVE  Q[l[z]] = Q[z] /\ l[Q[z]] = Q[z] /\ (l[z] = z => Q[z] = z)
  <2>1. Q[l[z]] = Q[z]
    BY <1>1, <1>2, <1>3
  <2>2. l[Q[z]] = Q[z]
    <3>1. CASE R[z] = x
      BY <1>1, <1>2, <1>3, <3>1
    <3>2. CASE R[z] # x
      <4>1. Q[z] = R[z] /\ R[z] \in D
        BY <1>1, <1>3, <3>2
      <4>2. QED
        BY <1>1, <1>2, <3>2, <4>1
    <3>3. QED
      BY <3>1, <3>2
  <2>3. l[z] = z => Q[z] = z
    BY <1>1, <1>2, <1>3
  <2>4. QED
    BY <2>1, <2>2, <2>3
<1>5. ASSUME NEW z \in D PROVE Q[z] \in Way(l, z)
  <2>1. Q[z] \in D /\ l \in [D -> D]
    OBVIOUS
  <2>2. SUFFICES ASSUME NEW S \in SUBSET D, z \in S, \A u \in S : l[u] \in S
                 PROVE  Q[z] \in S
    BY <2>1, WayDef
  <2>3. \A u \in S : father[u] \in S
    BY <1>1, <1>2, <2>2
  <2>4. R[z] \in S
    <3>1. R[z] \in Way(father, z)
      BY <1>1
    <3>2. QED
      BY <1>1, <2>2, <2>3, <3>1, WayIn
  <2>5. QED
    BY <1>2, <1>3, <2>2, <2>4
<1>6. QED
  BY <1>2, <1>3, <1>4, <1>5 DEF Found

\* make_set adds a set of one element.
LEMMA MadeFinds ==
  ASSUME NEW D, NEW d, NEW R, Found(d.father, R, D), NEW x, x \notin D,
         NEW E, E = D \cup {x},
         NEW Q \in [E -> E], \A y \in E : Q[y] = IF y = x THEN x ELSE R[y]
  PROVE  Found(MakeSet(d, x).father, Q, E)
<1> DEFINE f == MakeSet(d, x).father
           father == d.father
<1>1. /\ father \in [D -> D] /\ R \in [D -> D]
      /\ \A z \in D : /\ R[father[z]] = R[z] /\ father[R[z]] = R[z]
                      /\ (father[z] = z => R[z] = z) /\ R[z] \in Way(father, z)
  BY DEF Found
<1>2. f = [y \in E |-> IF y = x THEN x ELSE father[y]]
  BY <1>1 DEF MakeSet
<1>3. f \in [E -> E] /\ Q \in [E -> E]
  BY <1>1, <1>2
<1>4. \A z \in E : Q[f[z]] = Q[z] /\ f[Q[z]] = Q[z] /\ (f[z] = z => Q[z] = z)
  BY <1>1, <1>2
<1>5. ASSUME NEW z \in E PROVE Q[z] \in Way(f, z)
  <2> HIDE DEF f
  <2>1. Q[z] \in E
    BY <1>3
  <2>2. SUFFICES ASSUME NEW S \in SUBSET E, z \in S, \A u \in S : f[u] \in S
                 PROVE  Q[z] \in S
    BY <1>3, <2>1, WayDef
  <2>3. CASE z = x
    BY <2>2, <2>3
  <2>4. CASE z \in D
    <3> DEFINE T == S \ {x}
    <3>1. T \in SUBSET D /\ z \in T
      BY <2>2, <2>4
    <3>2. ASSUME NEW u \in T PROVE father[u] \in T
      <4>1. u \in S /\ u # x /\ u \in D /\ f[u] = father[u]
        BY <1>2, <3>1
      <4>2. QED
        BY <1>1, <2>2, <4>1
    <3> HIDE DEF T
    <3>3. R[z] \in T
      <4>1. \A V \in SUBSET D : z \in V /\ (\A u \in V : father[u] \in V) => R[z] \in V
        <5>1. R[z] \in Way(father, z) /\ father \in [D -> D]
          BY <1>1, <2>4
        <5> HIDE DEF father
        <5>2. QED
          BY <2>4, <5>1, WayDef
      <4>2. QED
        BY <3>1, <3>2, <4>1
    <3>4. z # x
      BY <2>4
    <3>5. QED
      BY <2>4, <3>3, <3>4 DEF T
  <2>5. QED
    BY <2>3, <2>4
<1>6. QED
  BY <1>3, <1>4, <1>5 DEF Found

DisjointSets(D) == [father : [D -> D], rank : [D -> Nat]]

\* union_set unites the sets of x and y and no others.
LEMMA UnionUnites ==
  ASSUME NEW D, NEW d \in DisjointSets(D), NEW R, Found(d.father, R, D), NEW x \in D, NEW y \in D
  PROVE  /\ UnionSet(d, x, y) \in DisjointSets(D)
         /\ \E Q : /\ Found(UnionSet(d, x, y).father, Q, D)
                   /\ \A a, b \in D : Q[a] = Q[b] <=>
                        R[a] = R[b] \/ (R[a] \in {R[x], R[y]} /\ R[b] \in {R[x], R[y]})
<1> DEFINE fx == R[x]
           fy == R[y]
           f == Compressed(Compressed(d.father, x), y)
           c == [d EXCEPT !.father = f]
           Means(Q) == \A a, b \in D : Q[a] = Q[b] <=>
                         R[a] = R[b] \/ (R[a] \in {fx, fy} /\ R[b] \in {fx, fy})
<1>1. d.father \in [D -> D] /\ d.rank \in [D -> Nat] /\ d = [father |-> d.father, rank |-> d.rank]
  BY DEF DisjointSets
<1>2. FindSet(d.father, x) = fx /\ FindSet(d.father, y) = fy
  BY FindSetFinds
<1>3. Found(f, R, D)
  BY CompressedFinds
<1> HIDE DEF f
<1>4. f \in [D -> D] /\ R \in [D -> D] /\ fx \in D /\ fy \in D /\ R[fx] = fx /\ R[fy] = fy
  BY <1>3 DEF Found
<1>5. c = [father |-> f, rank |-> d.rank] /\ c.father = f /\ c.rank = d.rank
  BY <1>1
<1>6. UnionSet(d, x, y) = IF fx = fy THEN c ELSE Link(c, fx, fy)
  BY <1>2, <1>5 DEF UnionSet, f
<1> HIDE DEF c, fx, fy
<1>7. CASE fx = fy
  <2>1. UnionSet(d, x, y) = c /\ Means(R)
    BY <1>6, <1>7
  <2>2. c \in DisjointSets(D)
    BY <1>1, <1>4, <1>5 DEF DisjointSets
  <2>3. QED
    BY <1>3, <1>5, <2>1, <2>2 DEF fx, fy
<1>8. CASE fx # fy
  <2>1. \/ Link(c, fx, fy) = [father |-> [f EXCEPT ![fy] = fx], rank |-> d.rank]
        \/ \E k \in Nat : Link(c, fx, fy) = [father |-> [f EXCEPT ![fx] = fy],
                                             rank |-> [d.rank EXCEPT ![fy] = k]]
    <3>1. CASE d.rank[fx] > d.rank[fy]
      <4>1. Link(c, fx, fy) = [c EXCEPT !.father[fy] = fx]
        BY <1>5, <3>1 DEF Link
      <4>2. QED
        BY <1>5, <4>1
    <3>2. CASE ~(d.rank[fx] > d.rank[fy])
      <4> DEFINE k == IF d.rank[fx] = d.rank[fy] THEN d.rank[fy] + 1 ELSE d.rank[fy]
      <4>1. k \in Nat
        BY <1>1, <1>4
      <4>2. Link(c, fx, fy) = [c EXCEPT !.father[fx] = fy, !.rank[fy] = k]
        BY <1>5, <3>2 DEF Link
      <4> HIDE DEF k
      <4>3. Link(c, fx, fy) = [father |-> [f EXCEPT ![fx] = fy], rank |-> [d.rank EXCEPT ![fy] = k]]
        BY <1>5, <4>2
      <4>4. QED
        BY <4>1, <4>3
    <3>3. QED
      BY <3>1, <3>2
  <2>2. CASE Link(c, fx, fy) = [father |-> [f EXCEPT ![fy] = fx], rank |-> d.rank]
    <3> DEFINE Q == [z \in D |-> IF R[z] = fy THEN fx ELSE R[z]]
    <3> DEFINE l == [f EXCEPT ![fy] = fx]
    <3>1. Found(l, Q, D)
      <4>1. /\ l \in [D -> D] /\ \A z \in D : l[z] = IF z = fy THEN fx ELSE f[z]
            /\ Q \in [D -> D] /\ \A z \in D : Q[z] = IF R[z] = fy THEN fx ELSE R[z]
        BY <1>4
      <4> HIDE DEF l, Q
      <4>2. /\ Found(f, R, D) /\ fx \in D /\ fy \in D /\ R[fx] = fx /\ R[fy] = fy
        BY <1>3, <1>4
      <4>3. l \in [D -> D]
        BY <4>1
      <4>4. Q \in [D -> D]
        BY <4>1
      <4>5. QED
        BY <4>1, <4>2, <4>3, <4>4, LinkedFinds
    <3>2. Means(Q)
      BY <1>4
    <3>3. [f EXCEPT ![fy] = fx] \in [D -> D]
      BY <1>4
    <3> HIDE DEF Q
    <3>4. QED
      BY <1>1, <1>6, <1>8, <2>2, <3>1, <3>2, <3>3 DEF DisjointSets, fx, fy
  <2>3. ASSUME NEW k \in Nat, Link(c, fx, fy) = [father |-> [f EXCEPT ![fx] = fy],
                                                 rank |-> [d.rank EXCEPT ![fy] = k]]
        PROVE  /\ UnionSet(d, x, y) \in DisjointSets(D)
               /\ \E Q : Found(UnionSet(d, x, y).father, Q, D) /\ Means(Q)
    <3> DEFINE Q == [z \in D |-> IF R[z] = fx THEN fy ELSE R[z]]
    <3> DEFINE l == [f EXCEPT ![fx] = fy]
    <3>1. Found(l, Q, D)
      <4>1. /\ l \in [D -> D] /\ \A z \in D : l[z] = IF z = fx THEN fy ELSE f[z]
            /\ Q \in [D -> D] /\ \A z \in D : Q[z] = IF R[z] = fx THEN fy ELSE R[z]
        BY <1>4
      <4> HIDE DEF l, Q
      <4>2. /\ Found(f, R, D) /\ fx \in D /\ fy \in D /\ R[fx] = fx /\ R[fy] = fy
        BY <1>3, <1>4
      <4>3. l \in [D -> D]
        BY <4>1
      <4>4. Q \in [D -> D]
        BY <4>1
      <4>5. QED
        BY <4>1, <4>2, <4>3, <4>4, LinkedFinds
    <3>2. Means(Q)
      BY <1>4
    <3>3. [f EXCEPT ![fx] = fy] \in [D -> D] /\ [d.rank EXCEPT ![fy] = k] \in [D -> Nat]
      BY <1>1, <1>4
    <3> HIDE DEF Q
    <3>4. QED
      BY <1>6, <1>8, <2>3, <3>1, <3>2, <3>3 DEF DisjointSets
  <2>4. QED
    BY <2>1, <2>2, <2>3 DEF fx, fy
<1>9. QED
  BY <1>7, <1>8

Labels(s) == 1 .. Len(s.sep_task)

Structures ==
  [sets : UNION {DisjointSets(1 .. m) : m \in Nat}, group : [Node -> Int], sep_task : Seq(Node)]

\* No edge of E leads into S or out of it.
Uncut(S, E) == \A e \in E : e[1] \in S <=> e[2] \in S

\* The parts after the tasks of G have been grouped along the edges of E: R is the
\* representative of every label.  The labels number the roots; an edge joins; tasks
\* in one part are in every set that the edges do not leave.
Parted(s, R, G, E) ==
  /\ s \in Structures
  /\ s.sets \in DisjointSets(Labels(s))
  /\ Found(s.sets.father, R, Labels(s))
  /\ G \subseteq Node
  /\ \A t \in G : s.group[t] \in Labels(s)
  /\ \A t \in Node \ G : s.group[t] = NoGroup
  /\ \A i \in Labels(s) : s.sep_task[i] \in G \cap roots /\ s.group[s.sep_task[i]] = i
  /\ \A t \in G \cap roots : s.sep_task[s.group[t]] = t
  /\ \A e \in E : e[1] \in G /\ e[2] \in G /\ R[s.group[e[1]]] = R[s.group[e[2]]]
  /\ \A S \in SUBSET Node : Uncut(S, E) =>
       \A t, u \in G : R[s.group[t]] = R[s.group[u]] => (t \in S <=> u \in S)

LEMMA LabelsAre ==
  ASSUME NEW s \in Structures
  PROVE  /\ Len(s.sep_task) \in Nat /\ NoGroup \notin Labels(s)
         /\ s.sep_task \in Seq(Node) /\ s.group \in [Node -> Int]
         /\ s = [sets |-> s.sets, group |-> s.group, sep_task |-> s.sep_task]
<1>1. s.sep_task \in Seq(Node) /\ s.group \in [Node -> Int]
  BY DEF Structures
<1>2. s = [sets |-> s.sets, group |-> s.group, sep_task |-> s.sep_task]
  BY DEF Structures
<1>3. Len(s.sep_task) \in Nat
  BY <1>1, LenProperties
<1>4. QED
  BY <1>1, <1>2, <1>3 DEF Labels, NoGroup

\* A task that follows p and is not grouped yet joins the group of p.
LEMMA JoinsFirst ==
  ASSUME NEW s, NEW R, NEW G, NEW E, Parted(s, R, G, E),
         NEW p \in G, NEW t \in Node \ G, t \notin roots
  PROVE  Parted(JoinGroup(s, p, t), R, G \cup {t}, E \cup {<<p, t>>})
<1> DEFINE x == JoinGroup(s, p, t)
           H == G \cup {t}
           F == E \cup {<<p, t>>}
<1>1. /\ Len(s.sep_task) \in Nat /\ s.group \in [Node -> Int] /\ s \in Structures
      /\ NoGroup \notin Labels(s) /\ p \in Node /\ t \in Node /\ H \subseteq Node
  BY LabelsAre DEF Parted
<1>2. x = [s EXCEPT !.group[t] = s.group[p]]
  BY DEF JoinGroup, Parted
<1>3. /\ x.sets = s.sets /\ x.sep_task = s.sep_task /\ Labels(x) = Labels(s)
      /\ x.group = [s.group EXCEPT ![t] = s.group[p]]
      /\ x = [sets |-> x.sets, group |-> x.group, sep_task |-> x.sep_task]
  <2>1. s = [sets |-> s.sets, group |-> s.group, sep_task |-> s.sep_task]
    BY <1>1, LabelsAre
  <2>2. x = [sets |-> s.sets, group |-> [s.group EXCEPT ![t] = s.group[p]], sep_task |-> s.sep_task]
    BY <1>2, <2>1
  <2> HIDE DEF x
  <2>3. QED
    BY <2>2 DEF Labels
<1> HIDE DEF x
<1>4. x.group[t] = s.group[p] /\ \A u \in Node \ {t} : x.group[u] = s.group[u]
  BY <1>1, <1>3
<1>5. x \in Structures
  <2>1. x.group \in [Node -> Int]
    BY <1>1, <1>3
  <2>2. QED
    BY <1>1, <1>3, <2>1 DEF Structures
<1>6. /\ \A u \in H : x.group[u] \in Labels(x)
      /\ \A u \in Node \ H : x.group[u] = NoGroup
  BY <1>1, <1>3, <1>4 DEF Parted
<1>7. /\ \A i \in Labels(x) : x.sep_task[i] \in H \cap roots /\ x.group[x.sep_task[i]] = i
      /\ \A u \in H \cap roots : x.sep_task[x.group[u]] = u
  <2>1. \A i \in Labels(s) : s.sep_task[i] \in G \cap roots /\ s.group[s.sep_task[i]] = i
    BY DEF Parted
  <2>2. \A u \in G \cap roots : s.sep_task[s.group[u]] = u /\ u \in Node
    BY DEF Parted
  <2>3. \A u \in G : u \in Node \ {t}
    BY DEF Parted
  <2>4. QED
    BY <1>3, <1>4, <2>1, <2>2, <2>3
<1>8. ASSUME NEW e \in F
      PROVE  e[1] \in H /\ e[2] \in H /\ R[x.group[e[1]]] = R[x.group[e[2]]]
  <2>1. CASE e \in E
    <3>1. e[1] \in G /\ e[2] \in G /\ R[s.group[e[1]]] = R[s.group[e[2]]] /\ G \subseteq Node
      BY <2>1 DEF Parted
    <3>2. QED
      BY <1>4, <3>1
  <2>2. CASE e = <<p, t>>
    BY <1>1, <1>4, <2>2
  <2>3. QED
    BY <2>1, <2>2
<1>9. ASSUME NEW S \in SUBSET Node, Uncut(S, F), NEW u \in H, NEW v \in H,
             R[x.group[u]] = R[x.group[v]]
      PROVE  u \in S <=> v \in S
  <2>1. Uncut(S, E) /\ (p \in S <=> t \in S)
    <3>1. <<p, t>> \in F /\ \A e \in E : e \in F
      OBVIOUS
    <3>2. <<p, t>>[1] \in S <=> <<p, t>>[2] \in S
      BY <1>9, <3>1 DEF Uncut
    <3>3. QED
      BY <1>9, <3>1, <3>2 DEF Uncut
  <2> DEFINE same(y) == IF y = t THEN p ELSE y
  <2>2. same(u) \in G /\ same(v) \in G /\ x.group[u] = s.group[same(u)] /\ x.group[v] = s.group[same(v)]
    BY <1>1, <1>4
  <2>3. same(u) \in S <=> same(v) \in S
    <3>1. \A a, b \in G : R[s.group[a]] = R[s.group[b]] => (a \in S <=> b \in S)
      BY <2>1 DEF Parted
    <3> HIDE DEF same
    <3>2. QED
      BY <1>9, <2>2, <3>1
  <2>4. QED
    BY <2>1, <2>3
<1>10. /\ x.sets \in DisjointSets(Labels(x))
       /\ Found(x.sets.father, R, Labels(x))
  BY <1>3 DEF Parted
<1> HIDE DEF H, F
<1>11. QED
  BY <1>1, <1>5, <1>6, <1>7, <1>8, <1>9, <1>10 DEF Parted, x, H, F

\* A task that is grouped already: the sets of the two groups are united.
LEMMA JoinsAgain ==
  ASSUME NEW s, NEW R, NEW G, NEW E, Parted(s, R, G, E),
         NEW p \in G, NEW t \in G, t \notin roots
  PROVE  \E Q : Parted(JoinGroup(s, p, t), Q, G, E \cup {<<p, t>>})
<1> DEFINE x == JoinGroup(s, p, t)
           D == Labels(s)
           d == UnionSet(s.sets, s.group[p], s.group[t])
           F == E \cup {<<p, t>>}
           Rp == R[s.group[p]]
           Rt == R[s.group[t]]
<1>1. /\ Len(s.sep_task) \in Nat /\ s.group \in [Node -> Int] /\ s \in Structures
      /\ NoGroup \notin D /\ p \in Node /\ t \in Node /\ G \subseteq Node
      /\ s.group[p] \in D /\ s.group[t] \in D
      /\ s = [sets |-> s.sets, group |-> s.group, sep_task |-> s.sep_task]
      /\ s.sets \in DisjointSets(D) /\ Found(s.sets.father, R, D)
  BY LabelsAre DEF Parted
<1>2. PICK Q : /\ d \in DisjointSets(D) /\ Found(d.father, Q, D)
               /\ \A a, b \in D : Q[a] = Q[b] <=>
                    R[a] = R[b] \/ (R[a] \in {Rp, Rt} /\ R[b] \in {Rp, Rt})
  <2>1. s.sets \in DisjointSets(D)
    BY <1>1
  <2>2. s.group[p] \in D /\ s.group[t] \in D /\ Found(s.sets.father, R, D)
    BY <1>1
  <2> HIDE DEF D
  <2>3. QED
    <3> DEFINE from == s.group[p]
               to == s.group[t]
               sets == s.sets
    <3>1. from \in D /\ to \in D /\ sets \in DisjointSets(D) /\ Found(sets.father, R, D)
      BY <2>1, <2>2
    <3> HIDE DEF from, to, sets
    <3>2. UnionSet(sets, from, to) \in DisjointSets(D)
      BY <3>1, UnionUnites
    <3>3. \E Q : /\ Found(UnionSet(sets, from, to).father, Q, D)
                 /\ \A a, b \in D : Q[a] = Q[b] <=>
                      R[a] = R[b] \/ (R[a] \in {R[from], R[to]} /\ R[b] \in {R[from], R[to]})
      BY <3>1, UnionUnites
    <3>4. QED
      BY <3>2, <3>3 DEF from, to, sets
<1> DEFINE g == FindSet(d.father, s.group[p])
<1>3. g = Q[s.group[p]] /\ g \in D /\ Q[g] = g
  <2>1. g = Q[s.group[p]]
    BY <1>1, <1>2, FindSetFinds
  <2>2. QED
    BY <1>1, <1>2, <2>1 DEF Found
<1>4. x = [sets |-> d, group |-> [s.group EXCEPT ![t] = g], sep_task |-> s.sep_task]
  <2>1. s.group[t] # NoGroup
    BY <1>1
  <2>2. x = [s EXCEPT !.sets = d, !.group[t] = g]
    BY <2>1 DEF JoinGroup
  <2> HIDE DEF x, d, g
  <2>3. QED
    BY <1>1, <2>2
<1> HIDE DEF x, d, g
<1>5. x.sets = d /\ x.sep_task = s.sep_task /\ x.group = [s.group EXCEPT ![t] = g] /\ Labels(x) = D
  BY <1>4 DEF Labels
<1>6. x.group[t] = g /\ \A u \in Node \ {t} : x.group[u] = s.group[u]
  BY <1>1, <1>5
<1>7. x \in Structures
  <2>1. x.group \in [Node -> Int]
    BY <1>1, <1>3, <1>5 DEF Labels
  <2>2. d \in UNION {DisjointSets(1 .. m) : m \in Nat}
    BY <1>1, <1>2 DEF Labels
  <2>3. s.sep_task \in Seq(Node)
    BY <1>1, LabelsAre
  <2>4. QED
    BY <1>4, <1>5, <2>1, <2>2, <2>3 DEF Structures
<1>8. \A u \in G : x.group[u] \in D /\ Q[x.group[u]] = Q[s.group[u]]
  <2>1. \A u \in G : s.group[u] \in D
    BY DEF Parted
  <2>2. Q[g] = Q[s.group[t]]
    <3>1. Q[s.group[p]] = Q[s.group[t]]
      BY <1>1, <1>2
    <3>2. QED
      BY <1>3, <3>1
  <2>3. QED
    BY <1>1, <1>3, <1>6, <2>1, <2>2
<1>9. \A u \in Node \ G : x.group[u] = NoGroup
  BY <1>6 DEF Parted
<1>10. /\ \A i \in D : x.sep_task[i] \in G \cap roots /\ x.group[x.sep_task[i]] = i
       /\ \A u \in G \cap roots : x.sep_task[x.group[u]] = u
  <2>1. \A i \in D : s.sep_task[i] \in G \cap roots /\ s.group[s.sep_task[i]] = i
    BY DEF Parted
  <2>2. \A u \in G \cap roots : s.sep_task[s.group[u]] = u
    BY DEF Parted
  <2>3. \A u \in G \cap roots : x.group[u] = s.group[u]
    BY <1>1, <1>6
  <2>4. QED
    BY <1>5, <2>1, <2>2, <2>3
<1>11. \A u \in G : s.group[u] \in D
  BY DEF Parted
<1>12. ASSUME NEW e \in F
       PROVE  e[1] \in G /\ e[2] \in G /\ Q[x.group[e[1]]] = Q[x.group[e[2]]]
  <2>1. CASE e \in E
    <3>1. e[1] \in G /\ e[2] \in G /\ R[s.group[e[1]]] = R[s.group[e[2]]]
      BY <2>1 DEF Parted
    <3>2. Q[s.group[e[1]]] = Q[s.group[e[2]]]
      BY <1>2, <1>11, <3>1
    <3>3. QED
      BY <1>8, <3>1, <3>2
  <2>2. CASE e = <<p, t>>
    <3>1. Q[s.group[p]] = Q[s.group[t]]
      BY <1>1, <1>2
    <3>2. e[1] = p /\ e[2] = t
      BY <2>2
    <3>3. QED
      BY <1>8, <3>1, <3>2
  <2>3. QED
    BY <2>1, <2>2
<1>13. ASSUME NEW S \in SUBSET Node, Uncut(S, F), NEW u \in G, NEW v \in G,
              Q[x.group[u]] = Q[x.group[v]]
       PROVE  u \in S <=> v \in S
  <2>1. Uncut(S, E) /\ (p \in S <=> t \in S)
    <3>1. <<p, t>> \in F /\ \A e \in E : e \in F
      OBVIOUS
    <3>2. <<p, t>>[1] \in S <=> <<p, t>>[2] \in S
      BY <1>13, <3>1 DEF Uncut
    <3>3. QED
      BY <1>13, <3>1, <3>2 DEF Uncut
  <2>2. \A a, b \in G : R[s.group[a]] = R[s.group[b]] => (a \in S <=> b \in S)
    BY <2>1 DEF Parted
  <2>3. \/ R[s.group[u]] = R[s.group[v]]
        \/ R[s.group[u]] \in {Rp, Rt} /\ R[s.group[v]] \in {Rp, Rt}
    <3>1. Q[s.group[u]] = Q[s.group[v]]
      BY <1>8, <1>13
    <3>2. QED
      BY <1>2, <1>11, <3>1
  <2>4. \A a \in G : R[s.group[a]] \in {Rp, Rt} => (a \in S <=> p \in S)
    BY <2>1, <2>2
  <2>5. QED
    BY <2>2, <2>3, <2>4
<1> HIDE DEF F, D
<1>14. Parted(x, Q, G, F)
  BY <1>1, <1>2, <1>5, <1>7, <1>8, <1>9, <1>10, <1>12, <1>13 DEF Parted
<1>15. QED
  BY <1>14 DEF x, F

\* A root is a part of its own.
LEMMA RootParts ==
  ASSUME NEW s, NEW R, NEW G, NEW E, Parted(s, R, G, E),
         NEW t \in Node \ G, t \in roots
  PROVE  \E Q : Parted(Register(s, t), Q, G \cup {t}, E)
<1> DEFINE x == Register(s, t)
           D == Labels(s)
           m == Len(s.sep_task) + 1
           H == G \cup {t}
           C == D \cup {m}
           Q == [y \in C |-> IF y = m THEN m ELSE R[y]]
           d == MakeSet(s.sets, m)
<1>1. /\ Len(s.sep_task) \in Nat /\ s.group \in [Node -> Int] /\ s \in Structures
      /\ t \in Node /\ G \subseteq Node /\ s.sep_task \in Seq(Node)
      /\ s.sets \in DisjointSets(D) /\ Found(s.sets.father, R, D) /\ R \in [D -> D]
  BY LabelsAre DEF Parted, Found
<1>2. /\ x = [sets |-> d, group |-> [s.group EXCEPT ![t] = m], sep_task |-> Append(s.sep_task, t)]
  BY DEF Register
<1>3. m \in Nat /\ m \notin D /\ C = 1 .. m
  BY <1>1 DEF Labels
<1>4. /\ Append(s.sep_task, t) \in Seq(Node) /\ Len(Append(s.sep_task, t)) = m
      /\ \A i \in D : Append(s.sep_task, t)[i] = s.sep_task[i]
      /\ Append(s.sep_task, t)[m] = t
  BY <1>1, AppendProperties DEF Labels
<1>5. d \in DisjointSets(C)
  <2>1. s.sets.father \in [D -> D] /\ s.sets.rank \in [D -> Nat]
    BY <1>1 DEF DisjointSets
  <2> DEFINE f == [y \in DOMAIN s.sets.father \cup {m} |-> IF y = m THEN m ELSE s.sets.father[y]]
             k == [y \in DOMAIN s.sets.rank \cup {m} |-> IF y = m THEN 0 ELSE s.sets.rank[y]]
  <2>2. f \in [C -> C] /\ k \in [C -> Nat]
    BY <2>1
  <2>3. d = [father |-> f, rank |-> k]
    BY DEF MakeSet
  <2> HIDE DEF f, k
  <2>4. QED
    BY <2>2, <2>3 DEF DisjointSets
<1>6. Q \in [C -> C] /\ Q[m] = m /\ \A y \in D : Q[y] = R[y] /\ Q[y] \in D
  BY <1>1, <1>3
<1> HIDE DEF m, Q, C
<1>7. Found(d.father, Q, C)
  <2>1. C = D \cup {m} /\ \A y \in C : Q[y] = IF y = m THEN m ELSE R[y]
    BY DEF Q, C
  <2>2. QED
    <3>1. Q \in [C -> C]
      BY <1>6
    <3>2. m \notin D /\ Found(s.sets.father, R, D)
      BY <1>1, <1>3
    <3> HIDE DEF D
    <3>3. QED
      BY <2>1, <3>1, <3>2, MadeFinds
<1> HIDE DEF x, d
<1>8. /\ x.sets = d /\ x.sep_task = Append(s.sep_task, t)
      /\ x.group = [s.group EXCEPT ![t] = m] /\ Labels(x) = C
  BY <1>2, <1>3, <1>4 DEF Labels
<1>9. x.group[t] = m /\ \A u \in Node \ {t} : x.group[u] = s.group[u]
  BY <1>1, <1>8
<1>10. x \in Structures
  <2>1. x.group \in [Node -> Int]
    BY <1>1, <1>3, <1>8
  <2>2. d \in UNION {DisjointSets(1 .. j) : j \in Nat}
    BY <1>3, <1>5
  <2>3. QED
    BY <1>2, <1>4, <1>8, <2>1, <2>2 DEF Structures
<1>11. /\ \A u \in H : x.group[u] \in C
       /\ \A u \in Node \ H : x.group[u] = NoGroup
       /\ \A u \in G : u # t /\ u \in Node /\ s.group[u] \in D /\ x.group[u] = s.group[u]
  BY <1>1, <1>9 DEF Parted, C
<1>12. /\ \A i \in C : x.sep_task[i] \in H \cap roots /\ x.group[x.sep_task[i]] = i
       /\ \A u \in H \cap roots : x.sep_task[x.group[u]] = u
  <2>1. \A i \in D : s.sep_task[i] \in G \cap roots /\ s.group[s.sep_task[i]] = i
    BY DEF Parted
  <2>2. \A u \in G \cap roots : s.sep_task[s.group[u]] = u
    BY DEF Parted
  <2>3. QED
    BY <1>4, <1>8, <1>9, <1>11, <2>1, <2>2 DEF C
<1>13. ASSUME NEW e \in E
       PROVE  e[1] \in H /\ e[2] \in H /\ Q[x.group[e[1]]] = Q[x.group[e[2]]]
  <2>1. e[1] \in G /\ e[2] \in G /\ R[s.group[e[1]]] = R[s.group[e[2]]]
    BY DEF Parted
  <2>2. QED
    BY <1>6, <1>11, <2>1
<1>14. ASSUME NEW S \in SUBSET Node, Uncut(S, E), NEW u \in H, NEW v \in H,
              Q[x.group[u]] = Q[x.group[v]]
       PROVE  u \in S <=> v \in S
  <2>1. \A a, b \in G : R[s.group[a]] = R[s.group[b]] => (a \in S <=> b \in S)
    BY <1>14 DEF Parted
  <2>2. CASE u \in G /\ v \in G
    BY <1>6, <1>11, <1>14, <2>1, <2>2
  <2>3. CASE u = t /\ v = t
    BY <2>3
  <2>4. \A a \in G : Q[x.group[a]] # Q[x.group[t]]
    BY <1>3, <1>6, <1>9, <1>11
  <2>5. QED
    BY <1>14, <2>2, <2>3, <2>4
<1>15. H \subseteq Node
  BY <1>1
<1> HIDE DEF H, D
<1>16. Parted(x, Q, H, E)
  BY <1>5, <1>7, <1>8, <1>10, <1>11, <1>12, <1>13, <1>14, <1>15 DEF Parted
<1>17. QED
  BY <1>16 DEF x, H

Upto(t) == {u \in Node : u <= t}

\* The edges into the tasks 1 .. t, and those into t from the tasks 1 .. p as well.
Drawn(t) == {e \in Node \X Node : e[2] \in Targets(e[1]) /\ e[2] <= t}
DrawnTo(t, p) == Drawn(t - 1) \cup {e \in Node \X {t} : t \in Targets(e[1]) /\ e[1] <= p}

\* The tasks grouped then.
JoinedTo(t, p) ==
  Upto(t - 1) \cup {u \in {t} : \E q \in Node : t \in Targets(q) /\ q <= p}

\* One edge into t is drawn.
LEMMA JoinsOne ==
  ASSUME BuildInv, NEW t \in Nat \ {0}, t \notin roots, NEW p \in Nat,
         NEW x, NEW R, Parted(x, R, JoinedTo(t, p), DrawnTo(t, p))
  PROVE  \E Q : Parted(IF p + 1 \in Preds(Graph, t) THEN JoinGroup(x, p + 1, t) ELSE x,
                       Q, JoinedTo(t, p + 1), DrawnTo(t, p + 1))
<1>1. /\ n \in Nat
      /\ \A q \in Node : q \in Nat /\ \A u \in Targets(q) : u \in Node /\ q < u
  BY NodesAreTasks DEF BuildInv, Edges, Node
<1>2. p + 1 \in Preds(Graph, t) <=> p + 1 \in Node /\ t \in Targets(p + 1)
  <2>1. Graph.node = Node /\ \A q \in Node : Out(Graph, q) = Targets(q)
    BY DEF Graph, Out, Vertical, Targets
  <2>2. QED
    BY <2>1 DEF Preds
<1>3. \A q \in Node : q <= p + 1 <=> q <= p \/ q = p + 1
  BY <1>1
<1>4. CASE p + 1 \in Node /\ t \in Targets(p + 1)
  <2>1. t \in Node /\ p + 1 < t /\ p + 1 <= t - 1
    BY <1>1, <1>4
  <2>2. p + 1 \in JoinedTo(t, p)
    BY <1>4, <2>1 DEF JoinedTo, Upto
  <2>3. JoinedTo(t, p + 1) = JoinedTo(t, p) \cup {t}
    BY <1>3, <1>4 DEF JoinedTo
  <2>4. DrawnTo(t, p + 1) = DrawnTo(t, p) \cup {<<p + 1, t>>}
    <3>1. {e \in Node \X {t} : t \in Targets(e[1]) /\ e[1] <= p + 1} =
            {e \in Node \X {t} : t \in Targets(e[1]) /\ e[1] <= p} \cup {<<p + 1, t>>}
      BY <1>3, <1>4
    <3>2. QED
      BY <3>1 DEF DrawnTo
  <2>5. \E Q : Parted(JoinGroup(x, p + 1, t), Q, JoinedTo(t, p + 1), DrawnTo(t, p + 1))
    <3>1. CASE t \in JoinedTo(t, p)
      <4>1. JoinedTo(t, p + 1) = JoinedTo(t, p)
        BY <2>3, <3>1
      <4>2. QED
        BY <2>2, <2>4, <3>1, <4>1, JoinsAgain
    <3>2. CASE t \notin JoinedTo(t, p)
      <4>1. Parted(JoinGroup(x, p + 1, t), R, JoinedTo(t, p) \cup {t}, DrawnTo(t, p) \cup {<<p + 1, t>>})
        BY <2>1, <2>2, <3>2, JoinsFirst
      <4>2. QED
        BY <2>3, <2>4, <4>1
    <3>3. QED
      BY <3>1, <3>2
  <2>6. QED
    BY <1>2, <1>4, <2>5
<1>5. CASE ~(p + 1 \in Node /\ t \in Targets(p + 1))
  <2>1. JoinedTo(t, p + 1) = JoinedTo(t, p)
    BY <1>3, <1>5 DEF JoinedTo
  <2>2. DrawnTo(t, p + 1) = DrawnTo(t, p)
    <3>1. {e \in Node \X {t} : t \in Targets(e[1]) /\ e[1] <= p + 1} =
            {e \in Node \X {t} : t \in Targets(e[1]) /\ e[1] <= p}
      BY <1>3, <1>5
    <3>2. QED
      BY <3>1 DEF DrawnTo
  <2>3. QED
    BY <1>2, <1>5, <2>1, <2>2
<1>6. QED
  BY <1>4, <1>5

\* All edges into t are drawn.
LEMMA JoinsParts ==
  ASSUME BuildInv, NEW t \in Nat \ {0}, t \notin roots,
         NEW s, NEW R, Parted(s, R, Upto(t - 1), Drawn(t - 1))
  PROVE  \A p \in Nat : \E Q : Parted(Joins(s, t)[p], Q, JoinedTo(t, p), DrawnTo(t, p))
<1> DEFINE next(p, x) == IF p \in Preds(Graph, t) THEN JoinGroup(x, p, t) ELSE x
           Right(p, x) == \E Q : Parted(x, Q, JoinedTo(t, p), DrawnTo(t, p))
           Good == [p \in Nat |-> {x \in Structures : Right(p, x)}]
           Step == [p \in Nat |-> [x \in Structures |-> next(p, x)]]
           After(f) == [p \in Nat |-> IF p = 0 THEN s
                                      ELSE IF p \in Preds(Graph, t) THEN JoinGroup(f[p - 1], p, t)
                                      ELSE f[p - 1]]
<1>1. \A p \in Nat : \A x : Right(p, x) => x \in Structures
  BY DEF Parted
<1>2. Right(0, s)
  <2>1. \A q \in Node : ~(q <= 0)
    BY NodesAreTasks DEF BuildInv
  <2>2. JoinedTo(t, 0) = Upto(t - 1)
    BY <2>1 DEF JoinedTo
  <2>3. DrawnTo(t, 0) = Drawn(t - 1)
    BY <2>1 DEF DrawnTo
  <2>4. QED
    BY <2>2, <2>3
<1>3. ASSUME NEW p \in Nat, NEW x, Right(p, x) PROVE Right(p + 1, next(p + 1, x))
  BY <1>3, JoinsOne
<1> HIDE DEF Right, next
<1>4. \E f : f = [p \in Nat |-> IF p = 0 THEN s ELSE Step[p][f[p - 1]]]
  <2>1. s \in Good[0]
    BY <1>1, <1>2
  <2>2. \A p \in Nat : \A x \in Good[p] : Step[p + 1][x] \in Good[p + 1]
    BY <1>1, <1>3
  <2> HIDE DEF Good, Step
  <2>3. QED
    BY <2>1, <2>2, GuidedIteration
<1>5. PICK f : f = [p \in Nat |-> IF p = 0 THEN s ELSE Step[p][f[p - 1]]]
  BY <1>4
<1> DEFINE T == {p \in Nat : Right(p, f[p])}
<1>6. \A p \in Nat : p \in T
  <2>1. 0 \in T
    BY <1>2, <1>5
  <2>2. ASSUME NEW p \in Nat, p \in T PROVE p + 1 \in T
    <3>1. p + 1 \in Nat /\ p + 1 # 0 /\ (p + 1) - 1 = p /\ f[p] \in Structures
      BY <1>1, <2>2
    <3>2. f[p + 1] = next(p + 1, f[p])
      BY <1>5, <3>1
    <3>3. QED
      BY <1>3, <2>2, <3>1, <3>2
  <2> HIDE DEF T
  <2>3. QED
    BY <2>1, <2>2, Induction
<1>7. f = After(f)
  <2>1. ASSUME NEW p \in Nat, p # 0 PROVE Step[p][f[p - 1]] = next(p, f[p - 1])
    <3>1. p - 1 \in Nat
      BY <2>1
    <3>2. f[p - 1] \in Structures
      BY <1>1, <1>6, <3>1
    <3>3. QED
      BY <3>2
  <2>2. QED
    BY <1>5, <2>1 DEF next
<1>8. Joins(s, t) = CHOOSE g : g = After(g)
  BY DEF Joins
<1> DEFINE F == Joins(s, t)
<1>9. F = After(F)
  BY <1>7, <1>8
<1> HIDE DEF F
<1>10. F[0] = s /\ \A p \in Nat : F[p + 1] = next(p + 1, F[p])
  <2>1. \A p \in Nat : F[p] = IF p = 0 THEN s ELSE next(p, F[p - 1])
    BY <1>9 DEF next
  <2>2. \A p \in Nat : p + 1 \in Nat /\ p + 1 # 0 /\ (p + 1) - 1 = p
    OBVIOUS
  <2>3. QED
    BY <2>1, <2>2
<1> DEFINE U == {p \in Nat : Right(p, F[p])}
<1>11. \A p \in Nat : p \in U
  <2>1. 0 \in U /\ \A p \in Nat : p \in U => p + 1 \in U
    BY <1>2, <1>3, <1>10
  <2> HIDE DEF U
  <2>2. QED
    BY <2>1, Induction
<1>12. QED
  BY <1>11 DEF F, Right

\* One more task is registered.
LEMMA RegisterParts ==
  ASSUME BuildInv, pc = "built", n > 1, NEW t \in Nat \ {0},
         NEW s, NEW R, Parted(s, R, Upto(t - 1), Drawn(t - 1))
  PROVE  \E Q : Parted(Register(s, t), Q, Upto(t), Drawn(t))
<1>1. /\ n \in Nat /\ t - 1 \in Nat
      /\ \A q \in Node : q \in Nat /\ q <= n /\ \A u \in Targets(q) : u \in Node /\ q < u
  BY NodesAreTasks DEF BuildInv, Edges, Node
<1>2. \A u \in Node : u <= t <=> u <= t - 1 \/ u = t
  BY <1>1
<1>3. CASE t \in roots
  <2>1. t \in Node /\ \A q \in Node : t \notin Targets(q)
    <3>1. t \in Node
      BY <1>3 DEF BuildInv, RootsAndEnds, Registered
    <3>2. QED
      BY <1>3, <3>1, RootsFollowNone
  <2>2. Upto(t) = Upto(t - 1) \cup {t} /\ t \notin Upto(t - 1)
    <3>1. t <= t /\ ~(t <= t - 1)
      OBVIOUS
    <3>2. QED
      BY <1>2, <2>1, <3>1 DEF Upto
  <2>3. Drawn(t) = Drawn(t - 1)
    BY <1>2, <2>1 DEF Drawn
  <2>4. QED
    BY <1>3, <2>1, <2>2, <2>3, RootParts
<1>4. CASE t \notin roots
  <2>1. PICK Q : Parted(Joins(s, t)[n], Q, JoinedTo(t, n), DrawnTo(t, n))
    BY <1>1, <1>4, JoinsParts
  <2>2. DrawnTo(t, n) = Drawn(t)
    <3>1. ASSUME NEW e PROVE e \in DrawnTo(t, n) <=> e \in Drawn(t)
      <4>1. CASE e \in Node \X Node
        <5>1. e[1] \in Node /\ e[2] \in Node /\ e[1] <= n /\ (e[2] <= t <=> e[2] <= t - 1 \/ e[2] = t)
          BY <1>1, <1>2, <4>1
        <5>2. e \in Node \X {t} <=> e[2] = t
          BY <4>1
        <5>3. QED
          BY <4>1, <5>1, <5>2 DEF DrawnTo, Drawn
      <4>2. CASE e \notin Node \X Node
        <5>1. e \notin Drawn(t) /\ e \notin Drawn(t - 1)
          BY <4>2 DEF Drawn
        <5>2. ASSUME e \in Node \X {t}, t \in Targets(e[1]) PROVE FALSE
          <6>1. e[1] \in Node
            BY <5>2
          <6>2. t \in Node
            BY <1>1, <5>2, <6>1
          <6>3. QED
            BY <4>2, <5>2, <6>2
        <5>3. QED
          BY <5>1, <5>2 DEF DrawnTo
      <4>3. QED
        BY <4>1, <4>2
    <3>2. QED
      BY <3>1
  <2>3. JoinedTo(t, n) = Upto(t)
    <3>1. CASE t \in Node
      <4>1. \E q \in Node : t \in Targets(q) /\ q <= n
        BY <1>1, <1>4, <3>1, RootsFollowNone
      <4>2. QED
        BY <1>2, <3>1, <4>1 DEF JoinedTo, Upto
    <3>2. CASE t \notin Node
      <4>1. \A q \in Node : t \notin Targets(q)
        BY <1>1, <3>2
      <4>2. QED
        BY <1>2, <3>2, <4>1 DEF JoinedTo, Upto
    <3>3. QED
      BY <3>1, <3>2
  <2>4. Register(s, t) = Joins(s, t)[n]
    BY <1>4 DEF Register
  <2>5. QED
    BY <2>1, <2>2, <2>3, <2>4
<1>5. QED
  BY <1>3, <1>4

\* At first nothing is grouped.
LEMMA UngroupedParts ==
  ASSUME BuildInv
  PROVE  Parted(Ungrouped, <<>>, Upto(0), Drawn(0))
<1> DEFINE s == Ungrouped
<1>1. \A q \in Node : ~(q <= 0)
  BY NodesAreTasks DEF BuildInv
<1>2. Upto(0) = {} /\ Drawn(0) = {}
  <2>1. \A e \in Node \X Node : e[2] \in Node
    OBVIOUS
  <2>2. QED
    BY <1>1, <2>1 DEF Upto, Drawn
<1>3. /\ s.sets = [father |-> <<>>, rank |-> <<>>] /\ s.group = [u \in Node |-> NoGroup]
      /\ s.sep_task = <<>>
      /\ s = [sets |-> s.sets, group |-> s.group, sep_task |-> s.sep_task]
  BY DEF Ungrouped
<1>4. Labels(s) = {} /\ <<>> \in [{} -> {}] /\ <<>> \in [{} -> Nat]
  <2>1. Len(<<>>) = 0 /\ 1 .. 0 = {}
    OBVIOUS
  <2>2. <<>> \in Seq({}) /\ <<>> \in Seq(Nat)
    OBVIOUS
  <2>3. <<>> \in [1 .. Len(<<>>) -> {}] /\ <<>> \in [1 .. Len(<<>>) -> Nat]
    BY <2>2, LenProperties
  <2>4. QED
    BY <1>3, <2>1, <2>3 DEF Labels
<1>5. s.sets \in DisjointSets({})
  BY <1>3, <1>4 DEF DisjointSets
<1>6. Found(s.sets.father, <<>>, {})
  BY <1>3, <1>4 DEF Found
<1>7. s \in Structures
  <2>1. 1 .. 0 = {} /\ 0 \in Nat
    OBVIOUS
  <2>2. s.sets \in UNION {DisjointSets(1 .. m) : m \in Nat}
    BY <1>5, <2>1
  <2>3. s.group \in [Node -> Int]
    BY <1>3 DEF NoGroup
  <2>4. s.sep_task \in Seq(Node)
    BY <1>3
  <2>5. QED
    BY <1>3, <2>2, <2>3, <2>4 DEF Structures
<1>8. \A u \in Node : s.group[u] = NoGroup
  BY <1>3
<1> HIDE DEF s
<1>9. QED
  BY <1>2, <1>4, <1>5, <1>6, <1>7, <1>8 DEF Parted, s

\* The parts when all tasks are registered.
LEMMA SeparatedParts ==
  ASSUME BuildInv, pc = "built", n > 1
  PROVE  \E R : Parted(Separated, R, Node \ {n}, Drawn(n - 1))
<1> DEFINE Right(t, x) == \E Q : Parted(x, Q, Upto(t), Drawn(t))
           Good == [t \in Nat |-> {x \in Structures : Right(t, x)}]
           Step == [t \in Nat |-> [x \in Structures |-> Register(x, t)]]
           After(f) == [t \in Nat |-> IF t = 0 THEN Ungrouped ELSE Register(f[t - 1], t)]
<1>1. \A t \in Nat : \A x : Right(t, x) => x \in Structures
  BY DEF Parted
<1>2. Right(0, Ungrouped)
  BY UngroupedParts
<1>3. ASSUME NEW t \in Nat, NEW x, Right(t, x) PROVE Right(t + 1, Register(x, t + 1))
  <2>1. t + 1 \in Nat \ {0} /\ (t + 1) - 1 = t
    OBVIOUS
  <2>2. QED
    BY <1>3, <2>1, RegisterParts
<1> HIDE DEF Right
<1>4. \E f : f = [t \in Nat |-> IF t = 0 THEN Ungrouped ELSE Step[t][f[t - 1]]]
  <2>1. Ungrouped \in Good[0]
    BY <1>1, <1>2
  <2>2. \A t \in Nat : \A x \in Good[t] : Step[t + 1][x] \in Good[t + 1]
    BY <1>1, <1>3
  <2> HIDE DEF Good, Step
  <2>3. QED
    BY <2>1, <2>2, GuidedIteration
<1>5. PICK f : f = [t \in Nat |-> IF t = 0 THEN Ungrouped ELSE Step[t][f[t - 1]]]
  BY <1>4
<1> DEFINE T == {t \in Nat : Right(t, f[t])}
<1>6. \A t \in Nat : t \in T
  <2>1. 0 \in T
    BY <1>2, <1>5
  <2>2. ASSUME NEW t \in Nat, t \in T PROVE t + 1 \in T
    <3>1. t + 1 \in Nat /\ t + 1 # 0 /\ (t + 1) - 1 = t /\ f[t] \in Structures
      BY <1>1, <2>2
    <3>2. f[t + 1] = Register(f[t], t + 1)
      BY <1>5, <3>1
    <3>3. QED
      BY <1>3, <2>2, <3>1, <3>2
  <2> HIDE DEF T
  <2>3. QED
    BY <2>1, <2>2, Induction
<1>7. f = After(f)
  <2>1. ASSUME NEW t \in Nat, t # 0 PROVE Step[t][f[t - 1]] = Register(f[t - 1], t)
    <3>1. t - 1 \in Nat
      BY <2>1
    <3>2. f[t - 1] \in Structures
      BY <1>1, <1>6, <3>1
    <3>3. QED
      BY <3>2
  <2>2. QED
    BY <1>5, <2>1
<1>8. Registering = CHOOSE g : g = After(g)
  BY DEF Registering
<1> DEFINE F == Registering
<1>9. F = After(F)
  BY <1>7, <1>8
<1> HIDE DEF F
<1>10. F[0] = Ungrouped /\ \A t \in Nat : F[t + 1] = Register(F[t], t + 1)
  <2>1. \A t \in Nat : F[t] = IF t = 0 THEN Ungrouped ELSE Register(F[t - 1], t)
    BY <1>9
  <2>2. \A t \in Nat : t + 1 \in Nat /\ t + 1 # 0 /\ (t + 1) - 1 = t
    OBVIOUS
  <2>3. QED
    BY <2>1, <2>2
<1> DEFINE U == {t \in Nat : Right(t, F[t])}
<1>11. \A t \in Nat : t \in U
  <2>1. 0 \in U /\ \A t \in Nat : t \in U => t + 1 \in U
    BY <1>2, <1>3, <1>10
  <2> HIDE DEF U
  <2>2. QED
    BY <2>1, Induction
<1>12. n \in Nat /\ n - 1 \in Nat
  BY NodesAreTasks DEF BuildInv
<1>13. Upto(n - 1) = Node \ {n}
  BY <1>12 DEF Upto, Node
<1>14. QED
  BY <1>11, <1>12, <1>13 DEF F, Right, Separated

LEMMA PartsFit ==
  ASSUME BuildInv
  PROVE  PartsAreComponents
<1> DEFINE s == Separated
           W == Node \ {n}
           within(x) == {t \in W : PartOf(s, t) = x}
           joined(S) == \A t, u \in W : u \in Targets(t) => (t \in S <=> u \in S)
           part == SepData(s)
<1> SUFFICES ASSUME pc = "built", n > 1
             PROVE  /\ DOMAIN part = DOMAIN SepEndTasks(s)
                    /\ \A x \in DOMAIN part :
                         /\ joined(within(x))
                         /\ part[x] = roots \cap within(x)
                         /\ \A S \in (SUBSET within(x)) \ {{}, within(x)} : ~joined(S)
  BY DEF PartsAreComponents
<1>1. PICK R : Parted(s, R, W, Drawn(n - 1))
  BY SeparatedParts
<1> HIDE DEF s
<1>2. /\ n \in Nat /\ n \in Node /\ roots \subseteq W
      /\ \A q \in Node : q \in Nat /\ \A u \in Targets(q) : u \in Node /\ q < u
      /\ ends = {t \in Node : n \in Targets(t)}
      /\ \A t \in W : Targets(t) # {}
  BY NodesAreTasks DEF BuildInv, Edges, RootsAndEnds, Registered, Finished
<1> DEFINE D == Labels(s)
           g(t) == s.group[t]
<1>3. /\ s \in Structures /\ s.sep_task \in Seq(Node) /\ DOMAIN s.sep_task = D
      /\ Found(s.sets.father, R, D) /\ R \in [D -> D]
      /\ \A t \in W : g(t) \in D
      /\ \A i \in D : s.sep_task[i] \in W \cap roots /\ g(s.sep_task[i]) = i
      /\ \A t \in W \cap roots : s.sep_task[g(t)] = t
  BY <1>1, LabelsAre, LenProperties DEF Parted, Found, Labels
<1>4. /\ \A i \in D : PartOfRoot(s, i) = R[i]
      /\ \A t \in W : PartOf(s, t) = R[g(t)]
  BY <1>3, FindSetFinds DEF PartOfRoot, PartOf
<1>5. ASSUME NEW t \in W, NEW u \in W, u \in Targets(t) PROVE R[g(t)] = R[g(u)]
  <2>1. <<t, u>> \in Drawn(n - 1)
    BY <1>2, <1>5 DEF Drawn, Node
  <2>2. R[g(<<t, u>>[1])] = R[g(<<t, u>>[2])]
    BY <1>1, <2>1 DEF Parted
  <2>3. QED
    BY <2>2
<1>6. /\ DOMAIN part = {R[i] : i \in D}
      /\ \A x \in DOMAIN part : part[x] = {s.sep_task[i] : i \in {j \in D : R[j] = x}}
  BY <1>3, <1>4 DEF SepData
<1>7. DOMAIN SepEndTasks(s) = {R[g(t)] : t \in ends}
  <2>1. ends \subseteq W
    BY <1>2
  <2>2. QED
    BY <1>4, <2>1 DEF SepEndTasks
<1>8. ASSUME NEW i \in D PROVE \E t \in ends : R[g(t)] = R[i]
  <2> DEFINE V == {t \in W : R[g(t)] = R[i]}
  <2>1. V \in SUBSET (1 .. n) /\ V # {}
    BY <1>3 DEF Node
  <2>2. PICK t \in V : \A u \in V : u <= t
    <3> HIDE DEF V
    <3>1. QED
      BY <1>2, <2>1, Greatest
  <2>3. PICK u : u \in Targets(t)
    BY <1>2, <2>2
  <2>4. u \in Node /\ t < u /\ t \in Nat /\ u \in Nat
    BY <1>2, <2>2, <2>3
  <2>5. u = n
    <3>1. SUFFICES ASSUME u # n PROVE FALSE
      OBVIOUS
    <3>2. u \in V
      BY <1>5, <2>2, <2>3, <2>4, <3>1
    <3>3. QED
      BY <2>2, <2>4, <3>2
  <2>6. QED
    BY <1>2, <2>2, <2>3, <2>5
<1>9. DOMAIN part = DOMAIN SepEndTasks(s)
  <2>1. \A t \in ends : t \in W /\ g(t) \in D
    BY <1>2, <1>3
  <2>2. QED
    BY <1>6, <1>7, <1>8, <2>1
<1>10. ASSUME NEW x \in DOMAIN part PROVE joined(within(x))
  BY <1>4, <1>5
<1>11. ASSUME NEW x \in DOMAIN part PROVE part[x] = roots \cap within(x)
  <2>1. part[x] = {s.sep_task[i] : i \in {j \in D : R[j] = x}}
    BY <1>6
  <2>2. ASSUME NEW t \in part[x] PROVE t \in roots \cap within(x)
    BY <1>3, <1>4, <2>1, <2>2
  <2>3. ASSUME NEW t \in roots \cap within(x) PROVE t \in part[x]
    <3>1. t \in W /\ R[g(t)] = x /\ g(t) \in D /\ s.sep_task[g(t)] = t
      BY <1>3, <1>4, <2>3
    <3>2. QED
      BY <2>1, <3>1
  <2>4. QED
    BY <2>2, <2>3
<1>12. ASSUME NEW x \in DOMAIN part, NEW S \in (SUBSET within(x)) \ {{}, within(x)}, joined(S)
       PROVE  FALSE
  <2>1. S \in SUBSET Node /\ S \subseteq W
    OBVIOUS
  <2>2. Uncut(S, Drawn(n - 1))
    <3>1. ASSUME NEW e \in Drawn(n - 1) PROVE e[1] \in S <=> e[2] \in S
      <4>1. e[1] \in W /\ e[2] \in W /\ e[2] \in Targets(e[1])
        BY <1>1 DEF Parted, Drawn
      <4>2. QED
        BY <1>12, <4>1
    <3>2. QED
      BY <3>1 DEF Uncut
  <2>3. PICK t \in W, u \in W : t \in S /\ u \notin S /\ R[g(t)] = x /\ R[g(u)] = x
    BY <1>4
  <2>4. t \in S <=> u \in S
    BY <1>1, <2>1, <2>2, <2>3 DEF Parted
  <2>5. QED
    BY <2>3, <2>4
<1>13. QED
  BY <1>9, <1>10, <1>11, <1>12

\* A graph built with AUTO_PARTITION falls into the parts that have no edge to each
\* other, each with its roots and with an end task to wait for; none could be split.
THEOREM Partitioning == Spec => []PartsAreComponents
<1>1. BuildInv => PartsAreComponents
  BY PartsFit
<1>2. QED
  BY <1>1, Invariance, PTL
=============================================================================
