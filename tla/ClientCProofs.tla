--------------------------- MODULE ClientCProofs ---------------------------
(***************************************************************************)
(* Proofs about the C interface, for any number of tasks, rounds, threads, *)
(* blocks of memory, nodes and cores; about the memory pool, for requests  *)
(* of any number, size and alignment; and about the C++ interface, for any *)
(* calls.                                                                  *)
(***************************************************************************)
EXTENDS ClientLibrary, FiniteSetTheorems, SequenceTheorems, WellFoundedInduction, TLAPS

\* Division rounds down.
LEMMA Division ==
  ASSUME NEW a \in Int, NEW b \in Nat \ {0}
  PROVE  /\ a \div b \in Int /\ b * (a \div b) <= a /\ a < b * (a \div b) + b
         /\ a % b \in 0 .. b - 1 /\ a = b * (a \div b) + (a % b)
OBVIOUS

\* A quotient is less than the factor that exceeds it.
LEMMA Quotient ==
  ASSUME NEW q \in Nat, NEW b \in Nat \ {0}, NEW n \in Nat, q < n * b
  PROVE  q \div b \in 0 .. n - 1
<1> DEFINE x == q \div b
<1>1. x \in Int /\ b * x <= q /\ q < b * x + b
  BY Division
<1> HIDE DEF x
<1>2. x >= 0
  <2>1. SUFFICES ASSUME x <= -1 PROVE FALSE
    BY <1>1
  <2>2. b * x <= b * (-1)
    BY <1>1, <2>1
  <2>3. QED
    BY <1>1, <2>2
<1>3. x < n
  <2>1. SUFFICES ASSUME n <= x PROVE FALSE
    BY <1>1
  <2>2. n * b <= x * b
    BY <1>1, <2>1
  <2>3. QED
    BY <1>1, <2>2
<1>4. x \in 0 .. n - 1
  BY <1>1, <1>2, <1>3
<1>5. QED
  BY <1>4 DEF x

\* Ceil rounds up.
LEMMA CeilReaches ==
  ASSUME NEW a \in Nat \ {0}, NEW b \in Nat \ {0}
  PROVE  Ceil(a, b) \in Nat \ {0} /\ a <= b * Ceil(a, b)
<1> DEFINE c == (a + b - 1) \div b
<1>0. a + b - 1 \in Int
  OBVIOUS
<1>1. c \in Int /\ b * c <= a + b - 1 /\ a + b - 1 < b * c + b
  BY <1>0, Division
<1>2. Ceil(a, b) = c
  BY DEF Ceil
<1> HIDE DEF c
<1>3. b * c \in Int /\ a <= b * c
  BY <1>1
<1>4. c > 0
  <2>1. SUFFICES ASSUME c <= 0 PROVE FALSE
    BY <1>1
  <2>2. b * c <= 0
    BY <1>1, <2>1
  <2>3. QED
    BY <1>3, <2>2
<1>5. QED
  BY <1>1, <1>2, <1>3, <1>4

\* The number of nodes the threads cover.
LEMMA Nodes ==
  LET nodenum == NumThreads \div CORENUM
      rest == NumThreads % CORENUM
  IN  /\ NumThreads \in Nat \ {0} /\ nodenum \in Nat /\ rest \in 0 .. CORENUM - 1
      /\ NumThreads = CORENUM * nodenum + rest
<1> DEFINE n == NumThreads \div CORENUM
           r == NumThreads % CORENUM
<1> USE ClientAssumption
<1>1. /\ n \in Int /\ CORENUM * n <= NumThreads /\ NumThreads < CORENUM * n + CORENUM
      /\ r \in 0 .. CORENUM - 1 /\ NumThreads = CORENUM * n + r
  BY Division
<1> HIDE DEF n, r
<1>2. n >= 0
  <2>1. SUFFICES ASSUME n <= -1 PROVE FALSE
    BY <1>1
  <2>2. CORENUM * n <= CORENUM * (-1)
    BY <1>1, <2>1
  <2>3. QED
    BY <1>1, <2>2
<1>3. QED
  BY <1>1, <1>2 DEF n, r

\* A tile of an array belongs to a node that the threads cover, and to node 0 if they
\* cover none.
LEMMA NodeOfTile ==
  ASSUME NEW seg \in 0 .. Segs - 1
  PROVE  LET nodenum == NumThreads \div CORENUM
         IN  NodeOf(seg) \in 0 .. (IF nodenum = 0 THEN 0 ELSE nodenum - 1)
<1> DEFINE n == NumThreads \div CORENUM
           c == Ceil(Segs, n)
<1>1. CASE n = 0
  BY <1>1 DEF NodeOf
<1>2. CASE n # 0
  <2>1. n \in Nat \ {0}
    BY <1>2, Nodes
  <2>2. Segs \in Nat \ {0} /\ seg \in Nat
    BY ClientAssumption
  <2>3. c \in Nat \ {0} /\ Segs <= n * c
    BY <2>1, <2>2, CeilReaches
  <2>4. NodeOf(seg) = seg \div c
    BY <1>2 DEF NodeOf
  <2> HIDE DEF n, c
  <2>5. n * c \in Int /\ seg < n * c
    BY <2>1, <2>2, <2>3
  <2>6. seg \div c \in 0 .. n - 1
    BY <2>1, <2>2, <2>3, <2>5, Quotient
  <2>7. QED
    BY <1>2, <2>4, <2>6 DEF n
<1>3. QED
  BY <1>1, <1>2

\* A remainder has the sign of what is divided.
LEMMA Remainder ==
  ASSUME NEW n \in Int, NEW k \in Nat \ {0}
  PROVE  /\ Rem(n, k) \in -(k - 1) .. k - 1
         /\ n \in Nat => Rem(n, k) \in 0 .. k - 1
<1>1. CASE n >= 0
  <2>1. n % k \in 0 .. k - 1
    BY Division
  <2> DEFINE d == n % k
  <2>2. Rem(n, k) = d
    BY <1>1 DEF Rem
  <2> HIDE DEF d
  <2>3. QED
    BY <2>1, <2>2 DEF d
<1>2. CASE n < 0
  <2>1. -n \in Int
    OBVIOUS
  <2> DEFINE d == (-n) % k
  <2>2. d \in 0 .. k - 1
    BY <2>1, Division
  <2>3. Rem(n, k) = -d /\ n \notin Nat
    BY <1>2 DEF Rem
  <2> HIDE DEF d
  <2>4. QED
    BY <2>2, <2>3
<1>3. QED
  BY <1>1, <1>2

\* The tasks of a node are dealt to threads there are: also when the threads do not
\* fill node 0, and when the node is beyond task_count and its counter is any number.
LEMMA AffinityBounded ==
  ASSUME NEW seg \in 0 .. Segs - 1, NEW n \in Int, NodeOf(seg) < NODENUM => n \in Nat
  PROVE  Affinity(NodeOf(seg), n) \in 0 .. NumThreads - 1
<1> DEFINE m == NumThreads \div CORENUM
           r == NumThreads % CORENUM
           k == IF r = 0 THEN CORENUM ELSE r
           node == NodeOf(seg)
           d == Rem(n, k)
<1>1. /\ NumThreads \in Nat \ {0} /\ m \in Nat /\ r \in 0 .. CORENUM - 1
      /\ NumThreads = CORENUM * m + r /\ CORENUM \in Nat \ {0} /\ NODENUM \in Nat \ {0}
  BY Nodes, ClientAssumption
<1>2. node \in 0 .. (IF m = 0 THEN 0 ELSE m - 1)
  BY NodeOfTile
<1>3. Affinity(node, n) = d + CORENUM * node
  BY DEF Affinity
<1> HIDE DEF m, r, d, node
<1>4. k \in Nat \ {0} /\ k <= CORENUM /\ (r # 0 => k = r) /\ (r = 0 => k = CORENUM)
  BY <1>1
<1> HIDE DEF k
<1>5. d \in -(k - 1) .. k - 1 /\ (n \in Nat => d \in 0 .. k - 1)
  BY <1>4, Remainder DEF d
<1>6. CASE m = 0
  <2>1. node = 0 /\ NumThreads = r
    BY <1>1, <1>2, <1>6
  <2>2. n \in Nat /\ k = NumThreads
    BY <1>1, <1>4, <2>1 DEF node
  <2>3. d \in 0 .. NumThreads - 1
    BY <1>5, <2>2
  <2>4. QED
    BY <1>1, <1>3, <2>1, <2>3 DEF node
<1>7. CASE m # 0
  <2>1. node \in Nat /\ m - 1 - node \in Nat
    BY <1>1, <1>2, <1>7
  <2>2. CORENUM * (m - 1 - node) \in Nat /\ CORENUM * node \in Nat
    BY <1>1, <2>1
  <2>3. CORENUM * m = CORENUM * node + CORENUM * (m - 1 - node) + CORENUM
    BY <1>1, <2>1
  <2>4. d + CORENUM * node <= NumThreads - 1
    <3>1. CORENUM * node + CORENUM + r <= NumThreads
      BY <1>1, <2>2, <2>3
    <3>2. QED
      BY <1>1, <1>4, <1>5, <2>2, <3>1
  <2>5. d + CORENUM * node >= 0
    <3>1. CASE n \in Nat
      BY <1>4, <1>5, <2>2, <3>1
    <3>2. CASE n \notin Nat
      <4>1. node >= 1
        BY <1>1, <2>1, <3>2 DEF node
      <4>2. CORENUM * node >= CORENUM
        BY <1>1, <2>1, <4>1
      <4>3. QED
        BY <1>1, <1>4, <1>5, <2>2, <4>2
    <3>3. QED
      BY <3>1, <3>2
  <2>6. d + CORENUM * node \in Int
    BY <1>4, <1>5, <2>2
  <2>7. QED
    BY <1>1, <1>3, <2>4, <2>5, <2>6 DEF node
<1>8. QED
  BY <1>6, <1>7

\* malloc returns a free block.
LEMMA MallocFree == Vacant # {} => Malloc \in Block /\ heap[Malloc] = Free
BY DEF Malloc, Vacant

\* What is in a sequence.
LEMMA SeqFacts ==
  ASSUME NEW S, NEW s \in Seq(S)
  PROVE  /\ ToSet(s) \subseteq S
         /\ \A e \in S : Append(s, e) \in Seq(S) /\ ToSet(Append(s, e)) = ToSet(s) \cup {e}
         /\ \A e \in S : s \o <<e>> \in Seq(S)
         /\ \A e, f \in S : s \o <<e, f>> \in Seq(S)
<1>1. ToSet(s) \subseteq S
  BY DEF ToSet
<1>2. ASSUME NEW e \in S
      PROVE  Append(s, e) \in Seq(S) /\ ToSet(Append(s, e)) = ToSet(s) \cup {e}
  <2>1. /\ Append(s, e) \in Seq(S) /\ DOMAIN s = 1 .. Len(s) /\ Len(s) \in Nat
        /\ DOMAIN Append(s, e) = 1 .. Len(s) + 1
        /\ Append(s, e)[Len(s) + 1] = e
        /\ \A i \in 1 .. Len(s) : Append(s, e)[i] = s[i]
    OBVIOUS
  <2>2. ToSet(Append(s, e)) \subseteq ToSet(s) \cup {e}
    BY <2>1 DEF ToSet
  <2>3. ToSet(s) \subseteq ToSet(Append(s, e))
    BY <2>1 DEF ToSet
  <2>4. e \in ToSet(Append(s, e))
    BY <2>1 DEF ToSet
  <2>5. QED
    BY <2>1, <2>2, <2>3, <2>4
<1>3. \A e, f \in S : s \o <<e>> \in Seq(S) /\ s \o <<e, f>> \in Seq(S)
  OBVIOUS
<1>4. QED
  BY <1>1, <1>2, <1>3

\* The number that Generate gives.
Fresh == Cardinality({u \in Task : task[u] # NoTask}) + 1

\* No task has it, and every other is below it.
LEMMA NextTask ==
  ASSUME ClientInv
  PROVE  /\ Fresh \in Nat
         /\ \A u \in Task : task[u] # NoTask <=> u < Fresh
         /\ \A u \in Task : want[u] # NoTask <=> u < Fresh
<1>1. PICK n \in 0 .. MaxTask : \A u \in Task : /\ task[u] # NoTask <=> u <= n
                                                /\ want[u] # NoTask <=> u <= n
  BY DEF ClientInv, Generated
<1>2. MaxTask \in Nat
  BY ClientAssumption
<1>3. {u \in Task : task[u] # NoTask} = 1 .. n
  BY <1>1, <1>2 DEF Task
<1>4. n \in Nat /\ n <= MaxTask
  BY <1>1, <1>2
<1>5. Cardinality(1 .. n) = n
  BY <1>4, FS_Interval
<1>6. Cardinality({u \in Task : task[u] # NoTask}) = n
  BY <1>3, <1>5
<1>7. \A u \in Task : u \in Nat /\ (u <= n <=> u < n + 1)
  BY <1>4 DEF Task
<1> DEFINE t == Cardinality({u \in Task : task[u] # NoTask}) + 1
<1>8. t = n + 1 /\ t \in Nat
  BY <1>4, <1>6
<1> HIDE DEF t
<1>9. (\A u \in Task : task[u] # NoTask <=> u < t) /\ (\A u \in Task : want[u] # NoTask <=> u < t)
  BY <1>1, <1>7, <1>8
<1>10. QED
  BY <1>8, <1>9 DEF t, Fresh

\* The task being described is the current one of the main thread.
LEMMA CurrentTask ==
  ASSUME ClientInv, pc = "build", graph # {}
  PROVE  cur_task[Main] \in graph /\ Max(graph) = cur_task[Main] /\ cur_task[Main] \in Task
         /\ task[cur_task[Main]] \in CiTask /\ want[cur_task[Main]] \in Wanted
<1>1. cur_task[Main] \in graph /\ \A u \in graph : u <= cur_task[Main]
  BY DEF ClientInv, Described
<1>2. graph \subseteq Nat
  BY DEF ClientInv, TypeOK, Task
<1>3. Max(graph) \in graph /\ \A u \in graph : Max(graph) >= u
  BY <1>1, <1>2 DEF Max
<1>4. Max(graph) = cur_task[Main]
  <2> DEFINE m == Max(graph)
             c == cur_task[Main]
  <2>1. m >= c /\ m <= c /\ m \in Nat /\ c \in Nat
    BY <1>1, <1>2, <1>3
  <2> HIDE DEF m, c
  <2>2. m = c
    BY <2>1
  <2>3. QED
    BY <2>2 DEF m, c
<1>5. cur_task[Main] \in Task /\ task[cur_task[Main]] # NoTask
  BY <1>1 DEF ClientInv, TypeOK, RoundGraph
<1>6. want[cur_task[Main]] # NoTask
  BY <1>5 DEF ClientInv, Generated
<1>7. QED
  BY <1>1, <1>4, <1>5, <1>6 DEF ClientInv, TypeOK

LEMMA InitInv == Init => ClientInv
<1> SUFFICES ASSUME Init PROVE ClientInv
  OBVIOUS
<1> USE ClientAssumption DEF Init
<1>1. ToSet(<<>>) = {}
  BY DEF ToSet
<1>2. TypeOK
  <2>1. vec \in Seq(Item) /\ pushed \in Seq(Item) /\ objs \in Seq(Block) /\ round \in Nat
    OBVIOUS
  <2>2. heap \in [Block -> Contents] /\ doubled \in BOOLEAN
    BY DEF Contents
  <2>3. /\ task \in [Task -> CiTask \cup {NoTask}] /\ want \in [Task -> Wanted \cup {NoTask}]
        /\ cur_task \in [Thread -> Task \cup {NoTask}] /\ count \in [0 .. NODENUM - 1 -> Nat]
        /\ step \in [Thread -> {"none", "body", "func", "release", "delete"}]
        /\ running \in [Thread -> Task \cup {NoTask}]
    OBVIOUS
  <2>4. QED
    BY <2>1, <2>2, <2>3 DEF TypeOK
<1>3. Generated
  <2>1. 0 \in 0 .. MaxTask
    OBVIOUS
  <2>2. \A t \in Task : task[t] = NoTask /\ want[t] = NoTask /\ ~(t <= 0)
    BY DEF Task
  <2>3. QED
    BY <2>1, <2>2 DEF Generated
<1>4. Described /\ RoundGraph
  BY DEF Described, RoundGraph
<1>5. Working
  BY DEF Working, Busy
<1>6. Owned
  <2>1. \A t \in Task : ~Live(t)
    BY NoTaskAssumption DEF Live
  <2>2. \A b \in Block : heap[b] = Free
    OBVIOUS
  <2>3. objs = <<>> /\ graph = {} /\ doubled = FALSE
    OBVIOUS
  <2> HIDE DEF Init
  <2>4. QED
    BY <1>1, <2>1, <2>2, <2>3 DEF Owned
<1>7. OwnAccesses
  BY DEF OwnAccesses
<1>8. QED
  BY <1>2, <1>3, <1>4, <1>5, <1>6, <1>7 DEF ClientInv

\* What the program declares is an address with its type and area.
LEMMA PushType ==
  ASSUME ClientInv, NEW a \in Accesses, Push(a[1], a[2], a[3])
  PROVE  vec' \in Seq(Item) /\ pushed' \in Seq(Item)
<1>1. a[1] \in Nat \ {0} /\ a[2] \in AccessType /\ a[3] \in Area
  BY ClientAssumption
<1> DEFINE item(kind) == [addr |-> a[1], type |-> a[2], area |-> kind]
           new == IF a[3] = "SHADE_AND_UNSHADE" THEN <<item("SHADE"), item("UNSHADE")>>
                  ELSE <<item(a[3])>>
<1>2. \A k \in Area : item(k) \in Item
  BY <1>1 DEF Item, NULL
<1>3. vec' = vec \o new /\ pushed' = pushed \o new
  BY DEF Push
<1>4. "SHADE" \in Area /\ "UNSHADE" \in Area
  BY DEF Area
<1> HIDE DEF item
<1>5. new \in Seq(Item)
  <2>1. item("SHADE") \in Item /\ item("UNSHADE") \in Item /\ item(a[3]) \in Item
    BY <1>1, <1>2, <1>4
  <2>2. QED
    BY <2>1
<1> HIDE DEF new
<1>6. QED
  BY <1>3, <1>5 DEF ClientInv, TypeOK

\* What Generate makes: an object c, of which the program wants w.
Made(c, w, obj) ==
  /\ task' = [task EXCEPT ![Fresh] = c] /\ want' = [want EXCEPT ![Fresh] = w]
  /\ c.acc = w.acc /\ c.nbs = w.nbs /\ c.type = w.type /\ ~c.reused
  /\ w.arg.obj = obj
  /\ obj # NULL => w.obj = heap[obj]
  /\ IF c.ci_args = NULL THEN heap' = heap
     ELSE /\ c.ci_args \in Block /\ heap[c.ci_args] = Free
          /\ heap' = [heap EXCEPT ![c.ci_args] = w.arg]
  /\ graph' = graph \cup {Fresh} /\ cur_task' = [cur_task EXCEPT ![Main] = Fresh]
  /\ vec' = <<>> /\ pushed' = <<>>
  /\ UNCHANGED <<pc, round, objs, doubled, stored, step, running, todo, open, count>>

LEMMA GenerateType ==
  ASSUME ClientInv, NEW k \in Kinds, NEW obj \in ToSet(objs) \cup {NULL},
         Generate(k[1], obj, k[2], k[3])
  PROVE  /\ Fresh \in Task /\ task[Fresh] = NoTask /\ want[Fresh] = NoTask
         /\ \E c \in CiTask, w \in Wanted : Made(c, w, obj)
<1> DEFINE v == k[1]
           size == k[2]
           near == k[3]
           arg == [kind |-> "arg", val |-> v, obj |-> obj]
           item == [addr |-> NULL, type |-> "INOUT_NONE", area |-> "NORMAL"]
           decl == IF near THEN Append(vec, item) ELSE vec
           nbs == IF near THEN Near[v] ELSE {}
           c == [ci_args |-> IF size > 0 THEN Malloc ELSE NULL,
                 acc |-> {x \in ToSet(decl) : x.addr # NULL}, nbs |-> nbs,
                 type |-> "NOT_SET", aff |-> Cardinality(graph) % NumThreads, reused |-> FALSE]
           w == [arg |-> arg, acc |-> ToSet(pushed), nbs |-> nbs, type |-> "NOT_SET", seg |-> -1,
                 obj |-> IF obj = NULL THEN Free ELSE heap[obj]]
<1>1. /\ Fresh \in Task /\ (size > 0 => Vacant # {}) /\ (obj # NULL => size > 0)
      /\ heap' = IF size > 0 THEN [heap EXCEPT ![Malloc] = arg] ELSE heap
      /\ task' = [task EXCEPT ![Fresh] = c] /\ want' = [want EXCEPT ![Fresh] = w]
  BY DEF Generate, Fresh
<1>2. v \in Nat /\ size \in Nat /\ near \in BOOLEAN /\ Near[v] \subseteq Nat /\ NULL \notin Block
  BY ClientAssumption DEF NULL
<1>3. task[Fresh] = NoTask /\ want[Fresh] = NoTask
  <2>1. ~(Fresh < Fresh)
    BY NextTask
  <2>2. QED
    BY <1>1, <2>1, NextTask
<1>4. ToSet(objs) \subseteq Block /\ heap \in [Block -> Contents]
  BY SeqFacts DEF ClientInv, TypeOK
<1>5. arg \in Args
  BY <1>2, <1>4 DEF Args
<1>6. size > 0 => Malloc \in Block /\ heap[Malloc] = Free
  BY <1>1, MallocFree
<1>7. /\ vec = pushed /\ pushed \in Seq(Item) /\ ToSet(pushed) \subseteq Item
  BY SeqFacts DEF ClientInv, Described, TypeOK
<1>8. {x \in ToSet(decl) : x.addr # NULL} = ToSet(pushed)
  <2>1. ToSet(decl) \subseteq ToSet(pushed) \cup {item} /\ ToSet(pushed) \subseteq ToSet(decl)
    <3> DEFINE AnyItem == [addr : Nat, type : AccessType, area : Area]
    <3>1. Item \subseteq AnyItem
      BY DEF Item
    <3>2. item \in AnyItem
      BY DEF NULL, AccessType, Area
    <3> HIDE DEF item, AnyItem
    <3>3. pushed \in Seq(AnyItem)
      BY <1>7, <3>1, SeqMonotonic
    <3>4. ToSet(Append(vec, item)) = ToSet(pushed) \cup {item}
      BY <1>7, <3>2, <3>3, SeqFacts
    <3>5. QED
      BY <1>7, <3>4
  <2>2. \A x \in Item : x.addr # NULL
    BY DEF Item
  <2>3. item.addr = NULL
    OBVIOUS
  <2> HIDE DEF decl, item
  <2>4. QED
    BY <1>7, <2>1, <2>2, <2>3
<1>9. Cardinality(graph) % NumThreads \in 0 .. NumThreads - 1
  <2>1. graph \subseteq 1 .. MaxTask /\ MaxTask \in Nat
    BY ClientAssumption DEF ClientInv, TypeOK, Task
  <2>2. IsFiniteSet(1 .. MaxTask)
    BY <2>1, FS_Interval
  <2>3. Cardinality(graph) \in Nat
    BY <2>1, <2>2, FS_Subset, FS_CardinalityType
  <2>4. NumThreads \in Nat \ {0}
    BY Nodes
  <2> DEFINE n == Cardinality(graph)
  <2> HIDE DEF n
  <2>5. n \in Int
    BY <2>3 DEF n
  <2>6. n % NumThreads \in 0 .. NumThreads - 1
    BY <2>4, <2>5, Division
  <2>7. QED
    BY <2>6 DEF n
<1> HIDE DEF v, size, near, arg, decl
<1>10. c \in CiTask
  <2>1. nbs \in SUBSET Nat
    BY <1>2
  <2>2. ToSet(pushed) \in SUBSET Item
    BY <1>7
  <2>3. (IF size > 0 THEN Malloc ELSE NULL) \in Block \cup {NULL}
    BY <1>6
  <2>4. \A a \in Block \cup {NULL}, A \in SUBSET Item, N \in SUBSET Nat, f \in 0 .. NumThreads - 1 :
          [ci_args |-> a, acc |-> A, nbs |-> N, type |-> "NOT_SET", aff |-> f, reused |-> FALSE]
            \in CiTask
    BY DEF CiTask, TaskType
  <2> HIDE DEF nbs
  <2>5. QED
    BY <1>8, <1>9, <2>1, <2>2, <2>3, <2>4
<1>11. w \in Wanted
  <2>1. nbs \in SUBSET Nat
    BY <1>2
  <2>2. ToSet(pushed) \in SUBSET Item
    BY <1>7
  <2>3. (IF obj = NULL THEN Free ELSE heap[obj]) \in Contents
    BY <1>4 DEF Contents
  <2>4. -1 \in -1 .. Segs - 1
    BY ClientAssumption
  <2>5. \A g \in Args, A \in SUBSET Item, N \in SUBSET Nat, x \in -1 .. Segs - 1, o \in Contents :
          [arg |-> g, acc |-> A, nbs |-> N, type |-> "NOT_SET", seg |-> x, obj |-> o] \in Wanted
    BY DEF Wanted, TaskType
  <2> HIDE DEF nbs
  <2>6. QED
    BY <1>5, <2>1, <2>2, <2>3, <2>4, <2>5
<1>12. /\ c.acc = w.acc /\ c.nbs = w.nbs /\ c.type = w.type /\ ~c.reused
       /\ w.arg = arg /\ c.ci_args = (IF size > 0 THEN Malloc ELSE NULL)
       /\ obj # NULL => w.obj = heap[obj]
  BY <1>8
<1>13. arg.obj = obj
  BY DEF arg
<1> HIDE DEF c, w, nbs
<1>14. IF c.ci_args = NULL THEN heap' = heap
       ELSE /\ c.ci_args \in Block /\ heap[c.ci_args] = Free
            /\ heap' = [heap EXCEPT ![c.ci_args] = w.arg]
  BY <1>1, <1>2, <1>6, <1>12
<1>15. /\ graph' = graph \cup {Fresh} /\ cur_task' = [cur_task EXCEPT ![Main] = Fresh]
       /\ vec' = <<>> /\ pushed' = <<>>
       /\ UNCHANGED <<pc, round, objs, doubled, stored, step, running, todo, open, count>>
  BY DEF Generate, Fresh, Cleared, threads
<1>16. Made(c, w, obj)
  BY <1>1, <1>12, <1>13, <1>14, <1>15 DEF Made
<1>17. QED
  BY <1>1, <1>3, <1>10, <1>11, <1>16

\* The affinity computed from a tile's place is a thread there is, and the counters
\* stay counters.
LEMMA TileType ==
  ASSUME ClientInv, NEW seg \in 0 .. Segs - 1, AffinityFromArraytile(seg)
  PROVE  /\ \E f \in 0 .. NumThreads - 1 : task' = [task EXCEPT ![cur_task[Main]].aff = f]
         /\ count' \in [0 .. NODENUM - 1 -> Nat]
<1> DEFINE node == NodeOf(seg)
<1>1. PICK n \in IF node < NODENUM THEN {count[node]} ELSE Beyond :
           task' = [task EXCEPT ![cur_task[Main]].aff = Affinity(node, n)]
  BY DEF AffinityFromArraytile
<1>2. count' = [k \in 0 .. NODENUM - 1 |-> IF k = node THEN count[k] + 1 ELSE count[k]]
  BY DEF AffinityFromArraytile
<1>3. count \in [0 .. NODENUM - 1 -> Nat]
  BY DEF ClientInv, TypeOK
<1>4. node \in Nat
  BY NodeOfTile, Nodes
<1>5. n \in Int /\ (node < NODENUM => n \in Nat)
  <2> HIDE DEF node
  <2>1. CASE node < NODENUM
    <3>1. node \in 0 .. NODENUM - 1
      BY <1>4, <2>1, ClientAssumption
    <3>2. QED
      BY <1>1, <1>3, <2>1, <3>1
  <2>2. CASE ~(node < NODENUM)
    BY <1>1, <2>2, ClientAssumption
  <2>3. QED
    BY <2>1, <2>2
<1>6. Affinity(node, n) \in 0 .. NumThreads - 1
  BY <1>5, AffinityBounded
<1> HIDE DEF node
<1>7. count' \in [0 .. NODENUM - 1 -> Nat]
  BY <1>2, <1>3
<1>8. QED
  BY <1>1, <1>6, <1>7

LEMMA TypeStep == ClientInv /\ [Next]_vars => TypeOK'
<1> SUFFICES ASSUME ClientInv, [Next]_vars PROVE TypeOK'
  OBVIOUS
<1>0. TypeOK
  BY DEF ClientInv
<1> USE <1>0 DEF TypeOK, program, memory, tasks, threads
<1>1. ASSUME NEW a \in Accesses, Push(a[1], a[2], a[3]) PROVE TypeOK'
  <2>1. vec' \in Seq(Item) /\ pushed' \in Seq(Item)
    BY <1>1, PushType
  <2>2. QED
    BY <1>1, <2>1 DEF Push
<1>2. ASSUME MallocObj PROVE TypeOK'
  <2>1. Malloc \in Block
    BY <1>2, MallocFree DEF MallocObj
  <2>2. objs' \in Seq(Block)
    BY <1>2, <2>1, SeqFacts DEF MallocObj
  <2>3. heap' \in [Block -> Contents]
    BY <1>2, <2>1 DEF MallocObj, Contents
  <2>4. QED
    BY <1>2, <2>2, <2>3 DEF MallocObj
<1>3. ASSUME NEW k \in Kinds, NEW obj \in ToSet(objs) \cup {NULL}, Generate(k[1], obj, k[2], k[3])
      PROVE  TypeOK'
  <2>1. PICK c \in CiTask, w \in Wanted : Made(c, w, obj)
    BY <1>3, GenerateType
  <2>2. Fresh \in Task
    BY <1>3, GenerateType
  <2>3. w.arg \in Contents
    BY DEF Wanted, Contents
  <2>4. heap' \in [Block -> Contents]
    BY <2>1, <2>3 DEF Made
  <2>5. task' \in [Task -> CiTask \cup {NoTask}] /\ want' \in [Task -> Wanted \cup {NoTask}]
    BY <2>1 DEF Made
  <2>6. vec' \in Seq(Item) /\ pushed' \in Seq(Item)
    BY <2>1 DEF Made
  <2>7. graph' \subseteq Task /\ cur_task' \in [Thread -> Task \cup {NoTask}]
    BY <2>1, <2>2 DEF Made
  <2>8. UNCHANGED <<pc, round, objs, doubled, stored, step, running, todo, open, count>>
    BY <2>1 DEF Made
  <2>9. QED
    BY <2>4, <2>5, <2>6, <2>7, <2>8
<1>4. ASSUME SetType("STENCIL_TASK") PROVE TypeOK'
  <2> DEFINE m == cur_task[Main]
  <2>1. m \in Task /\ Max(graph) = m /\ task[m] \in CiTask /\ want[m] \in Wanted
    BY <1>4, CurrentTask DEF SetType
  <2>2. task' = [task EXCEPT ![m].type = "STENCIL_TASK"]
        /\ want' = [want EXCEPT ![m].type = "STENCIL_TASK"]
    BY <1>4, <2>1 DEF SetType
  <2> HIDE DEF m
  <2>3. [task[m] EXCEPT !.type = "STENCIL_TASK"] \in CiTask
    BY <2>1 DEF CiTask, TaskType
  <2>4. [want[m] EXCEPT !.type = "STENCIL_TASK"] \in Wanted
    BY <2>1 DEF Wanted, TaskType
  <2>5. task' \in [Task -> CiTask \cup {NoTask}] /\ want' \in [Task -> Wanted \cup {NoTask}]
    BY <2>2, <2>3, <2>4
  <2>6. QED
    BY <1>4, <2>5 DEF SetType
<1>5. ASSUME NEW seg \in 0 .. Segs - 1, AffinityFromArraytile(seg) PROVE TypeOK'
  <2> DEFINE m == cur_task[Main]
  <2>1. m \in Task /\ task[m] \in CiTask /\ want[m] \in Wanted
    BY <1>5, CurrentTask DEF AffinityFromArraytile
  <2>2. count' \in [0 .. NODENUM - 1 -> Nat]
    BY <1>5, TileType
  <2>3. PICK f \in 0 .. NumThreads - 1 : task' = [task EXCEPT ![m].aff = f]
    BY <1>5, TileType
  <2>4. want' = [want EXCEPT ![m].seg = seg]
    BY <1>5 DEF AffinityFromArraytile
  <2> HIDE DEF m
  <2>5. [task[m] EXCEPT !.aff = f] \in CiTask
    BY <2>1 DEF CiTask
  <2>6. seg \in -1 .. Segs - 1
    BY ClientAssumption
  <2>7. [want[m] EXCEPT !.seg = seg] \in Wanted
    BY <2>1, <2>6 DEF Wanted
  <2>8. task' \in [Task -> CiTask \cup {NoTask}] /\ want' \in [Task -> Wanted \cup {NoTask}]
    BY <2>3, <2>4, <2>5, <2>7
  <2>9. QED
    BY <1>5, <2>2, <2>8 DEF AffinityFromArraytile
<1>6. ASSUME BeginSplit PROVE TypeOK'
  BY <1>6 DEF BeginSplit
<1>7. ASSUME EndSplit PROVE TypeOK'
  BY <1>7 DEF EndSplit
<1>8. ASSUME NEW store \in BOOLEAN, Spawn(store) PROVE TypeOK'
  <2>1. \A t \in graph : [task[t] EXCEPT !.reused = store] \in CiTask
    <3>1. \A t \in graph : task[t] \in CiTask
      BY DEF ClientInv, RoundGraph
    <3>2. \A c \in CiTask : [c EXCEPT !.reused = store] \in CiTask
      BY DEF CiTask
    <3>3. QED
      BY <3>1, <3>2
  <2>2. task' \in [Task -> CiTask \cup {NoTask}]
    <3>1. task' = [t \in Task |-> IF t \in graph THEN [task[t] EXCEPT !.reused = store] ELSE task[t]]
      BY <1>8 DEF Spawn
    <3>2. QED
      BY <2>1, <3>1
  <2>3. QED
    BY <1>8, <2>2 DEF Spawn
<1>9. ASSUME NEW th \in Thread, NEW t \in todo, Begin(th, t) PROVE TypeOK'
  BY <1>9 DEF Begin
<1>10. ASSUME NEW th \in Thread, SetCurrent(th) PROVE TypeOK'
  BY <1>10 DEF SetCurrent, Current
<1>11. ASSUME NEW th \in Thread, Body(th) PROVE TypeOK'
  BY <1>11 DEF Body
<1>12. ASSUME NEW th \in Thread, Release(th) PROVE TypeOK'
  BY <1>12 DEF Release
<1>13. ASSUME NEW bs, FreeAll(bs)
       PROVE  heap' \in [Block -> Contents] /\ doubled' \in BOOLEAN
  <2>1. heap' \in [Block -> Contents]
    BY <1>13 DEF FreeAll, Contents
  <2>2. doubled' \in BOOLEAN
    BY <1>13, Zenon DEF FreeAll
  <2>3. QED
    BY <2>1, <2>2
<1>14. ASSUME NEW th \in Thread, Delete(th) PROVE TypeOK'
  BY <1>13, <1>14 DEF Delete
<1>15. ASSUME Waited PROVE TypeOK'
  <2>1. objs' \in Seq(Block)
    BY <1>15 DEF Waited, ObjsCleared
  <2>2. QED
    BY <1>13, <1>15, <2>1 DEF Waited
<1>16. ASSUME Shutdown PROVE TypeOK'
  BY <1>13, <1>16 DEF Shutdown
<1>17. ASSUME UNCHANGED vars PROVE TypeOK'
  BY <1>17 DEF vars
<1>18. QED
  BY <1>1, <1>2, <1>3, <1>4, <1>5, <1>6, <1>7, <1>8, <1>9, <1>10, <1>11, <1>12, <1>14, <1>15,
     <1>16, <1>17 DEF Next, Build, Execute

\* SetType and AffinityFromArraytile change the task being described to c and what
\* the program wants of it to w: nothing but the type and the affinity.
Edited(c, w) ==
  LET m == cur_task[Main] IN
  /\ task' = [task EXCEPT ![m] = c] /\ want' = [want EXCEPT ![m] = w]
  /\ c.ci_args = task[m].ci_args /\ c.reused = task[m].reused
  /\ c.acc = task[m].acc /\ c.nbs = task[m].nbs
  /\ w.acc = want[m].acc /\ w.nbs = want[m].nbs
  /\ w.arg = want[m].arg /\ w.obj = want[m].obj
  /\ task[m].type = want[m].type => c.type = w.type
  /\ pc = "build"
  /\ UNCHANGED <<pc, vec, pushed, round, objs, heap, doubled, graph, stored,
                 step, running, todo, open, cur_task>>

LEMMA EditType ==
  ASSUME ClientInv,
         \/ SetType("STENCIL_TASK")
         \/ \E seg \in 0 .. Segs - 1 : AffinityFromArraytile(seg)
  PROVE  cur_task[Main] \in graph /\ \E c \in CiTask, w \in Wanted : Edited(c, w)
<1> DEFINE m == cur_task[Main]
<1>0. pc = "build" /\ graph # {}
  BY DEF SetType, AffinityFromArraytile
<1>1. m \in graph /\ m \in Task /\ Max(graph) = m /\ task[m] \in CiTask /\ want[m] \in Wanted
  BY <1>0, CurrentTask
<1>2. task \in [Task -> CiTask \cup {NoTask}] /\ want \in [Task -> Wanted \cup {NoTask}]
  BY DEF ClientInv, TypeOK
<1>3. CASE SetType("STENCIL_TASK")
  <2> DEFINE c == [task[m] EXCEPT !.type = "STENCIL_TASK"]
             w == [want[m] EXCEPT !.type = "STENCIL_TASK"]
  <2>1. c \in CiTask /\ w \in Wanted
    BY <1>1 DEF CiTask, Wanted, TaskType
  <2>2. /\ c.ci_args = task[m].ci_args /\ c.reused = task[m].reused
        /\ c.acc = task[m].acc /\ c.nbs = task[m].nbs
    BY <1>1 DEF CiTask
  <2>3. /\ w.acc = want[m].acc /\ w.nbs = want[m].nbs
        /\ w.arg = want[m].arg /\ w.obj = want[m].obj
    BY <1>1 DEF Wanted
  <2>4. c.type = w.type
    BY <1>1 DEF Wanted, CiTask
  <2>5. /\ task' = [task EXCEPT ![m] = c] /\ want' = [want EXCEPT ![m] = w]
        /\ UNCHANGED <<pc, vec, pushed, round, objs, heap, doubled, graph, stored,
                       step, running, todo, open, cur_task>>
    <3>1. task' = [task EXCEPT ![m].type = "STENCIL_TASK"]
          /\ want' = [want EXCEPT ![m].type = "STENCIL_TASK"]
      BY <1>1, <1>3 DEF SetType
    <3>2. QED
      BY <1>3, <3>1 DEF SetType, program, memory, threads
  <2> HIDE DEF c, w
  <2>6. Edited(c, w)
    BY <1>0, <2>2, <2>3, <2>4, <2>5 DEF Edited
  <2>7. QED
    BY <1>1, <2>1, <2>6
<1>4. ASSUME NEW seg \in 0 .. Segs - 1, AffinityFromArraytile(seg)
      PROVE  \E c \in CiTask, w \in Wanted : Edited(c, w)
  <2>0. PICK f \in 0 .. NumThreads - 1 : task' = [task EXCEPT ![m].aff = f]
    BY <1>4, TileType
  <2> DEFINE c == [task[m] EXCEPT !.aff = f]
             w == [want[m] EXCEPT !.seg = seg]
  <2>1. c \in CiTask /\ w \in Wanted
    <3>1. seg \in -1 .. Segs - 1
      BY ClientAssumption
    <3>2. QED
      BY <1>1, <3>1 DEF CiTask, Wanted
  <2>2. /\ c.ci_args = task[m].ci_args /\ c.reused = task[m].reused
        /\ c.acc = task[m].acc /\ c.nbs = task[m].nbs /\ c.type = task[m].type
    BY <1>1 DEF CiTask
  <2>3. /\ w.acc = want[m].acc /\ w.nbs = want[m].nbs
        /\ w.arg = want[m].arg /\ w.obj = want[m].obj /\ w.type = want[m].type
    BY <1>1 DEF Wanted
  <2>4. /\ task' = [task EXCEPT ![m] = c] /\ want' = [want EXCEPT ![m] = w]
        /\ UNCHANGED <<pc, vec, pushed, round, objs, heap, doubled, graph, stored,
                       step, running, todo, open, cur_task>>
    BY <1>4, <2>0 DEF AffinityFromArraytile, program, memory, threads
  <2> HIDE DEF c, w
  <2>5. Edited(c, w)
    BY <1>0, <2>2, <2>3, <2>4 DEF Edited
  <2>6. QED
    BY <2>1, <2>5
<1>5. QED
  BY <1>1, <1>3, <1>4

\* Spawn marks the tasks of the graph, and nothing else of them changes.
LEMMA SpawnTasks ==
  ASSUME ClientInv, NEW store \in BOOLEAN, Spawn(store)
  PROVE  /\ \A t \in Task \ graph : task'[t] = task[t]
         /\ \A t \in graph : /\ task[t] \in CiTask /\ task'[t] \in CiTask
                             /\ task'[t].reused = store
                             /\ task'[t].ci_args = task[t].ci_args
                             /\ task'[t].acc = task[t].acc /\ task'[t].nbs = task[t].nbs
                             /\ task'[t].type = task[t].type
<1>1. task' = [t \in Task |-> IF t \in graph THEN [task[t] EXCEPT !.reused = store] ELSE task[t]]
  BY DEF Spawn
<1>2. graph \subseteq Task /\ \A t \in graph : task[t] \in CiTask
  BY DEF ClientInv, TypeOK, RoundGraph
<1>3. \A c \in CiTask : LET d == [c EXCEPT !.reused = store]
                        IN  /\ d \in CiTask /\ d.reused = store /\ d.ci_args = c.ci_args
                            /\ d.acc = c.acc /\ d.nbs = c.nbs /\ d.type = c.type
  BY DEF CiTask
<1>4. QED
  BY <1>1, <1>2, <1>3

\* The other actions leave the tasks and what is wanted of them alone.
LEMMA TasksKept ==
  ASSUME [Next]_vars
  PROVE  \/ \E k \in Kinds, obj \in ToSet(objs) \cup {NULL} : Generate(k[1], obj, k[2], k[3])
         \/ SetType("STENCIL_TASK") \/ \E seg \in 0 .. Segs - 1 : AffinityFromArraytile(seg)
         \/ \E store \in BOOLEAN : Spawn(store)
         \/ UNCHANGED <<task, want>>
BY DEF Next, vars, Build, Execute, Push, MallocObj, BeginSplit, EndSplit, Begin, SetCurrent, Body,
       Release, Delete, Waited, Shutdown, tasks

LEMMA GeneratedStep == ClientInv /\ [Next]_vars => Generated'
<1> SUFFICES ASSUME ClientInv, [Next]_vars PROVE Generated'
  OBVIOUS
<1>0. PICK n \in 0 .. MaxTask : \A t \in Task : /\ task[t] # NoTask <=> t <= n
                                                /\ want[t] # NoTask <=> t <= n
  BY DEF ClientInv, Generated
<1>1. ASSUME \A t \in Task : /\ task'[t] # NoTask <=> task[t] # NoTask
                             /\ want'[t] # NoTask <=> want[t] # NoTask
      PROVE  Generated'
  BY <1>0, <1>1 DEF Generated
<1>2. /\ task \in [Task -> CiTask \cup {NoTask}] /\ want \in [Task -> Wanted \cup {NoTask}]
      /\ NoTask \notin CiTask /\ NoTask \notin Wanted /\ graph \subseteq Task
  BY NoTaskAssumption DEF ClientInv, TypeOK
<1>3. ASSUME NEW k \in Kinds, NEW obj \in ToSet(objs) \cup {NULL}, Generate(k[1], obj, k[2], k[3])
      PROVE  Generated'
  <2>1. Fresh \in Task /\ \E c \in CiTask, w \in Wanted : Made(c, w, obj)
    BY <1>3, GenerateType
  <2>2. PICK c \in CiTask, w \in Wanted : Made(c, w, obj)
    BY <2>1
  <2>3. /\ Fresh \in Nat
        /\ \A u \in Task : task[u] # NoTask <=> u < Fresh
        /\ \A u \in Task : want[u] # NoTask <=> u < Fresh
    BY NextTask
  <2>4. task' = [task EXCEPT ![Fresh] = c] /\ want' = [want EXCEPT ![Fresh] = w]
    BY <2>2 DEF Made
  <2>5. Fresh \in 0 .. MaxTask /\ \A u \in Task : u \in Nat /\ (u <= Fresh <=> u < Fresh \/ u = Fresh)
    BY <2>1, <2>3, ClientAssumption DEF Task
  <2>6. \A u \in Task : task'[u] # NoTask <=> u <= Fresh
    BY <1>2, <2>1, <2>3, <2>4, <2>5
  <2>7. \A u \in Task : want'[u] # NoTask <=> u <= Fresh
    BY <1>2, <2>1, <2>3, <2>4, <2>5
  <2>8. QED
    BY <2>5, <2>6, <2>7 DEF Generated
<1>4. ASSUME SetType("STENCIL_TASK") \/ \E seg \in 0 .. Segs - 1 : AffinityFromArraytile(seg)
      PROVE  Generated'
  <2>1. PICK c \in CiTask, w \in Wanted : Edited(c, w)
    BY <1>4, EditType
  <2>2. cur_task[Main] \in Task /\ task[cur_task[Main]] # NoTask /\ want[cur_task[Main]] # NoTask
    BY <1>2, <1>4, EditType DEF ClientInv, RoundGraph, Generated
  <2>3. QED
    BY <1>1, <1>2, <2>1, <2>2 DEF Edited
<1>5. ASSUME NEW store \in BOOLEAN, Spawn(store) PROVE Generated'
  BY <1>1, <1>2, <1>5, SpawnTasks DEF Spawn
<1>6. ASSUME UNCHANGED <<task, want>> PROVE Generated'
  BY <1>1, <1>6
<1>7. QED
  BY <1>3, <1>4, <1>5, <1>6, TasksKept

LEMMA OwnAccessesStep == ClientInv /\ [Next]_vars => OwnAccesses'
<1> SUFFICES ASSUME ClientInv, [Next]_vars PROVE OwnAccesses'
  OBVIOUS
<1>1. \A t \in Task : task[t] # NoTask =>
        task[t].acc = want[t].acc /\ task[t].nbs = want[t].nbs /\ task[t].type = want[t].type
  BY DEF ClientInv, OwnAccesses
<1>2. /\ task \in [Task -> CiTask \cup {NoTask}] /\ want \in [Task -> Wanted \cup {NoTask}]
      /\ graph \subseteq Task /\ \A t \in graph : task[t] # NoTask
  BY DEF ClientInv, TypeOK, RoundGraph
<1>3. ASSUME NEW k \in Kinds, NEW obj \in ToSet(objs) \cup {NULL}, Generate(k[1], obj, k[2], k[3])
      PROVE  OwnAccesses'
  <2>1. PICK c \in CiTask, w \in Wanted : Made(c, w, obj)
    BY <1>3, GenerateType
  <2>2. /\ task' = [task EXCEPT ![Fresh] = c] /\ want' = [want EXCEPT ![Fresh] = w]
        /\ c.acc = w.acc /\ c.nbs = w.nbs /\ c.type = w.type
    BY <2>1 DEF Made
  <2>3. QED
    BY <1>1, <1>2, <2>2 DEF OwnAccesses
<1>4. ASSUME SetType("STENCIL_TASK") \/ \E seg \in 0 .. Segs - 1 : AffinityFromArraytile(seg)
      PROVE  OwnAccesses'
  <2> DEFINE m == cur_task[Main]
  <2>1. m \in graph /\ \E c \in CiTask, w \in Wanted : Edited(c, w)
    BY <1>4, EditType
  <2>2. PICK c \in CiTask, w \in Wanted : Edited(c, w)
    BY <2>1
  <2>3. /\ task' = [task EXCEPT ![m] = c] /\ want' = [want EXCEPT ![m] = w]
        /\ c.acc = task[m].acc /\ c.nbs = task[m].nbs
        /\ w.acc = want[m].acc /\ w.nbs = want[m].nbs
        /\ task[m].type = want[m].type => c.type = w.type
    BY <2>2 DEF Edited
  <2>4. m \in Task /\ task[m] # NoTask
    BY <1>2, <2>1
  <2> HIDE DEF m
  <2>5. c.acc = w.acc /\ c.nbs = w.nbs /\ c.type = w.type
    BY <1>1, <2>3, <2>4
  <2>6. QED
    BY <1>1, <1>2, <2>3, <2>5 DEF OwnAccesses
<1>5. ASSUME NEW store \in BOOLEAN, Spawn(store) PROVE OwnAccesses'
  <2>1. want' = want
    BY <1>5 DEF Spawn
  <2>2. \A t \in Task : \/ task'[t] = task[t]
                        \/ /\ task[t] # NoTask
                           /\ task'[t].acc = task[t].acc /\ task'[t].nbs = task[t].nbs
                           /\ task'[t].type = task[t].type
    BY <1>2, <1>5, SpawnTasks
  <2>3. QED
    BY <1>1, <2>1, <2>2 DEF OwnAccesses
<1>6. ASSUME UNCHANGED <<task, want>> PROVE OwnAccesses'
  BY <1>1, <1>6 DEF OwnAccesses
<1>7. QED
  BY <1>3, <1>4, <1>5, <1>6, TasksKept

LEMMA DescribedStep == ClientInv /\ [Next]_vars => Described'
<1> SUFFICES ASSUME ClientInv, [Next]_vars PROVE Described'
  OBVIOUS
<1>0. /\ Described /\ Main \in Thread
      /\ pc = "idle" /\ ~stored => graph = {}
      /\ \A th \in Thread : Busy(th) => pc = "exec"
  BY ClientAssumption DEF ClientInv, RoundGraph, Working
<1>1. ASSUME vec' = pushed', UNCHANGED <<graph, cur_task>>, pc' # "build" \/ pc' = pc
      PROVE  Described'
  BY <1>0, <1>1 DEF Described
<1>2. ASSUME vec' = pushed', pc' # "build"
      PROVE  Described'
  BY <1>2 DEF Described
<1>3. vec = pushed
  BY <1>0 DEF Described
<1>4. ASSUME NEW a \in Accesses, Push(a[1], a[2], a[3]) PROVE Described'
  BY <1>1, <1>3, <1>4 DEF Push, tasks
<1>5. ASSUME MallocObj PROVE Described'
  BY <1>1, <1>3, <1>5 DEF MallocObj, program, tasks
<1>6. ASSUME NEW k \in Kinds, NEW obj \in ToSet(objs) \cup {NULL}, Generate(k[1], obj, k[2], k[3])
      PROVE  Described'
  <2>1. PICK c \in CiTask, w \in Wanted : Made(c, w, obj)
    BY <1>6, GenerateType
  <2>2. /\ vec' = <<>> /\ pushed' = <<>> /\ graph' = graph \cup {Fresh}
        /\ cur_task' = [cur_task EXCEPT ![Main] = Fresh]
    BY <2>1 DEF Made
  <2>3. \A u \in graph : u \in Task /\ task[u] # NoTask
    BY DEF ClientInv, TypeOK, RoundGraph
  <2>4. Fresh \in Nat /\ \A u \in graph : u \in Nat /\ u < Fresh
    BY <2>3, NextTask DEF Task
  <2>5. cur_task'[Main] = Fresh
    BY <1>0, <2>2 DEF ClientInv, TypeOK
  <2>6. Fresh \in graph' /\ \A u \in graph' : u <= Fresh
    BY <2>2, <2>4
  <2>7. QED
    BY <2>2, <2>5, <2>6 DEF Described
<1>7. ASSUME SetType("STENCIL_TASK") \/ \E seg \in 0 .. Segs - 1 : AffinityFromArraytile(seg)
      PROVE  Described'
  <2>1. PICK c \in CiTask, w \in Wanted : Edited(c, w)
    BY <1>7, EditType
  <2>2. QED
    BY <1>1, <1>3, <2>1 DEF Edited
<1>8. ASSUME BeginSplit PROVE Described'
  <2>1. vec' = pushed' /\ graph' = {}
    BY <1>0, <1>3, <1>8 DEF BeginSplit, tasks
  <2>2. QED
    BY <2>1 DEF Described
<1>9. ASSUME EndSplit \/ Waited \/ Shutdown \/ \E store \in BOOLEAN : Spawn(store)
      PROVE  Described'
  <2>1. vec' = pushed' /\ pc' # "build"
    BY <1>3, <1>9 DEF EndSplit, Waited, Shutdown, Spawn
  <2>2. QED
    BY <1>2, <2>1
<1>10. ASSUME NEW th \in Thread, SetCurrent(th) PROVE Described'
  <2>1. Busy(th) /\ vec' = pushed' /\ pc' = pc
    BY <1>3, <1>10 DEF SetCurrent, Busy, program
  <2>2. QED
    BY <1>0, <1>2, <2>1
<1>11. ASSUME NEW th \in Thread,
              (\E t \in todo : Begin(th, t)) \/ Body(th) \/ Release(th) \/ Delete(th)
       PROVE  Described'
  <2>1. UNCHANGED <<vec, pushed, pc, graph, cur_task>>
    BY <1>11 DEF Begin, Body, Release, Delete, program, tasks
  <2>2. QED
    BY <1>1, <1>3, <2>1
<1>12. ASSUME UNCHANGED vars PROVE Described'
  BY <1>1, <1>3, <1>12 DEF vars, program, tasks
<1>13. QED
  BY <1>4, <1>5, <1>6, <1>7, <1>8, <1>9, <1>10, <1>11, <1>12 DEF Next, Build, Execute

LEMMA RoundGraphStep == ClientInv /\ [Next]_vars => RoundGraph'
<1> SUFFICES ASSUME ClientInv, [Next]_vars PROVE RoundGraph'
  OBVIOUS
<1>0. /\ RoundGraph
      /\ \A th \in Thread : Busy(th) => pc = "exec" /\ running[th] \in open \ todo
  BY DEF ClientInv, Working
<1>t. graph \subseteq Task /\ task \in [Task -> CiTask \cup {NoTask}] /\ NoTask \notin CiTask
  BY NoTaskAssumption DEF ClientInv, TypeOK
<1>1. ASSUME UNCHANGED <<pc, task, graph, stored, todo, open>>
      PROVE  RoundGraph'
  BY <1>0, <1>1 DEF RoundGraph
<1>2. ASSUME NEW a \in Accesses, Push(a[1], a[2], a[3]) PROVE RoundGraph'
  BY <1>1, <1>2 DEF Push, tasks, threads
<1>3. ASSUME MallocObj PROVE RoundGraph'
  BY <1>1, <1>3 DEF MallocObj, program, tasks, threads
<1>4. ASSUME NEW k \in Kinds, NEW obj \in ToSet(objs) \cup {NULL}, Generate(k[1], obj, k[2], k[3])
      PROVE  RoundGraph'
  <2>1. PICK c \in CiTask, w \in Wanted : Made(c, w, obj)
    BY <1>4, GenerateType
  <2>2. /\ task' = [task EXCEPT ![Fresh] = c] /\ ~c.reused
        /\ graph' = graph \cup {Fresh} /\ UNCHANGED <<pc, stored, todo, open>>
    BY <2>1 DEF Made
  <2>3. Fresh \in Task /\ task[Fresh] = NoTask
    BY <1>4, GenerateType
  <2>4. pc = "build"
    BY <1>4 DEF Generate
  <2>5. ~stored /\ Fresh \notin graph
    BY <1>0, <2>3, <2>4 DEF RoundGraph
  <2>6. \A t \in graph' : task'[t] # NoTask /\ task'[t].reused = stored'
    <3>1. stored = FALSE /\ c.reused = FALSE
      BY <2>2, <2>5 DEF CiTask, ClientInv, TypeOK
    <3>2. QED
      BY <1>0, <1>t, <2>2, <2>3, <2>5, <3>1 DEF RoundGraph
  <2>7. QED
    BY <1>0, <2>2, <2>4, <2>5, <2>6 DEF RoundGraph
<1>5. ASSUME SetType("STENCIL_TASK") \/ \E seg \in 0 .. Segs - 1 : AffinityFromArraytile(seg)
      PROVE  RoundGraph'
  <2> DEFINE m == cur_task[Main]
  <2>1. m \in graph /\ \E c \in CiTask, w \in Wanted : Edited(c, w)
    BY <1>5, EditType
  <2>2. PICK c \in CiTask, w \in Wanted : Edited(c, w)
    BY <2>1
  <2>3. /\ task' = [task EXCEPT ![m] = c] /\ c.reused = task[m].reused
        /\ UNCHANGED <<pc, graph, stored, todo, open>>
    BY <2>2 DEF Edited
  <2> HIDE DEF m
  <2>4. \A t \in graph : task'[t] # NoTask /\ task'[t].reused = stored
    BY <1>0, <1>t, <2>1, <2>3 DEF RoundGraph
  <2>5. QED
    BY <1>0, <2>3, <2>4 DEF RoundGraph
<1>6. ASSUME BeginSplit PROVE RoundGraph'
  BY <1>0, <1>6 DEF BeginSplit, tasks, threads, RoundGraph
<1>7. ASSUME EndSplit PROVE RoundGraph'
  BY <1>0, <1>7 DEF EndSplit, tasks, threads, RoundGraph
<1>8. ASSUME NEW store \in BOOLEAN, Spawn(store) PROVE RoundGraph'
  <2>1. /\ pc' = "exec" /\ graph' = graph /\ todo' = graph /\ open' = graph /\ stored' = store
    BY <1>8 DEF Spawn
  <2>2. \A t \in graph : task'[t] # NoTask /\ task'[t].reused = store
    BY <1>8, <1>t, SpawnTasks
  <2>3. QED
    BY <2>1, <2>2 DEF RoundGraph
<1>9. ASSUME NEW th \in Thread, NEW t \in todo, Begin(th, t) PROVE RoundGraph'
  <2>1. pc = "exec" /\ todo' = todo \ {t} /\ UNCHANGED <<pc, task, graph, stored, open>>
    BY <1>9 DEF Begin, program, tasks
  <2>2. QED
    BY <1>0, <2>1 DEF RoundGraph
<1>10. ASSUME NEW th \in Thread, Release(th) PROVE RoundGraph'
  <2>1. /\ Busy(th) /\ open' = open \ {running[th]} /\ UNCHANGED <<pc, task, graph, stored, todo>>
    BY <1>10 DEF Release, Busy, program, tasks
  <2>2. QED
    BY <1>0, <2>1 DEF RoundGraph
<1>11. ASSUME NEW th \in Thread, SetCurrent(th) \/ Body(th) \/ Delete(th) PROVE RoundGraph'
  <2>1. UNCHANGED <<pc, task, graph, stored, todo, open>>
    BY <1>11 DEF SetCurrent, Body, Delete, program, tasks
  <2>2. QED
    BY <1>1, <2>1
<1>12. ASSUME Waited PROVE RoundGraph'
  <2>1. /\ pc = "exec" /\ pc' = "idle" /\ open = {} /\ graph' = IF stored THEN graph ELSE {}
        /\ UNCHANGED <<task, stored, todo, open>>
    BY <1>12 DEF Waited, threads
  <2>2. QED
    BY <1>0, <2>1 DEF RoundGraph
<1>13. ASSUME Shutdown PROVE RoundGraph'
  <2>1. pc = "idle" /\ pc' = "end" /\ graph' = {} /\ stored' = FALSE /\ UNCHANGED <<task, todo, open>>
    BY <1>13 DEF Shutdown, threads
  <2>2. QED
    BY <1>0, <2>1 DEF RoundGraph
<1>14. ASSUME UNCHANGED vars PROVE RoundGraph'
  BY <1>1, <1>14 DEF vars, program, tasks, threads
<1>15. QED
  BY <1>2, <1>3, <1>4, <1>5, <1>6, <1>7, <1>8, <1>9, <1>10, <1>11, <1>12, <1>13, <1>14
  DEF Next, Build, Execute

\* What Working says of one thread.
WorkingOf(th) ==
  /\ step[th] = "none" <=> running[th] = NoTask
  /\ Busy(th) =>
       /\ pc = "exec" /\ running[th] \in open \ todo
       /\ \A o \in Thread : Busy(o) /\ running[o] = running[th] => o = th
  /\ running[th] # NoTask =>
       /\ task[running[th]] # NoTask
       /\ IF running[th] \in graph THEN pc = "exec" \/ stored ELSE ~task[running[th]].reused
       /\ ~task[running[th]].reused =>
            running[th] \notin todo /\ \A o \in Thread : running[o] = running[th] => o = th

LEMMA WorkingStep == ClientInv /\ [Next]_vars => Working'
<1> SUFFICES ASSUME ClientInv, [Next]_vars PROVE Working'
  OBVIOUS
<1>0. \A th \in Thread : WorkingOf(th)
  BY DEF ClientInv, Working, WorkingOf
<1>a. ASSUME \A th \in Thread : WorkingOf(th)' PROVE Working'
  BY <1>a DEF Working, WorkingOf
<1>t. /\ graph \subseteq Task /\ task \in [Task -> CiTask \cup {NoTask}] /\ NoTask \notin CiTask
      /\ running \in [Thread -> Task \cup {NoTask}] /\ todo \subseteq Task /\ NoTask \notin Task
      /\ step \in [Thread -> {"none", "body", "func", "release", "delete"}]
  BY NoTaskAssumption DEF ClientInv, TypeOK
<1>g. /\ stored => pc \in {"exec", "idle"}
      /\ IF pc = "exec" THEN todo \subseteq open /\ open \subseteq graph ELSE open = {} /\ todo = {}
      /\ \A t \in graph : task[t] # NoTask /\ task[t].reused = stored
      /\ stored \in BOOLEAN
  BY DEF ClientInv, RoundGraph, TypeOK
<1>1. ASSUME UNCHANGED <<pc, task, graph, stored, step, running, todo, open>>
      PROVE  Working'
  BY <1>0, <1>1, <1>a DEF WorkingOf, Busy
<1>2. ASSUME NEW a \in Accesses, Push(a[1], a[2], a[3]) PROVE Working'
  BY <1>1, <1>2 DEF Push, tasks, threads
<1>3. ASSUME MallocObj PROVE Working'
  BY <1>1, <1>3 DEF MallocObj, program, tasks, threads
<1>4. ASSUME NEW k \in Kinds, NEW obj \in ToSet(objs) \cup {NULL}, Generate(k[1], obj, k[2], k[3])
      PROVE  Working'
  <2>1. PICK c \in CiTask, w \in Wanted : Made(c, w, obj)
    BY <1>4, GenerateType
  <2>2. /\ task' = [task EXCEPT ![Fresh] = c] /\ graph' = graph \cup {Fresh}
        /\ UNCHANGED <<pc, stored, step, running, todo, open>>
    BY <2>1 DEF Made
  <2>3. Fresh \in Task /\ task[Fresh] = NoTask
    BY <1>4, GenerateType
  <2>4. ASSUME NEW th \in Thread PROVE WorkingOf(th)'
    <3>1. running[th] # Fresh
      BY <1>0, <1>t, <2>3 DEF WorkingOf
    <3>2. task'[running[th]] = task[running[th]] /\ (running[th] \in graph' <=> running[th] \in graph)
      BY <1>t, <2>2, <3>1
    <3>3. QED
      BY <1>0, <2>2, <3>2 DEF WorkingOf, Busy
  <2>5. QED
    BY <1>a, <2>4
<1>5. ASSUME SetType("STENCIL_TASK") \/ \E seg \in 0 .. Segs - 1 : AffinityFromArraytile(seg)
      PROVE  Working'
  <2> DEFINE m == cur_task[Main]
  <2>1. m \in graph /\ \E c \in CiTask, w \in Wanted : Edited(c, w)
    BY <1>5, EditType
  <2>2. PICK c \in CiTask, w \in Wanted : Edited(c, w)
    BY <2>1
  <2>3. /\ task' = [task EXCEPT ![m] = c] /\ c.reused = task[m].reused
        /\ UNCHANGED <<pc, graph, stored, step, running, todo, open>>
    BY <2>2 DEF Edited
  <2> HIDE DEF m
  <2>4. \A t \in Task : task[t] # NoTask => task'[t] # NoTask /\ task'[t].reused = task[t].reused
    BY <1>t, <2>1, <2>3
  <2>5. ASSUME NEW th \in Thread PROVE WorkingOf(th)'
    <3>1. running[th] # NoTask =>
            task'[running[th]] # NoTask /\ task'[running[th]].reused = task[running[th]].reused
      BY <1>0, <1>t, <2>4 DEF WorkingOf
    <3>2. QED
      BY <1>0, <2>3, <3>1 DEF WorkingOf, Busy
  <2>6. QED
    BY <1>a, <2>5
<1>6. ASSUME BeginSplit \/ EndSplit PROVE Working'
  <2>1. /\ pc # "exec" /\ pc' # "exec" /\ UNCHANGED <<task, graph, stored, step, running, todo, open>>
    BY <1>6 DEF BeginSplit, EndSplit, tasks, threads
  <2>2. ASSUME NEW th \in Thread PROVE WorkingOf(th)'
    BY <1>0, <2>1 DEF WorkingOf, Busy
  <2>3. QED
    BY <1>a, <2>2
<1>7. ASSUME NEW store \in BOOLEAN, Spawn(store) PROVE Working'
  <2>1. /\ pc # "exec" /\ pc' = "exec" /\ (stored => store)
        /\ todo' = graph /\ UNCHANGED <<graph, step, running>>
    BY <1>7, <1>g DEF Spawn
  <2>2. ASSUME NEW th \in Thread PROVE WorkingOf(th)'
    <3>0. WorkingOf(th)
      BY <1>0
    <3>1. ~Busy(th) /\ (step[th] = "none" <=> running[th] = NoTask)
          /\ (running[th] \in graph /\ running[th] # NoTask => stored)
          /\ step'[th] = step[th] /\ running'[th] = running[th]
      BY <2>1, <3>0 DEF WorkingOf
    <3>a. ~Busy(th)' /\ (step'[th] = "none" <=> running'[th] = NoTask)
      BY <3>1 DEF Busy
    <3>2. CASE running[th] = NoTask
      BY <3>1, <3>a, <3>2 DEF WorkingOf
    <3>3. CASE running[th] \in graph
      <4>1. stored /\ store
        BY <1>t, <2>1, <3>1, <3>3
      <4>2. task'[running[th]] # NoTask /\ task'[running[th]].reused = TRUE
        BY <1>7, <1>t, <3>3, <4>1, SpawnTasks
      <4>3. QED
        BY <2>1, <3>1, <3>a, <3>3, <4>2 DEF WorkingOf
    <3>4. CASE running[th] \notin graph /\ running[th] # NoTask
      <4>1. task'[running[th]] = task[running[th]]
        BY <1>7, <1>t, <3>4, SpawnTasks
      <4>2. QED
        BY <2>1, <3>0, <3>1, <3>a, <3>4, <4>1 DEF WorkingOf
    <3>5. QED
      BY <3>2, <3>3, <3>4
  <2>3. QED
    BY <1>a, <2>2
<1>8. ASSUME NEW th \in Thread, NEW t \in todo, Begin(th, t) PROVE Working'
  <2>1. /\ pc = "exec" /\ step[th] = "none" /\ todo' = todo \ {t}
        /\ running' = [running EXCEPT ![th] = t] /\ step' = [step EXCEPT ![th] = "body"]
        /\ UNCHANGED <<pc, task, graph, stored, open>>
    BY <1>8 DEF Begin, program, tasks
  <2>2. /\ t \in open /\ t \in graph /\ t \in Task /\ task[t] # NoTask
    BY <1>g, <1>t, <2>1
  <2>3. \A o \in Thread : running[o] = t => ~Busy(o) /\ task[t].reused
    BY <1>0, <1>t, <2>2 DEF WorkingOf
  <2>4. WorkingOf(th)'
    <3>1. running'[th] = t /\ step'[th] = "body"
      BY <1>t, <2>1
    <3>2. \A o \in Thread : o # th => running'[o] = running[o] /\ (Busy(o)' <=> Busy(o))
      BY <1>t, <2>1 DEF Busy
    <3>3. \A o \in Thread : Busy(o)' /\ running'[o] = t => o = th
      BY <2>3, <3>2
    <3>4. ~task[t].reused => \A o \in Thread : running'[o] = t => o = th
      BY <2>3, <3>2
    <3>5. QED
      BY <1>t, <2>1, <2>2, <3>1, <3>3, <3>4 DEF WorkingOf, Busy
  <2>5. ASSUME NEW u \in Thread, u # th PROVE WorkingOf(u)'
    <3>1. running'[u] = running[u] /\ step'[u] = step[u] /\ (Busy(u)' <=> Busy(u))
      BY <1>t, <2>1, <2>5 DEF Busy
    <3>2. running'[th] = t
      BY <1>t, <2>1
    <3>3. Busy(u) => running[u] # t
      BY <2>3
    <3>4. running[u] # NoTask /\ ~task[running[u]].reused => running[u] # t
      BY <2>3
    <3>5. \A o \in Thread : o # th => running'[o] = running[o] /\ (Busy(o)' <=> Busy(o))
      BY <1>t, <2>1 DEF Busy
    <3>6. Busy(u) => \A o \in Thread : Busy(o)' /\ running'[o] = running[u] => o = u
      BY <1>0, <3>2, <3>3, <3>5 DEF WorkingOf
    <3>7. running[u] # NoTask /\ ~task[running[u]].reused =>
            \A o \in Thread : running'[o] = running[u] => o = u
      BY <1>0, <3>2, <3>4, <3>5 DEF WorkingOf
    <3>8. QED
      BY <1>0, <2>1, <3>1, <3>6, <3>7 DEF WorkingOf
  <2>6. QED
    BY <1>a, <2>4, <2>5
<1>9. ASSUME NEW th \in Thread, SetCurrent(th) \/ Body(th) PROVE Working'
  <2>1. /\ \A u \in Thread : (Busy(u)' <=> Busy(u)) /\ (step'[u] = "none" <=> step[u] = "none")
        /\ UNCHANGED <<pc, task, graph, stored, running, todo, open>>
    BY <1>9, <1>t DEF SetCurrent, Body, Busy, program, tasks
  <2>2. ASSUME NEW u \in Thread PROVE WorkingOf(u)'
    BY <1>0, <2>1 DEF WorkingOf
  <2>3. QED
    BY <1>a, <2>2
<1>10. ASSUME NEW th \in Thread, Release(th) PROVE Working'
  <2>1. /\ step[th] = "release" /\ open' = open \ {running[th]}
        /\ step' = [step EXCEPT ![th] = "delete"]
        /\ UNCHANGED <<pc, task, graph, stored, running, todo>>
    BY <1>10 DEF Release, program, tasks
  <2>2. Busy(th) /\ ~Busy(th)' /\ \A u \in Thread : u # th => (Busy(u)' <=> Busy(u))
    BY <1>t, <2>1 DEF Busy
  <2>3. \A u \in Thread : step'[u] = "none" <=> step[u] = "none"
    BY <1>t, <2>1
  <2>4. ASSUME NEW u \in Thread PROVE WorkingOf(u)'
    <3>1. Busy(u)' => Busy(u) /\ u # th
      BY <2>2
    <3>2. Busy(u)' => running[u] # running[th]
      BY <1>0, <2>2, <3>1 DEF WorkingOf
    <3>3. \A o \in Thread : Busy(o)' => Busy(o)
      BY <2>2
    <3>4. QED
      BY <1>0, <2>1, <2>3, <3>1, <3>2, <3>3 DEF WorkingOf
  <2>5. QED
    BY <1>a, <2>4
<1>11. ASSUME NEW th \in Thread, Delete(th) PROVE Working'
  <2>1. /\ step[th] = "delete" /\ running' = [running EXCEPT ![th] = NoTask]
        /\ step' = [step EXCEPT ![th] = "none"]
        /\ UNCHANGED <<pc, task, graph, stored, todo, open>>
    BY <1>11 DEF Delete, program, tasks
  <2>2. running'[th] = NoTask /\ step'[th] = "none" /\ ~Busy(th)'
    BY <1>t, <2>1 DEF Busy
  <2>3. \A u \in Thread : u # th =>
          running'[u] = running[u] /\ step'[u] = step[u] /\ (Busy(u)' <=> Busy(u))
    BY <1>t, <2>1 DEF Busy
  <2>4. WorkingOf(th)'
    BY <2>2 DEF WorkingOf
  <2>5. ASSUME NEW u \in Thread, u # th PROVE WorkingOf(u)'
    <3>1. Busy(u) => \A o \in Thread : Busy(o)' /\ running'[o] = running[u] => o = u
      BY <1>0, <2>2, <2>3 DEF WorkingOf
    <3>2. running[u] # NoTask /\ ~task[running[u]].reused =>
            \A o \in Thread : running'[o] = running[u] => o = u
      BY <1>0, <2>2, <2>3 DEF WorkingOf
    <3>3. QED
      BY <1>0, <2>1, <2>3, <2>5, <3>1, <3>2 DEF WorkingOf
  <2>6. QED
    BY <1>a, <2>4, <2>5
<1>12. ASSUME Waited PROVE Working'
  <2>1. /\ pc = "exec" /\ open = {} /\ pc' = "idle" /\ graph' = IF stored THEN graph ELSE {}
        /\ UNCHANGED <<task, stored, step, running, todo, open>>
    BY <1>12 DEF Waited, threads
  <2>2. ASSUME NEW u \in Thread PROVE WorkingOf(u)'
    <3>1. ~Busy(u) /\ ~Busy(u)'
      BY <1>0, <2>1 DEF WorkingOf, Busy
    <3>2. running[u] # NoTask /\ ~stored => ~task[running[u]].reused
      BY <1>0, <1>g, <2>1 DEF WorkingOf
    <3>3. QED
      BY <1>0, <2>1, <3>1, <3>2 DEF WorkingOf
  <2>3. QED
    BY <1>a, <2>2
<1>13. ASSUME Shutdown PROVE Working'
  <2>1. (\A th \in Thread : step[th] = "none") /\ UNCHANGED <<step, running>>
    BY <1>13 DEF Shutdown, threads
  <2>2. ASSUME NEW u \in Thread PROVE WorkingOf(u)'
    BY <1>0, <2>1 DEF WorkingOf, Busy
  <2>3. QED
    BY <1>a, <2>2
<1>14. ASSUME UNCHANGED vars PROVE Working'
  BY <1>1, <1>14 DEF vars, program, tasks, threads
<1>15. QED
  BY <1>2, <1>3, <1>4, <1>5, <1>6, <1>7, <1>8, <1>9, <1>10, <1>11, <1>12, <1>13, <1>14
  DEF Next, Build, Execute

\* A task that has not been deleted has an object, and what its arguments hold is
\* neither free nor an object of the program.
LEMMA LiveFacts ==
  ASSUME ClientInv
  PROVE  /\ \A t \in Task : Live(t) => task[t] # NoTask
         /\ \A t \in Task : task[t] # NoTask => task[t] \in CiTask /\ want[t] \in Wanted
         /\ \A t \in Task : Live(t) /\ task[t].ci_args # NULL =>
              /\ task[t].ci_args \in Block /\ heap[task[t].ci_args] = want[t].arg
              /\ want[t].arg # Free /\ want[t].arg.kind = "arg"
              /\ \A u \in Task : Live(u) /\ task[u].ci_args = task[t].ci_args => u = t
         /\ \A b \in ToSet(objs) : b \in Block /\ heap[b].kind = "obj" /\ heap[b] # Free
<1>1. ASSUME NEW t \in Task, Live(t) PROVE task[t] # NoTask
  <2>1. CASE t \in graph
    BY <2>1 DEF ClientInv, RoundGraph
  <2>2. CASE t \in todo
    BY <2>2 DEF ClientInv, RoundGraph
  <2>3. CASE \E th \in Thread : running[th] = t
    BY <2>3, NoTaskAssumption DEF ClientInv, Working
  <2>4. QED
    BY <1>1, <2>1, <2>2, <2>3 DEF Live
<1>2. ASSUME NEW t \in Task, task[t] # NoTask
      PROVE  task[t] \in CiTask /\ want[t] \in Wanted
  <2>1. want[t] # NoTask
    BY <1>2 DEF ClientInv, Generated
  <2>2. QED
    BY <1>2, <2>1 DEF ClientInv, TypeOK
<1>3. \A g \in Args : g # Free /\ g.kind = "arg"
  <2>1. \A g \in Args : g.kind = "arg"
    BY DEF Args
  <2>2. Free.kind = "free"
    BY DEF Free
  <2>3. QED
    BY <2>1, <2>2
<1>4. ASSUME NEW t \in Task, Live(t), task[t].ci_args # NULL
      PROVE  /\ task[t].ci_args \in Block /\ heap[task[t].ci_args] = want[t].arg
             /\ want[t].arg # Free /\ want[t].arg.kind = "arg"
             /\ \A u \in Task : Live(u) /\ task[u].ci_args = task[t].ci_args => u = t
  <2>1. task[t] \in CiTask /\ want[t] \in Wanted
    BY <1>1, <1>2, <1>4
  <2>2. task[t].ci_args \in Block
    BY <1>4, <2>1 DEF CiTask
  <2>3. want[t].arg \in Args
    BY <2>1 DEF Wanted
  <2>4. /\ heap[task[t].ci_args] = want[t].arg
        /\ \A u \in Task : Live(u) /\ task[u].ci_args = task[t].ci_args => u = t
    BY <1>4 DEF ClientInv, Owned
  <2>5. QED
    BY <1>3, <2>2, <2>3, <2>4
<1>5. ASSUME NEW b \in ToSet(objs)
      PROVE  b \in Block /\ heap[b].kind = "obj" /\ heap[b] # Free
  <2>1. heap[b].kind = "obj"
    BY DEF ClientInv, Owned
  <2>2. b \in Block
    BY SeqFacts DEF ClientInv, TypeOK
  <2>3. Free.kind = "free"
    BY DEF Free
  <2>4. QED
    BY <2>1, <2>2, <2>3
<1>6. QED
  BY <1>1, <1>2, <1>4, <1>5

\* The parts of Owned.
ArgsOwned ==
  \A t \in Task : Live(t) /\ task[t].ci_args # NULL =>
    /\ heap[task[t].ci_args] = want[t].arg
    /\ \A u \in Task : Live(u) /\ task[u].ci_args = task[t].ci_args => u = t

BlocksOwned ==
  \A b \in Block : heap[b] # Free =>
    b \in ToSet(objs) \/ \E t \in Task : Live(t) /\ task[t].ci_args = b

ObjsOwned ==
  /\ \A b \in ToSet(objs) : heap[b].kind = "obj"
  /\ pc \in {"idle", "end"} => objs = <<>>
  /\ \A t \in graph : want[t].arg.obj # NULL =>
       ~stored /\ want[t].arg.obj \in ToSet(objs) /\ heap[want[t].arg.obj] = want[t].obj

LEMMA OwnedParts == Owned <=> ArgsOwned /\ BlocksOwned /\ ObjsOwned /\ ~doubled
BY DEF Owned, ArgsOwned, BlocksOwned, ObjsOwned

\* A step that keeps the memory and the tasks that live keeps their blocks.
LEMMA OwnedKept ==
  ASSUME ClientInv, UNCHANGED <<heap, objs, doubled, graph>>,
         \A t \in Task : Live(t)' <=> Live(t),
         \A t \in Task : task[t] # NoTask =>
           /\ task'[t].ci_args = task[t].ci_args
           /\ want'[t].arg = want[t].arg /\ want'[t].obj = want[t].obj,
         pc' \in {"idle", "end"} => objs = <<>>,
         \A t \in graph : want[t].arg.obj # NULL => ~stored'
  PROVE  Owned'
<1>1. ArgsOwned /\ BlocksOwned /\ ObjsOwned /\ ~doubled
  BY OwnedParts DEF ClientInv
<1>2. /\ \A t \in Task : Live(t) => task[t] # NoTask
      /\ \A t \in graph : t \in Task /\ task[t] # NoTask
  BY LiveFacts DEF ClientInv, TypeOK, RoundGraph
<1>3. ArgsOwned'
  BY <1>1, <1>2 DEF ArgsOwned
<1>4. BlocksOwned'
  BY <1>1, <1>2 DEF BlocksOwned
<1>5. ObjsOwned'
  BY <1>1, <1>2 DEF ObjsOwned
<1>6. QED
  BY <1>1, <1>3, <1>4, <1>5, OwnedParts DEF Owned, ArgsOwned, BlocksOwned, ObjsOwned

\* OwnedParts of the next state.
LEMMA OwnedPartsNext ==
  ASSUME ArgsOwned', BlocksOwned', ObjsOwned', ~doubled'
  PROVE  Owned'
BY DEF Owned, ArgsOwned, BlocksOwned, ObjsOwned

\* A new object of the program, in a block that was free.
LEMMA OwnedMalloc == ASSUME ClientInv, MallocObj PROVE Owned'
<1>1. ArgsOwned /\ BlocksOwned /\ ObjsOwned /\ ~doubled
  BY OwnedParts DEF ClientInv
<1>2. /\ pc = "build" /\ Malloc \in Block /\ heap[Malloc] = Free
      /\ heap' = [heap EXCEPT ![Malloc] = [kind |-> "obj", val |-> round]]
      /\ UNCHANGED <<pc, doubled, task, want, graph, stored, step, running, todo, open>>
  BY MallocFree DEF MallocObj, program, tasks, threads
<1>3. ToSet(objs') = ToSet(objs) \cup {Malloc}
  BY <1>2, SeqFacts DEF MallocObj, ClientInv, TypeOK
<1>4. \A t \in Task : Live(t)' <=> Live(t)
  BY <1>2 DEF Live
<1>5. heap \in [Block -> Contents]
  BY DEF ClientInv, TypeOK
<1>6. heap'[Malloc].kind = "obj" /\ \A b \in Block : b # Malloc => heap'[b] = heap[b]
  BY <1>2, <1>5
<1>7. ArgsOwned'
  BY <1>1, <1>2, <1>4, <1>6, LiveFacts DEF ArgsOwned
<1>8. BlocksOwned'
  BY <1>1, <1>2, <1>3, <1>4, <1>6 DEF BlocksOwned
<1>9. ObjsOwned'
  <2>1. \A b \in ToSet(objs') : heap'[b].kind = "obj"
    BY <1>2, <1>3, <1>6, LiveFacts
  <2>2. pc' \notin {"idle", "end"}
    BY <1>2
  <2>3. ASSUME NEW t \in graph, want[t].arg.obj # NULL
        PROVE  ~stored /\ want[t].arg.obj \in ToSet(objs') /\ heap'[want[t].arg.obj] = want[t].obj
    <3>1. ~stored /\ want[t].arg.obj \in ToSet(objs) /\ heap[want[t].arg.obj] = want[t].obj
      BY <1>1, <2>3 DEF ObjsOwned
    <3>2. want[t].arg.obj \in Block /\ want[t].arg.obj # Malloc
      BY <1>2, <3>1, LiveFacts
    <3>3. QED
      BY <1>3, <1>6, <3>1, <3>2
  <2>4. QED
    BY <1>2, <2>1, <2>2, <2>3 DEF ObjsOwned
<1>10. QED
  BY <1>1, <1>2, <1>7, <1>8, <1>9, OwnedPartsNext

\* A new task, whose arguments are copied to a block that was free.
LEMMA OwnedGenerate ==
  ASSUME ClientInv, NEW k \in Kinds, NEW obj \in ToSet(objs) \cup {NULL},
         Generate(k[1], obj, k[2], k[3])
  PROVE  Owned'
<1>1. ArgsOwned /\ BlocksOwned /\ ObjsOwned /\ ~doubled
  BY OwnedParts DEF ClientInv
<1>2. Fresh \in Task /\ task[Fresh] = NoTask /\ want[Fresh] = NoTask
      /\ \E c \in CiTask, w \in Wanted : Made(c, w, obj)
  BY GenerateType
<1>3. PICK c \in CiTask, w \in Wanted : Made(c, w, obj)
  BY <1>2
<1>4. pc = "build" /\ ~stored
  BY DEF Generate, ClientInv, RoundGraph
<1>5. /\ task' = [task EXCEPT ![Fresh] = c] /\ want' = [want EXCEPT ![Fresh] = w]
      /\ w.arg.obj = obj /\ (obj # NULL => w.obj = heap[obj])
      /\ graph' = graph \cup {Fresh}
      /\ UNCHANGED <<pc, objs, doubled, stored, step, running, todo, open>>
  BY <1>3 DEF Made
<1>6. IF c.ci_args = NULL THEN heap' = heap
      ELSE /\ c.ci_args \in Block /\ heap[c.ci_args] = Free
           /\ heap' = [heap EXCEPT ![c.ci_args] = w.arg]
  BY <1>3 DEF Made
<1>7. /\ heap \in [Block -> Contents] /\ NULL \notin Block
      /\ task \in [Task -> CiTask \cup {NoTask}] /\ want \in [Task -> Wanted \cup {NoTask}]
  BY ClientAssumption DEF ClientInv, TypeOK, NULL
<1>8. \A t \in Task : Live(t) => t # Fresh
  BY <1>2, LiveFacts
<1>9. \A t \in Task : Live(t)' <=> Live(t) \/ t = Fresh
  BY <1>4, <1>5 DEF Live
<1>10. /\ task'[Fresh] = c /\ want'[Fresh] = w
       /\ \A t \in Task : t # Fresh => task'[t] = task[t] /\ want'[t] = want[t]
  BY <1>2, <1>5, <1>7
<1>11. /\ \A b \in Block : b # c.ci_args => heap'[b] = heap[b]
       /\ c.ci_args # NULL => c.ci_args \in Block /\ heap'[c.ci_args] = w.arg
       /\ c.ci_args # NULL => heap[c.ci_args] = Free
  BY <1>6, <1>7
<1>12. \A t \in Task : Live(t) => task[t].ci_args # c.ci_args \/ c.ci_args = NULL
  BY <1>11, LiveFacts
<1>13. ArgsOwned'
  <2>1. ASSUME NEW t \in Task, Live(t)', task'[t].ci_args # NULL
        PROVE  /\ heap'[task'[t].ci_args] = want'[t].arg
               /\ \A u \in Task : Live(u)' /\ task'[u].ci_args = task'[t].ci_args => u = t
    <3>1. CASE t = Fresh
      <4>1. task'[t] = c /\ want'[t] = w /\ c.ci_args # NULL
        BY <1>10, <2>1, <3>1
      <4>2. \A u \in Task : Live(u)' /\ task'[u].ci_args = c.ci_args => u = Fresh
        BY <1>8, <1>9, <1>10, <1>12, <4>1
      <4>3. QED
        BY <1>11, <3>1, <4>1, <4>2
    <3>2. CASE t # Fresh
      <4>1. task'[t] = task[t] /\ want'[t] = want[t] /\ Live(t)
        BY <1>9, <1>10, <2>1, <3>2
      <4>2. /\ task[t].ci_args \in Block /\ heap[task[t].ci_args] = want[t].arg
            /\ \A u \in Task : Live(u) /\ task[u].ci_args = task[t].ci_args => u = t
        BY <2>1, <4>1, LiveFacts
      <4>3. task[t].ci_args # c.ci_args
        BY <1>7, <1>12, <4>1, <4>2
      <4>4. heap'[task[t].ci_args] = want[t].arg
        BY <1>11, <4>2, <4>3
      <4>5. \A u \in Task : Live(u)' /\ task'[u].ci_args = task[t].ci_args => u = t
        BY <1>9, <1>10, <4>2, <4>3
      <4>6. QED
        BY <4>1, <4>4, <4>5
    <3>3. QED
      BY <3>1, <3>2
  <2>2. QED
    BY <2>1 DEF ArgsOwned
<1>14. BlocksOwned'
  <2>1. ASSUME NEW b \in Block, heap'[b] # Free
        PROVE  b \in ToSet(objs) \/ \E t \in Task : Live(t)' /\ task'[t].ci_args = b
    <3>1. CASE b = c.ci_args
      BY <1>2, <1>9, <1>10, <3>1
    <3>2. CASE b # c.ci_args
      <4>1. b \in ToSet(objs) \/ \E t \in Task : Live(t) /\ task[t].ci_args = b
        BY <1>1, <1>11, <2>1, <3>2 DEF BlocksOwned
      <4>2. QED
        BY <1>8, <1>9, <1>10, <4>1
    <3>3. QED
      BY <3>1, <3>2
  <2>2. QED
    BY <1>5, <2>1 DEF BlocksOwned
<1>15. ObjsOwned'
  <2>1. \A b \in ToSet(objs) : b \in Block /\ b # c.ci_args
    <3>1. \A b \in ToSet(objs) : b \in Block /\ heap[b] # Free
      BY LiveFacts
    <3>2. QED
      BY <1>7, <1>11, <3>1
  <2>2. \A b \in ToSet(objs') : heap'[b].kind = "obj"
    BY <1>1, <1>5, <1>11, <2>1 DEF ObjsOwned
  <2>3. ASSUME NEW t \in graph', want'[t].arg.obj # NULL
        PROVE  /\ ~stored' /\ want'[t].arg.obj \in ToSet(objs')
               /\ heap'[want'[t].arg.obj] = want'[t].obj
    <3>1. CASE t = Fresh
      BY <1>4, <1>5, <1>10, <1>11, <2>1, <2>3, <3>1
    <3>2. CASE t # Fresh
      <4>1. t \in graph /\ t \in Task /\ want'[t] = want[t]
        BY <1>5, <1>10, <2>3, <3>2 DEF ClientInv, TypeOK
      <4>2. want[t].arg.obj \in ToSet(objs) /\ heap[want[t].arg.obj] = want[t].obj
        BY <1>1, <2>3, <4>1 DEF ObjsOwned
      <4>3. QED
        BY <1>4, <1>5, <1>11, <2>1, <4>1, <4>2
    <3>3. QED
      BY <3>1, <3>2
  <2>4. pc' \notin {"idle", "end"}
    BY <1>4, <1>5
  <2>5. QED
    BY <2>2, <2>3, <2>4 DEF ObjsOwned
<1>16. QED
  BY <1>1, <1>5, <1>13, <1>14, <1>15, OwnedPartsNext

\* A task deleted by its thread gives its arguments back, and nothing but them.
LEMMA OwnedDelete == ASSUME ClientInv, NEW th \in Thread, Delete(th) PROVE Owned'
<1> DEFINE t == running[th]
           fr == Freed(t)
<1>1. ArgsOwned /\ BlocksOwned /\ ObjsOwned /\ ~doubled
  BY OwnedParts DEF ClientInv
<1>2. /\ step[th] = "delete" /\ FreeAll(fr) /\ running' = [running EXCEPT ![th] = NoTask]
      /\ UNCHANGED <<pc, objs, task, want, graph, stored, todo, open>>
  BY DEF Delete, program, tasks
<1>3. /\ running \in [Thread -> Task \cup {NoTask}] /\ NoTask \notin Task /\ todo \subseteq Task
      /\ heap \in [Block -> Contents] /\ NULL \notin Block
  BY ClientAssumption, NoTaskAssumption DEF ClientInv, TypeOK, NULL
<1>4. /\ t \in Task /\ task[t] # NoTask
      /\ IF t \in graph THEN pc = "exec" \/ stored ELSE ~task[t].reused
      /\ ~task[t].reused => t \notin todo /\ \A o \in Thread : running[o] = t => o = th
  <2>1. t # NoTask
    BY <1>2 DEF ClientInv, Working
  <2>2. t \in Task
    BY <1>3, <2>1
  <2>3. QED
    BY <2>1, <2>2 DEF ClientInv, Working
<1>5. t \in graph => task[t].reused = stored
  BY DEF ClientInv, RoundGraph
<1>6. /\ (stored => pc \in {"exec", "idle"}) /\ stored \in BOOLEAN
      /\ pc \in {"idle", "end"} => objs = <<>>
      /\ pc \in {"build", "built"} => ~stored
  BY DEF ClientInv, RoundGraph, TypeOK, Owned
<1>7. task[t].reused \in BOOLEAN
  BY <1>4, LiveFacts DEF CiTask
<1>8. Live(t)
  BY <1>4 DEF Live
<1>9. /\ task[t].reused => fr = {}
      /\ ~task[t].reused => fr = {task[t].ci_args} \ {NULL}
  BY DEF Freed
<1>10. /\ \A b \in Block : heap'[b] = IF b \in fr THEN Free ELSE heap[b]
       /\ doubled' = (doubled \/ \E b \in fr : heap[b] = Free)
  BY <1>2 DEF FreeAll
<1> HIDE DEF fr, t
<1>11. \A u \in Task : Live(u)' => Live(u)
  BY <1>2, <1>3 DEF Live, t
<1>12. \A u \in Task : u # t /\ Live(u) => Live(u)'
  BY <1>2, <1>3 DEF Live, t
<1>13. ASSUME ~task[t].reused, NEW u \in Task, u = t PROVE ~Live(u)'
  <2>1. u \notin todo' /\ \A o \in Thread : running'[o] # u
    BY <1>2, <1>3, <1>4, <1>13 DEF t
  <2>2. u \in graph => ~stored /\ pc \notin {"build", "built"}
    BY <1>4, <1>5, <1>6, <1>13
  <2>3. QED
    BY <1>2, <2>1, <2>2 DEF Live
<1>14. \A b \in fr : /\ b \in Block /\ heap[b] # Free /\ b \notin ToSet(objs)
                     /\ \A u \in Task : Live(u) /\ task[u].ci_args = b => u = t
  <2>1. \A b \in fr : b = task[t].ci_args /\ b # NULL
    BY <1>7, <1>9
  <2>2. task[t].ci_args # NULL =>
          /\ task[t].ci_args \in Block /\ heap[task[t].ci_args] # Free
          /\ heap[task[t].ci_args].kind = "arg"
          /\ \A u \in Task : Live(u) /\ task[u].ci_args = task[t].ci_args => u = t
    BY <1>4, <1>8, LiveFacts
  <2>3. \A b \in ToSet(objs) : heap[b].kind = "obj"
    BY <1>1 DEF ObjsOwned
  <2>4. QED
    BY <2>1, <2>2, <2>3
<1>15. ArgsOwned'
  <2>1. ASSUME NEW u \in Task, Live(u)', task[u].ci_args # NULL
        PROVE  /\ heap'[task[u].ci_args] = want[u].arg
               /\ \A v \in Task : Live(v)' /\ task[v].ci_args = task[u].ci_args => v = u
    <3>1. /\ Live(u) /\ task[u].ci_args \in Block /\ heap[task[u].ci_args] = want[u].arg
          /\ \A v \in Task : Live(v) /\ task[v].ci_args = task[u].ci_args => v = u
      BY <1>11, <2>1, LiveFacts
    <3>2. task[u].ci_args \notin fr
      BY <1>7, <1>9, <1>13, <1>14, <2>1, <3>1
    <3>3. QED
      BY <1>10, <1>11, <3>1, <3>2
  <2>2. QED
    BY <1>2, <2>1 DEF ArgsOwned
<1>16. BlocksOwned'
  <2>1. ASSUME NEW b \in Block, heap'[b] # Free
        PROVE  b \in ToSet(objs) \/ \E u \in Task : Live(u)' /\ task[u].ci_args = b
    <3>1. b \notin fr /\ heap[b] # Free
      BY <1>10, <2>1
    <3>2. CASE b \in ToSet(objs)
      BY <3>2
    <3>3. ASSUME NEW u \in Task, Live(u), task[u].ci_args = b PROVE Live(u)'
      <4>1. CASE u # t
        BY <1>12, <3>3, <4>1
      <4>2. CASE u = t
        <5>1. task[t].reused
          BY <1>3, <1>7, <1>9, <3>1, <3>3, <4>2
        <5>2. u \in graph /\ stored
          BY <1>4, <1>5, <4>2, <5>1
        <5>3. QED
          BY <1>2, <5>2 DEF Live
      <4>3. QED
        BY <4>1, <4>2
    <3>4. QED
      BY <1>1, <3>1, <3>2, <3>3 DEF BlocksOwned
  <2>2. QED
    BY <1>2, <2>1 DEF BlocksOwned
<1>17. ObjsOwned'
  <2>1. \A b \in ToSet(objs) : heap'[b] = heap[b]
    BY <1>10, <1>14, LiveFacts
  <2>2. QED
    BY <1>1, <1>2, <2>1 DEF ObjsOwned
<1>18. ~doubled'
  BY <1>1, <1>10, <1>14
<1>19. QED
  BY <1>15, <1>16, <1>17, <1>18, OwnedPartsNext

\* The wait is over: the objects are given back, and no task points to one any more.
LEMMA OwnedWaited == ASSUME ClientInv, Waited PROVE Owned'
<1>1. ArgsOwned /\ BlocksOwned /\ ObjsOwned /\ ~doubled
  BY OwnedParts DEF ClientInv
<1>2. /\ pc = "exec" /\ pc' = "idle" /\ open = {} /\ FreeAll(ToSet(objs)) /\ objs' = <<>>
      /\ graph' = IF stored THEN graph ELSE {}
      /\ UNCHANGED <<task, want, stored, todo, open, step, running>>
  BY DEF Waited, threads, ObjsCleared
<1>3. /\ \A b \in Block : heap'[b] = IF b \in ToSet(objs) THEN Free ELSE heap[b]
      /\ doubled' = (doubled \/ \E b \in ToSet(objs) : heap[b] = Free)
  BY <1>2 DEF FreeAll
<1>4. \A u \in Task : Live(u)' <=> Live(u)
  BY <1>2 DEF Live
<1>5. ToSet(objs') = {}
  BY <1>2 DEF ToSet
<1>6. ArgsOwned'
  <2>1. ASSUME NEW u \in Task, Live(u), task[u].ci_args # NULL
        PROVE  heap'[task[u].ci_args] = want[u].arg
    <3>1. /\ task[u].ci_args \in Block /\ heap[task[u].ci_args] = want[u].arg
          /\ want[u].arg.kind = "arg"
      BY <2>1, LiveFacts
    <3>2. task[u].ci_args \notin ToSet(objs)
      BY <3>1, LiveFacts
    <3>3. QED
      BY <1>3, <3>1, <3>2
  <2>2. QED
    BY <1>1, <1>2, <1>4, <2>1 DEF ArgsOwned
<1>7. BlocksOwned'
  BY <1>1, <1>2, <1>3, <1>4 DEF BlocksOwned
<1>8. ObjsOwned'
  BY <1>1, <1>2, <1>5 DEF ObjsOwned
<1>9. ~doubled'
  BY <1>1, <1>3, LiveFacts
<1>10. QED
  BY <1>6, <1>7, <1>8, <1>9, OwnedPartsNext

\* Shutdown gives back the arguments of the stored tasks: nothing is left in use.
LEMMA OwnedShutdown ==
  ASSUME ClientInv, Shutdown
  PROVE  Owned' /\ \A b \in Block : heap'[b] = Free
<1> DEFINE fr == IF stored THEN {task[t].ci_args : t \in graph} \ {NULL} ELSE {}
<1>1. ArgsOwned /\ BlocksOwned /\ ObjsOwned /\ ~doubled
  BY OwnedParts DEF ClientInv
<1>2. /\ pc = "idle" /\ (\A th \in Thread : step[th] = "none") /\ FreeAll(fr)
      /\ graph' = {} /\ stored' = FALSE /\ pc' = "end"
      /\ UNCHANGED <<objs, task, want, todo, running>>
  BY DEF Shutdown, threads
<1>3. /\ todo = {} /\ objs = <<>> /\ (\A th \in Thread : running[th] = NoTask)
      /\ graph \subseteq Task
  BY <1>2 DEF ClientInv, RoundGraph, Owned, Working, TypeOK
<1>4. ToSet(objs) = {}
  BY <1>3 DEF ToSet
<1>5. \A u \in Task : Live(u) <=> u \in graph /\ stored
  BY <1>2, <1>3, NoTaskAssumption DEF Live
<1>6. \A u \in Task : ~Live(u)'
  BY <1>2, <1>3, NoTaskAssumption DEF Live
<1>7. NULL \notin Block
  BY ClientAssumption DEF NULL
<1>8. \A b \in fr : b \in Block /\ heap[b] # Free
  <2>1. ASSUME NEW b \in fr PROVE b \in Block /\ heap[b] # Free
    <3>1. PICK t \in graph : stored /\ b = task[t].ci_args /\ b # NULL
      OBVIOUS
    <3>2. t \in Task /\ Live(t)
      BY <1>3, <1>5, <3>1
    <3>3. QED
      BY <3>1, <3>2, LiveFacts
  <2>2. QED
    BY <2>1
<1>9. /\ \A b \in Block : heap'[b] = IF b \in fr THEN Free ELSE heap[b]
      /\ doubled' = (doubled \/ \E b \in fr : heap[b] = Free)
  BY <1>2 DEF FreeAll
<1>10. \A b \in Block : heap'[b] = Free
  <2>1. ASSUME NEW b \in Block, heap[b] # Free PROVE b \in fr
    <3>1. PICK t \in Task : Live(t) /\ task[t].ci_args = b
      BY <1>1, <1>4, <2>1 DEF BlocksOwned
    <3>2. t \in graph /\ stored /\ b # NULL
      BY <1>5, <1>7, <3>1
    <3>3. QED
      BY <3>1, <3>2
  <2>2. QED
    BY <1>9, <2>1
<1>11. ArgsOwned' /\ BlocksOwned'
  BY <1>6, <1>10 DEF ArgsOwned, BlocksOwned
<1>12. ObjsOwned'
  BY <1>2, <1>3, <1>4 DEF ObjsOwned
<1>13. ~doubled'
  BY <1>1, <1>8, <1>9
<1>14. QED
  BY <1>10, <1>11, <1>12, <1>13, OwnedPartsNext

LEMMA OwnedStep == ClientInv /\ [Next]_vars => Owned'
<1> SUFFICES ASSUME ClientInv, [Next]_vars PROVE Owned'
  OBVIOUS
<1>1. ArgsOwned /\ BlocksOwned /\ ObjsOwned /\ ~doubled
  BY OwnedParts DEF ClientInv
<1>2. ASSUME UNCHANGED <<heap, objs, doubled, task, want, graph, stored>>,
             \A t \in Task : Live(t)' <=> Live(t),
             pc' \in {"idle", "end"} => pc \in {"idle", "end"}
      PROVE  Owned'
  BY <1>1, <1>2, OwnedKept DEF ObjsOwned
<1>3. ASSUME NEW a \in Accesses, Push(a[1], a[2], a[3]) PROVE Owned'
  <2>1. UNCHANGED <<pc, heap, objs, doubled, task, want, graph, stored, running, todo>>
    BY <1>3 DEF Push, memory, tasks, threads
  <2>2. \A t \in Task : Live(t)' <=> Live(t)
    BY <2>1 DEF Live
  <2>3. QED
    BY <1>2, <2>1, <2>2
<1>4. ASSUME SetType("STENCIL_TASK") \/ \E seg \in 0 .. Segs - 1 : AffinityFromArraytile(seg)
      PROVE  Owned'
  <2> DEFINE m == cur_task[Main]
  <2>1. PICK c \in CiTask, w \in Wanted : Edited(c, w)
    BY <1>4, EditType
  <2>2. /\ task' = [task EXCEPT ![m] = c] /\ want' = [want EXCEPT ![m] = w]
        /\ c.ci_args = task[m].ci_args /\ w.arg = want[m].arg /\ w.obj = want[m].obj
        /\ pc = "build"
        /\ UNCHANGED <<pc, objs, heap, doubled, graph, stored, running, todo>>
    BY <2>1 DEF Edited
  <2> HIDE DEF m
  <2>3. \A t \in Task : Live(t)' <=> Live(t)
    BY <2>2 DEF Live
  <2>4. \A t \in Task : /\ task'[t].ci_args = task[t].ci_args
                        /\ want'[t].arg = want[t].arg /\ want'[t].obj = want[t].obj
    BY <2>2 DEF ClientInv, TypeOK
  <2>5. \A t \in graph : want[t].arg.obj # NULL => ~stored'
    BY <1>1, <2>2 DEF ObjsOwned
  <2>6. QED
    BY <2>2, <2>3, <2>4, <2>5, OwnedKept
<1>5. ASSUME BeginSplit PROVE Owned'
  <2>1. /\ pc = "idle" /\ ~stored /\ pc' = "build"
        /\ UNCHANGED <<heap, objs, doubled, task, want, graph, stored, running, todo>>
    BY <1>5 DEF BeginSplit, memory, tasks, threads
  <2>2. graph = {}
    BY <2>1 DEF ClientInv, RoundGraph
  <2>3. \A t \in Task : Live(t)' <=> Live(t)
    BY <2>1, <2>2 DEF Live
  <2>4. QED
    BY <1>2, <2>1, <2>3
<1>6. ASSUME EndSplit PROVE Owned'
  <2>1. /\ pc = "build" /\ pc' = "built"
        /\ UNCHANGED <<heap, objs, doubled, task, want, graph, stored, running, todo>>
    BY <1>6 DEF EndSplit, memory, tasks, threads
  <2>2. \A t \in Task : Live(t)' <=> Live(t)
    BY <2>1 DEF Live
  <2>3. QED
    BY <1>2, <2>1, <2>2
<1>7. ASSUME NEW store \in BOOLEAN, Spawn(store) PROVE Owned'
  <2>1. /\ pc = "built" \/ (pc = "idle" /\ stored /\ store)
        /\ (store => objs = <<>> \/ stored)
        /\ pc' = "exec" /\ stored' = store /\ todo' = graph
        /\ UNCHANGED <<heap, objs, doubled, want, graph, running>>
    BY <1>7 DEF Spawn, memory
  <2>2. /\ (stored => pc \in {"exec", "idle"}) /\ todo = {} /\ graph \subseteq Task
    BY <2>1 DEF ClientInv, RoundGraph, TypeOK
  <2>3. \A t \in Task : Live(t)' <=> Live(t)
    BY <2>1, <2>2 DEF Live
  <2>4. \A t \in Task : task'[t].ci_args = task[t].ci_args
    BY <1>7, SpawnTasks
  <2>5. \A t \in graph : want[t].arg.obj # NULL => ~stored'
    <3>1. objs = <<>> => ToSet(objs) = {}
      BY DEF ToSet
    <3>2. QED
      BY <1>1, <2>1, <2>2, <3>1 DEF ObjsOwned
  <2>6. QED
    BY <2>1, <2>3, <2>4, <2>5, OwnedKept
<1>8. ASSUME NEW th \in Thread, NEW t \in todo, Begin(th, t) PROVE Owned'
  <2>1. /\ pc = "exec" /\ step[th] = "none" /\ todo' = todo \ {t}
        /\ running' = [running EXCEPT ![th] = t]
        /\ UNCHANGED <<pc, heap, objs, doubled, task, want, graph, stored>>
    BY <1>8 DEF Begin, program, memory, tasks
  <2>2. running[th] = NoTask /\ running \in [Thread -> Task \cup {NoTask}] /\ NoTask \notin Task
    BY <2>1, NoTaskAssumption DEF ClientInv, Working, TypeOK
  <2>3. running'[th] = t /\ \A o \in Thread : o # th => running'[o] = running[o]
    BY <2>1, <2>2
  <2>4. ASSUME NEW u \in Task PROVE Live(u)' <=> Live(u)
    <3>1. (u \in todo' \/ \E o \in Thread : running'[o] = u)
            <=> (u \in todo \/ \E o \in Thread : running[o] = u)
      BY <2>1, <2>2, <2>3
    <3>2. QED
      BY <2>1, <3>1 DEF Live
  <2>5. QED
    BY <1>2, <2>1, <2>4
<1>9. ASSUME NEW th \in Thread, SetCurrent(th) \/ Body(th) \/ Release(th) PROVE Owned'
  <2>1. UNCHANGED <<pc, heap, objs, doubled, task, want, graph, stored, running, todo>>
    BY <1>9 DEF SetCurrent, Body, Release, program, memory, tasks
  <2>2. \A t \in Task : Live(t)' <=> Live(t)
    BY <2>1 DEF Live
  <2>3. QED
    BY <1>2, <2>1, <2>2
<1>10. ASSUME UNCHANGED vars PROVE Owned'
  <2>1. UNCHANGED <<pc, heap, objs, doubled, task, want, graph, stored, running, todo>>
    BY <1>10 DEF vars, program, memory, tasks, threads
  <2>2. \A t \in Task : Live(t)' <=> Live(t)
    BY <2>1 DEF Live
  <2>3. QED
    BY <1>2, <2>1, <2>2
<1>11. QED
  BY <1>3, <1>4, <1>5, <1>6, <1>7, <1>8, <1>9, <1>10, OwnedMalloc, OwnedGenerate, OwnedDelete,
     OwnedWaited, OwnedShutdown DEF Next, Build, Execute

-----------------------------------------------------------------------------
\* However many tasks, rounds and threads there are, each block has one owner, each
\* task what was declared for it, and the workers that main leaves behind hold only
\* what is theirs.
THEOREM ClientIsInvariant == Spec => []ClientInv
<1>1. ClientInv /\ [Next]_vars => ClientInv'
  BY TypeStep, GeneratedStep, DescribedStep, RoundGraphStep, WorkingStep, OwnedStep,
     OwnAccessesStep DEF ClientInv
<1>2. QED
  BY InitInv, <1>1, PTL DEF Spec

\* Every task is registered with the accesses that were declared for it.
THEOREM AccessesAreOwn == Spec => []OwnAccesses
<1>1. ClientInv => OwnAccesses
  BY DEF ClientInv
<1>2. QED
  BY <1>1, ClientIsInvariant, PTL

\* A body runs with its own arguments, in every round, and with its own object.
THEOREM ArgumentsIntact == Spec => []ArgsIntact
<1>1. ASSUME ClientInv PROVE ArgsIntact
  <2>1. SUFFICES ASSUME NEW th \in Thread, step[th] = "func", task[running[th]].ci_args # NULL
                 PROVE  LET t == running[th]
                            b == task[t].ci_args
                        IN  /\ heap[b] = want[t].arg
                            /\ want[t].arg.obj # NULL => heap[want[t].arg.obj] = want[t].obj
    BY DEF ArgsIntact
  <2>2. Busy(th)
    BY <2>1 DEF Busy
  <2>3. pc = "exec" /\ running[th] \in open /\ open \subseteq graph /\ graph \subseteq Task
    BY <1>1, <2>2 DEF ClientInv, Working, RoundGraph, TypeOK
  <2>4. Live(running[th])
    BY DEF Live
  <2>5. heap[task[running[th]].ci_args] = want[running[th]].arg
    BY <1>1, <2>1, <2>3, <2>4 DEF ClientInv, Owned
  <2>6. want[running[th]].arg.obj # NULL =>
          heap[want[running[th]].arg.obj] = want[running[th]].obj
    BY <1>1, <2>3 DEF ClientInv, Owned
  <2>7. QED
    BY <2>5, <2>6
<1>2. QED
  BY <1>1, ClientIsInvariant, PTL

\* When the runtime is shut down every block is free, and none was freed twice: nothing
\* is in use once Shutdown has been called, and after it nothing is allocated.
THEOREM MemoryIsReturned == Spec => []MemoryReturned
<1>1. Init => MemoryReturned
  BY DEF Init, MemoryReturned
<1>2. ASSUME ClientInv, ClientInv', MemoryReturned, [Next]_vars PROVE MemoryReturned'
  <2>1. ~doubled'
    BY <1>2 DEF ClientInv, Owned
  <2>2. SUFFICES ASSUME pc' = "end" PROVE \A b \in Block : heap'[b] = Free
    BY <2>1 DEF MemoryReturned
  <2>3. CASE Shutdown
    BY <1>2, <2>3, OwnedShutdown
  <2>4. ASSUME pc = "end", heap' = heap PROVE \A b \in Block : heap'[b] = Free
    BY <1>2, <2>4 DEF MemoryReturned
  <2>5. ASSUME NEW th \in Thread, Delete(th) PROVE \A b \in Block : heap'[b] = Free
    <3>1. pc = "end"
      BY <2>2, <2>5 DEF Delete, program
    <3>2. \A b \in Block : heap'[b] = IF b \in Freed(running[th]) THEN Free ELSE heap[b]
      BY <2>5 DEF Delete, FreeAll
    <3>3. QED
      BY <1>2, <3>1, <3>2 DEF MemoryReturned
  <2>6. ASSUME NEW th \in Thread,
               (\E t \in todo : Begin(th, t)) \/ SetCurrent(th) \/ Body(th) \/ Release(th)
        PROVE  pc' = pc /\ heap' = heap
    BY <2>6 DEF Begin, SetCurrent, Body, Release, program, memory
  <2>7. ~Build
    BY <2>2 DEF Build, Push, MallocObj, Generate, SetType, AffinityFromArraytile, BeginSplit,
                EndSplit, program
  <2>8. ~Waited /\ \A store \in BOOLEAN : ~Spawn(store)
    BY <2>2 DEF Waited, Spawn
  <2>9. UNCHANGED vars => pc' = pc /\ heap' = heap
    BY DEF vars, program, memory
  <2>10. QED
    BY <1>2, <2>2, <2>3, <2>4, <2>5, <2>6, <2>7, <2>8, <2>9 DEF Next, Execute
<1>3. QED
  <2>1. ClientInv /\ ClientInv' /\ MemoryReturned /\ [Next]_vars => MemoryReturned'
    BY <1>2
  <2>2. QED
    BY <1>1, <2>1, ClientIsInvariant, PTL DEF Spec

\* Every affinity is the number of a thread, and so of a queue that exists: for every
\* positive number of threads, also those for which the code divides the tiles among no
\* nodes or reads behind task_count.
THEOREM AffinitiesInRange == Spec => []AffinityInRange
<1>1. ASSUME ClientInv PROVE AffinityInRange
  BY <1>1 DEF ClientInv, TypeOK, CiTask, AffinityInRange
<1>2. QED
  BY <1>1, ClientIsInvariant, PTL

-----------------------------------------------------------------------------
(***************************************************************************)
(* The memory pool.  The blocks in use, the one that is cut and the free   *)
(* ones are always those that malloc gave, in its order (Listed): that is  *)
(* why a round that asks for the same is served alike.                     *)
(***************************************************************************)

\* Induction, for the set of the numbers that have a property.
LEMMA Induction ==
  ASSUME NEW T, 0 \in T, \A k \in Nat : k \in T => k + 1 \in T
  PROVE  \A k \in Nat : k \in T
<1>1. SUFFICES ASSUME Nat \ T # {} PROVE FALSE
  OBVIOUS
<1>2. PICK k \in Nat \ T : \A y \in Nat \ T : ~ (<<y, k>> \in OpToRel(<, Nat))
  BY <1>1, NatLessThanWellFounded, WFMin
<1>3. \A y \in Nat : y < k => y \in T
  BY <1>2 DEF OpToRel
<1>4. k \in Nat /\ k \notin T /\ k # 0
  BY <1>2
<1>5. k - 1 \in Nat /\ k - 1 < k /\ (k - 1) + 1 = k
  BY <1>4
<1>6. (k - 1) + 1 \in T
  BY <1>3, <1>5
<1>7. QED
  BY <1>4, <1>5, <1>6

\* What is computed step by step from a first value is defined: values that are right
\* up to k give values that are right up to k + 1.
LEMMA Iteration ==
  ASSUME NEW S, NEW first \in S, NEW Step \in [Nat -> [S -> S]]
  PROVE  \E f \in [Nat -> S] :
           f = [k \in Nat |-> IF k = 0 THEN first ELSE Step[k][f[k - 1]]]
<1> DEFINE Right(f, k) == f[k] = IF k = 0 THEN first ELSE Step[k][f[k - 1]]
           T == {m \in Nat : \E f \in [Nat -> S] : \A k \in 0 .. m : Right(f, k)}
<1>1. 0 \in T
  <2> DEFINE f == [k \in Nat |-> first]
  <2>1. f \in [Nat -> S] /\ \A k \in 0 .. 0 : Right(f, k)
    OBVIOUS
  <2> HIDE DEF f
  <2>2. QED
    BY <2>1
<1>2. ASSUME NEW m \in Nat, m \in T PROVE m + 1 \in T
  <2>1. PICK f \in [Nat -> S] : \A k \in 0 .. m : Right(f, k)
    BY <1>2
  <2> DEFINE g == [f EXCEPT ![m + 1] = Step[m + 1][f[m]]]
  <2>2. Step[m + 1][f[m]] \in S
    <3>1. m + 1 \in Nat /\ f[m] \in S
      BY <2>1
    <3>2. QED
      BY <3>1
  <2>3. g \in [Nat -> S] /\ g[m + 1] = Step[m + 1][f[m]] /\ \A k \in 0 .. m : g[k] = f[k]
    BY <2>1, <2>2
  <2> HIDE DEF g
  <2>4. ASSUME NEW k \in 0 .. m + 1 PROVE Right(g, k)
    <3>1. CASE k = m + 1
      <4>1. k # 0 /\ k - 1 = m /\ m \in 0 .. m
        BY <3>1
      <4>2. QED
        BY <2>3, <3>1, <4>1
    <3>2. CASE k \in 0 .. m
      <4>1. k # 0 => k - 1 \in 0 .. m
        BY <3>2
      <4>2. QED
        BY <2>1, <2>3, <3>2, <4>1
    <3>3. QED
      BY <3>1, <3>2
  <2>5. QED
    BY <2>3, <2>4
<1> HIDE DEF T
<1>3. \A m \in Nat : m \in T
  BY <1>1, <1>2, Induction
<1> DEFINE Upto(m) == CHOOSE f \in [Nat -> S] : \A k \in 0 .. m : Right(f, k)
<1>4. \A m \in Nat : Upto(m) \in [Nat -> S] /\ \A k \in 0 .. m : Right(Upto(m), k)
  BY <1>3 DEF T
\* Two of them agree where both are right.
<1>5. ASSUME NEW m \in Nat, NEW k \in 0 .. m
      PROVE  Upto(m)[k] = Upto(k)[k]
  <2> DEFINE U == {j \in Nat : j <= k => Upto(m)[j] = Upto(k)[j]}
  <2> HIDE DEF Upto
  <2>1. 0 \in U
    BY <1>4
  <2>2. ASSUME NEW j \in Nat, j \in U PROVE j + 1 \in U
    <3>1. SUFFICES ASSUME j + 1 <= k PROVE Upto(m)[j + 1] = Upto(k)[j + 1]
      BY DEF U
    <3>2. j + 1 \in 0 .. m /\ j + 1 \in 0 .. k /\ k \in Nat /\ j + 1 # 0 /\ (j + 1) - 1 = j
      BY <3>1
    <3>3. Right(Upto(m), j + 1) /\ Right(Upto(k), j + 1)
      BY <1>4, <3>2
    <3>4. Upto(m)[j] = Upto(k)[j]
      BY <2>2, <3>1
    <3>5. QED
      BY <3>2, <3>3, <3>4
  <2>3. k \in Nat
    OBVIOUS
  <2> HIDE DEF U
  <2>4. k \in U
    BY <2>1, <2>2, <2>3, Induction
  <2>5. QED
    BY <2>3, <2>4 DEF U
<1> HIDE DEF Upto
<1> DEFINE h == [k \in Nat |-> Upto(k)[k]]
<1>6. h \in [Nat -> S]
  BY <1>4
<1>7. ASSUME NEW k \in Nat PROVE Right(h, k)
  <2>1. Right(Upto(k), k)
    BY <1>4
  <2>2. k # 0 => h[k - 1] = Upto(k)[k - 1]
    BY <1>5
  <2>3. QED
    BY <2>1, <2>2
<1>8. h = [k \in Nat |-> IF k = 0 THEN first ELSE Step[k][h[k - 1]]]
  BY <1>7
<1> HIDE DEF h
<1>9. QED
  BY <1>6, <1>8

\* What is computed step by step is defined also when a step is only known to be right
\* where the steps before it lead.
LEMMA GuidedIteration ==
  ASSUME NEW Good, NEW first \in Good[0], NEW Step,
         \A k \in Nat : \A x \in Good[k] : Step[k + 1][x] \in Good[k + 1]
  PROVE  \E f : f = [k \in Nat |-> IF k = 0 THEN first ELSE Step[k][f[k - 1]]]
<1> DEFINE S == UNION {Good[k] : k \in Nat}
           Clipped == [k \in Nat |-> [x \in S |-> IF Step[k][x] \in S THEN Step[k][x] ELSE x]]
<1>1. first \in S /\ Clipped \in [Nat -> [S -> S]]
  OBVIOUS
<1>2. \A k \in Nat : \A x \in Good[k] : x \in S
  OBVIOUS
<1>3. \A k \in Nat : \A x \in Good[k] : k + 1 \in Nat /\ Clipped[k + 1][x] = Step[k + 1][x]
  <2>1. SUFFICES ASSUME NEW k \in Nat, NEW x \in Good[k]
                 PROVE  k + 1 \in Nat /\ Clipped[k + 1][x] = Step[k + 1][x]
    OBVIOUS
  <2>2. k + 1 \in Nat /\ x \in S
    BY <1>2
  <2>3. Step[k + 1][x] \in S
    BY <1>2, <2>2
  <2>4. QED
    BY <2>2, <2>3
<1> HIDE DEF S, Clipped
<1>4. PICK f \in [Nat -> S] : f = [k \in Nat |-> IF k = 0 THEN first ELSE Clipped[k][f[k - 1]]]
  BY <1>1, Iteration
<1> DEFINE T == {k \in Nat : f[k] \in Good[k]}
<1>5. 0 \in T
  BY <1>4
<1>6. \A k \in Nat : k + 1 \in Nat /\ k + 1 # 0 /\ (k + 1) - 1 = k
  OBVIOUS
<1>7. \A k \in Nat : k \in T => k + 1 \in T
  <2>1. \A k \in Nat : f[k + 1] = Clipped[k + 1][f[k]]
    BY <1>4, <1>6
  <2>2. QED
    BY <1>3, <1>6, <2>1
<1> HIDE DEF T
<1>8. \A k \in Nat : f[k] \in Good[k]
  BY <1>5, <1>7, Induction DEF T
<1>9. ASSUME NEW k \in Nat, k # 0 PROVE Clipped[k][f[k - 1]] = Step[k][f[k - 1]]
  <2>1. k - 1 \in Nat /\ (k - 1) + 1 = k
    BY <1>9
  <2>2. Clipped[(k - 1) + 1][f[k - 1]] = Step[(k - 1) + 1][f[k - 1]]
    BY <1>3, <1>8, <2>1
  <2>3. QED
    BY <2>1, <2>2
<1>10. f = [k \in Nat |-> IF k = 0 THEN first ELSE Step[k][f[k - 1]]]
  BY <1>4, <1>9
<1>11. QED
  BY <1>10

Request == [align : Aligns, size : Sizes]
Gift == [at : Nat, size : Sizes, align : Aligns]

Pool == [address : Addresses, mallocs : Nat, self1 : Nat, EndBlock : Nat,
         FreeMemBlock : Seq(Nat), AllocatedMemBlock : Seq(Nat), got : Seq(Gift)]

\* The blocks in use, the one that is cut first, then the free ones are those that malloc
\* gave, in its order.
Listed(p) ==
  /\ p \in Pool
  /\ p.mallocs = Len(p.AllocatedMemBlock) + Len(p.FreeMemBlock) /\ p.mallocs <= Requests + 1
  /\ \A i \in 1 .. Len(p.AllocatedMemBlock) :
       p.AllocatedMemBlock[i] = p.address[Len(p.AllocatedMemBlock) + 1 - i]
  /\ \A i \in 1 .. Len(p.FreeMemBlock) :
       p.FreeMemBlock[i] = p.address[Len(p.AllocatedMemBlock) + i]

LEMMA AddressesAligned ==
  ASSUME NEW a \in Addresses, NEW i \in 1 .. Requests + 1
  PROVE  a[i] \in Nat /\ a[i] % 16 = 0
BY PoolAssumption

LEMMA NextBlockListed ==
  ASSUME NEW p, Listed(p), Len(p.AllocatedMemBlock) <= Requests
  PROVE  LET q == NextBlock(p)
             n == Len(p.AllocatedMemBlock)
         IN  /\ Listed(q)
             /\ Len(q.AllocatedMemBlock) = n + 1
             /\ q.address = p.address /\ q.got = p.got
             /\ q.self1 = p.address[n + 1] /\ q.EndBlock = p.address[n + 1] + UNITSIZE
             /\ q.mallocs = IF p.mallocs = n THEN n + 1 ELSE p.mallocs
<1> DEFINE q == NextBlock(p)
           A == p.AllocatedMemBlock
           F == p.FreeMemBlock
           n == Len(A)
           b == p.address[n + 1]
<1>1. /\ p \in Pool /\ n \in Nat /\ A \in Seq(Nat) /\ F \in Seq(Nat) /\ Len(F) \in Nat
      /\ p.mallocs = n + Len(F) /\ p.mallocs \in Nat
      /\ p.address \in Addresses
      /\ UNITSIZE \in Nat /\ Requests \in Nat
  BY PoolAssumption DEF Listed, Pool
<1>2. n + 1 \in 1 .. Requests + 1 /\ b \in Nat
  BY <1>1, AddressesAligned
<1>3. F = <<>> <=> Len(F) = 0
  BY <1>1
<1>4. F = <<>> => p.mallocs = n /\ AllocBlock(p) = b
  BY <1>1, <1>3 DEF AllocBlock
<1>5. F # <<>> => p.mallocs # n /\ Head(F) = b
  <2>1. SUFFICES ASSUME F # <<>> PROVE p.mallocs # n /\ Head(F) = b
    OBVIOUS
  <2>2. 1 \in 1 .. Len(F) /\ Head(F) = F[1]
    BY <1>1, <1>3, <2>1
  <2>3. F[1] = b
    BY <2>2 DEF Listed
  <2> HIDE DEF F, b, n
  <2>4. p.mallocs # n
    BY <1>1, <2>2
  <2>5. QED
    BY <2>2, <2>3, <2>4
<1>6. q = [p EXCEPT !.mallocs = IF F = <<>> THEN @ + 1 ELSE @,
                    !.FreeMemBlock = IF F = <<>> THEN @ ELSE Tail(@),
                    !.AllocatedMemBlock = <<b>> \o @,
                    !.self1 = b,
                    !.EndBlock = b + UNITSIZE]
  BY <1>4, <1>5 DEF NextBlock
<1>7. /\ q.mallocs = IF F = <<>> THEN p.mallocs + 1 ELSE p.mallocs
      /\ q.FreeMemBlock = IF F = <<>> THEN F ELSE Tail(F)
      /\ q.AllocatedMemBlock = <<b>> \o A
      /\ q.self1 = b /\ q.EndBlock = b + UNITSIZE
      /\ q.address = p.address /\ q.got = p.got
  <2> HIDE DEF q, b
  <2>1. QED
    BY <1>1, <1>6 DEF Pool
<1>8. <<b>> \o A \in Seq(Nat) /\ Len(<<b>> \o A) = n + 1
  BY <1>1, <1>2
<1>9. \A i \in 1 .. n + 1 : (<<b>> \o A)[i] = IF i = 1 THEN b ELSE A[i - 1]
  BY <1>1, <1>2
<1>10. F # <<>> => /\ Tail(F) \in Seq(Nat) /\ Len(Tail(F)) = Len(F) - 1
                   /\ \A i \in 1 .. Len(F) - 1 : Tail(F)[i] = F[i + 1]
  BY <1>1
<1>11. q \in Pool
  <2>1. /\ q.mallocs \in Nat /\ q.FreeMemBlock \in Seq(Nat)
        /\ q.AllocatedMemBlock \in Seq(Nat) /\ q.self1 \in Nat /\ q.EndBlock \in Nat
    <3> HIDE DEF q, b, A, F
    <3>1. p.mallocs + 1 \in Nat /\ b + UNITSIZE \in Nat
      BY <1>1, <1>2
    <3>2. QED
      BY <1>1, <1>2, <1>7, <1>8, <1>10, <3>1
  <2> HIDE DEF q, b
  <2>2. q = [p EXCEPT !.mallocs = q.mallocs, !.FreeMemBlock = q.FreeMemBlock,
                      !.AllocatedMemBlock = q.AllocatedMemBlock, !.self1 = q.self1,
                      !.EndBlock = q.EndBlock]
    BY <1>1, <1>6, <1>7 DEF Pool
  <2>3. QED
    BY <1>1, <2>1, <2>2 DEF Pool
<1> DEFINE m == Len(q.FreeMemBlock)
<1>12. /\ Len(q.AllocatedMemBlock) = n + 1
       /\ m = IF F = <<>> THEN 0 ELSE Len(F) - 1
       /\ q.mallocs = IF F = <<>> THEN n + 1 ELSE p.mallocs
  <2> HIDE DEF q, b, A, F
  <2>1. Len(q.AllocatedMemBlock) = n + 1
    BY <1>7, <1>8
  <2>2. F = <<>> => m = 0 /\ q.mallocs = n + 1
    BY <1>1, <1>3, <1>7
  <2>3. F # <<>> => m = Len(F) - 1 /\ q.mallocs = p.mallocs
    BY <1>7, <1>10
  <2>4. QED
    BY <2>1, <2>2, <2>3
<1> HIDE DEF q, b, A, F
<1>13. q.mallocs = (n + 1) + m /\ q.mallocs <= Requests + 1
  <2>1. p.mallocs <= Requests + 1
    BY DEF Listed
  <2> HIDE DEF n, m
  <2>2. CASE F = <<>>
    BY <1>1, <1>2, <1>12, <2>2
  <2>3. CASE F # <<>>
    BY <1>1, <1>3, <1>12, <2>1, <2>3
  <2>4. QED
    BY <2>2, <2>3
<1>14. \A i \in 1 .. n + 1 : q.AllocatedMemBlock[i] = q.address[(n + 1) + 1 - i]
  <2>1. SUFFICES ASSUME NEW i \in 1 .. n + 1
                 PROVE  q.AllocatedMemBlock[i] = q.address[(n + 1) + 1 - i]
    OBVIOUS
  <2>2. CASE i = 1
    <3>1. (n + 1) + 1 - i = n + 1
      BY <1>1, <2>2
    <3>2. q.AllocatedMemBlock[i] = b
      BY <1>7, <1>9, <2>2
    <3>3. QED
      BY <1>7, <3>1, <3>2 DEF b
  <2>3. CASE i # 1
    <3>1. i - 1 \in 1 .. n /\ (n + 1) + 1 - i = n + 1 - (i - 1)
      BY <1>1, <2>3
    <3>2. q.AllocatedMemBlock[i] = A[i - 1]
      BY <1>7, <1>9, <2>3
    <3>3. A[i - 1] = p.address[n + 1 - (i - 1)]
      BY <3>1 DEF Listed, A
    <3>4. QED
      BY <1>7, <3>1, <3>2, <3>3
  <2>4. QED
    BY <2>2, <2>3
<1>15. \A i \in 1 .. m : q.FreeMemBlock[i] = q.address[(n + 1) + i]
  <2>1. SUFFICES ASSUME NEW i \in 1 .. m
                 PROVE  q.FreeMemBlock[i] = q.address[(n + 1) + i]
    OBVIOUS
  <2>2. F # <<>> /\ i \in 1 .. Len(F) - 1
    BY <1>12
  <2>3. q.FreeMemBlock[i] = F[i + 1]
    BY <1>7, <1>10, <2>2
  <2>4. i + 1 \in 1 .. Len(F) /\ n + (i + 1) = (n + 1) + i
    BY <1>1, <2>2
  <2>5. F[i + 1] = p.address[n + (i + 1)]
    BY <2>4 DEF Listed, F, A
  <2>6. QED
    BY <1>7, <2>3, <2>4, <2>5
<1>16. Listed(q)
  BY <1>11, <1>12, <1>13, <1>14, <1>15 DEF Listed
<1>17. p.mallocs = n <=> F = <<>>
  BY <1>1, <1>3
<1>18. QED
  BY <1>7, <1>12, <1>16, <1>17 DEF q, b, A

LEMMA Aligned ==
  ASSUME NEW p \in Nat, NEW a \in {4, 8, 16, 32}
  PROVE  AlignUp(p, a) \in Nat /\ p <= AlignUp(p, a) /\ AlignUp(p, a) % a = 0
<1>1. CASE a = 4
  BY <1>1 DEF AlignUp
<1>2. CASE a = 8
  BY <1>2 DEF AlignUp
<1>3. CASE a = 16
  BY <1>3 DEF AlignUp
<1>4. CASE a = 32
  BY <1>4 DEF AlignUp
<1>5. QED
  BY <1>1, <1>2, <1>3, <1>4

\* In a block that is aligned to 16 bytes, alignments up to 16 are a matter of the offset.
LEMMA OffsetAligned ==
  ASSUME NEW b \in Nat, b % 16 = 0, NEW o \in Nat, NEW a \in {4, 8, 16}
  PROVE  b % a = 0 /\ AlignUp(b + o, a) = b + AlignUp(o, a)
<1>1. CASE a = 4
  BY <1>1 DEF AlignUp
<1>2. CASE a = 8
  BY <1>2 DEF AlignUp
<1>3. CASE a = 16
  BY <1>3 DEF AlignUp
<1>4. QED
  BY <1>1, <1>2, <1>3

Cut(p) == p.address[Len(p.AllocatedMemBlock)]

\* x lies in a block, and before what is left of the one that is cut.
Within(p, x) ==
  /\ \E c \in 1 .. Len(p.AllocatedMemBlock) :
       /\ p.address[c] <= x.at /\ x.at + x.size <= p.address[c] + UNITSIZE
       /\ c = Len(p.AllocatedMemBlock) => x.at + x.size <= p.self1
  /\ x.align <= 16 => x.at % x.align = 0

Apart(x, y) == x.at + x.size <= y.at \/ y.at + y.size <= x.at

\* A pool after k requests.
Serving(p, k) ==
  /\ Listed(p)
  /\ Len(p.AllocatedMemBlock) \in 1 .. k + 1
  /\ p.EndBlock = Cut(p) + UNITSIZE
  /\ Cut(p) <= p.self1 /\ p.self1 <= p.EndBlock
  /\ \A i \in 1 .. Len(p.got) : Within(p, p.got[i])
  /\ \A i, j \in 1 .. Len(p.got) : i < j => Apart(p.got[i], p.got[j])

Fitting(p, r) == p.EndBlock - AlignUp(p.self1, r.align) >= r.size

LEMMA ServingTypes ==
  ASSUME NEW k \in 0 .. Requests, NEW p, Serving(p, k)
  PROVE  /\ p \in Pool /\ p.address \in Addresses /\ p.mallocs \in Nat
         /\ Len(p.AllocatedMemBlock) \in 1 .. Requests + 1
         /\ Cut(p) \in Nat /\ Cut(p) % 16 = 0
         /\ p.self1 \in Nat /\ p.EndBlock \in Nat /\ p.got \in Seq(Gift)
         /\ UNITSIZE \in Nat /\ Requests \in Nat
<1>1. p \in Pool /\ UNITSIZE \in Nat /\ Requests \in Nat
  BY PoolAssumption DEF Serving, Listed
<1>2. p.address \in Addresses /\ p.mallocs \in Nat /\ p.self1 \in Nat /\ p.EndBlock \in Nat
      /\ p.got \in Seq(Gift)
  BY <1>1 DEF Pool
<1>3. Len(p.AllocatedMemBlock) \in 1 .. Requests + 1
  BY <1>1 DEF Serving
<1>4. Cut(p) \in Nat /\ Cut(p) % 16 = 0
  BY <1>2, <1>3, AddressesAligned DEF Cut
<1>5. QED
  BY <1>1, <1>2, <1>3, <1>4

LEMMA RequestTypes ==
  ASSUME NEW r \in Request
  PROVE  /\ r.align \in {4, 8, 16, 32} /\ r.align \in Aligns
         /\ r.size \in Sizes /\ r.size \in Nat /\ r.size <= UNITSIZE
<1>1. r.align \in Aligns /\ r.size \in Sizes
  BY DEF Request
<1>2. Aligns \subseteq {4, 8, 16, 32} /\ Sizes \subseteq 0 .. UNITSIZE /\ UNITSIZE \in Nat
  BY PoolAssumption
<1>3. r.align \in {4, 8, 16, 32}
  BY <1>1, <1>2
<1>4. r.size \in 0 .. UNITSIZE
  BY <1>1, <1>2
<1>5. r.size \in Nat /\ r.size <= UNITSIZE
  BY <1>2, <1>4
<1>6. QED
  BY <1>1, <1>3, <1>5

\* Where a request is cut from.
LEMMA AllocFields ==
  ASSUME NEW k \in 0 .. Requests - 1, NEW p, Serving(p, k), NEW r \in Request
  PROVE  LET q == Alloc(p, r)
             n == Len(p.AllocatedMemBlock)
             at == IF Fitting(p, r) THEN AlignUp(p.self1, r.align) ELSE p.address[n + 1]
         IN  /\ Listed(q) /\ q.address = p.address
             /\ Len(q.AllocatedMemBlock) = IF Fitting(p, r) THEN n ELSE n + 1
             /\ q.self1 = at + r.size
             /\ q.EndBlock = Cut(q) + UNITSIZE
             /\ q.got = Append(p.got, [at |-> at, size |-> r.size, align |-> r.align])
             /\ q.mallocs = IF ~ Fitting(p, r) /\ p.mallocs = n THEN n + 1 ELSE p.mallocs
             /\ at \in Nat
<1> DEFINE up == AlignUp(p.self1, r.align)
           aligned == [p EXCEPT !.self1 = up]
           cut == IF Fitting(p, r) THEN aligned ELSE NextBlock(aligned)
           gift == [at |-> cut.self1, size |-> r.size, align |-> r.align]
           q == [cut EXCEPT !.self1 = @ + r.size, !.got = Append(@, gift)]
           n == Len(p.AllocatedMemBlock)
           at == IF Fitting(p, r) THEN up ELSE p.address[n + 1]
<1>1. /\ k \in 0 .. Requests /\ Requests \in Nat
      /\ r.align \in {4, 8, 16, 32} /\ r.align \in Aligns /\ r.size \in Sizes /\ r.size \in Nat
  BY RequestTypes, PoolAssumption
<1>2. /\ p \in Pool /\ p.address \in Addresses /\ p.mallocs \in Nat
      /\ n \in 1 .. Requests + 1
      /\ p.self1 \in Nat /\ p.EndBlock \in Nat /\ p.got \in Seq(Gift)
  BY <1>1, ServingTypes
<1>3. n <= Requests /\ n \in Nat
  BY <1>1, <1>2 DEF Serving
<1>4. up \in Nat
  BY <1>1, <1>2, Aligned
<1> HIDE DEF up
<1>5. /\ aligned \in Pool /\ aligned.self1 = up /\ aligned.EndBlock = p.EndBlock
      /\ aligned.address = p.address /\ aligned.mallocs = p.mallocs /\ aligned.got = p.got
      /\ aligned.AllocatedMemBlock = p.AllocatedMemBlock
      /\ aligned.FreeMemBlock = p.FreeMemBlock
  BY <1>2, <1>4 DEF Pool
<1> HIDE DEF aligned
<1>6. Listed(aligned)
  BY <1>5 DEF Serving, Listed
<1>7. Fits(aligned, r.size) <=> Fitting(p, r)
  BY <1>5 DEF Fits, Fitting, up
<1>8. Alloc(p, r) = q
  BY <1>7 DEF Alloc, aligned, up
<1> HIDE DEF n
<1>9. /\ Listed(cut) /\ cut.address = p.address /\ cut.got = p.got
      /\ Len(cut.AllocatedMemBlock) = IF Fitting(p, r) THEN n ELSE n + 1
      /\ cut.self1 = at
      /\ cut.EndBlock = Cut(cut) + UNITSIZE
      /\ cut.mallocs = IF ~ Fitting(p, r) /\ p.mallocs = n THEN n + 1 ELSE p.mallocs
  <2>1. CASE Fitting(p, r)
    <3>1. p.EndBlock = p.address[n] + UNITSIZE
      BY DEF Serving, Cut, n
    <3>2. QED
      BY <1>5, <1>6, <2>1, <3>1 DEF Cut, n
  <2>2. CASE ~ Fitting(p, r)
    <3> DEFINE c == NextBlock(aligned)
    <3>1. cut = c
      BY <2>2
    <3>2. Len(aligned.AllocatedMemBlock) = n
      BY <1>5 DEF n
    <3>3. /\ Listed(c)
          /\ Len(c.AllocatedMemBlock) = n + 1
          /\ c.address = aligned.address /\ c.got = aligned.got
          /\ c.self1 = aligned.address[n + 1] /\ c.EndBlock = aligned.address[n + 1] + UNITSIZE
          /\ c.mallocs = IF aligned.mallocs = n THEN n + 1 ELSE aligned.mallocs
      BY <1>3, <1>6, <3>2, NextBlockListed
    <3> HIDE DEF c, cut
    <3>4. QED
      BY <1>5, <2>2, <3>1, <3>3 DEF Cut
  <2>3. QED
    BY <2>1, <2>2
<1>10. at \in Nat
  <2>1. n + 1 \in 1 .. Requests + 1
    BY <1>1, <1>3
  <2>2. QED
    BY <1>2, <1>4, <2>1, AddressesAligned
<1>11. cut \in Pool
  BY <1>9 DEF Listed
<1> HIDE DEF cut, at
<1>12. gift \in Gift /\ gift = [at |-> at, size |-> r.size, align |-> r.align]
  BY <1>1, <1>9, <1>10 DEF Gift
<1> HIDE DEF gift
<1>13. Append(p.got, gift) \in Seq(Gift) /\ at + r.size \in Nat
  BY <1>1, <1>2, <1>10, <1>12
<1>14. /\ q \in Pool /\ q.self1 = at + r.size /\ q.got = Append(p.got, gift)
       /\ q.EndBlock = cut.EndBlock /\ q.address = cut.address /\ q.mallocs = cut.mallocs
       /\ q.AllocatedMemBlock = cut.AllocatedMemBlock
       /\ q.FreeMemBlock = cut.FreeMemBlock
  BY <1>9, <1>11, <1>13 DEF Pool
<1> HIDE DEF q
<1>15. Listed(q)
  BY <1>9, <1>14 DEF Listed
<1>16. q.EndBlock = Cut(q) + UNITSIZE
  BY <1>9, <1>14 DEF Cut
<1>17. QED
  BY <1>8, <1>9, <1>10, <1>12, <1>14, <1>15, <1>16 DEF at, n, up

\* One more request.
LEMMA AllocServes ==
  ASSUME NEW k \in 0 .. Requests - 1, NEW p, Serving(p, k), NEW r \in Request
  PROVE  Serving(Alloc(p, r), k + 1)
<1> DEFINE q == Alloc(p, r)
           n == Len(p.AllocatedMemBlock)
           m == Len(q.AllocatedMemBlock)
           at == IF Fitting(p, r) THEN AlignUp(p.self1, r.align) ELSE p.address[n + 1]
           gift == [at |-> at, size |-> r.size, align |-> r.align]
           g == Len(p.got)
<1>1. /\ Listed(q) /\ q.address = p.address
      /\ m = IF Fitting(p, r) THEN n ELSE n + 1
      /\ q.self1 = at + r.size
      /\ q.EndBlock = Cut(q) + UNITSIZE
      /\ q.got = Append(p.got, gift)
      /\ at \in Nat
  BY AllocFields
<1> HIDE DEF q
<1>2. /\ k \in Nat /\ k \in 0 .. Requests
      /\ r.align \in {4, 8, 16, 32} /\ r.size \in Nat /\ r.size <= UNITSIZE
      /\ Requests \in Nat /\ UNITSIZE \in Nat
  BY RequestTypes, PoolAssumption
<1>3. /\ p.address \in Addresses /\ n \in 1 .. k + 1 /\ n + 1 \in 1 .. Requests + 1
      /\ p.self1 \in Nat /\ p.EndBlock \in Nat /\ p.got \in Seq(Gift)
      /\ p.EndBlock = Cut(p) + UNITSIZE
      /\ Cut(p) <= p.self1 /\ p.self1 <= p.EndBlock
      /\ \A i \in 1 .. g : Within(p, p.got[i])
      /\ \A i, j \in 1 .. g : i < j => Apart(p.got[i], p.got[j])
  <2>1. n \in 1 .. k + 1
    BY DEF Serving
  <2>2. n + 1 \in 1 .. Requests + 1
    BY <1>2, <2>1
  <2>3. QED
    BY <1>2, <2>1, <2>2, ServingTypes DEF Serving
<1>4. m \in 1 .. (k + 1) + 1 /\ m \in 1 .. Requests + 1 /\ n \in 1 .. Requests + 1 /\ n <= m
  BY <1>1, <1>2, <1>3
<1>5. \A c \in 1 .. Requests + 1 : p.address[c] \in Nat /\ p.address[c] % 16 = 0
  BY <1>3, AddressesAligned
<1>6. \A c, d \in 1 .. Requests + 1 :
        c # d => \/ p.address[c] + UNITSIZE <= p.address[d]
                 \/ p.address[d] + UNITSIZE <= p.address[c]
  BY <1>3, PoolAssumption
<1>7. Cut(p) = p.address[n] /\ Cut(q) = p.address[m]
  BY <1>1 DEF Cut
<1> DEFINE up == AlignUp(p.self1, r.align)
<1>8. up \in Nat /\ p.self1 <= up /\ up % r.align = 0
  BY <1>2, <1>3, Aligned
<1>9. Fitting(p, r) <=> up + r.size <= p.EndBlock
  BY <1>2, <1>3, <1>8 DEF Fitting
<1> HIDE DEF up
<1>10. /\ at = IF Fitting(p, r) THEN up ELSE p.address[n + 1]
       /\ p.address[m] <= at /\ at + r.size <= p.address[m] + UNITSIZE
       /\ Fitting(p, r) => p.self1 <= at
  <2>1. at = IF Fitting(p, r) THEN up ELSE p.address[n + 1]
    BY DEF up
  <2> HIDE DEF at, n, m
  <2>2. p.address[n] \in Nat /\ p.address[n + 1] \in Nat
    BY <1>3, <1>4, <1>5
  <2>3. CASE Fitting(p, r)
    BY <1>1, <1>2, <1>3, <1>7, <1>8, <1>9, <2>1, <2>2, <2>3
  <2>4. CASE ~ Fitting(p, r)
    BY <1>1, <1>2, <2>1, <2>2, <2>4
  <2>5. QED
    BY <2>1, <2>3, <2>4
<1>11. r.align <= 16 => at % r.align = 0
  <2>1. SUFFICES ASSUME r.align \in {4, 8, 16} PROVE at % r.align = 0
    BY <1>2
  <2>2. p.address[n + 1] % r.align = 0
    <3>1. p.address[n + 1] \in Nat /\ p.address[n + 1] % 16 = 0
      BY <1>3, <1>5
    <3>2. 0 \in Nat
      OBVIOUS
    <3>3. QED
      BY <2>1, <3>1, <3>2, OffsetAligned
  <2> HIDE DEF at
  <2>3. QED
    BY <1>8, <1>10, <2>2
<1> HIDE DEF at, n, m
<1>12. gift.at = at /\ gift.size = r.size /\ gift.align = r.align
  OBVIOUS
<1> HIDE DEF gift
<1>13. /\ Len(q.got) = g + 1 /\ g \in Nat /\ q.got[g + 1] = gift
       /\ \A i \in 1 .. g : q.got[i] = p.got[i]
  BY <1>1, <1>3
<1>14. q.self1 \in Nat /\ Cut(q) <= q.self1 /\ q.self1 <= q.EndBlock
  <2>1. p.address[m] \in Nat
    BY <1>4, <1>5
  <2>2. QED
    BY <1>1, <1>2, <1>7, <1>10, <2>1
<1>15. Within(q, gift)
  <2>1. /\ m \in 1 .. Len(q.AllocatedMemBlock)
        /\ q.address[m] <= gift.at /\ gift.at + gift.size <= q.address[m] + UNITSIZE
        /\ gift.at + gift.size <= q.self1
    BY <1>1, <1>2, <1>4, <1>10, <1>12 DEF m
  <2>2. QED
    BY <1>11, <1>12, <2>1 DEF Within
<1>16. ASSUME NEW i \in 1 .. g
       PROVE  Within(q, p.got[i]) /\ Apart(p.got[i], gift)
  <2> DEFINE x == p.got[i]
  <2>1. x \in Gift
    BY <1>3
  <2>2. x.at \in Nat /\ x.size \in Nat
    <3>1. Sizes \subseteq 0 .. UNITSIZE
      BY PoolAssumption
    <3>2. x.at \in Nat /\ x.size \in Sizes
      BY <2>1 DEF Gift
    <3>3. x.size \in 0 .. UNITSIZE
      BY <3>1, <3>2
    <3>4. QED
      BY <1>2, <3>2, <3>3
  <2>3. Within(p, x)
    BY <1>3
  <2> HIDE DEF x
  <2>4. PICK c \in 1 .. n :
          /\ p.address[c] <= x.at /\ x.at + x.size <= p.address[c] + UNITSIZE
          /\ c = n => x.at + x.size <= p.self1
    BY <2>3 DEF Within, n
  <2>5. c \in 1 .. m /\ c \in 1 .. Requests + 1 /\ p.address[c] \in Nat /\ p.address[m] \in Nat
    <3>1. c \in 1 .. m /\ c \in 1 .. Requests + 1
      BY <1>2, <1>4, <2>4
    <3>2. QED
      BY <1>4, <1>5, <3>1
  <2>6. c = m => Fitting(p, r) /\ c = n
    BY <1>1, <1>3, <2>4
  <2>7. c = m => x.at + x.size <= at
    BY <1>1, <1>3, <1>10, <2>2, <2>4, <2>6
  <2>8. c = m => x.at + x.size <= q.self1
    BY <1>1, <1>2, <2>2, <2>7
  <2>9. Within(q, x)
    <3>1. c \in 1 .. Len(q.AllocatedMemBlock) /\ (c = Len(q.AllocatedMemBlock) => c = m)
      BY <2>5 DEF m
    <3>2. x.align <= 16 => x.at % x.align = 0
      BY <2>3 DEF Within
    <3>3. q.address[c] <= x.at /\ x.at + x.size <= q.address[c] + UNITSIZE
      BY <1>1, <2>4
    <3>4. QED
      BY <2>8, <3>1, <3>2, <3>3 DEF Within
  <2>10. x.at + x.size <= at \/ at + r.size <= x.at
    <3>1. CASE c = m
      BY <2>7, <3>1
    <3>2. CASE c # m
      <4>1. \/ p.address[c] + UNITSIZE <= p.address[m]
            \/ p.address[m] + UNITSIZE <= p.address[c]
        BY <1>4, <1>6, <2>5, <3>2
      <4> DEFINE e == x.at + x.size
                 f == at + r.size
      <4>0. at \in Nat /\ UNITSIZE \in Nat
        BY <1>1, <1>2
      <4>2. e \in Nat /\ f \in Nat
        BY <1>1, <1>2, <2>2
      <4>3. p.address[c] <= x.at /\ e <= p.address[c] + UNITSIZE
        BY <2>4
      <4>4. p.address[m] <= at /\ f <= p.address[m] + UNITSIZE
        BY <1>10
      <4> HIDE DEF e, f
      <4>5. e <= at \/ f <= x.at
        BY <2>2, <2>5, <4>0, <4>1, <4>2, <4>3, <4>4
      <4>6. QED
        BY <4>5 DEF e, f
    <3>3. QED
      BY <3>1, <3>2
  <2>11. QED
    BY <1>12, <2>9, <2>10 DEF Apart, x
<1>17. \A i \in 1 .. g + 1 : Within(q, q.got[i])
  <2>1. \A i \in 1 .. g + 1 : i = g + 1 \/ i \in 1 .. g
    BY <1>13
  <2>2. QED
    BY <1>13, <1>15, <1>16, <2>1
<1>18. \A i, j \in 1 .. g + 1 : i < j => Apart(q.got[i], q.got[j])
  <2>1. SUFFICES ASSUME NEW i \in 1 .. g + 1, NEW j \in 1 .. g + 1, i < j
                 PROVE  Apart(q.got[i], q.got[j])
    OBVIOUS
  <2>2. i \in 1 .. g /\ (j = g + 1 \/ j \in 1 .. g)
    BY <1>13, <2>1
  <2>3. QED
    BY <1>3, <1>13, <1>16, <2>1, <2>2
<1>19. QED
  BY <1>1, <1>4, <1>13, <1>14, <1>17, <1>18 DEF Serving, m, q

LEMMA InitServes ==
  ASSUME NEW a \in Addresses
  PROVE  /\ Serving(InitPool(a), 0)
         /\ InitPool(a).mallocs = 1 /\ InitPool(a).address = a
         /\ Len(InitPool(a).AllocatedMemBlock) = 1 /\ InitPool(a).self1 = a[1]
         /\ InitPool(a).got = <<>>
<1> DEFINE p == [address |-> a, mallocs |-> 0, self1 |-> 0, EndBlock |-> 0,
                 FreeMemBlock |-> <<>>, AllocatedMemBlock |-> <<>>, got |-> <<>>]
           q == InitPool(a)
<1>1. Requests \in Nat /\ UNITSIZE \in Nat
  BY PoolAssumption
<1>2. /\ p.address = a /\ p.mallocs = 0 /\ p.FreeMemBlock = <<>> /\ p.AllocatedMemBlock = <<>>
      /\ p.got = <<>> /\ p \in Pool
  BY DEF Pool
<1>3. q = NextBlock(p)
  BY DEF InitPool
<1> HIDE DEF p, q
<1> DEFINE n == Len(p.AllocatedMemBlock)
<1>4. Listed(p) /\ n = 0 /\ n <= Requests /\ n + 1 = 1
  BY <1>1, <1>2 DEF Listed
<1>5. /\ Listed(q) /\ Len(q.AllocatedMemBlock) = n + 1
      /\ q.address = p.address /\ q.got = p.got
      /\ q.self1 = p.address[n + 1] /\ q.EndBlock = p.address[n + 1] + UNITSIZE
      /\ q.mallocs = IF p.mallocs = n THEN n + 1 ELSE p.mallocs
  BY <1>1, <1>3, <1>4, NextBlockListed
<1> HIDE DEF n
<1>6. 1 \in 1 .. Requests + 1
  BY <1>1
<1>7. a[1] \in Nat /\ Len(q.got) = 0
  BY <1>2, <1>5, <1>6, AddressesAligned
<1>8. Serving(q, 0)
  BY <1>1, <1>2, <1>4, <1>5, <1>7 DEF Serving, Cut
<1>9. QED
  BY <1>2, <1>4, <1>5, <1>8 DEF q

LEMMA ReInitialServes ==
  ASSUME NEW k \in 0 .. Requests, NEW p, Serving(p, k)
  PROVE  LET q == ReInitial(p)
         IN  /\ Serving(q, 0)
             /\ q.mallocs = p.mallocs /\ q.address = p.address
             /\ Len(q.AllocatedMemBlock) = 1 /\ q.self1 = p.address[1] /\ q.got = <<>>
<1> DEFINE A == p.AllocatedMemBlock
           F == p.FreeMemBlock
           n == Len(A)
           G == Reverse(A) \o F
           vacant == [p EXCEPT !.FreeMemBlock = Reverse(A) \o @, !.AllocatedMemBlock = <<>>, !.got = <<>>]
           q == ReInitial(p)
<1>1. /\ Requests \in Nat /\ UNITSIZE \in Nat
      /\ p \in Pool /\ p.address \in Addresses /\ p.mallocs \in Nat /\ n \in Nat \ {0}
  BY ServingTypes
<1>2. A \in Seq(Nat) /\ F \in Seq(Nat) /\ Len(F) \in Nat
  BY <1>1 DEF Pool
<1>3. /\ p.mallocs = n + Len(F) /\ p.mallocs <= Requests + 1
      /\ \A i \in 1 .. n : A[i] = p.address[n + 1 - i]
      /\ \A i \in 1 .. Len(F) : F[i] = p.address[n + i]
  BY DEF Serving, Listed
<1>4. /\ Reverse(A) \in Seq(Nat) /\ Len(Reverse(A)) = n
      /\ \A i \in 1 .. n : Reverse(A)[i] = A[n + 1 - i]
  <2>1. Reverse(A) = [i \in 1 .. n |-> A[(n - i) + 1]]
    BY DEF Reverse
  <2>2. \A i \in 1 .. n : (n - i) + 1 = n + 1 - i /\ n + 1 - i \in 1 .. n
    BY <1>1
  <2>3. \A i \in 1 .. n : A[n + 1 - i] \in Nat
    BY <1>2, <2>2
  <2> HIDE DEF A, n
  <2>4. n \in Nat
    BY <1>1
  <2>5. QED
    BY <2>1, <2>2, <2>3, <2>4
<1>5. \A i \in 1 .. n : Reverse(A)[i] = p.address[i]
  <2>1. SUFFICES ASSUME NEW i \in 1 .. n PROVE Reverse(A)[i] = p.address[i]
    OBVIOUS
  <2>2. n + 1 - i \in 1 .. n /\ n + 1 - (n + 1 - i) = i
    BY <1>1
  <2> HIDE DEF A, n
  <2>3. QED
    BY <1>3, <1>4, <2>2
<1> HIDE DEF A, n, F
<1>6. /\ G \in Seq(Nat) /\ Len(G) = p.mallocs
      /\ \A i \in 1 .. p.mallocs : G[i] = p.address[i]
  <2> DEFINE R == Reverse(A)
  <2>1. R \in Seq(Nat) /\ Len(R) = n
    BY <1>4
  <2>2. \A i \in 1 .. n : R[i] = p.address[i]
    BY <1>5
  <2> HIDE DEF R
  <2>3. R \o F \in Seq(Nat) /\ Len(R \o F) = n + Len(F)
    BY <1>2, <2>1, ConcatProperties
  <2>4. \A i \in 1 .. n + Len(F) : (R \o F)[i] = IF i <= n THEN R[i] ELSE F[i - n]
    BY <1>2, <2>1, ConcatProperties
  <2>5. ASSUME NEW i \in 1 .. n + Len(F) PROVE (R \o F)[i] = p.address[i]
    <3>1. CASE i <= n
      <4>1. i \in 1 .. n
        BY <1>1, <1>2, <3>1
      <4>2. QED
        BY <2>2, <2>4, <3>1, <4>1
    <3>2. CASE ~ (i <= n)
      <4>1. i - n \in 1 .. Len(F) /\ n + (i - n) = i
        BY <1>1, <1>2, <2>5, <3>2
      <4>2. QED
        BY <1>3, <2>4, <2>5, <3>2, <4>1
    <3>3. QED
      BY <3>1, <3>2
  <2>6. QED
    BY <1>3, <2>3, <2>5 DEF R
<1>7. ReInitial(p) = NextBlock(vacant)
  BY DEF ReInitial, A, F
<1> HIDE DEF G
<1>8. /\ vacant \in Pool /\ vacant.address = p.address /\ vacant.mallocs = p.mallocs
      /\ vacant.FreeMemBlock = G /\ vacant.AllocatedMemBlock = <<>> /\ vacant.got = <<>>
  <2>1. vacant = [p EXCEPT !.FreeMemBlock = G, !.AllocatedMemBlock = <<>>, !.got = <<>>]
    BY DEF G, F
  <2> HIDE DEF vacant
  <2>2. <<>> \in Seq(Nat) /\ <<>> \in Seq(Gift)
    OBVIOUS
  <2> DEFINE e == <<>>
  <2>3. e \in Seq(Nat) /\ e \in Seq(Gift)
    BY <2>2
  <2>4. vacant = [p EXCEPT !.FreeMemBlock = G, !.AllocatedMemBlock = e, !.got = e]
    BY <2>1
  <2> HIDE DEF e
  <2>5. vacant \in Pool
    BY <1>1, <1>6, <2>3, <2>4 DEF Pool
  <2>6. /\ vacant.address = p.address /\ vacant.mallocs = p.mallocs
        /\ vacant.FreeMemBlock = G /\ vacant.AllocatedMemBlock = e /\ vacant.got = e
    BY <1>1, <2>4 DEF Pool
  <2>7. QED
    BY <2>5, <2>6 DEF e
<1> HIDE DEF vacant, q
<1> DEFINE v == Len(vacant.AllocatedMemBlock)
<1>9. Listed(vacant) /\ v = 0 /\ v <= Requests /\ v + 1 = 1
  <2>1. Len(vacant.AllocatedMemBlock) = 0
    BY <1>8
  <2>2. \A i \in 1 .. p.mallocs : 0 + i = i
    BY <1>1
  <2>3. vacant.mallocs = 0 + Len(vacant.FreeMemBlock)
    BY <1>1, <1>6, <1>8
  <2>4. QED
    BY <1>1, <1>3, <1>6, <1>8, <2>1, <2>2, <2>3 DEF Listed
<1>10. /\ Listed(q) /\ Len(q.AllocatedMemBlock) = v + 1
       /\ q.address = vacant.address /\ q.got = vacant.got
       /\ q.self1 = vacant.address[v + 1] /\ q.EndBlock = vacant.address[v + 1] + UNITSIZE
       /\ q.mallocs = IF vacant.mallocs = v THEN v + 1 ELSE vacant.mallocs
  BY <1>7, <1>9, NextBlockListed DEF q
<1> HIDE DEF v
<1>11. 1 \in 1 .. Requests + 1 /\ p.mallocs # 0
  BY <1>1, <1>2, <1>3
<1>12. p.address[1] \in Nat /\ Len(q.got) = 0
  BY <1>1, <1>8, <1>10, <1>11, AddressesAligned
<1>13. Serving(q, 0)
  BY <1>1, <1>8, <1>9, <1>10, <1>11, <1>12 DEF Serving, Cut
<1>14. QED
  BY <1>8, <1>9, <1>10, <1>11, <1>13 DEF q

\* Up to Requests requests are served, one after the other.
LEMMA Serves ==
  ASSUME NEW first, Serving(first, 0), NEW n \in 0 .. Requests,
         NEW requests \in [1 .. n -> Request]
  PROVE  LET S == Served(first, requests)
         IN  /\ S[0] = first
             /\ \A k \in 0 .. n - 1 : S[k + 1] = Alloc(S[k], requests[k + 1])
             /\ \A k \in 0 .. n : Serving(S[k], k)
             /\ Serve(first, requests) = S[n]
<1> DEFINE next(k, x) == Alloc(x, requests[k])
           Good == [k \in Nat |-> {x \in Pool : Serving(x, IF k <= n THEN k ELSE n)}]
           Step == [k \in Nat |-> [x \in Pool |-> IF k <= n THEN next(k, x) ELSE x]]
           After(f) == [k \in 0 .. n |-> IF k = 0 THEN first ELSE next(k, f[k - 1])]
<1>1. n \in Nat /\ Requests \in Nat /\ n <= Requests /\ Len(requests) = n
  <2>1. Requests \in Nat
    BY PoolAssumption
  <2>2. n \in Nat /\ n <= Requests
    BY <2>1
  <2>3. requests \in Seq(Request)
    BY <2>2
  <2>4. QED
    BY <2>1, <2>2, <2>3
<1>2. \A k \in 0 .. Requests : \A x : Serving(x, k) => x \in Pool
  BY ServingTypes
<1>3. \A k \in 0 .. n - 1 : \A x : Serving(x, k) => Serving(next(k + 1, x), k + 1)
  <2>1. SUFFICES ASSUME NEW k \in 0 .. n - 1, NEW x, Serving(x, k)
                 PROVE  Serving(Alloc(x, requests[k + 1]), k + 1)
    OBVIOUS
  <2>2. k \in 0 .. Requests - 1 /\ k + 1 \in 1 .. n
    BY <1>1
  <2>3. requests[k + 1] \in Request
    BY <2>2
  <2>4. QED
    BY <2>1, <2>2, <2>3, AllocServes
<1> HIDE DEF next
<1>4. \E f : f = [k \in Nat |-> IF k = 0 THEN first ELSE Step[k][f[k - 1]]]
  <2>1. first \in Good[0]
    BY <1>1, <1>2
  <2>2. ASSUME NEW k \in Nat, NEW x \in Good[k] PROVE Step[k + 1][x] \in Good[k + 1]
    <3>1. x \in Pool /\ Serving(x, IF k <= n THEN k ELSE n)
      BY <2>2
    <3>2. k + 1 \in Nat /\ Step[k + 1][x] = IF k + 1 <= n THEN next(k + 1, x) ELSE x
      BY <3>1
    <3>3. CASE k + 1 <= n
      <4>1. k \in 0 .. n - 1 /\ k <= n /\ k + 1 \in 0 .. Requests
        BY <1>1, <3>3
      <4>2. Serving(next(k + 1, x), k + 1)
        BY <1>3, <3>1, <4>1
      <4>3. next(k + 1, x) \in Pool
        BY <1>2, <4>1, <4>2
      <4>4. QED
        BY <3>2, <3>3, <4>2, <4>3
    <3>4. CASE ~ (k + 1 <= n)
      <4>1. (IF k <= n THEN k ELSE n) = n
        BY <1>1, <3>4
      <4>2. QED
        BY <3>1, <3>2, <3>4, <4>1
    <3>5. QED
      BY <3>3, <3>4
  <2> HIDE DEF Good, Step
  <2>3. QED
    BY <2>1, <2>2, GuidedIteration
<1>5. PICK f : f = [k \in Nat |-> IF k = 0 THEN first ELSE Step[k][f[k - 1]]]
  BY <1>4
<1> DEFINE T == {k \in Nat : k <= n => Serving(f[k], k)}
<1>6. ASSUME NEW k \in Nat, k + 1 <= n, Serving(f[k], k)
      PROVE  f[k + 1] = next(k + 1, f[k])
  <2>1. k \in 0 .. Requests /\ k + 1 \in Nat /\ k + 1 # 0 /\ (k + 1) - 1 = k
    BY <1>1, <1>6
  <2>2. f[k] \in Pool
    BY <1>2, <1>6, <2>1
  <2>3. f[k + 1] = Step[k + 1][f[k]]
    BY <1>5, <2>1
  <2> HIDE DEF T
  <2>4. QED
    BY <1>6, <2>1, <2>2, <2>3
<1> HIDE DEF Step
<1>7. \A k \in Nat : k \in T
  <2>1. 0 \in T
    BY <1>5
  <2>2. ASSUME NEW k \in Nat, k \in T PROVE k + 1 \in T
    <3>1. SUFFICES ASSUME k + 1 <= n PROVE Serving(f[k + 1], k + 1)
      OBVIOUS
    <3>2. k \in 0 .. n - 1 /\ Serving(f[k], k)
      BY <1>1, <2>2, <3>1
    <3>3. QED
      BY <1>3, <1>6, <3>1, <3>2
  <2> HIDE DEF T
  <2>3. QED
    BY <2>1, <2>2, Induction
<1> DEFINE h == [k \in 0 .. n |-> f[k]]
<1>8. h = After(h)
  <2>1. ASSUME NEW k \in 0 .. n, k # 0 PROVE h[k] = next(k, h[k - 1])
    <3>1. k - 1 \in Nat /\ (k - 1) + 1 = k /\ (k - 1) + 1 <= n /\ k - 1 \in 0 .. n
      BY <1>1, <2>1
    <3>2. Serving(f[k - 1], k - 1)
      BY <1>1, <1>7, <3>1
    <3>3. f[(k - 1) + 1] = next((k - 1) + 1, f[k - 1])
      BY <1>6, <3>1, <3>2
    <3>4. QED
      BY <3>1, <3>3
  <2>2. h[0] = first
    BY <1>1, <1>5
  <2> HIDE DEF h
  <2>3. \A k \in 0 .. n : h[k] = IF k = 0 THEN first ELSE next(k, h[k - 1])
    BY <2>1, <2>2
  <2>4. h = [k \in 0 .. n |-> h[k]]
    BY DEF h
  <2>5. QED
    BY <2>3, <2>4
<1> DEFINE S == Served(first, requests)
<1>9. S = CHOOSE g : g = After(g)
  BY <1>1 DEF Served, next
<1> HIDE DEF S, h
<1>10. S = After(S)
  BY <1>8, <1>9
<1>11. S[0] = first /\ \A k \in 0 .. n - 1 : S[k + 1] = next(k + 1, S[k])
  <2>1. \A k \in 0 .. n : S[k] = IF k = 0 THEN first ELSE next(k, S[k - 1])
    BY <1>10
  <2>2. \A k \in 0 .. n - 1 : k + 1 \in 0 .. n /\ k + 1 # 0 /\ (k + 1) - 1 = k
    BY <1>1
  <2>3. 0 \in 0 .. n
    BY <1>1
  <2>4. QED
    BY <2>1, <2>2, <2>3
<1> DEFINE U == {k \in Nat : k <= n => Serving(S[k], k)}
<1>12. \A k \in Nat : k \in U
  <2>1. 0 \in U
    BY <1>11
  <2>2. ASSUME NEW k \in Nat, k \in U PROVE k + 1 \in U
    <3>1. SUFFICES ASSUME k + 1 <= n PROVE Serving(S[k + 1], k + 1)
      OBVIOUS
    <3>2. k \in 0 .. n - 1 /\ Serving(S[k], k)
      BY <1>1, <2>2, <3>1
    <3>3. QED
      BY <1>3, <1>11, <3>2
  <2> HIDE DEF U
  <2>3. QED
    BY <2>1, <2>2, Induction
<1>13. \A k \in 0 .. n : Serving(S[k], k)
  BY <1>1, <1>12
<1>14. Serve(first, requests) = S[n]
  BY <1>1 DEF Serve, S
<1>15. QED
  BY <1>11, <1>13, <1>14 DEF S, next

LEMMA ServingSound ==
  ASSUME NEW k \in 0 .. Requests, NEW p, Serving(p, k)
  PROVE  Sound(p)
<1> DEFINE A == p.AllocatedMemBlock
           n == Len(A)
<1>1. /\ p \in Pool /\ p.got \in Seq(Gift) /\ n \in Nat
  BY ServingTypes
<1>2. A \in Seq(Nat) /\ \A i \in 1 .. n : A[i] = p.address[n + 1 - i]
  BY <1>1 DEF Serving, Listed, Pool
<1>3. \A c \in 1 .. n : p.address[c] \in ToSet(A)
  <2>1. SUFFICES ASSUME NEW c \in 1 .. n PROVE p.address[c] \in ToSet(A)
    OBVIOUS
  <2>2. n + 1 - c \in 1 .. n /\ n + 1 - (n + 1 - c) = c
    BY <1>1
  <2>3. n + 1 - c \in DOMAIN A
    BY <1>2, <2>2
  <2>4. A[n + 1 - c] = p.address[c]
    BY <1>2, <2>2
  <2> HIDE DEF A, n
  <2>5. QED
    BY <2>3, <2>4 DEF ToSet
<1> HIDE DEF A
<1>4. DOMAIN p.got = 1 .. Len(p.got)
  BY <1>1
<1>5. \A x \in ToSet(p.got) : Within(p, x)
  BY <1>4 DEF ToSet, Serving
<1>6. ASSUME NEW x \in ToSet(p.got)
      PROVE  /\ \E b \in ToSet(A) : b <= x.at /\ x.at + x.size <= b + UNITSIZE
             /\ x.align <= 16 => x.at % x.align = 0
  BY <1>3, <1>5 DEF Within, A
<1>7. \A i, j \in DOMAIN p.got : i < j => Apart(p.got[i], p.got[j])
  BY <1>4 DEF Serving
<1>8. QED
  BY <1>6, <1>7 DEF Sound, Apart, A

\* Pools that cut the same block at the same place, and gave the same.
Alike(p, q) ==
  /\ p.address = q.address /\ p.self1 = q.self1 /\ p.got = q.got
  /\ Len(p.AllocatedMemBlock) = Len(q.AllocatedMemBlock)

LEMMA AllocAlike ==
  ASSUME NEW k \in 0 .. Requests - 1, NEW p, Serving(p, k), NEW q, Serving(q, k),
         Alike(p, q), NEW r \in Request
  PROVE  Alike(Alloc(p, r), Alloc(q, r))
<1>1. Cut(p) = Cut(q)
  BY DEF Alike, Cut
<1>2. p.EndBlock = q.EndBlock
  BY <1>1 DEF Serving
<1>3. p.self1 = q.self1 /\ p.address = q.address /\ p.got = q.got
      /\ Len(p.AllocatedMemBlock) = Len(q.AllocatedMemBlock)
  BY DEF Alike
<1>4. Fitting(p, r) <=> Fitting(q, r)
  BY <1>2, <1>3 DEF Fitting
<1> DEFINE n == Len(p.AllocatedMemBlock)
           at == IF Fitting(p, r) THEN AlignUp(p.self1, r.align) ELSE p.address[n + 1]
<1>5. LET x == Alloc(p, r)
      IN  /\ x.address = p.address
          /\ Len(x.AllocatedMemBlock) = IF Fitting(p, r) THEN n ELSE n + 1
          /\ x.self1 = at + r.size
          /\ x.got = Append(p.got, [at |-> at, size |-> r.size, align |-> r.align])
  BY AllocFields
<1>6. LET x == Alloc(q, r)
      IN  /\ x.address = q.address
          /\ Len(x.AllocatedMemBlock) = IF Fitting(p, r) THEN n ELSE n + 1
          /\ x.self1 = at + r.size
          /\ x.got = Append(q.got, [at |-> at, size |-> r.size, align |-> r.align])
  <2> DEFINE l == Len(q.AllocatedMemBlock)
             to == IF Fitting(q, r) THEN AlignUp(q.self1, r.align) ELSE q.address[l + 1]
  <2>1. LET x == Alloc(q, r)
        IN  /\ x.address = q.address
            /\ Len(x.AllocatedMemBlock) = IF Fitting(q, r) THEN l ELSE l + 1
            /\ x.self1 = to + r.size
            /\ x.got = Append(q.got, [at |-> to, size |-> r.size, align |-> r.align])
    BY AllocFields
  <2>2. l = n
    BY <1>3
  <2> HIDE DEF l, n
  <2>3. to = at
    BY <1>3, <1>4, <2>2
  <2> HIDE DEF to, at
  <2>4. QED
    BY <1>4, <2>1, <2>2, <2>3
<1> HIDE DEF n, at
<1>7. QED
  BY <1>3, <1>5, <1>6 DEF Alike

\* Requests cost a block only where the free ones are used up.
LEMMA AllocMallocs ==
  ASSUME NEW k \in 0 .. Requests - 1, NEW p, Serving(p, k), NEW r \in Request
  PROVE  LET q == Alloc(p, r)
         IN  /\ p.mallocs <= q.mallocs
             /\ q.mallocs = p.mallocs \/ q.mallocs = Len(q.AllocatedMemBlock)
             /\ Len(p.AllocatedMemBlock) <= Len(q.AllocatedMemBlock)
             /\ q.address = p.address
<1> DEFINE n == Len(p.AllocatedMemBlock)
<1>1. p.mallocs \in Nat /\ n \in Nat /\ Requests \in Nat
  <2>1. k \in 0 .. Requests
    BY PoolAssumption
  <2>2. QED
    BY <2>1, ServingTypes
<1>2. LET q == Alloc(p, r)
      IN  /\ Len(q.AllocatedMemBlock) = IF Fitting(p, r) THEN n ELSE n + 1
          /\ q.mallocs = IF ~ Fitting(p, r) /\ p.mallocs = n THEN n + 1 ELSE p.mallocs
          /\ q.address = p.address
  BY AllocFields
<1> HIDE DEF n
<1>3. QED
  BY <1>1, <1>2 DEF n

\* What Serves says of a series of requests.
Series(S, n, requests) ==
  /\ \A k \in 0 .. n - 1 : S[k + 1] = Alloc(S[k], requests[k + 1])
  /\ \A k \in 0 .. n : Serving(S[k], k)

LEMMA SeriesMallocs ==
  ASSUME NEW n \in 0 .. Requests, NEW requests \in [1 .. n -> Request],
         NEW S, Series(S, n, requests)
  PROVE  /\ S[0].mallocs <= S[n].mallocs
         /\ S[0].mallocs = S[n].mallocs \/ S[n].mallocs <= Len(S[n].AllocatedMemBlock)
         /\ S[n].address = S[0].address
<1>1. n \in Nat /\ Requests \in Nat
  BY PoolAssumption
<1> DEFINE T == {k \in Nat : k <= n =>
                   /\ S[0].mallocs <= S[k].mallocs
                   /\ S[0].mallocs = S[k].mallocs \/ S[k].mallocs <= Len(S[k].AllocatedMemBlock)
                   /\ S[k].address = S[0].address}
<1>2. \A k \in 0 .. n : S[k].mallocs \in Nat /\ Len(S[k].AllocatedMemBlock) \in Nat
  <2>1. SUFFICES ASSUME NEW k \in 0 .. n
                 PROVE  S[k].mallocs \in Nat /\ Len(S[k].AllocatedMemBlock) \in Nat
    OBVIOUS
  <2>2. Serving(S[k], k) /\ k \in 0 .. Requests
    BY <1>1 DEF Series
  <2>3. QED
    BY <1>1, <2>2, ServingTypes
<1>3. 0 \in T
  <2>1. S[0].mallocs \in Nat
    BY <1>1, <1>2
  <2>2. QED
    BY <2>1
<1>4. ASSUME NEW k \in Nat, k \in T PROVE k + 1 \in T
  <2>1. SUFFICES ASSUME k + 1 <= n
                 PROVE  /\ S[0].mallocs <= S[k + 1].mallocs
                        /\ \/ S[0].mallocs = S[k + 1].mallocs
                           \/ S[k + 1].mallocs <= Len(S[k + 1].AllocatedMemBlock)
                        /\ S[k + 1].address = S[0].address
    OBVIOUS
  <2>2. /\ k \in 0 .. n - 1 /\ k \in 0 .. n /\ k + 1 \in 0 .. n /\ k + 1 \in 1 .. n /\ 0 \in 0 .. n
        /\ k \in 0 .. Requests - 1
    BY <1>1, <2>1
  <2>3. /\ S[0].mallocs <= S[k].mallocs
        /\ S[0].mallocs = S[k].mallocs \/ S[k].mallocs <= Len(S[k].AllocatedMemBlock)
        /\ S[k].address = S[0].address
    BY <1>1, <1>4, <2>1
  <2>4. Serving(S[k], k) /\ requests[k + 1] \in Request /\ S[k + 1] = Alloc(S[k], requests[k + 1])
    BY <2>2 DEF Series
  <2>5. /\ S[k].mallocs <= S[k + 1].mallocs
        /\ S[k + 1].mallocs = S[k].mallocs \/ S[k + 1].mallocs = Len(S[k + 1].AllocatedMemBlock)
        /\ Len(S[k].AllocatedMemBlock) <= Len(S[k + 1].AllocatedMemBlock)
        /\ S[k + 1].address = S[k].address
    BY <2>2, <2>4, AllocMallocs
  <2>6. /\ S[0].mallocs \in Nat /\ S[k].mallocs \in Nat /\ S[k + 1].mallocs \in Nat
        /\ Len(S[k].AllocatedMemBlock) \in Nat /\ Len(S[k + 1].AllocatedMemBlock) \in Nat
    BY <1>2, <2>2
  <2> HIDE DEF T
  <2> DEFINE m0 == S[0].mallocs
             m == S[k].mallocs
             mk == S[k + 1].mallocs
             l == Len(S[k].AllocatedMemBlock)
             lk == Len(S[k + 1].AllocatedMemBlock)
  <2>7. m0 <= m /\ (m0 = m \/ m <= l) /\ m <= mk /\ (mk = m \/ mk = lk) /\ l <= lk
    BY <2>3, <2>5
  <2>8. m0 \in Nat /\ m \in Nat /\ mk \in Nat /\ l \in Nat /\ lk \in Nat
    BY <2>6
  <2>9. S[k + 1].address = S[0].address
    BY <2>3, <2>5
  <2> HIDE DEF m0, m, mk, l, lk
  <2>10. m0 <= mk /\ (m0 = mk \/ mk <= lk)
    BY <2>7, <2>8
  <2>11. QED
    BY <2>9, <2>10 DEF m0, mk, lk
<1> HIDE DEF T
<1>5. n \in T
  BY <1>1, <1>3, <1>4, Induction
<1>6. QED
  BY <1>1, <1>5 DEF T

LEMMA SeriesAlike ==
  ASSUME NEW n \in 0 .. Requests, NEW requests \in [1 .. n -> Request],
         NEW S, Series(S, n, requests), NEW R, Series(R, n, requests), Alike(S[0], R[0])
  PROVE  Alike(S[n], R[n])
<1>1. n \in Nat /\ Requests \in Nat
  BY PoolAssumption
<1> DEFINE T == {k \in Nat : k <= n => Alike(S[k], R[k])}
<1>2. 0 \in T
  OBVIOUS
<1>3. ASSUME NEW k \in Nat, k \in T PROVE k + 1 \in T
  <2>1. SUFFICES ASSUME k + 1 <= n PROVE Alike(S[k + 1], R[k + 1])
    OBVIOUS
  <2>2. /\ k \in 0 .. n - 1 /\ k \in 0 .. n /\ k + 1 \in 1 .. n /\ k \in 0 .. Requests - 1
        /\ Alike(S[k], R[k])
    BY <1>1, <1>3, <2>1
  <2>3. /\ Serving(S[k], k) /\ Serving(R[k], k) /\ requests[k + 1] \in Request
        /\ S[k + 1] = Alloc(S[k], requests[k + 1]) /\ R[k + 1] = Alloc(R[k], requests[k + 1])
    BY <2>2 DEF Series
  <2>4. QED
    BY <2>2, <2>3, AllocAlike
<1> HIDE DEF T
<1>4. n \in T
  BY <1>1, <1>2, <1>3, Induction
<1>5. QED
  BY <1>1, <1>4 DEF T

LEMMA PoolKept == PoolServes
<1>1. SUFFICES ASSUME NEW address \in Addresses,
                      NEW first \in RequestSeqs, NEW next \in RequestSeqs
               PROVE  LET one == Serve(InitPool(address), first)
                          two == Serve(ReInitial(one), next)
                          three == Serve(ReInitial(two), first)
                      IN  /\ Sound(one) /\ Sound(two)
                          /\ three.got = one.got /\ three.mallocs = two.mallocs
  BY DEF PoolServes
<1> DEFINE one == Serve(InitPool(address), first)
           two == Serve(ReInitial(one), next)
           three == Serve(ReInitial(two), first)
<1>2. PICK n \in 0 .. Requests : first \in [1 .. n -> Request]
  BY DEF RequestSeqs, Request
<1>3. PICK m \in 0 .. Requests : next \in [1 .. m -> Request]
  BY DEF RequestSeqs, Request
<1> DEFINE A == Served(InitPool(address), first)
           B == Served(ReInitial(one), next)
           C == Served(ReInitial(two), first)
<1>4. Requests \in Nat /\ 0 \in 0 .. n /\ n \in 0 .. n /\ 0 \in 0 .. m /\ m \in 0 .. m /\ 0 \in 0 .. Requests
  BY PoolAssumption
<1>5. /\ Series(A, n, first) /\ A[0] = InitPool(address) /\ one = A[n]
      /\ Serving(one, n)
  <2>1. Serving(InitPool(address), 0)
    BY InitServes
  <2>2. /\ A[0] = InitPool(address)
        /\ \A k \in 0 .. n - 1 : A[k + 1] = Alloc(A[k], first[k + 1])
        /\ \A k \in 0 .. n : Serving(A[k], k)
        /\ one = A[n]
    BY <2>1, <1>2, Serves
  <2> HIDE DEF A, one
  <2>3. QED
    BY <1>4, <2>2 DEF Series
<1>6. /\ Serving(InitPool(address), 0) /\ InitPool(address).address = address
      /\ Len(InitPool(address).AllocatedMemBlock) = 1 /\ InitPool(address).self1 = address[1]
      /\ InitPool(address).got = <<>>
  BY InitServes
<1>7. /\ Serving(ReInitial(one), 0)
      /\ ReInitial(one).mallocs = one.mallocs /\ ReInitial(one).address = one.address
  <2> HIDE DEF one
  <2>1. QED
    BY <1>5, ReInitialServes
<1>8. Series(B, m, next) /\ B[0] = ReInitial(one) /\ two = B[m] /\ Serving(two, m)
  <2> HIDE DEF one
  <2>1. /\ B[0] = ReInitial(one)
        /\ \A k \in 0 .. m - 1 : B[k + 1] = Alloc(B[k], next[k + 1])
        /\ \A k \in 0 .. m : Serving(B[k], k)
        /\ two = B[m]
    BY <1>3, <1>7, Serves
  <2> HIDE DEF B, two
  <2>2. QED
    BY <1>4, <2>1 DEF Series
<1>9. /\ Serving(ReInitial(two), 0)
      /\ ReInitial(two).mallocs = two.mallocs /\ ReInitial(two).address = two.address
      /\ Len(ReInitial(two).AllocatedMemBlock) = 1 /\ ReInitial(two).self1 = two.address[1]
      /\ ReInitial(two).got = <<>>
  <2> HIDE DEF two
  <2>1. QED
    BY <1>8, ReInitialServes
<1>10. Series(C, n, first) /\ C[0] = ReInitial(two) /\ three = C[n] /\ Serving(three, n)
  <2> HIDE DEF two
  <2>1. /\ C[0] = ReInitial(two)
        /\ \A k \in 0 .. n - 1 : C[k + 1] = Alloc(C[k], first[k + 1])
        /\ \A k \in 0 .. n : Serving(C[k], k)
        /\ three = C[n]
    BY <1>2, <1>9, Serves
  <2> HIDE DEF C, three
  <2>2. QED
    BY <1>4, <2>1 DEF Series
<1> HIDE DEF one, two, three, A, B, C
<1>11. Sound(one) /\ Sound(two)
  BY <1>5, <1>8, ServingSound
<1>12. /\ A[0].mallocs <= one.mallocs
       /\ A[0].mallocs = one.mallocs \/ one.mallocs <= Len(one.AllocatedMemBlock)
       /\ one.address = address
  BY <1>2, <1>5, <1>6, SeriesMallocs
<1>13. one.mallocs <= two.mallocs /\ two.address = address
  BY <1>3, <1>7, <1>8, <1>12, SeriesMallocs
<1>14. /\ two.mallocs = three.mallocs \/ three.mallocs <= Len(three.AllocatedMemBlock)
       /\ two.mallocs <= three.mallocs
  BY <1>2, <1>9, <1>10, SeriesMallocs
<1>15. Alike(A[0], C[0])
  BY <1>5, <1>6, <1>9, <1>10, <1>13 DEF Alike
<1>16. Alike(one, three)
  BY <1>2, <1>5, <1>10, <1>15, SeriesAlike
<1>17. Len(three.AllocatedMemBlock) <= one.mallocs
  <2>1. Len(one.AllocatedMemBlock) = Len(three.AllocatedMemBlock)
    BY <1>16 DEF Alike
  <2>2. /\ one \in Pool
        /\ one.mallocs = Len(one.AllocatedMemBlock) + Len(one.FreeMemBlock)
    BY <1>5 DEF Serving, Listed
  <2>3. Len(one.AllocatedMemBlock) \in Nat /\ Len(one.FreeMemBlock) \in Nat
    BY <2>2 DEF Pool
  <2> DEFINE a == Len(one.AllocatedMemBlock)
             f == Len(one.FreeMemBlock)
  <2>4. a \in Nat /\ f \in Nat /\ one.mallocs = a + f /\ Len(three.AllocatedMemBlock) = a
    BY <2>1, <2>2, <2>3
  <2> HIDE DEF a, f
  <2>5. QED
    BY <2>4
<1>18. one.mallocs \in Nat /\ two.mallocs \in Nat /\ three.mallocs \in Nat
       /\ Len(three.AllocatedMemBlock) \in Nat
  BY <1>5, <1>8, <1>10, ServingTypes
<1>19. three.mallocs = two.mallocs
  BY <1>13, <1>14, <1>17, <1>18
<1>20. QED
  BY <1>11, <1>16, <1>19 DEF Alike, one, two, three

\* What the pool gives lies in its blocks, does not overlap and is aligned, and a program
\* that asks for the same in every round gets the same memory in every round and needs no
\* further block: for every size of the blocks and any number of requests.
THEOREM PoolSoundness == Spec => []PoolSound
<1>1. PoolSound
  BY PoolKept DEF PoolSound
<1>2. QED
  BY <1>1, PTL

-----------------------------------------------------------------------------
\* Induction up to a bound, and what is computed in a number of steps.
LEMMA InductionUpTo ==
  ASSUME NEW n \in Nat, NEW T, 0 \in T, \A k \in 1 .. n : k - 1 \in T => k \in T
  PROVE  \A k \in 0 .. n : k \in T
<1> DEFINE U == {k \in Nat : k <= n => k \in T}
<1>1. 0 \in U
  OBVIOUS
<1>2. ASSUME NEW k \in Nat, k \in U PROVE k + 1 \in U
  <2>1. k + 1 <= n => k + 1 \in 1 .. n /\ (k + 1) - 1 = k /\ k <= n
    OBVIOUS
  <2>2. QED
    BY <1>2, <2>1
<1> HIDE DEF U
<1>3. \A k \in Nat : k \in U
  BY <1>1, <1>2, Induction
<1>4. QED
  BY <1>3 DEF U

Follows(f, first, n, Step) == f[0] = first /\ \A k \in 1 .. n : f[k] = Step[k][f[k - 1]]

LEMMA Steps ==
  ASSUME NEW S, NEW first \in S, NEW n \in Nat, NEW Step \in [1 .. n -> [S -> S]]
  PROVE  \E f \in [0 .. n -> S] : Follows(f, first, n, Step)
<1> DEFINE Right(f, j) == f[0] = first /\ \A k \in 1 .. j : f[k] = Step[k][f[k - 1]]
           T == {j \in 0 .. n : \E f \in [0 .. n -> S] : Right(f, j)}
<1>1. 0 \in T
  <2> DEFINE f == [k \in 0 .. n |-> first]
  <2>1. f \in [0 .. n -> S] /\ f[0] = first /\ \A k \in 1 .. 0 : FALSE
    OBVIOUS
  <2> HIDE DEF f
  <2>2. QED
    BY <2>1
<1>2. ASSUME NEW j \in 1 .. n, j - 1 \in T PROVE j \in T
  <2>1. PICK f \in [0 .. n -> S] : Right(f, j - 1)
    BY <1>2
  <2> DEFINE g == [f EXCEPT ![j] = Step[j][f[j - 1]]]
  <2>2. j - 1 \in 0 .. n /\ j \in 0 .. n /\ f[j - 1] \in S /\ Step[j][f[j - 1]] \in S
    <3>1. j - 1 \in 0 .. n /\ j \in 0 .. n
      OBVIOUS
    <3>2. f[j - 1] \in S
      BY <2>1, <3>1
    <3>3. QED
      BY <3>1, <3>2
  <2>3. /\ g \in [0 .. n -> S] /\ g[j] = Step[j][f[j - 1]]
        /\ \A k \in 0 .. n : k # j => g[k] = f[k]
    BY <2>1, <2>2
  <2> HIDE DEF g
  <2>4. g[0] = first
    BY <2>1, <2>3
  <2>5. ASSUME NEW k \in 1 .. j PROVE g[k] = Step[k][g[k - 1]]
    <3>1. k - 1 \in 0 .. n /\ k - 1 # j /\ k \in 0 .. n
      OBVIOUS
    <3>2. CASE k = j
      BY <2>3, <3>1, <3>2
    <3>3. CASE k # j
      <4>1. k \in 1 .. j - 1
        BY <3>3
      <4>2. QED
        BY <2>1, <2>3, <3>1, <3>3, <4>1
    <3>4. QED
      BY <3>2, <3>3
  <2>6. QED
    BY <2>2, <2>3, <2>4, <2>5
<1>3. n \in T
  <2> HIDE DEF T
  <2>1. n \in 0 .. n
    OBVIOUS
  <2>2. QED
    BY <1>1, <1>2, <2>1, InductionUpTo
<1>4. QED
  BY <1>3 DEF Follows

-----------------------------------------------------------------------------
(***************************************************************************)
(* The C++ interface.  What is collected for a task is what the program    *)
(* named since the last task, after what a thread group has left.          *)
(***************************************************************************)

\* A flattened sequence, step by step.
LEMMA FlattenSteps ==
  ASSUME NEW S, NEW n \in Nat, NEW q \in [1 .. n -> Seq(S)]
  PROVE  \E A \in [0 .. n -> Seq(S)] :
           /\ A[0] = <<>> /\ \A k \in 1 .. n : A[k] = A[k - 1] \o q[k]
           /\ FlattenSeq(q) = A[n]
<1> DEFINE Step == [k \in 1 .. n |-> [x \in Seq(S) |-> x \o q[k]]]
           Rule(g) == [i \in 1 .. n |-> IF i = 1 THEN q[i] ELSE g[i - 1] \o q[i]]
           G == CHOOSE g : g = Rule(g)
           first == <<>>
<1>1. first \in Seq(S)
  OBVIOUS
<1>2. Step \in [1 .. n -> [Seq(S) -> Seq(S)]]
  <2>1. ASSUME NEW k \in 1 .. n, NEW x \in Seq(S) PROVE x \o q[k] \in Seq(S)
    <3>1. q[k] \in Seq(S)
      OBVIOUS
    <3>2. QED
      BY <3>1
  <2>2. QED
    BY <2>1
<1>3. PICK A \in [0 .. n -> Seq(S)] : A[0] = first /\ \A k \in 1 .. n : A[k] = Step[k][A[k - 1]]
  <2> HIDE DEF Step, first
  <2>1. \E A \in [0 .. n -> Seq(S)] : Follows(A, first, n, Step)
    BY <1>1, <1>2, Steps
  <2>2. QED
    BY <2>1 DEF Follows
<1>4. A[0] = <<>>
  BY <1>3
<1>5. ASSUME NEW k \in 1 .. n PROVE A[k] = A[k - 1] \o q[k]
  <2>1. k - 1 \in 0 .. n /\ A[k - 1] \in Seq(S)
    BY <1>3
  <2>2. A[k] = Step[k][A[k - 1]]
    <3> HIDE DEF Step
    <3>1. QED
      BY <1>3
  <2>3. QED
    BY <2>1, <2>2
<1> HIDE DEF Step
<1>6. q \in Seq(Seq(S)) /\ Len(q) = n
  OBVIOUS
<1>7. CASE n = 0
  <2>1. FlattenSeq(q) = q /\ q = <<>>
    BY <1>6, <1>7 DEF FlattenSeq
  <2>2. QED
    BY <1>4, <1>5, <1>7, <2>1
<1>8. CASE n # 0
  <2>1. FlattenSeq(q) = G[n]
    BY <1>6, <1>8 DEF FlattenSeq
  <2> DEFINE f == [i \in 1 .. n |-> A[i]]
  <2>2. f = Rule(f)
    <3>1. ASSUME NEW i \in 1 .. n PROVE A[i] = IF i = 1 THEN q[i] ELSE f[i - 1] \o q[i]
      <4>1. CASE i = 1
        <5>1. i - 1 = 0 /\ q[i] \in Seq(S)
          BY <4>1
        <5>2. A[i] = <<>> \o q[i]
          BY <1>4, <1>5, <5>1
        <5>3. QED
          BY <4>1, <5>1, <5>2
      <4>2. CASE i # 1
        <5>1. i - 1 \in 1 .. n
          BY <4>2
        <5>2. QED
          BY <1>5, <4>2, <5>1
      <4>3. QED
        BY <4>1, <4>2
    <3>2. QED
      BY <3>1
  <2> HIDE DEF f
  <2>3. G = Rule(G)
    BY <2>2
  <2> HIDE DEF G
  <2> DEFINE T == {k \in Nat : k + 1 \in 1 .. n => G[k + 1] = A[k + 1]}
  <2>4. G[1] = A[1]
    <3>1. G[1] = q[1] /\ q[1] \in Seq(S) /\ 1 \in 1 .. n
      BY <1>8, <2>3
    <3>2. A[1] = <<>> \o q[1]
      <4>1. 1 - 1 = 0
        OBVIOUS
      <4>2. A[1] = A[0] \o q[1]
        BY <1>5, <3>1, <4>1
      <4>3. QED
        BY <1>4, <4>2
    <3>3. QED
      BY <3>1, <3>2
  <2>5. 0 \in T
    BY <2>4
  <2>6. ASSUME NEW k \in Nat, k \in T PROVE k + 1 \in T
    <3>1. SUFFICES ASSUME (k + 1) + 1 \in 1 .. n PROVE G[(k + 1) + 1] = A[(k + 1) + 1]
      OBVIOUS
    <3> DEFINE i == (k + 1) + 1
    <3>2. i \in 1 .. n /\ i # 1 /\ i - 1 = k + 1 /\ i - 1 \in 1 .. n
      BY <3>1
    <3>3. G[i - 1] = A[i - 1]
      BY <2>6, <3>2
    <3>4. G[i] = G[i - 1] \o q[i]
      <4> HIDE DEF i
      <4>1. QED
        BY <2>3, <3>2
    <3>5. A[i] = A[i - 1] \o q[i]
      BY <1>5, <3>2
    <3>6. QED
      BY <3>3, <3>4, <3>5
  <2> HIDE DEF T
  <2>7. \A k \in Nat : k \in T
    BY <2>5, <2>6, Induction
  <2>8. n - 1 \in Nat /\ (n - 1) + 1 = n /\ n \in 1 .. n
    BY <1>8
  <2>9. G[n] = A[n]
    BY <2>7, <2>8 DEF T
  <2>10. QED
    BY <1>4, <1>5, <2>1, <2>9
<1>9. QED
  BY <1>7, <1>8

LEMMA FlattenType ==
  ASSUME NEW S, NEW n \in Nat, NEW q \in [1 .. n -> Seq(S)]
  PROVE  FlattenSeq(q) \in Seq(S) /\ (n = 0 => FlattenSeq(q) = <<>>)
<1>1. PICK A \in [0 .. n -> Seq(S)] :
        /\ A[0] = <<>> /\ \A k \in 1 .. n : A[k] = A[k - 1] \o q[k]
        /\ FlattenSeq(q) = A[n]
  BY FlattenSteps
<1>2. QED
  BY <1>1

\* One more at the end.
LEMMA FlattenLast ==
  ASSUME NEW S, NEW n \in Nat, NEW q \in [1 .. n + 1 -> Seq(S)]
  PROVE  FlattenSeq(q) = FlattenSeq([k \in 1 .. n |-> q[k]]) \o q[n + 1]
<1> DEFINE r == [k \in 1 .. n |-> q[k]]
<1>1. n + 1 \in Nat /\ (n + 1) - 1 = n /\ n + 1 \in 1 .. n + 1 /\ r \in [1 .. n -> Seq(S)]
  OBVIOUS
<1>2. PICK A \in [0 .. n + 1 -> Seq(S)] :
        /\ A[0] = <<>> /\ \A k \in 1 .. n + 1 : A[k] = A[k - 1] \o q[k]
        /\ FlattenSeq(q) = A[n + 1]
  BY <1>1, FlattenSteps
<1>3. PICK B \in [0 .. n -> Seq(S)] :
        /\ B[0] = <<>> /\ \A k \in 1 .. n : B[k] = B[k - 1] \o r[k]
        /\ FlattenSeq(r) = B[n]
  <2> HIDE DEF r
  <2>1. QED
    BY <1>1, FlattenSteps
<1> DEFINE T == {k \in Nat : k <= n => A[k] = B[k]}
<1>4. 0 \in T
  BY <1>2, <1>3
<1>5. ASSUME NEW k \in Nat, k \in T PROVE k + 1 \in T
  <2>1. SUFFICES ASSUME k + 1 <= n PROVE A[k + 1] = B[k + 1]
    OBVIOUS
  <2>2. k <= n /\ k + 1 \in 1 .. n /\ k + 1 \in 1 .. n + 1 /\ (k + 1) - 1 = k
    BY <2>1
  <2>3. A[k + 1] = A[k] \o q[k + 1]
    BY <1>2, <2>2
  <2>4. B[k + 1] = B[k] \o r[k + 1]
    BY <1>3, <2>2
  <2>5. QED
    BY <1>5, <2>2, <2>3, <2>4
<1> HIDE DEF T
<1>6. \A k \in Nat : k \in T
  BY <1>4, <1>5, Induction
<1>7. A[n] = B[n]
  BY <1>6 DEF T
<1>8. A[n + 1] = A[n] \o q[n + 1]
  BY <1>1, <1>2
<1>9. QED
  BY <1>2, <1>3, <1>7, <1>8

Access == {<<x[1], "SHADE">> : x \in Named} \cup {<<x[1], "UNSHADE">> : x \in Named} \cup Named
Collection == [addrs : Seq(Access), tasks : Seq(Seq(Access))]
Nothing == [addrs |-> <<>>, tasks |-> <<>>]

LEMMA CollectType ==
  ASSUME NEW m \in Nat, NEW items \in [1 .. m -> Named]
  PROVE  CollectAll(items) \in Seq(Access) /\ (m = 0 => CollectAll(items) = <<>>)
<1> DEFINE q == [k \in DOMAIN items |-> Collected(items[k])]
<1>1. ASSUME NEW x \in Named PROVE Collected(x) \in Seq(Access)
  <2>1. <<x[1], "SHADE">> \in Access /\ <<x[1], "UNSHADE">> \in Access /\ x \in Access
    BY DEF Access
  <2> HIDE DEF Access
  <2>2. <<x>> \in Seq(Access) /\ << <<x[1], "SHADE">>, <<x[1], "UNSHADE">> >> \in Seq(Access)
    BY <2>1
  <2>3. QED
    BY <2>2 DEF Collected
<1>2. q \in [1 .. m -> Seq(Access)]
  BY <1>1
<1> HIDE DEF q
<1>3. FlattenSeq(q) \in Seq(Access) /\ (m = 0 => FlattenSeq(q) = <<>>)
  BY <1>2, FlattenType
<1>4. QED
  BY <1>3 DEF CollectAll, q

LEMMA CallType ==
  ASSUME NEW c \in AnyCall
  PROVE  /\ c.kind \in {"datainfo", "task", "group", "end"}
         /\ CollectAll(c.items) \in Seq(Access)
         /\ c.kind = "end" => CollectAll(c.items) = <<>>
<1>1. CASE c \in [kind : {"datainfo", "task", "group"}, items : AnyItems]
  <2>1. PICK m \in 0 .. Items : c.items \in [1 .. m -> Named]
    BY <1>1 DEF AnyItems
  <2>2. m \in Nat
    BY RegistrationAssumption
  <2>3. CollectAll(c.items) \in Seq(Access)
    BY <2>1, <2>2, CollectType
  <2>4. QED
    BY <1>1, <2>3
<1>2. CASE c \in [kind : {"end"}, items : {<<>>}]
  <2> DEFINE none == <<>>
  <2>1. none \in [1 .. 0 -> Named]
    OBVIOUS
  <2>2. c.items = none /\ c.kind = "end"
    BY <1>2
  <2> HIDE DEF none
  <2>3. CollectAll(none) \in Seq(Access) /\ CollectAll(none) = <<>>
    BY <2>1, CollectType
  <2>4. QED
    BY <2>2, <2>3
<1>3. QED
  BY <1>1, <1>2 DEF AnyCall

\* What each call makes of the vector and of the tasks registered.
LEMMA CallEffect ==
  ASSUME NEW s \in Collection, NEW c \in AnyCall
  PROVE  /\ Call(s, c) \in Collection
         /\ c.kind = "datainfo" => /\ Call(s, c).addrs = s.addrs \o CollectAll(c.items)
                                  /\ Call(s, c).tasks = s.tasks
         /\ c.kind = "end" => /\ Call(s, c).addrs = <<>>
                             /\ Call(s, c).tasks = Append(s.tasks, s.addrs)
         /\ c.kind = "task" => /\ Call(s, c).addrs = <<>>
                              /\ Call(s, c).tasks = Append(s.tasks, s.addrs \o CollectAll(c.items))
         /\ c.kind = "group" => /\ Call(s, c).addrs = CollectAll(c.items)
                               /\ Call(s, c).tasks = Append(s.tasks, CollectAll(c.items))
<1> DEFINE x == CollectAll(c.items)
<1>1. c.kind \in {"datainfo", "task", "group", "end"} /\ x \in Seq(Access)
  BY CallType
<1>2. s.addrs \in Seq(Access) /\ s.tasks \in Seq(Seq(Access)) /\ <<>> \in Seq(Access)
  BY DEF Collection
<1>3. s.addrs \o x \in Seq(Access)
  BY <1>1, <1>2
<1> HIDE DEF x
<1>4. CASE c.kind = "datainfo"
  <2>1. Call(s, c) = [s EXCEPT !.addrs = s.addrs \o x]
    BY <1>4 DEF Call, RegisterTaskDatainfo, x
  <2>2. Call(s, c) \in Collection /\ Call(s, c).addrs = s.addrs \o x /\ Call(s, c).tasks = s.tasks
    BY <1>3, <2>1 DEF Collection
  <2>3. QED
    BY <1>4, <2>2 DEF x
<1>5. CASE c.kind = "end"
  <2>1. Call(s, c) = [addrs |-> <<>>, tasks |-> Append(s.tasks, s.addrs)]
    BY <1>5 DEF Call, RegisterTaskEnd, HandOver
  <2>2. Append(s.tasks, s.addrs) \in Seq(Seq(Access))
    BY <1>2, AppendProperties
  <2>3. QED
    BY <1>2, <1>5, <2>1, <2>2 DEF Collection
<1>6. CASE c.kind = "task"
  <2>1. Call(s, c) = [addrs |-> <<>>, tasks |-> Append(s.tasks, s.addrs \o x)]
    BY <1>6 DEF Call, RegisterTask, HandOver, x
  <2>2. Append(s.tasks, s.addrs \o x) \in Seq(Seq(Access))
    BY <1>2, <1>3, AppendProperties
  <2>3. Call(s, c) \in Collection
    BY <1>2, <2>1, <2>2 DEF Collection
  <2>4. Call(s, c).addrs = <<>> /\ Call(s, c).tasks = Append(s.tasks, s.addrs \o x)
    BY <2>1
  <2>5. QED
    BY <1>6, <2>3, <2>4 DEF x
<1>7. CASE c.kind = "group"
  <2>1. Call(s, c) = [addrs |-> x, tasks |-> Append(s.tasks, x)]
    BY <1>7 DEF Call, DoRegister, HandOver, x
  <2>2. Append(s.tasks, x) \in Seq(Seq(Access))
    BY <1>1, <1>2, AppendProperties
  <2>3. Call(s, c) \in Collection
    BY <1>1, <2>1, <2>2 DEF Collection
  <2>4. QED
    BY <1>7, <2>1, <2>3 DEF x
<1>8. QED
  BY <1>1, <1>4, <1>5, <1>6, <1>7

LEMMA CalledSteps ==
  ASSUME NEW n \in Nat, NEW calls \in [1 .. n -> AnyCall]
  PROVE  /\ Called(calls)[0] = Nothing
         /\ \A k \in 1 .. n : Called(calls)[k] = Call(Called(calls)[k - 1], calls[k])
         /\ \A k \in 0 .. n : Called(calls)[k] \in Collection
<1> DEFINE Step == [k \in 1 .. n |-> [s \in Collection |-> Call(s, calls[k])]]
           Rule(g) == [k \in 0 .. n |-> IF k = 0 THEN Nothing ELSE Call(g[k - 1], calls[k])]
           C == CHOOSE g : g = Rule(g)
<1>1. Called(calls) = C
  <2>1. Len(calls) = n
    OBVIOUS
  <2>2. QED
    BY <2>1 DEF Called, Nothing
<1>2. Nothing \in Collection
  BY DEF Nothing, Collection
<1>3. ASSUME NEW k \in 1 .. n, NEW s \in Collection PROVE Call(s, calls[k]) \in Collection
  <2>1. calls[k] \in AnyCall
    OBVIOUS
  <2>2. QED
    BY <2>1, CallEffect
<1>4. Step \in [1 .. n -> [Collection -> Collection]]
  BY <1>3
<1>5. PICK A \in [0 .. n -> Collection] :
        A[0] = Nothing /\ \A k \in 1 .. n : A[k] = Step[k][A[k - 1]]
  <2> HIDE DEF Step
  <2>1. \E A \in [0 .. n -> Collection] : Follows(A, Nothing, n, Step)
    BY <1>2, <1>4, Steps
  <2>2. QED
    BY <2>1 DEF Follows
<1>6. ASSUME NEW k \in 1 .. n PROVE A[k] = Call(A[k - 1], calls[k])
  <2>1. k - 1 \in 0 .. n /\ A[k - 1] \in Collection
    BY <1>5
  <2>2. A[k] = Step[k][A[k - 1]]
    <3> HIDE DEF Step
    <3>1. QED
      BY <1>5
  <2>3. QED
    BY <2>1, <2>2
<1>7. A[0] = Nothing
  BY <1>5
<1> HIDE DEF Step
<1> DEFINE f == [k \in 0 .. n |-> A[k]]
<1>8. f = Rule(f)
  <2>1. ASSUME NEW k \in 0 .. n
        PROVE  A[k] = IF k = 0 THEN Nothing ELSE Call(f[k - 1], calls[k])
    <3>1. CASE k = 0
      BY <1>7, <3>1
    <3>2. CASE k # 0
      <4>1. k \in 1 .. n /\ k - 1 \in 0 .. n
        BY <3>2
      <4>2. QED
        BY <1>6, <3>2, <4>1
    <3>3. QED
      BY <3>1, <3>2
  <2>2. QED
    BY <2>1
<1> HIDE DEF f
<1>9. C = Rule(C)
  BY <1>8
<1> HIDE DEF C
<1>10. C[0] = Nothing
  <2>1. 0 \in 0 .. n
    OBVIOUS
  <2>2. QED
    BY <1>9, <2>1
<1>11. ASSUME NEW k \in 1 .. n PROVE C[k] = Call(C[k - 1], calls[k])
  <2>1. k \in 0 .. n /\ k # 0
    OBVIOUS
  <2>2. QED
    BY <1>9, <2>1
<1> DEFINE T == {k \in Nat : k <= n => C[k] \in Collection}
<1>12. 0 \in T
  BY <1>2, <1>10
<1>13. ASSUME NEW k \in Nat, k \in T PROVE k + 1 \in T
  <2>1. SUFFICES ASSUME k + 1 <= n PROVE C[k + 1] \in Collection
    OBVIOUS
  <2>2. k + 1 \in 1 .. n /\ (k + 1) - 1 = k /\ C[k] \in Collection
    BY <1>13, <2>1
  <2>3. QED
    BY <1>3, <1>11, <2>2
<1> HIDE DEF T
<1>14. \A k \in Nat : k \in T
  BY <1>12, <1>13, Induction
<1>15. QED
  BY <1>1, <1>10, <1>11, <1>14 DEF T

\* The last call that registered a task, and that there is one or none.
LEMMA LastEndIs ==
  ASSUME NEW n \in Nat, NEW calls \in [1 .. n -> AnyCall], NEW k \in 1 .. n + 1,
         NEW e \in 0 .. k - 1, e # 0 => calls[e].kind # "datainfo",
         \A x \in e + 1 .. k - 1 : calls[x].kind = "datainfo"
  PROVE  LastEnd(calls, k) = e
<1> DEFINE Is(f) == /\ f # 0 => calls[f].kind # "datainfo"
                    /\ \A x \in f + 1 .. k - 1 : calls[x].kind = "datainfo"
           L == CHOOSE f \in 0 .. k - 1 : Is(f)
<1>1. L \in 0 .. k - 1 /\ Is(L)
  <2>1. e \in 0 .. k - 1 /\ Is(e)
    OBVIOUS
  <2> HIDE DEF Is
  <2>2. QED
    BY <2>1
<1>2. LastEnd(calls, k) = L
  BY DEF LastEnd
<1> HIDE DEF L
<1>3. ~(L < e)
  <2>1. SUFFICES ASSUME L < e PROVE FALSE
    OBVIOUS
  <2>2. e \in L + 1 .. k - 1 /\ e # 0
    BY <1>1, <2>1
  <2>3. QED
    BY <1>1, <2>2
<1>4. ~(e < L)
  <2>1. SUFFICES ASSUME e < L PROVE FALSE
    OBVIOUS
  <2>2. L \in e + 1 .. k - 1 /\ L # 0
    BY <1>1, <2>1
  <2>3. QED
    BY <1>1, <2>2
<1>5. L = e
  BY <1>1, <1>3, <1>4
<1>6. QED
  BY <1>2, <1>5

LEMMA LastEndType ==
  ASSUME NEW n \in Nat, NEW calls \in [1 .. n -> AnyCall]
  PROVE  \A k \in 1 .. n + 1 :
           /\ LastEnd(calls, k) \in 0 .. k - 1
           /\ LastEnd(calls, k) # 0 => calls[LastEnd(calls, k)].kind # "datainfo"
           /\ \A x \in LastEnd(calls, k) + 1 .. k - 1 : calls[x].kind = "datainfo"
<1> DEFINE Is(e, k) == /\ e \in 0 .. k - 1
                       /\ e # 0 => calls[e].kind # "datainfo"
                       /\ \A x \in e + 1 .. k - 1 : calls[x].kind = "datainfo"
           T == {k \in Nat : \E e \in Nat : Is(e, k + 1)}
<1>1. 0 \in T
  <2>1. Is(0, 0 + 1)
    OBVIOUS
  <2>2. QED
    BY <2>1
<1>2. ASSUME NEW k \in Nat, k \in T PROVE k + 1 \in T
  <2>1. PICK e \in Nat : Is(e, k + 1)
    BY <1>2
  <2>2. CASE calls[k + 1].kind = "datainfo"
    <3>1. Is(e, (k + 1) + 1)
      <4>1. ASSUME NEW x \in e + 1 .. k + 1 PROVE calls[x].kind = "datainfo"
        <5>1. x = k + 1 \/ x \in e + 1 .. k
          OBVIOUS
        <5>2. QED
          BY <2>1, <2>2, <5>1
      <4>2. QED
        BY <2>1, <4>1
    <3>2. QED
      BY <3>1
  <2>3. CASE calls[k + 1].kind # "datainfo"
    <3>1. Is(k + 1, (k + 1) + 1)
      BY <2>3
    <3>2. QED
      BY <3>1
  <2>4. QED
    BY <2>2, <2>3
<1> HIDE DEF T
<1>3. \A k \in Nat : k \in T
  BY <1>1, <1>2, Induction
<1>4. ASSUME NEW k \in 1 .. n + 1 PROVE Is(LastEnd(calls, k), k)
  <2>1. k - 1 \in Nat /\ (k - 1) + 1 = k
    OBVIOUS
  <2>2. PICK e \in Nat : Is(e, k)
    <3> HIDE DEF Is
    <3>1. QED
      BY <1>3, <2>1 DEF T
  <2>3. LastEnd(calls, k) = e
    BY <2>2, LastEndIs
  <2>4. QED
    BY <2>2, <2>3
<1>5. QED
  BY <1>4

LEMMA LastEndStep ==
  ASSUME NEW n \in Nat, NEW calls \in [1 .. n -> AnyCall], NEW k \in 1 .. n
  PROVE  LastEnd(calls, k + 1) = IF calls[k].kind = "datainfo" THEN LastEnd(calls, k) ELSE k
<1>1. k + 1 \in 1 .. n + 1 /\ k \in 1 .. n + 1 /\ (k + 1) - 1 = k
  OBVIOUS
<1> DEFINE e == LastEnd(calls, k)
<1>2. /\ e \in 0 .. k - 1 /\ (e # 0 => calls[e].kind # "datainfo")
      /\ \A x \in e + 1 .. k - 1 : calls[x].kind = "datainfo"
  BY <1>1, LastEndType
<1> HIDE DEF e
<1>3. CASE calls[k].kind = "datainfo"
  <2>1. e \in 0 .. (k + 1) - 1
    BY <1>2
  <2>2. \A x \in e + 1 .. (k + 1) - 1 : calls[x].kind = "datainfo"
    <3>1. ASSUME NEW x \in e + 1 .. (k + 1) - 1 PROVE calls[x].kind = "datainfo"
      <4>1. x = k \/ x \in e + 1 .. k - 1
        BY <1>2
      <4>2. QED
        BY <1>2, <1>3, <4>1
    <3>2. QED
      BY <3>1
  <2>3. LastEnd(calls, k + 1) = e
    BY <1>1, <1>2, <2>1, <2>2, LastEndIs
  <2>4. QED
    BY <1>3, <2>3 DEF e
<1>4. CASE calls[k].kind # "datainfo"
  <2>1. k \in 0 .. (k + 1) - 1 /\ \A x \in k + 1 .. (k + 1) - 1 : calls[x].kind = "datainfo"
    OBVIOUS
  <2>2. LastEnd(calls, k + 1) = k
    BY <1>1, <1>4, <2>1, LastEndIs
  <2>3. QED
    BY <1>4, <2>2
<1>5. QED
  BY <1>3, <1>4

\* What is named in one more call.
LEMMA DeclaredStep ==
  ASSUME NEW n \in Nat, NEW calls \in [1 .. n -> AnyCall], NEW e \in 0 .. n, NEW k \in e .. n
  PROVE  /\ Declared(calls, e, k) \in Seq(Access)
         /\ Declared(calls, e, e) = <<>>
         /\ k < n => Declared(calls, e, k + 1) =
                       Declared(calls, e, k) \o CollectAll(calls[k + 1].items)
<1> DEFINE q(m) == [x \in 1 .. m |-> CollectAll(calls[e + x].items)]
<1>1. ASSUME NEW m \in Nat, e + m <= n PROVE q(m) \in [1 .. m -> Seq(Access)]
  <2>1. ASSUME NEW x \in 1 .. m PROVE CollectAll(calls[e + x].items) \in Seq(Access)
    <3>1. e + x \in 1 .. n
      BY <1>1
    <3>2. calls[e + x] \in AnyCall
      BY <3>1
    <3>3. QED
      BY <3>2, CallType
  <2>2. QED
    BY <2>1
<1>2. k - e \in Nat /\ e + (k - e) <= n /\ e - e = 0 /\ 0 \in Nat /\ e + 0 <= n
  OBVIOUS
<1>3. /\ Declared(calls, e, k) = FlattenSeq(q(k - e))
      /\ Declared(calls, e, e) = FlattenSeq(q(0))
  BY <1>2 DEF Declared
<1>4. Declared(calls, e, k) \in Seq(Access)
  <2>1. q(k - e) \in [1 .. k - e -> Seq(Access)]
    BY <1>1, <1>2
  <2> HIDE DEF q
  <2>2. QED
    BY <1>2, <1>3, <2>1, FlattenType
<1>5. Declared(calls, e, e) = <<>>
  <2>1. q(0) \in [1 .. 0 -> Seq(Access)]
    BY <1>1, <1>2
  <2> HIDE DEF q
  <2>2. QED
    BY <1>2, <1>3, <2>1, FlattenType
<1>6. ASSUME k < n
      PROVE  Declared(calls, e, k + 1) = Declared(calls, e, k) \o CollectAll(calls[k + 1].items)
  <2> DEFINE m == k - e
  <2>1. m \in Nat /\ m + 1 \in Nat /\ (k + 1) - e = m + 1 /\ e + (m + 1) <= n /\ e + (m + 1) = k + 1
    BY <1>6
  <2>2. Declared(calls, e, k + 1) = FlattenSeq(q(m + 1))
    BY <2>1 DEF Declared
  <2> HIDE DEF m
  <2>3. q(m + 1) \in [1 .. m + 1 -> Seq(Access)]
    BY <1>1, <2>1
  <2>4. [x \in 1 .. m |-> q(m + 1)[x]] = q(m)
    <3>1. \A x \in 1 .. m : x \in 1 .. m + 1
      BY <2>1
    <3>2. \A x \in 1 .. m : q(m + 1)[x] = CollectAll(calls[e + x].items)
      BY <3>1
    <3>3. QED
      BY <3>2
  <2>5. q(m + 1)[m + 1] = CollectAll(calls[k + 1].items)
    <3>1. m + 1 \in 1 .. m + 1 /\ e + (m + 1) = k + 1
      BY <2>1
    <3>2. q(m + 1)[m + 1] = CollectAll(calls[e + (m + 1)].items)
      BY <3>1
    <3>3. QED
      BY <3>1, <3>2
  <2> HIDE DEF q
  <2>6. FlattenSeq(q(m + 1)) = FlattenSeq([x \in 1 .. m |-> q(m + 1)[x]]) \o q(m + 1)[m + 1]
    BY <2>1, <2>3, FlattenLast
  <2>7. QED
    BY <1>3, <2>2, <2>4, <2>5, <2>6 DEF m
<1>7. QED
  BY <1>4, <1>5, <1>6

LEMMA LeftType ==
  ASSUME NEW n \in Nat, NEW calls \in [1 .. n -> AnyCall], NEW e \in 0 .. n
  PROVE  Left(calls, e) \in Seq(Access)
<1>1. e # 0 => calls[e] \in AnyCall
  OBVIOUS
<1>2. QED
  BY <1>1, CallType DEF Left

\* What is in addrs after k calls: what a thread group left, and what was named since.
LEMMA Holding ==
  ASSUME NEW n \in Nat, NEW calls \in [1 .. n -> AnyCall]
  PROVE  \A k \in 0 .. n :
           LET e == LastEnd(calls, k + 1)
           IN  Called(calls)[k].addrs = Left(calls, e) \o Declared(calls, e, k)
<1> DEFINE E(k) == LastEnd(calls, k + 1)
           Holds(k) == Called(calls)[k].addrs = Left(calls, E(k)) \o Declared(calls, E(k), k)
           T == {k \in Nat : k <= n => Holds(k)}
<1>1. \A k \in 0 .. n : E(k) \in 0 .. k
  BY LastEndType
<1>2. 0 \in T
  <2>1. E(0) = 0
    BY <1>1
  <2>2. Left(calls, 0) = <<>>
    BY DEF Left
  <2>3. Declared(calls, 0, 0) = <<>>
    BY DeclaredStep
  <2>4. Called(calls)[0].addrs = <<>>
    BY CalledSteps DEF Nothing
  <2>5. Called(calls)[0].addrs = Left(calls, 0) \o Declared(calls, 0, 0)
    BY <2>2, <2>3, <2>4
  <2> HIDE DEF E
  <2>6. Holds(0)
    BY <2>1, <2>5
  <2>7. QED
    BY <2>6
<1>3. ASSUME NEW k \in Nat, k \in T PROVE k + 1 \in T
  <2>1. SUFFICES ASSUME k + 1 <= n PROVE Holds(k + 1)
    OBVIOUS
  <2> DEFINE s == Called(calls)[k]
             c == calls[k + 1]
             e == E(k)
             x == CollectAll(c.items)
             d == Declared(calls, e, k)
             l == Left(calls, e)
  <2>2. k \in 0 .. n /\ k + 1 \in 1 .. n /\ (k + 1) - 1 = k /\ k < n
    BY <2>1
  <2>3. s \in Collection /\ Called(calls)[k + 1] = Call(s, c) /\ c \in AnyCall
    BY <2>2, CalledSteps
  <2>4. Holds(k)
    BY <1>3, <2>2
  <2>5. E(k + 1) = IF c.kind = "datainfo" THEN e ELSE k + 1
    BY <2>2, LastEndStep
  <2>6. e \in 0 .. n /\ k \in e .. n
    <3> HIDE DEF E
    <3>1. QED
      BY <1>1, <2>2
  <2>7. CASE c.kind = "datainfo"
    <3>1. Call(s, c).addrs = s.addrs \o x
      BY <2>3, <2>7, CallEffect
    <3>2. Declared(calls, e, k + 1) = d \o x /\ d \in Seq(Access)
      <4> HIDE DEF E, e
      <4>1. QED
        BY <2>2, <2>6, DeclaredStep
    <3>3. l \in Seq(Access) /\ x \in Seq(Access)
      <4> HIDE DEF E, e
      <4>1. QED
        BY <2>3, <2>6, LeftType, CallType
    <3>4. s.addrs = l \o d
      BY <2>4
    <3>5. E(k + 1) = e
      BY <2>5, <2>7
    <3> HIDE DEF E, e, s, c, x, d, l
    <3>6. (l \o d) \o x = l \o (d \o x)
      BY <3>2, <3>3, ConcatAssociative
    <3>7. Called(calls)[k + 1].addrs = l \o Declared(calls, e, k + 1)
      BY <2>3, <3>1, <3>2, <3>4, <3>6
    <3>8. QED
      BY <3>5, <3>7 DEF l
  <2>8. CASE c.kind # "datainfo"
    <3>1. E(k + 1) = k + 1
      BY <2>5, <2>8
    <3>2. Declared(calls, k + 1, k + 1) = <<>>
      BY <2>2, DeclaredStep
    <3>3. Called(calls)[k + 1].addrs = Left(calls, k + 1)
      <4>1. c.kind \in {"task", "group", "end"}
        BY <2>3, <2>8, CallType
      <4>2. Left(calls, k + 1) = IF c.kind = "group" THEN x ELSE <<>>
        BY DEF Left
      <4>3. Call(s, c).addrs = IF c.kind = "group" THEN x ELSE <<>>
        <5> HIDE DEF s, c
        <5>1. QED
          BY <2>3, <4>1, CallEffect
      <4>4. QED
        BY <2>3, <4>2, <4>3
    <3>4. Left(calls, k + 1) \in Seq(Access)
      BY <2>2, LeftType
    <3> HIDE DEF E
    <3>5. QED
      BY <3>1, <3>2, <3>3, <3>4
  <2>9. QED
    BY <2>7, <2>8
<1> HIDE DEF T
<1>4. \A k \in Nat : k \in T
  BY <1>2, <1>3, Induction
<1>5. QED
  BY <1>4 DEF T

\* A task of the C++ interface gets the accesses declared for it (register_task,
\* register_task_datainfo, register_task_end, do_register), for any number of calls and
\* of accesses in each.
THEOREM RegistrationSoundness == Spec => []RegistrationSound
<1>1. RegistersDeclared
  <2>1. SUFFICES ASSUME NEW n \in 0 .. Calls, NEW calls \in [1 .. n -> AnyCall],
                        OneAtATime(calls), NEW k \in 1 .. n
                 PROVE  LET before == Called(calls)[k - 1].tasks
                            e == LastEnd(calls, k)
                            left == IF calls[k].kind = "group" THEN <<>> ELSE Left(calls, e)
                        IN  Called(calls)[k].tasks =
                              IF calls[k].kind = "datainfo" THEN before
                              ELSE Append(before, left \o Declared(calls, e, k))
    BY DEF RegistersDeclared
  <2> DEFINE s == Called(calls)[k - 1]
             c == calls[k]
             e == LastEnd(calls, k)
             x == CollectAll(c.items)
             d == Declared(calls, e, k - 1)
             l == Left(calls, e)
  <2>2. n \in Nat /\ k - 1 \in 0 .. n /\ (k - 1) + 1 = k /\ k \in 1 .. n + 1 /\ k - 1 < n
    BY RegistrationAssumption
  <2>3. s \in Collection /\ Called(calls)[k] = Call(s, c) /\ c \in AnyCall
    BY <2>2, CalledSteps
  <2>4. s.addrs = l \o d
    BY <2>2, Holding
  <2>5. e \in 0 .. k - 1 /\ e \in 0 .. n /\ k - 1 \in e .. n
    BY <2>2, LastEndType
  <2>6. Declared(calls, e, k) = d \o x /\ d \in Seq(Access)
    <3> HIDE DEF e
    <3>1. QED
      BY <2>2, <2>5, DeclaredStep
  <2>7. l \in Seq(Access) /\ x \in Seq(Access)
    <3> HIDE DEF e
    <3>1. QED
      BY <2>2, <2>3, <2>5, LeftType, CallType
  <2>8. (l \o d) \o x = l \o (d \o x)
    <3> HIDE DEF e, s, c, x, d, l
    <3>1. QED
      BY <2>6, <2>7, ConcatAssociative
  <2>9. CASE c.kind = "datainfo"
    BY <2>3, <2>9, CallEffect
  <2>10. CASE c.kind = "end"
    <3>1. x = <<>> /\ Call(s, c).tasks = Append(s.tasks, s.addrs)
      <4> HIDE DEF s, c
      <4>1. QED
        BY <2>3, <2>10, CallEffect, CallType
    <3>2. d \o x = d
      <4> HIDE DEF d
      <4>1. QED
        BY <2>6, <3>1
    <3>3. QED
      BY <2>3, <2>4, <2>6, <2>10, <3>1, <3>2
  <2>11. CASE c.kind = "task"
    <3>1. Call(s, c).tasks = Append(s.tasks, s.addrs \o x)
      BY <2>3, <2>11, CallEffect
    <3>2. QED
      BY <2>3, <2>4, <2>6, <2>8, <2>11, <3>1
  <2>12. CASE c.kind = "group"
    <3>1. Call(s, c).tasks = Append(s.tasks, x)
      BY <2>3, <2>12, CallEffect
    <3>2. e = k - 1
      <4>1. CASE k = 1
        BY <2>5, <4>1
      <4>2. CASE k # 1
        <5>1. k - 1 \in 1 .. n /\ k - 1 \in 1 .. Len(calls) - 1
          BY <2>2, <4>2
        <5>2. calls[k - 1].kind # "datainfo"
          BY <2>1, <2>2, <2>12, <5>1 DEF OneAtATime
        <5>3. LastEnd(calls, (k - 1) + 1) = k - 1
          BY <2>2, <5>1, <5>2, LastEndStep
        <5>4. QED
          BY <2>2, <5>3
      <4>3. QED
        BY <4>1, <4>2
    <3>3. d = <<>>
      BY <2>2, <3>2, DeclaredStep
    <3>4. <<>> \o Declared(calls, e, k) = x
      BY <2>6, <2>7, <3>3
    <3>5. QED
      BY <2>3, <2>12, <3>1, <3>4
  <2>13. QED
    BY <2>3, <2>9, <2>10, <2>11, <2>12, CallType
<1>2. RegistrationSound
  BY <1>1 DEF RegistrationSound
<1>3. QED
  BY <1>2, PTL
=============================================================================
