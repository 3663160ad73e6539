--------------------------- MODULE MpiExecProofs ---------------------------
(***************************************************************************)
(* Proofs about MpiExec: the inductive invariant MpiInv, the safety        *)
(* properties that follow from it, and the safety part of the refinement   *)
(* of DagSpec, for every set of graphs, threads, blocking tasks and        *)
(* handles.                                                                *)
(***************************************************************************)
EXTENDS MpiExec, FiniteSetTheorems, TLAPS

-----------------------------------------------------------------------------
(***************************************************************************)
(* Facts about well-formed graphs.                                         *)
(***************************************************************************)

LEMMA GraphFacts ==
  ASSUME NEW g \in Graphs
  PROVE  /\ g.node \subseteq Task
         /\ NoTask \notin g.node
         /\ g.end \in g.node
         /\ g.end \notin Work(g)
         /\ g.node = Work(g) \cup {g.end}
         /\ \A t \in g.node : /\ g.succ[t] \subseteq Work(g)
                              /\ g.vert[t] \in g.node \cup {NoTask}
                              /\ g.vert[t] \notin g.succ[t]
                              /\ g.aff[t] \in Thread
                              /\ Out(g, t) \subseteq g.node
         /\ \A t : Preds(g, t) \subseteq Work(g)
<1>1. WellFormed(g, Task, Thread \ {Mpi})
  BY MpiAssumption
<1>2. g.node \subseteq Task /\ NoTask \notin g.node /\ g.end \in g.node
  BY <1>1, MpiAssumption DEF WellFormed
<1>3. g.end \notin Work(g) /\ g.node = Work(g) \cup {g.end}
  BY <1>2 DEF Work
<1>4. ASSUME NEW t \in g.node
      PROVE  /\ g.succ[t] \subseteq Work(g)
             /\ g.vert[t] \in g.node \cup {NoTask}
             /\ g.vert[t] \notin g.succ[t]
             /\ g.aff[t] \in Thread
             /\ Out(g, t) \subseteq g.node
  <2>1. g.succ[t] \subseteq Work(g) /\ g.vert[t] \in g.node \cup {NoTask} /\ g.aff[t] \in Thread
    BY <1>1, <1>4 DEF WellFormed
  <2>2. g.vert[t] \notin g.succ[t]
    <3>1. CASE t = g.end
      BY <3>1, <1>1 DEF WellFormed, Out
    <3>2. CASE t # g.end
      BY <3>2, <1>1, <1>4 DEF WellFormed, Work
    <3> QED BY <3>1, <3>2
  <2> QED BY <2>1, <2>2, <1>3 DEF Out, Vertical
<1>5. ASSUME NEW t PROVE Preds(g, t) \subseteq Work(g)
  BY <1>1 DEF WellFormed, Preds, Work
<1> QED BY <1>2, <1>3, <1>4, <1>5

LEMMA PredsFinite ==
  ASSUME NEW g \in Graphs, NEW t
  PROVE  IsFiniteSet(Preds(g, t)) /\ Indegree(g, t) \in Nat
<1>1. IsFiniteSet(g.node)
  BY MpiAssumption DEF WellFormed
<1>2. IsFiniteSet(Preds(g, t))
  BY <1>1, FS_Subset DEF Preds
<1> QED BY <1>2, FS_CardinalityType DEF Indegree

\* A set of tasks that is not empty has one that releases none of them.
LEMMA Sink ==
  ASSUME NEW g \in Graphs, NEW S, S \subseteq Work(g), S # {}
  PROVE  \E t \in S : Out(g, t) \cap S = {} /\ Out(g, t) # {}
<1>1. WellFormed(g, Task, Thread \ {Mpi})
  BY MpiAssumption
<1>2. PICK t \in S : Out(g, t) \cap S = {}
  BY <1>1 DEF WellFormed
<1>3. Out(g, t) # {}
  BY <1>1 DEF WellFormed
<1> QED BY <1>2, <1>3

-----------------------------------------------------------------------------
(***************************************************************************)
(* The queues: their tasks, and that none is in one twice.                 *)
(***************************************************************************)

LEMMA AppendFacts ==
  ASSUME NEW S, NEW s \in Seq(S), NEW e \in S
  PROVE  /\ Append(s, e) \in Seq(S)
         /\ ToSet(Append(s, e)) = ToSet(s) \cup {e}
         /\ IsInjective(s) /\ e \notin ToSet(s) => IsInjective(Append(s, e))
<1>1. /\ Append(s, e) \in Seq(S)
      /\ DOMAIN s = 1 .. Len(s) /\ Len(s) \in Nat
      /\ DOMAIN Append(s, e) = 1 .. (Len(s) + 1)
      /\ \A i \in 1 .. Len(s) : Append(s, e)[i] = s[i]
      /\ Append(s, e)[Len(s) + 1] = e
  OBVIOUS
<1>2. ToSet(Append(s, e)) = ToSet(s) \cup {e}
  BY <1>1 DEF ToSet
<1>3. ASSUME IsInjective(s), e \notin ToSet(s),
             NEW i \in DOMAIN Append(s, e), NEW j \in DOMAIN Append(s, e),
             Append(s, e)[i] = Append(s, e)[j]
      PROVE  i = j
  <2>1. \A k \in 1 .. Len(s) : s[k] # e
    BY <1>1, <1>3 DEF ToSet
  <2> QED BY <1>1, <1>3, <2>1 DEF IsInjective
<1>4. IsInjective(s) /\ e \notin ToSet(s) => IsInjective(Append(s, e))
  BY <1>3 DEF IsInjective
<1> QED BY <1>1, <1>2, <1>4

LEMMA TailFacts ==
  ASSUME NEW S, NEW s \in Seq(S), s # <<>>
  PROVE  /\ Head(s) \in S /\ Tail(s) \in Seq(S)
         /\ ToSet(s) = ToSet(Tail(s)) \cup {Head(s)}
         /\ IsInjective(s) => IsInjective(Tail(s)) /\ Head(s) \notin ToSet(Tail(s))
<1>1. /\ Head(s) \in S /\ Tail(s) \in Seq(S) /\ Head(s) = s[1]
      /\ DOMAIN s = 1 .. Len(s) /\ Len(s) \in Nat /\ Len(s) # 0
      /\ DOMAIN Tail(s) = 1 .. (Len(s) - 1)
      /\ \A i \in 1 .. (Len(s) - 1) : Tail(s)[i] = s[i + 1]
  OBVIOUS
<1>2. ToSet(s) = ToSet(Tail(s)) \cup {Head(s)}
  <2>1. ASSUME NEW i \in 1 .. Len(s) PROVE s[i] \in ToSet(Tail(s)) \cup {Head(s)}
    <3>1. CASE i = 1
      BY <1>1, <3>1
    <3>2. CASE i # 1
      <4>1. i - 1 \in 1 .. (Len(s) - 1) /\ Tail(s)[i - 1] = s[i]
        BY <1>1, <3>2
      <4> QED BY <1>1, <4>1 DEF ToSet
    <3> QED BY <3>1, <3>2
  <2>2. ASSUME NEW i \in 1 .. (Len(s) - 1) PROVE Tail(s)[i] \in ToSet(s)
    <3>1. i + 1 \in 1 .. Len(s) /\ Tail(s)[i] = s[i + 1]
      BY <1>1
    <3> QED BY <1>1, <3>1 DEF ToSet
  <2>3. Head(s) \in ToSet(s)
    BY <1>1 DEF ToSet
  <2> QED BY <1>1, <2>1, <2>2, <2>3 DEF ToSet
<1>3. ASSUME IsInjective(s) PROVE IsInjective(Tail(s)) /\ Head(s) \notin ToSet(Tail(s))
  <2>1. \A i \in 1 .. (Len(s) - 1) : i + 1 \in 1 .. Len(s) /\ i + 1 # 1
    BY <1>1
  <2> QED BY <1>1, <1>3, <2>1 DEF IsInjective, ToSet
<1> QED BY <1>1, <1>2, <1>3

LEMMA FrontFacts ==
  ASSUME NEW S, NEW s \in Seq(S), s # <<>>
  PROVE  /\ Last(s) \in S /\ Front(s) \in Seq(S)
         /\ ToSet(s) = ToSet(Front(s)) \cup {Last(s)}
         /\ IsInjective(s) => IsInjective(Front(s)) /\ Last(s) \notin ToSet(Front(s))
<1>1. /\ Last(s) \in S /\ Front(s) \in Seq(S) /\ Last(s) = s[Len(s)]
      /\ DOMAIN s = 1 .. Len(s) /\ Len(s) \in Nat /\ Len(s) # 0
      /\ DOMAIN Front(s) = 1 .. (Len(s) - 1)
      /\ \A i \in 1 .. (Len(s) - 1) : Front(s)[i] = s[i]
  BY DEF Front, Last
<1>2. ToSet(s) = ToSet(Front(s)) \cup {Last(s)}
  BY <1>1 DEF ToSet
<1>3. ASSUME IsInjective(s) PROVE IsInjective(Front(s)) /\ Last(s) \notin ToSet(Front(s))
  BY <1>1, <1>3 DEF IsInjective, ToSet
<1> QED BY <1>1, <1>2, <1>3

LEMMA TaskOfFacts ==
  ASSUME NEW q \in Seq(MtestTask)
  PROVE  /\ TaskOf(q) \in Seq(Task)
         /\ q = <<>> <=> TaskOf(q) = <<>>
         /\ \A m \in MtestTask : TaskOf(Append(q, m)) = Append(TaskOf(q), m.task)
         /\ q # <<>> => /\ Head(TaskOf(q)) = Head(q).task
                        /\ TaskOf(Tail(q)) = Tail(TaskOf(q))
<1>1. DOMAIN q = 1 .. Len(q) /\ Len(q) \in Nat
      /\ \A i \in 1 .. Len(q) : q[i] \in MtestTask /\ q[i].task \in Task
  <2>1. \A m \in MtestTask : m.task \in Task
    BY DEF MtestTask
  <2> QED BY <2>1
<1>2. /\ TaskOf(q) \in Seq(Task) /\ Len(TaskOf(q)) = Len(q)
      /\ \A i \in 1 .. Len(q) : TaskOf(q)[i] = q[i].task
  BY <1>1 DEF TaskOf
<1>3. q = <<>> <=> TaskOf(q) = <<>>
  BY <1>1, <1>2
<1>4. ASSUME NEW m \in MtestTask PROVE TaskOf(Append(q, m)) = Append(TaskOf(q), m.task)
  <2>1. m.task \in Task
    BY DEF MtestTask
  <2>2. /\ DOMAIN Append(q, m) = 1 .. (Len(q) + 1)
        /\ \A i \in 1 .. Len(q) : Append(q, m)[i] = q[i]
        /\ Append(q, m)[Len(q) + 1] = m
    BY <1>1
  <2>3. /\ DOMAIN TaskOf(Append(q, m)) = 1 .. (Len(q) + 1)
        /\ \A i \in 1 .. Len(q) : TaskOf(Append(q, m))[i] = q[i].task
        /\ TaskOf(Append(q, m))[Len(q) + 1] = m.task
    BY <1>1, <2>2 DEF TaskOf
  <2>4. TaskOf(Append(q, m)) \in Seq(Task)
    <3>1. \A i \in 1 .. (Len(q) + 1) : TaskOf(Append(q, m))[i] \in Task
      BY <1>1, <2>1, <2>3
    <3>2. Len(q) + 1 \in Nat
      BY <1>1
    <3>3. TaskOf(Append(q, m)) = [i \in 1 .. (Len(q) + 1) |-> TaskOf(Append(q, m))[i]]
      BY <2>2 DEF TaskOf
    <3> QED BY <3>1, <3>2, <3>3
  <2>5. /\ Append(TaskOf(q), m.task) \in Seq(Task)
        /\ Len(Append(TaskOf(q), m.task)) = Len(q) + 1
        /\ \A i \in 1 .. Len(q) : Append(TaskOf(q), m.task)[i] = q[i].task
        /\ Append(TaskOf(q), m.task)[Len(q) + 1] = m.task
    BY <1>1, <1>2, <2>1
  <2>6. Len(TaskOf(Append(q, m))) = Len(q) + 1
    BY <1>1, <2>3, <2>4
  <2> QED BY <1>1, <2>3, <2>4, <2>5, <2>6
<1>5. ASSUME q # <<>>
      PROVE  Head(TaskOf(q)) = Head(q).task /\ TaskOf(Tail(q)) = Tail(TaskOf(q))
  <2>1. Len(q) # 0 /\ Head(q) = q[1] /\ Head(TaskOf(q)) = TaskOf(q)[1]
    BY <1>1, <1>2, <1>3, <1>5
  <2>2. /\ Tail(q) \in Seq(MtestTask) /\ Len(Tail(q)) = Len(q) - 1
        /\ DOMAIN Tail(q) = 1 .. (Len(q) - 1)
        /\ \A i \in 1 .. (Len(q) - 1) : Tail(q)[i] = q[i + 1]
    BY <1>5
  <2>3. /\ Tail(TaskOf(q)) \in Seq(Task) /\ Len(Tail(TaskOf(q))) = Len(q) - 1
        /\ \A i \in 1 .. (Len(q) - 1) : Tail(TaskOf(q))[i] = q[i + 1].task
    BY <1>1, <1>2, <1>3, <1>5
  <2>4. /\ DOMAIN TaskOf(Tail(q)) = 1 .. (Len(q) - 1)
        /\ \A i \in 1 .. (Len(q) - 1) : TaskOf(Tail(q))[i] = q[i + 1].task
    BY <2>2 DEF TaskOf
  <2>5. TaskOf(Tail(q)) \in Seq(Task)
    <3>1. \A i \in 1 .. (Len(q) - 1) : TaskOf(Tail(q))[i] \in Task
      BY <1>1, <2>1, <2>4
    <3>2. TaskOf(Tail(q)) = [i \in 1 .. (Len(q) - 1) |-> TaskOf(Tail(q))[i]]
      BY <2>2 DEF TaskOf
    <3>3. Len(q) - 1 \in Nat
      BY <1>1, <2>1
    <3> QED BY <3>1, <3>2, <3>3
  <2>6. Len(TaskOf(Tail(q))) = Len(q) - 1
    <3>1. Len(q) - 1 \in Nat
      BY <1>1, <2>1
    <3>2. \A u \in Seq(Task) : Len(u) \in Nat /\ DOMAIN u = 1 .. Len(u)
      OBVIOUS
    <3> QED BY <2>4, <2>5, <3>1, <3>2
  <2>7. TaskOf(Tail(q)) = Tail(TaskOf(q))
    BY <2>3, <2>4, <2>5, <2>6
  <2> QED BY <1>1, <1>2, <1>5, <2>1, <2>7
<1> QED BY <1>2, <1>3, <1>4, <1>5

-----------------------------------------------------------------------------
(***************************************************************************)
(* The places, and consequences of the invariant that several steps use.   *)
(***************************************************************************)

LEMMA PlaceParts ==
  /\ \A x \in Thread : /\ <<"hand", x>> \in Place /\ In(<<"hand", x>>) = Hand(x)
                       /\ <<"stack", x>> \in Place /\ In(<<"stack", x>>) = ToSet(stack[x])
  /\ <<"mpiq", Mpi>> \in Place /\ In(<<"mpiq", Mpi>>) = ToSet(mpiq)
  /\ <<"polling", Mpi>> \in Place /\ In(<<"polling", Mpi>>) = ToSet(TaskOf(polling))
  /\ <<"test", Mpi>> \in Place /\ In(<<"test", Mpi>>) = {mt.cur.task} \ {NoTask}
  /\ \A p \in Place : \/ \E x \in Thread : p = <<"hand", x>> \/ p = <<"stack", x>>
                      \/ p \in {<<"mpiq", Mpi>>, <<"polling", Mpi>>, <<"test", Mpi>>}
BY DEF Place, In

\* The same after a step.
LEMMA PlacePartsNext ==
  /\ \A x \in Thread : /\ In(<<"hand", x>>)' = Hand(x)'
                       /\ In(<<"stack", x>>)' = ToSet(stack'[x])
  /\ In(<<"mpiq", Mpi>>)' = ToSet(mpiq')
  /\ In(<<"polling", Mpi>>)' = ToSet(TaskOf(polling'))
  /\ In(<<"test", Mpi>>)' = {mt'.cur.task} \ {NoTask}
BY DEF In, TaskOf

\* Whatever is ready, queued or owed, a graph is being executed.
LEMMA Activity ==
  ASSUME MpiInv
  PROVE  /\ Executing => Live /\ graph \in Graphs /\ pc[Main] # "built"
         /\ Live => graph \in Graphs
         /\ \A p \in Place : In(p) # {} => Executing
         /\ \A x \in Thread : Owes(x) # {} => Executing
<1>1. Executing => Live /\ pc[Main] # "built"
  BY DEF Executing, Live
<1>2. Live => graph \in Graphs
  BY DEF MpiInv, Control
<1>3. (\A p \in Place : In(p) # {} => Executing) /\ (\A x \in Thread : Owes(x) # {} => Executing)
  BY DEF MpiInv, Quiet
<1> QED BY <1>1, <1>2, <1>3

\* A task that is somewhere is a ready task of the graph, and nowhere else.
LEMMA Somewhere ==
  ASSUME MpiInv, NEW p \in Place, NEW t \in In(p)
  PROVE  /\ Executing /\ Live /\ graph \in Graphs
         /\ IsReady(t) /\ t \in Work(graph) /\ t \notin done
         /\ t \in Task /\ t # NoTask /\ t \in graph.node /\ t # graph.end
         /\ \A q \in Place : q # p => t \notin In(q)
         /\ \A x \in Thread : /\ p # <<"hand", x>> => t \notin Hand(x)
                              /\ p # <<"stack", x>> => t \notin ToSet(stack[x])
         /\ p # <<"mpiq", Mpi>> => t \notin ToSet(mpiq)
         /\ p # <<"polling", Mpi>> => t \notin ToSet(TaskOf(polling))
         /\ p # <<"test", Mpi>> => t # mt.cur.task
<1>1. Executing /\ Live /\ graph \in Graphs
  BY Activity
<1>2. IsReady(t)
  BY DEF MpiInv, Places
<1>3. t \in Work(graph) /\ t \notin done
  BY <1>2 DEF IsReady
<1>4. t \in Task /\ t # NoTask /\ t \in graph.node /\ t # graph.end
  BY <1>1, <1>3, GraphFacts
<1>5. \A q \in Place : q # p => t \notin In(q)
  BY DEF MpiInv, OnePlace
<1>6. ASSUME NEW x \in Thread
      PROVE  /\ p # <<"hand", x>> => t \notin Hand(x)
             /\ p # <<"stack", x>> => t \notin ToSet(stack[x])
  BY <1>5, PlaceParts
<1>7. /\ p # <<"mpiq", Mpi>> => t \notin ToSet(mpiq)
      /\ p # <<"polling", Mpi>> => t \notin ToSet(TaskOf(polling))
      /\ p # <<"test", Mpi>> => t # mt.cur.task
  BY <1>4, <1>5, PlaceParts
<1> QED BY <1>1, <1>2, <1>3, <1>4, <1>5, <1>6, <1>7

\* Steps that change neither the graph nor a decrement that is owed.
LEMMA PendingKept ==
  ASSUME UNCHANGED <<graph, done>>,
         \A x \in Thread : Owes(x)' = Owes(x),
         \A x \in Thread : Owes(x) # {} => cur'[x] = cur[x]
  PROVE  \A t : Pending(t)' = Pending(t)
BY DEF Pending

\* A predecessor that owes a decrement is pending, so its successor has not run.
LEMMA OwedPending ==
  ASSUME MpiInv, NEW x \in Thread, NEW t \in Owes(x)
  PROVE  /\ Executing
         /\ cur[x] \in Work(graph) /\ cur[x] \in done
         /\ t \in Out(graph, cur[x]) /\ t \in graph.node
         /\ cur[x] \in Pending(t)
         /\ t \notin done
<1>1. Executing /\ Live /\ graph \in Graphs
  BY Activity
<1>2. cur[x] \in done /\ cur[x] \in Work(graph)
  BY <1>1 DEF MpiInv, Bodies, Rounds
<1>3. t \in Out(graph, cur[x])
  BY DEF MpiInv, Bodies, Owes, Out
<1>4. t \in graph.node /\ cur[x] \in graph.node
  BY <1>1, <1>2, <1>3, GraphFacts
<1>5. cur[x] \in Pending(t)
  BY <1>3, <1>4 DEF Pending, Preds
<1>6. t \notin done
  BY <1>1, <1>5 DEF MpiInv, Counts
<1> QED BY <1>1, <1>2, <1>3, <1>4, <1>5, <1>6

LEMMA PendingFinite ==
  ASSUME NEW t, graph \in Graphs
  PROVE  IsFiniteSet(Pending(t)) /\ Cardinality(Pending(t)) \in Nat
<1>1. IsFiniteSet(Pending(t))
  BY PredsFinite, FS_Subset DEF Pending
<1> QED BY <1>1, FS_CardinalityType

\* Termination detection: the end task has its own reference only, so nothing is
\* pending.  A task that had not run would have a successor it keeps waiting; the
\* last of them in the order of the graph keeps nobody but the end task waiting.
LEMMA Termination ==
  ASSUME MpiInv, Executing, ref[graph.end] <= 1
  PROVE  /\ done = Work(graph) /\ begun = done
         /\ \A p \in Place : In(p) = {}
         /\ \A x \in Thread : Owes(x) = {}
<1>1. Live /\ graph \in Graphs
  BY Activity
<1>2. Pending(graph.end) = {}
  <2>1. ref[graph.end] = Cardinality(Pending(graph.end)) + 1
    BY DEF MpiInv, Counts
  <2>2. Cardinality(Pending(graph.end)) \in Nat /\ IsFiniteSet(Pending(graph.end))
    BY <1>1, PendingFinite
  <2>3. Cardinality(Pending(graph.end)) = 0
    BY <2>1, <2>2
  <2> QED BY <2>2, <2>3, FS_EmptySet
<1>3. done \subseteq begun /\ begun \subseteq Work(graph)
  BY <1>1 DEF MpiInv, Rounds
<1>4. Work(graph) \ done = {}
  <2>1. SUFFICES ASSUME Work(graph) \ done # {} PROVE FALSE
    OBVIOUS
  <2>2. PICK t \in Work(graph) \ done :
          Out(graph, t) \cap (Work(graph) \ done) = {} /\ Out(graph, t) # {}
    BY <1>1, <2>1, Sink
  <2>3. PICK u : u \in Out(graph, t)
    BY <2>2
  <2>4. t \in graph.node /\ u \in Work(graph) \cup {graph.end}
    BY <1>1, <2>3, GraphFacts
  <2>5. t \in Pending(u)
    BY <2>2, <2>3, <2>4 DEF Pending, Preds
  <2>6. u \in done
    BY <1>2, <2>2, <2>3, <2>4, <2>5
  <2> QED BY <2>5, <2>6 DEF MpiInv, Counts
<1>5. done = Work(graph) /\ begun = done
  BY <1>3, <1>4
<1>6. \A p \in Place : In(p) = {}
  BY <1>4 DEF MpiInv, Places, IsReady
<1>7. ASSUME NEW x \in Thread PROVE Owes(x) = {}
  <2>1. SUFFICES ASSUME NEW t \in Owes(x) PROVE FALSE
    OBVIOUS
  <2>2. t \in graph.node /\ cur[x] \in Pending(t) /\ t \notin done
    BY OwedPending
  <2> QED BY <1>1, <1>2, <1>5, <2>2, GraphFacts
<1> QED BY <1>5, <1>6, <1>7

-----------------------------------------------------------------------------
(***************************************************************************)
(* What a step keeps if it only moves a task from one place to another.    *)
(***************************************************************************)

\* The step leaves the main thread in the same part of spawn_and_wait.
SamePhase ==
  pc'[Main] = pc[Main] \/ {pc[Main], pc'[Main]} \cap {"idle", "built"} = {}

LEMMA Phase ==
  ASSUME SamePhase
  PROVE  /\ Executing' <=> Executing
         /\ Live' <=> Live
         /\ pc'[Main] = "built" <=> pc[Main] = "built"
         /\ pc'[Main] = "idle" <=> pc[Main] = "idle"
BY DEF SamePhase, Executing, Live

\* A step of the loops, to another point of them.
LEMMA LoopStepFacts ==
  ASSUME TypeOK, NEW th \in Thread, pc[th] \in MpiLabel, NEW l \in MpiLabel, Goto(th, l)
  PROVE  /\ SamePhase
         /\ pc' \in [Thread -> MainLabel \cup MpiLabel]
         /\ pc'[th] = l
         /\ \A x \in Thread \ {th} : pc'[x] = pc[x]
BY MpiAssumption DEF TypeOK, Goto, SamePhase, MpiLabel, WorkerLabel

\* The count of a ready task no longer matters.
LEMMA ExecFrame ==
  ASSUME MpiInv, SamePhase,
         UNCHANGED <<graph, stored, backup, done>>,
         \A u \in Task : ref'[u] = ref[u] \/ (Executing /\ IsReady(u)),
         \A x \in Thread : Owes(x)' = Owes(x),
         \A x \in Thread : Owes(x) # {} =>
            cur'[x] = cur[x] /\ todo'[x] = todo[x] /\ last'[x] = last[x]
  PROVE  /\ \A t : Pending(t)' = Pending(t)
         /\ \A t : IsReady(t)' <=> IsReady(t)
         /\ Bodies' /\ Counts' /\ Stored'
<1>1. \A t : Pending(t)' = Pending(t)
  BY PendingKept
<1>2. \A t : IsReady(t)' <=> IsReady(t)
  BY <1>1 DEF IsReady
<1>3. Bodies'
  <2>1. Bodies
    BY DEF MpiInv
  <2> QED BY <2>1 DEF Bodies
<1>4. Live \/ stored => graph \in Graphs
  BY DEF MpiInv, Control
<1>5. graph \in Graphs => graph.node \subseteq Task /\ graph.end \in graph.node
                          /\ Work(graph) \subseteq graph.node /\ graph.end \notin Work(graph)
  BY GraphFacts
<1>6. \A u \in Task : u \in done \/ Pending(u) # {} \/ u \notin Work(graph) => ref'[u] = ref[u]
  BY DEF IsReady
<1>7. Counts'
  <2>1. Counts /\ (Executing' <=> Executing) /\ (pc'[Main] = "built" <=> pc[Main] = "built")
    BY Phase DEF MpiInv
  <2>2. Pending(graph.end)' = Pending(graph.end)
    BY <1>1
  <2>3. ASSUME pc[Main] = "built" PROVE \A t \in graph.node : ref'[t] = Indegree(graph, t)
    <3>1. ~Executing /\ Live
      BY <2>3 DEF Executing, Live
    <3> QED BY <1>4, <1>5, <2>1, <2>3, <3>1 DEF Counts
  <2>4. ASSUME Executing
        PROVE  /\ \A t \in Work(graph) \ done : Pending(t) # {} => ref'[t] = Cardinality(Pending(t))
               /\ ref'[graph.end] = Cardinality(Pending(graph.end)) + 1
    <3>1. graph \in Graphs
      BY <2>4, Activity
    <3>2. /\ \A t \in Work(graph) \ done : Pending(t) # {} => ref[t] = Cardinality(Pending(t))
          /\ ref[graph.end] = Cardinality(Pending(graph.end)) + 1
      BY <2>1, <2>4 DEF Counts
    <3>3. ref'[graph.end] = ref[graph.end]
      BY <1>5, <1>6, <3>1
    <3>4. \A t \in Work(graph) : Pending(t) # {} => ref'[t] = ref[t]
      BY <1>5, <1>6, <3>1
    <3> QED BY <3>2, <3>3, <3>4
  <2> QED BY <1>1, <2>1, <2>2, <2>3, <2>4 DEF Counts
<1>8. Stored'
  <2>1. Stored /\ TypeOK /\ (pc'[Main] = "idle" <=> pc[Main] = "idle")
    BY Phase DEF MpiInv
  <2>2. \A t \in done : ref'[t] = ref[t]
    BY <1>6, <2>1 DEF TypeOK
  <2>3. stored => ref'[graph.end] = ref[graph.end]
    BY <1>4, <1>5, <1>6
  <2> QED BY <2>1, <2>2, <2>3 DEF Stored
<1> QED BY <1>1, <1>2, <1>3, <1>7, <1>8

\* Task t moves to place q, or appears there.
Moves(t, q) ==
  \A p \in Place : In(p)' = IF p = q THEN In(p) \cup {t} ELSE In(p) \ {t}

Disjoint == \A p, q \in Place : p # q => In(p) \cap In(q) = {}

Covered == \A t \in begun \ done : \E p \in Place : t \in In(p)

LEMMA MovesByParts ==
  ASSUME NEW t, NEW q \in Place,
         \A x \in Thread :
           /\ Hand(x)' = IF q = <<"hand", x>> THEN Hand(x) \cup {t} ELSE Hand(x) \ {t}
           /\ ToSet(stack'[x]) = IF q = <<"stack", x>> THEN ToSet(stack[x]) \cup {t}
                                 ELSE ToSet(stack[x]) \ {t},
         ToSet(mpiq') = IF q = <<"mpiq", Mpi>> THEN ToSet(mpiq) \cup {t}
                        ELSE ToSet(mpiq) \ {t},
         In(<<"polling", Mpi>>)' =
           IF q = <<"polling", Mpi>> THEN In(<<"polling", Mpi>>) \cup {t}
           ELSE In(<<"polling", Mpi>>) \ {t},
         In(<<"test", Mpi>>)' =
           IF q = <<"test", Mpi>> THEN In(<<"test", Mpi>>) \cup {t}
           ELSE In(<<"test", Mpi>>) \ {t}
  PROVE  Moves(t, q)
<1>1. ASSUME NEW p \in Place
      PROVE  In(p)' = IF p = q THEN In(p) \cup {t} ELSE In(p) \ {t}
  <2>1. ASSUME NEW x \in Thread, p = <<"hand", x>>
        PROVE  In(p)' = IF p = q THEN In(p) \cup {t} ELSE In(p) \ {t}
    <3>1. In(p) = Hand(x) /\ In(p)' = Hand(x)'
      BY <2>1 DEF In
    <3> QED BY <2>1, <3>1
  <2>2. ASSUME NEW x \in Thread, p = <<"stack", x>>
        PROVE  In(p)' = IF p = q THEN In(p) \cup {t} ELSE In(p) \ {t}
    <3>1. In(p) = ToSet(stack[x]) /\ In(p)' = ToSet(stack'[x])
      BY <2>2 DEF In
    <3> QED BY <2>2, <3>1
  <2>3. CASE p = <<"mpiq", Mpi>>
    <3>1. In(p) = ToSet(mpiq) /\ In(p)' = ToSet(mpiq')
      BY <2>3 DEF In
    <3> QED BY <2>3, <3>1
  <2>4. CASE p = <<"polling", Mpi>>
    BY <2>4
  <2>5. CASE p = <<"test", Mpi>>
    BY <2>5
  <2> QED BY <2>1, <2>2, <2>3, <2>4, <2>5, PlaceParts
<1> QED BY <1>1 DEF Moves

LEMMA MovesToHand ==
  ASSUME NEW t, NEW th \in Thread,
         \A x \in Thread : Hand(x)' = IF x = th THEN Hand(x) \cup {t} ELSE Hand(x) \ {t},
         \A x \in Thread : ToSet(stack'[x]) = ToSet(stack[x]) \ {t},
         ToSet(mpiq') = ToSet(mpiq) \ {t},
         In(<<"polling", Mpi>>)' = In(<<"polling", Mpi>>) \ {t},
         In(<<"test", Mpi>>)' = In(<<"test", Mpi>>) \ {t}
  PROVE  Moves(t, <<"hand", th>>)
<1> DEFINE q == <<"hand", th>>
<1>1. /\ q \in Place /\ \A x \in Thread : (q = <<"hand", x>> <=> x = th) /\ q # <<"stack", x>>
      /\ q # <<"mpiq", Mpi>> /\ q # <<"polling", Mpi>> /\ q # <<"test", Mpi>>
  BY PlaceParts
<1> HIDE DEF q
<1>2. Moves(t, q)
  BY <1>1, MovesByParts
<1> QED BY <1>2 DEF q

LEMMA MovesToStack ==
  ASSUME NEW t, NEW h \in Thread,
         \A x \in Thread : Hand(x)' = Hand(x) \ {t},
         \A x \in Thread : ToSet(stack'[x]) = IF x = h THEN ToSet(stack[x]) \cup {t}
                                              ELSE ToSet(stack[x]) \ {t},
         ToSet(mpiq') = ToSet(mpiq) \ {t},
         In(<<"polling", Mpi>>)' = In(<<"polling", Mpi>>) \ {t},
         In(<<"test", Mpi>>)' = In(<<"test", Mpi>>) \ {t}
  PROVE  Moves(t, <<"stack", h>>)
<1> DEFINE q == <<"stack", h>>
<1>1. /\ q \in Place /\ \A x \in Thread : (q = <<"stack", x>> <=> x = h) /\ q # <<"hand", x>>
      /\ q # <<"mpiq", Mpi>> /\ q # <<"polling", Mpi>> /\ q # <<"test", Mpi>>
  BY PlaceParts
<1> HIDE DEF q
<1>2. Moves(t, q)
  BY <1>1, MovesByParts
<1> QED BY <1>2 DEF q

LEMMA MovesToMpiq ==
  ASSUME NEW t,
         \A x \in Thread : Hand(x)' = Hand(x) \ {t},
         \A x \in Thread : ToSet(stack'[x]) = ToSet(stack[x]) \ {t},
         ToSet(mpiq') = ToSet(mpiq) \cup {t},
         In(<<"polling", Mpi>>)' = In(<<"polling", Mpi>>) \ {t},
         In(<<"test", Mpi>>)' = In(<<"test", Mpi>>) \ {t}
  PROVE  Moves(t, <<"mpiq", Mpi>>)
<1> DEFINE q == <<"mpiq", Mpi>>
<1>1. /\ q \in Place /\ \A x \in Thread : q # <<"stack", x>> /\ q # <<"hand", x>>
      /\ q = <<"mpiq", Mpi>> /\ q # <<"polling", Mpi>> /\ q # <<"test", Mpi>>
  BY PlaceParts
<1> HIDE DEF q
<1>2. Moves(t, q)
  BY <1>1, MovesByParts
<1> QED BY <1>2 DEF q

\* The task leaves the extra thread's polling loop alone.
LEMMA PollingParts ==
  ASSUME MpiInv, NEW p \in Place, NEW t, UNCHANGED <<polling, mt>>,
         \/ t \in In(p) /\ p \notin {<<"polling", Mpi>>, <<"test", Mpi>>}
         \/ \A q \in Place : t \notin In(q)
  PROVE  /\ In(<<"polling", Mpi>>)' = In(<<"polling", Mpi>>) \ {t}
         /\ In(<<"test", Mpi>>)' = In(<<"test", Mpi>>) \ {t}
<1>1. /\ In(<<"polling", Mpi>>)' = In(<<"polling", Mpi>>)
      /\ In(<<"test", Mpi>>)' = In(<<"test", Mpi>>)
  BY DEF In, TaskOf
<1>2. <<"polling", Mpi>> \in Place /\ <<"test", Mpi>> \in Place
  BY PlaceParts
<1>3. t \notin In(<<"polling", Mpi>>) /\ t \notin In(<<"test", Mpi>>)
  BY <1>2, Somewhere
<1> QED BY <1>1, <1>3

LEMMA Move ==
  ASSUME MpiInv, NEW t, NEW q \in Place, Moves(t, q), IsReady(t)',
         \A u : IsReady(u) => IsReady(u)', UNCHANGED <<begun, done>>
  PROVE  Places' /\ Disjoint' /\ Covered'
<1>1. Places'
  BY DEF MpiInv, Places, Moves
<1>2. Disjoint'
  BY DEF MpiInv, OnePlace, Disjoint, Moves
<1>3. Covered'
  <2>1. ASSUME NEW u \in begun \ done PROVE \E p \in Place : u \in In(p)'
    <3>1. PICK p \in Place : u \in In(p)
      BY DEF MpiInv, Suspension
    <3>2. CASE u = t
      BY <3>2 DEF Moves
    <3>3. CASE u # t
      BY <3>1, <3>3 DEF Moves
    <3> QED BY <3>2, <3>3
  <2> QED BY <2>1 DEF Covered
<1> QED BY <1>1, <1>2, <1>3

\* No task changes its place.
Stays == \A p \in Place : In(p)' = In(p)

LEMMA StaysByParts ==
  ASSUME UNCHANGED <<stack, mpiq, polling, mt>>, \A x \in Thread : Hand(x)' = Hand(x)
  PROVE  Stays
<1>1. ASSUME NEW p \in Place PROVE In(p)' = In(p)
  <2>1. ASSUME NEW x \in Thread, p = <<"hand", x>> PROVE In(p)' = In(p)
    BY <2>1 DEF In
  <2>2. ASSUME NEW x \in Thread, p = <<"stack", x>> PROVE In(p)' = In(p)
    BY <2>2 DEF In
  <2>3. CASE p \in {<<"mpiq", Mpi>>, <<"polling", Mpi>>, <<"test", Mpi>>}
    BY <2>3 DEF In, TaskOf
  <2> QED BY <2>1, <2>2, <2>3, PlaceParts
<1> QED BY <1>1 DEF Stays

LEMMA Stay ==
  ASSUME MpiInv, Stays, \A u : IsReady(u) => IsReady(u)', UNCHANGED <<begun, done>>
  PROVE  Places' /\ Disjoint' /\ Covered'
<1>1. Places'
  BY DEF MpiInv, Places, Stays
<1>2. Disjoint'
  BY DEF MpiInv, OnePlace, Disjoint, Stays
<1>3. Covered'
  BY DEF MpiInv, Suspension, Covered, Stays
<1> QED BY <1>1, <1>2, <1>3

\* A queue that is not touched holds no task twice.
LEMMA QueuesKept ==
  ASSUME MpiInv, UNCHANGED <<stack, mpiq, polling>>, Disjoint'
  PROVE  OnePlace'
<1>1. IsInjective(mpiq') /\ IsInjective(TaskOf(polling'))
  BY DEF MpiInv, OnePlace
<1>2. \A th \in Thread : IsInjective(stack'[th])
  BY DEF MpiInv, OnePlace
<1> QED BY <1>1, <1>2 DEF Disjoint, OnePlace, TaskOf

\* Steps outside the polling loop.
LEMMA RequestsKept ==
  ASSUME MpiInv, UNCHANGED <<polling, comm, mt, pending>>,
         \/ pc'[Mpi] = pc[Mpi] /\ cur'[Mpi] = cur[Mpi]
         \/ {pc[Mpi], pc'[Mpi]} \cap {"requeue", "test2"} = {}
  PROVE  Requests'
BY DEF MpiInv, Requests

\* Steps that neither delete a task nor end the execution of one.
LEMMA AliveKept ==
  ASSUME MpiInv, SamePhase, UNCHANGED <<graph, stored, freed, done, suspend>>,
         \A x \in Thread : pc'[x] \in {"dec", "fin"} => pc'[x] = pc[x] /\ cur'[x] = cur[x]
  PROVE  Alive'
<1>1. Alive /\ (Live' <=> Live)
  BY Phase DEF MpiInv
<1> QED BY <1>1 DEF Alive

-----------------------------------------------------------------------------
(***************************************************************************)
(* Every step keeps the invariant: the queues of the schedulers.           *)
(***************************************************************************)

LEMMA TakeStep ==
  ASSUME MpiInv, NEW th \in Thread, Take(th)
  PROVE  MpiInv'
<1>0. PICK s, c : s = stack[th] /\ c = Last(s)
  OBVIOUS
<1>1. /\ th # Mpi /\ pc[th] = "check" /\ cur[th] = NoTask /\ s # <<>>
      /\ cur' = [cur EXCEPT ![th] = c]
      /\ stack' = [stack EXCEPT ![th] = Front(s)]
      /\ UNCHANGED <<graph, stored, round, ref, backup, freed, suspend, mpiq, polling,
                     todo, last, nxt, begun, done, count, comm, mt, pc, pending>>
  BY <1>0 DEF Take, graphVars, taskVars, historyVars
<1>2. TypeOK /\ Control /\ Rounds /\ Suspension /\ OnePlace
  BY DEF MpiInv
<1>3. /\ s \in Seq(Task) /\ c \in Task /\ Front(s) \in Seq(Task)
      /\ ToSet(s) = ToSet(Front(s)) \cup {c}
      /\ IsInjective(Front(s)) /\ c \notin ToSet(Front(s))
  <2>1. s \in Seq(Task) /\ IsInjective(s)
    BY <1>0, <1>2 DEF TypeOK, OnePlace
  <2> QED BY <1>0, <1>1, <2>1, FrontFacts
<1>4. /\ cur' \in [Thread -> Task \cup {NoTask}] /\ stack' \in [Thread -> Seq(Task)]
      /\ cur'[th] = c /\ stack'[th] = Front(s)
      /\ \A x \in Thread \ {th} : cur'[x] = cur[x] /\ stack'[x] = stack[x]
  BY <1>1, <1>2, <1>3 DEF TypeOK
<1>5. c \in In(<<"stack", th>>) /\ <<"stack", th>> \in Place /\ <<"hand", th>> \in Place
  BY <1>0, <1>3, PlaceParts
<1>6. /\ Executing /\ IsReady(c) /\ c # NoTask
      /\ \A q \in Place : q # <<"stack", th>> => c \notin In(q)
  BY <1>5, Somewhere
<1>7. SamePhase
  BY <1>1 DEF SamePhase
<1>8. \A x \in Thread : Owes(x)' = Owes(x) /\ (Owes(x) # {} => cur'[x] = cur[x])
  BY <1>1, <1>4 DEF Owes
<1>9. /\ \A t : IsReady(t)' <=> IsReady(t)
      /\ Bodies' /\ Counts' /\ Stored'
  BY <1>1, <1>7, <1>8, ExecFrame
<1>10. nxt[th] = NoTask
  BY <1>1, <1>2 DEF Control
<1>11. Hand(th) = {} /\ Hand(th)' = {c} /\ \A x \in Thread \ {th} : Hand(x)' = Hand(x)
  BY <1>1, <1>4, <1>6, <1>10 DEF Hand
<1>12. Moves(c, <<"hand", th>>)
  <2>1. \A x \in Thread : x # th => c \notin ToSet(stack[x])
    BY <1>5, Somewhere
  <2>2. \A x \in Thread : c \notin Hand(x)
    BY <1>5, Somewhere
  <2>3. c \notin ToSet(mpiq)
    BY <1>5, Somewhere
  <2>4. /\ In(<<"polling", Mpi>>)' = In(<<"polling", Mpi>>) \ {c}
        /\ In(<<"test", Mpi>>)' = In(<<"test", Mpi>>) \ {c}
    BY <1>1, <1>5, PollingParts
  <2>5. \A x \in Thread : ToSet(stack'[x]) = ToSet(stack[x]) \ {c}
    BY <1>0, <1>3, <1>4, <2>1
  <2>6. \A x \in Thread : Hand(x)' = IF x = th THEN Hand(x) \cup {c} ELSE Hand(x) \ {c}
    BY <1>11, <2>2
  <2>7. ToSet(mpiq') = ToSet(mpiq) \ {c}
    BY <1>1, <2>3
  <2> QED BY <2>4, <2>5, <2>6, <2>7, MovesToHand
<1>13. Places' /\ Disjoint' /\ Covered'
  BY <1>1, <1>5, <1>6, <1>9, <1>12, Move
<1>14. OnePlace'
  <2>1. IsInjective(mpiq') /\ IsInjective(TaskOf(polling'))
    BY <1>1, <1>2 DEF OnePlace
  <2>2. \A x \in Thread : IsInjective(stack'[x])
    BY <1>2, <1>3, <1>4 DEF OnePlace
  <2> QED BY <1>13, <2>1, <2>2 DEF OnePlace, Disjoint, TaskOf
<1>15. TypeOK'
  BY <1>1, <1>2, <1>4 DEF TypeOK
<1>16. Control'
  BY <1>1, <1>2, <1>4, <1>6 DEF Control, Live
<1>17. Rounds'
  BY <1>1, <1>2, <1>7, Phase DEF Rounds
<1>18. Quiet'
  BY <1>6, <1>7, Phase DEF Quiet
<1>19. Suspension'
  <2>1. c \notin begun /\ ToSet(stack'[th]) \cap begun = {}
    BY <1>0, <1>2, <1>3, <1>4 DEF Suspension
  <2>2. \A x \in Thread : ToSet(stack'[x]) \cap begun = {}
    BY <1>2, <1>4, <2>1 DEF Suspension
  <2> QED BY <1>1, <1>2, <1>4, <1>13, <2>1, <2>2 DEF Suspension, Covered
<1>20. Alive'
  BY <1>1, <1>4, <1>7, AliveKept
<1>21. Requests'
  BY <1>1, <1>4, RequestsKept
<1> QED BY <1>9, <1>13, <1>14, <1>15, <1>16, <1>17, <1>18, <1>19, <1>20, <1>21 DEF MpiInv

\* A task that is in no queue is queued by its type.
LEMMA QueueFacts ==
  ASSUME MpiInv, graph \in Graphs, NEW t \in Task, t \in graph.node, Queue(t),
         UNCHANGED <<polling, mt>>,
         \A x \in Thread : t \notin ToSet(stack[x]),
         t \notin ToSet(mpiq), t \notin In(<<"polling", Mpi>>), t \notin In(<<"test", Mpi>>),
         \A x \in Thread : Hand(x)' = Hand(x) \ {t}
  PROVE  /\ stack' \in [Thread -> Seq(Task)] /\ mpiq' \in Seq(Task)
         /\ \E q \in Place : Moves(t, q)
         /\ \A x \in Thread : IsInjective(stack'[x])
         /\ IsInjective(mpiq')
         /\ \A x \in Thread : ToSet(stack'[x]) \subseteq ToSet(stack[x]) \cup {t}
<1>1. TypeOK /\ OnePlace
  BY DEF MpiInv
<1>2. /\ In(<<"polling", Mpi>>)' = In(<<"polling", Mpi>>) \ {t}
      /\ In(<<"test", Mpi>>)' = In(<<"test", Mpi>>) \ {t}
  BY DEF In, TaskOf
<1>3. CASE t \in Blocking
  <2>1. mpiq' = Append(mpiq, t) /\ stack' = stack
    BY <1>3 DEF Queue
  <2>2. mpiq \in Seq(Task) /\ IsInjective(mpiq)
    BY <1>1 DEF TypeOK, OnePlace
  <2>3. mpiq' \in Seq(Task) /\ IsInjective(mpiq') /\ ToSet(mpiq') = ToSet(mpiq) \cup {t}
    BY <2>1, <2>2, AppendFacts
  <2>4. \A x \in Thread : ToSet(stack'[x]) = ToSet(stack[x]) \ {t}
    BY <2>1
  <2>5. Moves(t, <<"mpiq", Mpi>>)
    BY <1>2, <2>3, <2>4, MovesToMpiq
  <2> QED BY <1>1, <2>1, <2>3, <2>5, PlaceParts DEF TypeOK, OnePlace
<1>4. CASE t \notin Blocking
  <2>0. PICK h \in Thread : h = graph.aff[t]
    BY GraphFacts
  <2>1. stack' = [stack EXCEPT ![h] = Append(stack[h], t)] /\ mpiq' = mpiq
    BY <1>4, <2>0 DEF Queue
  <2>2. stack[h] \in Seq(Task) /\ IsInjective(stack[h])
    BY <1>1 DEF TypeOK, OnePlace
  <2>3. /\ Append(stack[h], t) \in Seq(Task) /\ IsInjective(Append(stack[h], t))
        /\ ToSet(Append(stack[h], t)) = ToSet(stack[h]) \cup {t}
    BY <2>2, AppendFacts
  <2>4. /\ stack' \in [Thread -> Seq(Task)] /\ stack'[h] = Append(stack[h], t)
        /\ \A x \in Thread \ {h} : stack'[x] = stack[x]
    BY <1>1, <2>1, <2>3 DEF TypeOK
  <2>5. \A x \in Thread : ToSet(stack'[x]) = IF x = h THEN ToSet(stack[x]) \cup {t}
                                             ELSE ToSet(stack[x]) \ {t}
    BY <2>3, <2>4
  <2>6. ToSet(mpiq') = ToSet(mpiq) \ {t}
    BY <2>1
  <2>7. Moves(t, <<"stack", h>>)
    BY <1>2, <2>5, <2>6, MovesToStack
  <2>8. \A x \in Thread : IsInjective(stack'[x])
    BY <1>1, <2>3, <2>4 DEF OnePlace
  <2> QED BY <1>1, <2>1, <2>4, <2>5, <2>7, <2>8, PlaceParts DEF TypeOK, OnePlace
<1> QED BY <1>3, <1>4

LEMMA SpawnRootStep ==
  ASSUME MpiInv, SpawnRoot
  PROVE  MpiInv'
<1>1. PICK t \in todo[Main] : todo' = [todo EXCEPT ![Main] = @ \ {t}] /\ Queue(t)
  BY DEF SpawnRoot
<1>2. /\ pc[Main] = "spawn"
      /\ UNCHANGED <<graph, stored, round, ref, backup, freed, suspend, polling,
                     cur, last, nxt, begun, done, count, comm, mt, pc, pending>>
  BY DEF SpawnRoot, graphVars, taskVars, historyVars
<1>3. TypeOK /\ Control /\ Rounds /\ Suspension /\ OnePlace /\ Main \in Thread
  BY MpiAssumption DEF MpiInv
<1>4. /\ todo' \in [Thread -> SUBSET Task] /\ todo'[Main] = todo[Main] \ {t}
      /\ \A x \in Thread \ {Main} : todo'[x] = todo[x]
  BY <1>1, <1>3 DEF TypeOK
<1>5. /\ t \in Hand(Main) /\ nxt[Main] = NoTask
      /\ t \in In(<<"hand", Main>>) /\ <<"hand", Main>> \in Place
  <2>1. t \in Hand(Main) /\ nxt[Main] = NoTask
    BY <1>2, <1>3 DEF Hand, Control
  <2> QED BY <1>3, <2>1, PlaceParts
<1>6. /\ Executing /\ graph \in Graphs /\ IsReady(t) /\ t \in Task /\ t \in graph.node
      /\ \A q \in Place : q # <<"hand", Main>> => t \notin In(q)
      /\ \A x \in Thread : (x # Main => t \notin Hand(x)) /\ t \notin ToSet(stack[x])
      /\ t \notin ToSet(mpiq)
  BY <1>5, Somewhere
<1>7. t \notin In(<<"polling", Mpi>>) /\ t \notin In(<<"test", Mpi>>)
  BY <1>6, PlaceParts
<1>8. SamePhase /\ \A x \in Thread : Owes(x)' = Owes(x) /\ (Owes(x) # {} => todo'[x] = todo[x])
  BY <1>2, <1>4 DEF SamePhase, Owes
<1>9. /\ \A u : IsReady(u)' <=> IsReady(u)
      /\ Bodies' /\ Counts' /\ Stored'
  BY <1>2, <1>8, ExecFrame
<1>10. \A x \in Thread : Hand(x)' = Hand(x) \ {t}
  <2>1. Hand(Main)' = Hand(Main) \ {t}
    BY <1>2, <1>4, <1>5 DEF Hand
  <2>2. \A x \in Thread \ {Main} : Hand(x)' = Hand(x)
    BY <1>2, <1>4 DEF Hand
  <2> QED BY <1>6, <2>1, <2>2
<1>11. /\ stack' \in [Thread -> Seq(Task)] /\ mpiq' \in Seq(Task)
       /\ \E q \in Place : Moves(t, q)
       /\ \A x \in Thread : IsInjective(stack'[x])
       /\ IsInjective(mpiq')
       /\ \A x \in Thread : ToSet(stack'[x]) \subseteq ToSet(stack[x]) \cup {t}
  BY <1>1, <1>2, <1>6, <1>7, <1>10, QueueFacts
<1>12. Places' /\ Disjoint' /\ Covered'
  BY <1>2, <1>6, <1>9, <1>11, Move
<1>13. OnePlace'
  BY <1>2, <1>3, <1>11, <1>12 DEF OnePlace, Disjoint, TaskOf
<1>14. TypeOK'
  BY <1>2, <1>3, <1>4, <1>11 DEF TypeOK
<1>15. Control'
  BY <1>2, <1>3, <1>4 DEF Control, Live
<1>16. Rounds'
  BY <1>2, <1>3, <1>8, Phase DEF Rounds
<1>17. Quiet'
  BY <1>6, <1>8, Phase DEF Quiet
<1>18. Suspension'
  <2>1. t \notin begun
    BY <1>2, <1>3 DEF Suspension
  <2>2. \A x \in Thread : ToSet(stack'[x]) \cap begun = {}
    BY <1>3, <1>11, <2>1 DEF Suspension
  <2> QED BY <1>2, <1>3, <1>4, <1>12, <2>2 DEF Suspension, Covered
<1>19. Alive'
  BY <1>2, <1>8, AliveKept
<1>20. Requests'
  BY <1>2, RequestsKept
<1> QED BY <1>9, <1>12, <1>13, <1>14, <1>15, <1>16, <1>17, <1>18, <1>19, <1>20 DEF MpiInv

LEMMA EndSpawnStep ==
  ASSUME MpiInv, EndSpawn
  PROVE  MpiInv'
<1>1. /\ pc[Main] = "spawn" /\ todo[Main] = {} /\ Goto(Main, "check")
      /\ UNCHANGED <<graph, stored, round, ref, backup, freed, suspend, stack, mpiq, polling,
                     cur, todo, last, nxt, begun, done, count, comm, mt, pending>>
  BY DEF EndSpawn, graphVars, taskVars, queueVars, localVars, historyVars
<1>2. TypeOK /\ Control /\ Rounds /\ Suspension /\ Main \in Thread /\ Mpi # Main
  BY MpiAssumption DEF MpiInv
<1>3. /\ pc' \in [Thread -> MainLabel \cup MpiLabel] /\ pc'[Main] = "check"
      /\ \A x \in Thread \ {Main} : pc'[x] = pc[x]
  BY <1>1, <1>2 DEF TypeOK, Goto, MpiLabel, WorkerLabel
<1>4. SamePhase /\ Executing
  BY <1>1, <1>3 DEF SamePhase, Executing
<1>5. cur[Main] = NoTask
  BY <1>1, <1>2 DEF Control
<1>6. \A x \in Thread : Owes(x)' = Owes(x) /\ Hand(x)' = Hand(x)
  BY <1>1, <1>2, <1>3, <1>5 DEF Owes, Hand
<1>7. /\ \A u : IsReady(u)' <=> IsReady(u)
      /\ Bodies' /\ Counts' /\ Stored'
  BY <1>1, <1>4, <1>6, ExecFrame
<1>8. Stays
  BY <1>1, <1>6, StaysByParts
<1>9. Places' /\ Disjoint' /\ Covered'
  BY <1>1, <1>7, <1>8, Stay
<1>10. OnePlace'
  BY <1>1, <1>9, QueuesKept
<1>11. TypeOK'
  BY <1>1, <1>2, <1>3 DEF TypeOK
<1>12. Control'
  BY MpiAssumption, <1>1, <1>2, <1>3, <1>5 DEF Control, Live, MainLabel
<1>13. Rounds'
  BY <1>1, <1>2, <1>4, Phase DEF Rounds
<1>14. Quiet'
  BY <1>4, Phase DEF Quiet
<1>15. Suspension'
  <2>1. NoTask \notin begun
    BY <1>2, MpiAssumption DEF TypeOK
  <2> QED BY <1>1, <1>2, <1>3, <1>5, <1>9, <2>1 DEF Suspension, Covered
<1>16. Alive'
  BY <1>1, <1>3, <1>4, AliveKept
<1>17. Requests'
  BY <1>1, <1>2, <1>3, MpiAssumption, RequestsKept
<1> QED BY <1>7, <1>9, <1>10, <1>11, <1>12, <1>13, <1>14, <1>15, <1>16, <1>17 DEF MpiInv

-----------------------------------------------------------------------------
(***************************************************************************)
(* The loop: a task is handed over, begins, and its execution is finished. *)
(***************************************************************************)

LEMMA HandOverStep ==
  ASSUME MpiInv, NEW th \in Thread, HandOver(th)
  PROVE  MpiInv'
<1>0. PICK c : c = cur[th]
  OBVIOUS
<1>1. /\ pc[th] = "check" /\ c # NoTask /\ th # Mpi
      /\ mpiq' = Append(mpiq, c)
      /\ cur' = [cur EXCEPT ![th] = NoTask]
      /\ UNCHANGED <<graph, stored, round, ref, backup, freed, suspend, stack, polling,
                     todo, last, nxt, begun, done, count, comm, mt, pc, pending>>
  BY <1>0 DEF HandOver, Keeps, graphVars, taskVars, historyVars
<1>2. TypeOK /\ Control /\ Rounds /\ Suspension /\ OnePlace
  BY DEF MpiInv
<1>3. /\ nxt[th] = NoTask /\ c \in Hand(th)
      /\ c \in In(<<"hand", th>>) /\ <<"hand", th>> \in Place
  <2>1. c \in Hand(th) /\ nxt[th] = NoTask
    BY <1>0, <1>1, <1>2 DEF Hand, Control
  <2> QED BY <2>1, PlaceParts
<1>4. /\ Executing /\ IsReady(c) /\ c \in Task
      /\ \A x \in Thread : (x # th => c \notin Hand(x)) /\ c \notin ToSet(stack[x])
      /\ c \notin ToSet(mpiq)
  BY <1>3, Somewhere
<1>5. /\ cur' \in [Thread -> Task \cup {NoTask}] /\ cur'[th] = NoTask
      /\ \A x \in Thread \ {th} : cur'[x] = cur[x]
  BY <1>1, <1>2 DEF TypeOK
<1>6. /\ mpiq' \in Seq(Task) /\ IsInjective(mpiq') /\ ToSet(mpiq') = ToSet(mpiq) \cup {c}
  <2>1. mpiq \in Seq(Task) /\ IsInjective(mpiq)
    BY <1>2 DEF TypeOK, OnePlace
  <2> QED BY <1>1, <1>4, <2>1, AppendFacts
<1>7. SamePhase
  BY <1>1 DEF SamePhase
<1>8. \A x \in Thread : Owes(x)' = Owes(x) /\ (Owes(x) # {} => cur'[x] = cur[x])
  BY <1>1, <1>5 DEF Owes
<1>9. /\ \A t : IsReady(t)' <=> IsReady(t)
      /\ Bodies' /\ Counts' /\ Stored'
  BY <1>1, <1>7, <1>8, ExecFrame
<1>10. \A x \in Thread : Hand(x)' = Hand(x) \ {c}
  <2>1. Hand(th) = {c} /\ Hand(th)' = {}
    BY <1>0, <1>1, <1>3, <1>5 DEF Hand
  <2>2. \A x \in Thread \ {th} : Hand(x)' = Hand(x)
    BY <1>1, <1>5 DEF Hand
  <2> QED BY <1>4, <2>1, <2>2
<1>11. Moves(c, <<"mpiq", Mpi>>) /\ <<"mpiq", Mpi>> \in Place
  <2>1. /\ In(<<"polling", Mpi>>)' = In(<<"polling", Mpi>>) \ {c}
        /\ In(<<"test", Mpi>>)' = In(<<"test", Mpi>>) \ {c}
    BY <1>1, <1>3, PollingParts
  <2>2. \A x \in Thread : ToSet(stack'[x]) = ToSet(stack[x]) \ {c}
    BY <1>1, <1>4
  <2> QED BY <1>6, <1>10, <2>1, <2>2, MovesToMpiq, PlaceParts
<1>12. Places' /\ Disjoint' /\ Covered'
  BY <1>1, <1>4, <1>9, <1>11, Move
<1>13. OnePlace'
  BY <1>1, <1>2, <1>6, <1>12 DEF OnePlace, Disjoint, TaskOf
<1>14. TypeOK'
  BY <1>1, <1>2, <1>5, <1>6 DEF TypeOK
<1>15. Control'
  BY <1>1, <1>2, <1>5 DEF Control, Live
<1>16. Rounds'
  BY <1>1, <1>2, <1>7, Phase DEF Rounds
<1>17. Quiet'
  BY <1>4, <1>7, Phase DEF Quiet
<1>18. Suspension'
  <2>1. NoTask \notin begun
    BY <1>2, MpiAssumption DEF TypeOK
  <2> QED BY <1>1, <1>2, <1>5, <1>12, <2>1 DEF Suspension, Covered
<1>19. Alive'
  BY <1>1, <1>5, <1>7, AliveKept
<1>20. Requests'
  BY <1>1, <1>5, RequestsKept, MpiAssumption
<1> QED BY <1>9, <1>12, <1>13, <1>14, <1>15, <1>16, <1>17, <1>18, <1>19, <1>20 DEF MpiInv

LEMMA BeginStep ==
  ASSUME MpiInv, NEW th \in Thread, Begin(th)
  PROVE  MpiInv'
<1>0. PICK c : c = cur[th]
  OBVIOUS
<1>1. /\ pc[th] = "check" /\ c # NoTask /\ (th # Mpi => c \notin Blocking)
      /\ begun' = begun \cup {c} /\ Goto(th, "run")
      /\ UNCHANGED <<graph, stored, round, ref, backup, freed, suspend, stack, mpiq, polling,
                     cur, todo, last, nxt, done, count, comm, mt, pending>>
  BY <1>0 DEF Begin, Keeps, graphVars, taskVars, queueVars, localVars
<1>2. TypeOK /\ Control /\ Rounds /\ Suspension
  BY DEF MpiInv
<1>3. /\ SamePhase
      /\ pc' \in [Thread -> MainLabel \cup MpiLabel] /\ pc'[th] = "run"
      /\ \A x \in Thread \ {th} : pc'[x] = pc[x]
  BY <1>1, <1>2, LoopStepFacts DEF MpiLabel, WorkerLabel
<1>4. /\ nxt[th] = NoTask /\ c \in Hand(th)
      /\ c \in In(<<"hand", th>>) /\ <<"hand", th>> \in Place
  <2>1. c \in Hand(th) /\ nxt[th] = NoTask
    BY <1>0, <1>1, <1>2 DEF Hand, Control
  <2> QED BY <2>1, PlaceParts
<1>5. /\ Executing /\ Live /\ IsReady(c) /\ c \in Task /\ c \in Work(graph)
      /\ \A x \in Thread : (x # th => c \notin Hand(x)) /\ c \notin ToSet(stack[x])
  BY <1>4, Somewhere
<1>6. \A x \in Thread : Owes(x)' = Owes(x) /\ Hand(x)' = Hand(x)
  BY <1>1, <1>3 DEF Owes, Hand
<1>7. /\ \A t : IsReady(t)' <=> IsReady(t)
      /\ Bodies' /\ Counts' /\ Stored'
  BY <1>1, <1>3, <1>6, ExecFrame
<1>8. Stays
  BY <1>1, <1>6, StaysByParts
<1>9. Places' /\ Disjoint' /\ Covered'
  <2>1. Places' /\ Disjoint'
    BY <1>7, <1>8 DEF MpiInv, Places, OnePlace, Disjoint, Stays
  <2>2. \A u \in begun' \ done' : \E p \in Place : u \in In(p)'
    BY <1>1, <1>2, <1>4, <1>8 DEF Suspension, Stays
  <2> QED BY <2>1, <2>2 DEF Covered
<1>10. OnePlace'
  BY <1>1, <1>9, QueuesKept
<1>11. TypeOK'
  BY <1>1, <1>2, <1>3, <1>5 DEF TypeOK
<1>12. Control'
  <2>1. (Live' <=> Live) /\ (pc[Mpi] = "requeue" <=> pc'[Mpi] = "requeue")
        /\ (pc[Mpi] \in {"test1", "test2"} <=> pc'[Mpi] \in {"test1", "test2"})
    BY <1>1, <1>3, Phase, MpiAssumption
  <2> QED BY <1>0, <1>1, <1>2, <1>3, <2>1, MpiAssumption DEF Control, MainLabel, MpiLabel, WorkerLabel
<1>13. Rounds'
  BY <1>1, <1>2, <1>3, <1>5, Phase DEF Rounds, Executing
<1>14. Quiet'
  BY <1>3, <1>5, Phase DEF Quiet
<1>15. Suspension'
  <2>1. ASSUME NEW x \in Thread
        PROVE  /\ pc'[x] \in {"run", "requeue"} => cur[x] \in begun'
               /\ pc'[x] = "spawn" => todo[x] \cap begun' = {}
               /\ pc'[x] = "check" /\ x # Mpi => cur[x] \notin begun'
               /\ nxt[x] \notin begun'
               /\ ToSet(stack[x]) \cap begun' = {}
    <3>1. NoTask \notin begun
      BY <1>2, MpiAssumption DEF TypeOK
    <3>2. CASE x = th
      BY <1>0, <1>1, <1>2, <1>3, <1>4, <1>5, <3>1, <3>2 DEF Suspension
    <3>3. CASE x # th
      <4>1. pc'[x] = pc[x] /\ c \notin Hand(x)
        BY <1>3, <1>5, <3>3
      <4>2. /\ nxt[x] # c /\ (pc[x] = "spawn" => c \notin todo[x])
            /\ pc[x] = "check" => cur[x] # c
        BY <1>1, <4>1 DEF Hand
      <4> QED BY <1>1, <1>2, <1>5, <4>1, <4>2 DEF Suspension
    <3> QED BY <3>2, <3>3
  <2> QED BY <1>1, <1>9, <2>1 DEF Suspension, Covered
<1>16. Alive'
  BY <1>1, <1>3, AliveKept
<1>17. Requests'
  BY <1>1, <1>3, RequestsKept, MpiAssumption
<1> QED BY <1>7, <1>9, <1>10, <1>11, <1>12, <1>13, <1>14, <1>15, <1>16, <1>17 DEF MpiInv

LEMMA FinishStep ==
  ASSUME MpiInv, NEW th \in Thread, Finish(th)
  PROVE  MpiInv'
<1>0. PICK c, n, l : c = cur[th] /\ n = nxt[th]
                     /\ l = IF th = Mpi /\ nxt[th] = NoTask THEN "poll" ELSE "check"
  OBVIOUS
<1>1. /\ pc[th] = "fin" /\ Goto(th, l)
      /\ freed' = freed \cup Deleted(th)
      /\ ref' = IF th = Mpi /\ n # NoTask THEN [ref EXCEPT ![n] = backup[n]] ELSE ref
      /\ cur' = [cur EXCEPT ![th] = n]
      /\ nxt' = [nxt EXCEPT ![th] = NoTask]
      /\ UNCHANGED <<graph, stored, round, backup, suspend, stack, mpiq, polling,
                     todo, last, begun, done, count, comm, mt, pending>>
  BY <1>0 DEF Finish, graphVars, queueVars, historyVars
<1>2. TypeOK /\ Control /\ Rounds /\ Suspension /\ Alive
  BY DEF MpiInv
<1>3. /\ SamePhase
      /\ pc' \in [Thread -> MainLabel \cup MpiLabel] /\ pc'[th] = l
      /\ \A x \in Thread \ {th} : pc'[x] = pc[x]
  <2>1. l \in MpiLabel /\ pc[th] \in MpiLabel
    BY <1>0, <1>1 DEF MpiLabel, WorkerLabel
  <2> QED BY <1>1, <1>2, <2>1, LoopStepFacts
<1>4. /\ cur' \in [Thread -> Task \cup {NoTask}] /\ nxt' \in [Thread -> Task \cup {NoTask}]
      /\ cur'[th] = n /\ nxt'[th] = NoTask
      /\ \A x \in Thread \ {th} : cur'[x] = cur[x] /\ nxt'[x] = nxt[x]
  BY <1>0, <1>1, <1>2 DEF TypeOK
<1>5. c # NoTask
  BY <1>0, <1>1, <1>2 DEF Control
<1>6. n # NoTask => Executing /\ IsReady(n) /\ n \in Task
  <2>1. SUFFICES ASSUME n # NoTask PROVE Executing /\ IsReady(n) /\ n \in Task
    OBVIOUS
  <2>2. n \in In(<<"hand", th>>) /\ <<"hand", th>> \in Place
    BY <1>0, <2>1, PlaceParts DEF Hand
  <2> QED BY <2>2, Somewhere
<1>7. /\ \A x \in Thread : Owes(x)' = Owes(x)
      /\ \A x \in Thread : Owes(x) # {} => cur'[x] = cur[x]
  <2>1. Owes(th) = {} /\ Owes(th)' = {}
    BY <1>0, <1>1, <1>3 DEF Owes
  <2>2. \A x \in Thread \ {th} : Owes(x)' = Owes(x)
    BY <1>1, <1>3 DEF Owes
  <2> QED BY <1>4, <2>1, <2>2
<1>8. ref' \in [Task -> Int] /\ \A u \in Task : ref'[u] = ref[u] \/ (Executing /\ IsReady(u))
  <2>1. CASE th = Mpi /\ n # NoTask
    BY <1>1, <1>2, <1>6, <2>1 DEF TypeOK
  <2>2. CASE ~(th = Mpi /\ n # NoTask)
    <3>1. ref' = ref
      BY <1>1, <2>2
    <3> QED BY <1>2, <3>1 DEF TypeOK
  <2> QED BY <2>1, <2>2
<1>9. /\ \A t : IsReady(t)' <=> IsReady(t)
      /\ Bodies' /\ Counts' /\ Stored'
  BY <1>1, <1>3, <1>7, <1>8, ExecFrame
<1>10. \A x \in Thread : Hand(x)' = Hand(x)
  <2>1. Hand(th)' = Hand(th)
    <3>1. Hand(th) = {n} \ {NoTask}
      BY <1>0, <1>1 DEF Hand
    <3>2. CASE l = "check"
      BY <1>3, <1>4, <3>1, <3>2 DEF Hand
    <3>3. CASE l = "poll"
      BY <1>0, <1>3, <1>4, <3>1, <3>3 DEF Hand
    <3> QED BY <1>0, <3>2, <3>3
  <2>2. \A x \in Thread \ {th} : Hand(x)' = Hand(x)
    BY <1>1, <1>3, <1>4 DEF Hand
  <2> QED BY <2>1, <2>2
<1>11. Stays
  BY <1>1, <1>10, StaysByParts
<1>12. Places' /\ Disjoint' /\ Covered'
  BY <1>1, <1>9, <1>11, Stay
<1>13. OnePlace'
  BY <1>1, <1>12, QueuesKept
<1>14. Deleted(th) \subseteq {c} /\ (Deleted(th) # {} => th = Mpi /\ ~stored /\ ~suspend[c])
       /\ c \in Task
  BY <1>0, <1>2, <1>5 DEF Deleted, TypeOK
<1>15. TypeOK'
  BY <1>1, <1>2, <1>3, <1>4, <1>8, <1>14 DEF TypeOK
<1>16. Control'
  <2>1. (Live' <=> Live) /\ (th = Mpi => pc[Mpi] = "fin" /\ pc'[Mpi] = l)
        /\ (th # Mpi => pc'[Mpi] = pc[Mpi] /\ cur'[Mpi] = cur[Mpi])
    BY <1>1, <1>3, <1>4, Phase, MpiAssumption
  <2>2. l \in {"poll", "check"} /\ (l = "poll" => th = Mpi /\ n = NoTask)
    BY <1>0
  <2>3. pc'[Main] \in MainLabel /\ pc'[Mpi] \in MpiLabel
        /\ \A w \in Thread \ {Main, Mpi} : pc'[w] \in WorkerLabel
    BY <1>2, <1>3, <2>1, <2>2, MpiAssumption DEF Control, MainLabel, MpiLabel, WorkerLabel
  <2>4. \A x \in Thread :
       /\ todo'[x] # {} => pc'[x] \in {"spawn", "dec"}
       /\ last'[x] # NoTask => pc'[x] = "dec"
       /\ nxt'[x] # NoTask => pc'[x] = "fin"
       /\ pc'[x] \in {"run", "requeue", "dec", "fin"} => cur'[x] # NoTask
       /\ pc'[x] \notin {"check", "run", "requeue", "dec", "fin"} => cur'[x] = NoTask
       /\ pc'[x] = "run" /\ x # Mpi => cur'[x] \notin Blocking
    BY <1>1, <1>2, <1>3, <1>4, <2>2 DEF Control
  <2>5. /\ pc'[Mpi] = "requeue" => suspend'[cur'[Mpi]]
        /\ comm' # {} => pc'[Mpi] = "requeue"
        /\ mt'.cur = NoTest <=> pc'[Mpi] \notin {"test1", "test2"}
    BY <1>1, <1>2, <2>1, <2>2 DEF Control
  <2> QED BY <1>1, <1>2, <2>1, <2>3, <2>4, <2>5 DEF Control
<1>17. Rounds'
  BY <1>1, <1>2, <1>3, Phase DEF Rounds
<1>18. Quiet'
  BY <1>3, <1>7, <1>11, Phase DEF MpiInv, Quiet, Stays
<1>19. Suspension'
  <2>1. NoTask \notin begun /\ n \notin begun
    BY <1>0, <1>2, MpiAssumption DEF TypeOK, Suspension
  <2>2. \A x \in Thread :
         /\ pc'[x] \in {"run", "requeue"} => cur'[x] \in begun
         /\ pc'[x] = "spawn" => todo[x] \cap begun = {}
         /\ pc'[x] = "check" /\ x # Mpi => cur'[x] \notin begun
         /\ nxt'[x] \notin begun
         /\ ToSet(stack[x]) \cap begun = {}
    BY <1>0, <1>2, <1>3, <1>4, <2>1 DEF Suspension
  <2> QED BY <1>1, <1>12, <2>2 DEF Suspension, Covered
<1>20. Alive'
  <2>1. stored => freed' \cap graph.node = {}
    BY <1>1, <1>2, <1>14 DEF Alive
  <2>2. Live => freed' \cap (graph.node \ done) = {}
    <3>1. SUFFICES ASSUME Live, Deleted(th) # {} PROVE c \notin graph.node \ done
      BY <1>1, <1>2, <1>14 DEF Alive
    <3> QED BY <1>0, <1>1, <1>2, <1>14, <3>1 DEF Alive
  <2>3. \A x \in Thread : pc'[x] \in {"dec", "fin"} => pc'[x] = pc[x] /\ cur'[x] = cur[x]
    BY <1>0, <1>3, <1>4
  <2> QED BY <1>1, <1>2, <1>3, <2>1, <2>2, <2>3, Phase DEF Alive
<1>21. Requests'
  <2>1. \/ pc'[Mpi] = pc[Mpi] /\ cur'[Mpi] = cur[Mpi]
        \/ {pc[Mpi], pc'[Mpi]} \cap {"requeue", "test2"} = {}
    BY <1>0, <1>1, <1>3, <1>4, MpiAssumption
  <2> QED BY <1>1, <2>1, RequestsKept
<1> QED BY <1>9, <1>12, <1>13, <1>15, <1>16, <1>17, <1>18, <1>19, <1>20, <1>21 DEF MpiInv

-----------------------------------------------------------------------------
(***************************************************************************)
(* The body has run, and execute() releases the successors.                *)
(***************************************************************************)

\* The task whose body has run leaves its place.
Leaves(t) == \A p \in Place : In(p)' = In(p) \ {t}

LEMMA LeavesByParts ==
  ASSUME NEW t, UNCHANGED <<stack, mpiq, polling, mt>>,
         \A x \in Thread : Hand(x)' = Hand(x) \ {t},
         \A x \in Thread : t \notin ToSet(stack[x]),
         t \notin ToSet(mpiq), t \notin ToSet(TaskOf(polling)), t # mt.cur.task
  PROVE  Leaves(t)
<1>1. ASSUME NEW p \in Place PROVE In(p)' = In(p) \ {t}
  <2>1. ASSUME NEW x \in Thread, p = <<"hand", x>> PROVE In(p)' = In(p) \ {t}
    BY <2>1 DEF In
  <2>2. ASSUME NEW x \in Thread, p = <<"stack", x>> PROVE In(p)' = In(p) \ {t}
    BY <2>2 DEF In
  <2>3. CASE p \in {<<"mpiq", Mpi>>, <<"polling", Mpi>>, <<"test", Mpi>>}
    BY <2>3 DEF In, TaskOf
  <2> QED BY <2>1, <2>2, <2>3, PlaceParts
<1> QED BY <1>1 DEF Leaves

LEMMA RunBodyStep ==
  ASSUME MpiInv, NEW th \in Thread, RunBody(th)
  PROVE  MpiInv'
<1>0. PICK c : c = cur[th]
  OBVIOUS
<1>1. /\ pc[th] = "run" /\ Goto(th, "dec")
      /\ suspend' = [suspend EXCEPT ![c] = FALSE]
      /\ ref' = IF stored THEN [ref EXCEPT ![c] = backup[c]] ELSE ref
      /\ done' = done \cup {c}
      /\ todo' = [todo EXCEPT ![th] = graph.succ[c]]
      /\ last' = [last EXCEPT ![th] = graph.vert[c]]
      /\ UNCHANGED <<graph, stored, round, backup, freed, stack, mpiq, polling,
                     cur, nxt, begun, count, comm, mt, pending>>
  BY <1>0 DEF RunBody, Restored, graphVars, queueVars
<1>2. TypeOK /\ Control /\ Rounds /\ Suspension /\ Bodies /\ Counts /\ Stored /\ Alive /\ OnePlace
  BY DEF MpiInv
<1>3. /\ SamePhase
      /\ pc' \in [Thread -> MainLabel \cup MpiLabel] /\ pc'[th] = "dec"
      /\ \A x \in Thread \ {th} : pc'[x] = pc[x]
  BY <1>1, <1>2, LoopStepFacts DEF MpiLabel, WorkerLabel
<1>4. /\ nxt[th] = NoTask /\ c # NoTask /\ c \in Hand(th) /\ todo[th] = {} /\ last[th] = NoTask
      /\ c \in In(<<"hand", th>>) /\ <<"hand", th>> \in Place
  <2>1. c \in Hand(th) /\ c # NoTask /\ nxt[th] = NoTask /\ todo[th] = {} /\ last[th] = NoTask
    BY <1>0, <1>1, <1>2 DEF Hand, Control
  <2> QED BY <2>1, PlaceParts
<1>5. /\ Executing /\ Live /\ graph \in Graphs /\ IsReady(c)
      /\ c \in Task /\ c \in Work(graph) /\ c \in graph.node /\ c # graph.end /\ c \notin done
      /\ \A x \in Thread : (x # th => c \notin Hand(x)) /\ c \notin ToSet(stack[x])
      /\ c \notin ToSet(mpiq) /\ c \notin ToSet(TaskOf(polling)) /\ c # mt.cur.task
  BY <1>4, Somewhere
<1>6. c \in begun /\ (th # Mpi => c \notin Blocking)
  BY <1>0, <1>1, <1>2 DEF Suspension, Control
<1>7. /\ graph.succ[c] \subseteq graph.node /\ graph.vert[c] \in graph.node \cup {NoTask}
      /\ graph.node \subseteq Task /\ graph.end \in graph.node
  BY <1>5, GraphFacts
<1>8. /\ todo' \in [Thread -> SUBSET Task] /\ last' \in [Thread -> Task \cup {NoTask}]
      /\ todo'[th] = graph.succ[c] /\ last'[th] = graph.vert[c]
      /\ \A x \in Thread \ {th} : todo'[x] = todo[x] /\ last'[x] = last[x]
  BY <1>1, <1>2, <1>7 DEF TypeOK
<1>9. /\ suspend' \in [Task -> BOOLEAN] /\ suspend'[c] = FALSE
      /\ \A t \in Task \ {c} : suspend'[t] = suspend[t]
  <2>1. suspend \in [Task -> BOOLEAN]
    BY <1>2 DEF TypeOK
  <2> QED BY <1>1, <1>5, <2>1
<1>10. /\ ref' \in [Task -> Int]
       /\ stored => ref'[c] = backup[c]
       /\ \A u \in Task \ {c} : ref'[u] = ref[u]
  BY <1>1, <1>2, <1>5 DEF TypeOK
<1>11. /\ Owes(th) = {} /\ Owes(th)' = Out(graph, c)
       /\ \A x \in Thread \ {th} : Owes(x)' = Owes(x)
  BY <1>1, <1>3, <1>8 DEF Owes, Out, Vertical
<1>12. \A t : Pending(t)' = Pending(t)
  <2>1. ASSUME NEW t, NEW p, p \in Pending(t) PROVE p \in Pending(t)'
    <3>1. p \in Preds(graph, t)
      BY <2>1 DEF Pending
    <3>2. CASE p = c
      BY <1>0, <1>1, <1>11, <3>1, <3>2 DEF Pending, Preds
    <3>3. CASE p # c /\ p \notin done
      BY <1>1, <3>1, <3>3 DEF Pending
    <3>4. CASE \E x \in Thread : cur[x] = p /\ t \in Owes(x)
      BY <1>1, <1>11, <3>1, <3>4 DEF Pending
    <3> QED BY <2>1, <3>2, <3>3, <3>4 DEF Pending
  <2>2. ASSUME NEW t, NEW p, p \in Pending(t)' PROVE p \in Pending(t)
    <3>1. p \in Preds(graph, t)
      BY <1>1, <2>2 DEF Pending
    <3>2. CASE p = c
      BY <1>5, <3>1, <3>2 DEF Pending
    <3>3. CASE p # c
      BY <1>0, <1>1, <1>11, <2>2, <3>1, <3>3 DEF Pending
    <3> QED BY <3>2, <3>3
  <2> QED BY <2>1, <2>2
<1>13. \A u : IsReady(u) /\ u # c => IsReady(u)'
  BY <1>1, <1>12 DEF IsReady
<1>14. \A x \in Thread : Hand(x)' = Hand(x) \ {c}
  <2>1. Hand(th) = {c} /\ Hand(th)' = {}
    BY <1>0, <1>1, <1>3, <1>4 DEF Hand
  <2>2. \A x \in Thread \ {th} : Hand(x)' = Hand(x)
    BY <1>1, <1>3, <1>8 DEF Hand
  <2> QED BY <1>5, <2>1, <2>2
<1>15. Leaves(c)
  BY <1>1, <1>5, <1>14, LeavesByParts
<1>16. Places' /\ Disjoint' /\ Covered'
  <2>1. Places'
    BY <1>13, <1>15 DEF MpiInv, Places, Leaves
  <2>2. Disjoint'
    BY <1>2, <1>15 DEF OnePlace, Disjoint, Leaves
  <2>3. \A u \in begun' \ done' : \E p \in Place : u \in In(p)'
    BY <1>1, <1>2, <1>15 DEF Suspension, Leaves
  <2> QED BY <2>1, <2>2, <2>3 DEF Covered
<1>17. OnePlace'
  BY <1>1, <1>16, QueuesKept
<1>18. TypeOK'
  BY <1>1, <1>2, <1>3, <1>5, <1>8, <1>9, <1>10 DEF TypeOK
<1>19. Control'
  <2>1. (Live' <=> Live) /\ pc'[Mpi] \in MpiLabel /\ pc'[Main] \in MainLabel
        /\ \A w \in Thread \ {Main, Mpi} : pc'[w] \in WorkerLabel
    BY <1>2, <1>3, Phase, MpiAssumption DEF Control, MainLabel, MpiLabel, WorkerLabel
  <2>2. \A x \in Thread :
       /\ todo'[x] # {} => pc'[x] \in {"spawn", "dec"}
       /\ last'[x] # NoTask => pc'[x] = "dec"
       /\ nxt'[x] # NoTask => pc'[x] = "fin"
       /\ pc'[x] \in {"run", "requeue", "dec", "fin"} => cur'[x] # NoTask
       /\ pc'[x] \notin {"check", "run", "requeue", "dec", "fin"} => cur'[x] = NoTask
       /\ pc'[x] = "run" /\ x # Mpi => cur'[x] \notin Blocking
    BY <1>0, <1>1, <1>2, <1>3, <1>4, <1>8 DEF Control
  <2>3. ASSUME pc'[Mpi] = "requeue" PROVE suspend'[cur'[Mpi]]
    <3>1. pc[Mpi] = "requeue" /\ Mpi # th /\ Mpi \in Thread /\ cur[Mpi] # NoTask
      BY <1>2, <1>3, <2>3, MpiAssumption DEF Control
    <3>2. cur[Mpi] \in Hand(Mpi)
      BY <3>1 DEF Hand
    <3>3. cur[Mpi] # c /\ cur[Mpi] \in Task
      BY <1>2, <1>5, <3>1, <3>2 DEF TypeOK
    <3> QED BY <1>1, <1>2, <1>9, <3>1, <3>3 DEF Control
  <2>4. \A t \in Task : suspend'[t] => t \in Blocking
    BY <1>2, <1>9 DEF Control
  <2>5. /\ pc[Mpi] = "requeue" <=> pc'[Mpi] = "requeue"
        /\ pc[Mpi] \in {"test1", "test2"} <=> pc'[Mpi] \in {"test1", "test2"}
    BY <1>1, <1>3, MpiAssumption
  <2> QED BY <1>1, <1>2, <2>1, <2>2, <2>3, <2>4, <2>5 DEF Control
<1>20. Rounds'
  BY <1>1, <1>2, <1>3, <1>5, <1>6, Phase DEF Rounds, Executing
<1>21. Quiet'
  BY <1>3, <1>5, Phase DEF Quiet
<1>22. Suspension'
  BY <1>1, <1>2, <1>3, <1>8, <1>16 DEF Suspension, Covered
<1>23. Bodies'
  <2>1. ASSUME NEW x \in Thread, Owes(x)' # {}
        PROVE  /\ cur'[x] \in done'
               /\ todo'[x] \subseteq graph'.succ[cur'[x]]
               /\ last'[x] \in Vertical(graph', cur'[x]) \cup {NoTask}
    <3>1. CASE x = th
      BY <1>0, <1>1, <1>8, <3>1 DEF Vertical
    <3>2. CASE x # th
      BY <1>1, <1>2, <1>8, <1>11, <2>1, <3>2 DEF Bodies
    <3> QED BY <3>1, <3>2
  <2>2. ASSUME NEW x \in Thread, NEW y \in Thread, Owes(x)' # {}, Owes(y)' # {},
               cur'[x] = cur'[y]
        PROVE  x = y
    <3>1. \A z \in Thread \ {th} : Owes(z) # {} => cur[z] # c
      BY <1>2, <1>5 DEF Bodies
    <3> QED BY <1>0, <1>1, <1>2, <1>11, <2>2, <3>1 DEF Bodies
  <2> QED BY <2>1, <2>2 DEF Bodies
<1>24. Counts'
  <2>1. (Executing' <=> Executing) /\ (pc'[Main] = "built" <=> pc[Main] = "built")
        /\ pc[Main] # "built"
    BY <1>3, <1>5, Phase DEF Executing
  <2>2. \A t \in done' : Pending(t)' = {}
    BY <1>1, <1>2, <1>5, <1>12 DEF Counts, IsReady
  <2>3. ASSUME NEW t \in Work(graph) \ done', Pending(t)' # {}
        PROVE  ref'[t] = Cardinality(Pending(t)')
    <3>1. t \in Work(graph) \ done /\ t # c /\ t \in Task /\ Pending(t) # {}
      BY <1>1, <1>5, <1>7, <1>12, <2>3, GraphFacts
    <3> QED BY <1>2, <1>5, <1>10, <1>12, <3>1 DEF Counts
  <2>4. ref'[graph.end] = Cardinality(Pending(graph.end)') + 1
    <3>1. ref[graph.end] = Cardinality(Pending(graph.end)) + 1
      BY <1>2, <1>5 DEF Counts
    <3>2. ref'[graph.end] = ref[graph.end]
      BY <1>5, <1>7, <1>10
    <3>3. Pending(graph.end)' = Pending(graph.end)
      BY <1>1, <1>12
    <3> QED BY <3>1, <3>2, <3>3
  <2> QED BY <1>1, <2>1, <2>2, <2>3, <2>4 DEF Counts
<1>25. Stored'
  <2>1. pc'[Main] # "idle"
    BY <1>3, <1>5, Phase DEF Live
  <2>2. stored => \A t \in done' : ref'[t] = backup[t]
    BY <1>1, <1>2, <1>10 DEF Stored, TypeOK
  <2> QED BY <1>1, <1>2, <2>1, <2>2 DEF Stored
<1>26. Alive'
  <2>1. stored' => freed' \cap graph'.node = {}
    BY <1>1, <1>2 DEF Alive
  <2>2. Live' => freed' \cap (graph'.node \ done') = {}
    BY <1>1, <1>2, <1>5 DEF Alive
  <2>3. ASSUME ~stored, NEW x \in Thread, pc'[x] \in {"dec", "fin"},
               cur[x] \in graph.node \ done'
        PROVE  x = Mpi /\ pc'[x] = "fin" /\ suspend'[cur[x]]
    <3>1. x # th
      BY <1>0, <1>1, <2>3
    <3>2. x = Mpi /\ pc[x] = "fin" /\ suspend[cur[x]]
      BY <1>1, <1>2, <1>3, <1>5, <2>3, <3>1 DEF Alive
    <3>3. cur[x] \in Task /\ cur[x] # c
      BY <1>1, <1>7, <2>3
    <3> QED BY <1>3, <1>9, <3>1, <3>2, <3>3
  <2> QED BY <1>1, <2>1, <2>2, <2>3 DEF Alive
<1>27. Requests'
  <2>1. \/ pc'[Mpi] = pc[Mpi] /\ cur'[Mpi] = cur[Mpi]
        \/ {pc[Mpi], pc'[Mpi]} \cap {"requeue", "test2"} = {}
    BY <1>1, <1>3, MpiAssumption
  <2> QED BY <1>1, <2>1, RequestsKept
<1> QED BY <1>16, <1>17, <1>18, <1>19, <1>20, <1>21, <1>22, <1>23, <1>24, <1>25, <1>26, <1>27
        DEF MpiInv

\* One successor is released: what it waits for shrinks by the thread's task.
LEMMA Release ==
  ASSUME MpiInv, SamePhase, NEW th \in Thread, NEW t \in Owes(th),
         UNCHANGED <<graph, stored, backup, done, cur>>,
         ref' = [ref EXCEPT ![t] = @ - 1],
         Owes(th)' = Owes(th) \ {t},
         \A x \in Thread \ {th} : Owes(x)' = Owes(x)
  PROVE  /\ t \in Task /\ t # NoTask /\ t \in graph.node /\ ~IsReady(t)
         /\ \A p \in Place : t \notin In(p)
         /\ t \notin begun
         /\ \A u : IsReady(u) => IsReady(u)'
         /\ ref[t] = 1 => IsReady(t)'
         /\ ref' \in [Task -> Int]
         /\ Counts' /\ Stored'
<1> DEFINE c == cur[th]
<1>1. Executing /\ Live /\ graph \in Graphs /\ pc[Main] # "built"
  BY OwedPending, Activity
<1>2. TypeOK /\ Counts /\ Stored /\ Bodies /\ Rounds
  BY DEF MpiInv
<1>3. c \in Pending(t) /\ c \in done /\ t \in graph.node /\ t \notin done
  BY OwedPending
<1>4. t \in Task /\ t # NoTask /\ graph.end \in Task
  BY <1>1, <1>3, GraphFacts
<1>5. ~IsReady(t) /\ \A p \in Place : t \notin In(p)
  BY <1>3, Somewhere DEF IsReady
<1>6. t \notin begun
  BY <1>3, <1>5 DEF MpiInv, Suspension
<1>7. Pending(t)' = Pending(t) \ {c}
  <2>1. ASSUME NEW p, p \in Pending(t), p # c PROVE p \in Pending(t)'
    <3>1. p \in Preds(graph, t)
      BY <2>1 DEF Pending
    <3>2. CASE p \notin done
      BY <3>1, <3>2 DEF Pending
    <3>3. CASE \E x \in Thread : cur[x] = p /\ t \in Owes(x)
      BY <2>1, <3>1, <3>3 DEF Pending
    <3> QED BY <2>1, <3>2, <3>3 DEF Pending
  <2>2. ASSUME NEW p, p \in Pending(t)' PROVE p \in Pending(t)
    BY <2>2 DEF Pending
  <2>3. c \notin Pending(t)'
    <3>1. SUFFICES ASSUME NEW x \in Thread, cur[x] = c, t \in Owes(x)' PROVE FALSE
      BY <1>3 DEF Pending
    <3>2. x # th /\ t \in Owes(x)
      BY <3>1
    <3> QED BY <1>2, <3>1, <3>2 DEF Bodies
  <2> QED BY <2>1, <2>2, <2>3
<1>8. ASSUME NEW u, u # t PROVE Pending(u)' = Pending(u)
  <2>1. \A x \in Thread : u \in Owes(x)' <=> u \in Owes(x)
    BY <1>8
  <2> QED BY <2>1 DEF Pending
<1>9. /\ IsFiniteSet(Pending(t)) /\ Cardinality(Pending(t)) \in Nat
      /\ IsFiniteSet(Pending(t)') /\ Cardinality(Pending(t)') \in Nat
      /\ Cardinality(Pending(t)') = Cardinality(Pending(t)) - 1
  <2>1. IsFiniteSet(Pending(t)) /\ Cardinality(Pending(t)) \in Nat
    BY <1>1, PendingFinite
  <2>2. ASSUME NEW S, IsFiniteSet(S), NEW e \in S
        PROVE  /\ IsFiniteSet(S \ {e}) /\ Cardinality(S \ {e}) \in Nat
               /\ Cardinality(S \ {e}) = Cardinality(S) - 1
    BY <2>2, FS_RemoveElement, FS_CardinalityType
  <2> HIDE DEF c
  <2>3. /\ IsFiniteSet(Pending(t) \ {c}) /\ Cardinality(Pending(t) \ {c}) \in Nat
        /\ Cardinality(Pending(t) \ {c}) = Cardinality(Pending(t)) - 1
    BY <1>3, <2>1, <2>2
  <2> QED BY <1>7, <2>1, <2>3
<1>10. \A u : IsReady(u) => IsReady(u)'
  BY <1>5, <1>8 DEF IsReady
<1>11. ref' \in [Task -> Int] /\ ref'[t] = ref[t] - 1 /\ \A u \in Task \ {t} : ref'[u] = ref[u]
  BY <1>2, <1>4 DEF TypeOK
<1>12. ref[t] = Cardinality(Pending(t)) + IF t = graph.end THEN 1 ELSE 0
  <2>1. t \in Work(graph) \/ t = graph.end
    BY <1>1, <1>3, GraphFacts
  <2>2. CASE t = graph.end
    BY <1>1, <1>2, <2>2 DEF Counts
  <2>3. CASE t # graph.end
    <3>1. ref[t] = Cardinality(Pending(t))
      BY <1>1, <1>2, <1>3, <2>1, <2>3 DEF Counts
    <3> QED BY <1>9, <2>3, <3>1
  <2> QED BY <2>2, <2>3
<1>13. ASSUME ref[t] = 1 PROVE IsReady(t)'
  <2>1. t # graph.end
    <3>1. Cardinality(Pending(t)) # 0
      BY <1>9
    <3> QED BY <1>9, <1>12, <1>13, <3>1
  <2>2. Cardinality(Pending(t)') = 0
    BY <1>9, <1>12, <1>13, <2>1
  <2>3. Pending(t)' = {}
    BY <1>9, <2>2, FS_EmptySet
  <2> QED BY <1>3, <2>1, <2>3 DEF IsReady, Work
<1>14. Counts'
  <2>1. (Executing' <=> Executing) /\ pc'[Main] # "built"
    BY <1>1, Phase
  <2>2. \A u \in done' : Pending(u)' = {}
    BY <1>1, <1>2, <1>3, <1>8 DEF Counts
  <2>3. ASSUME NEW u \in Work(graph) \ done, Pending(u)' # {}
        PROVE  ref'[u] = Cardinality(Pending(u)')
    <3>1. u \in Task /\ u # graph.end
      BY <1>1, GraphFacts
    <3>2. CASE u = t
      BY <1>9, <1>11, <1>12, <3>1, <3>2
    <3>3. CASE u # t
      BY <1>1, <1>2, <1>8, <1>11, <2>3, <3>1, <3>3 DEF Counts
    <3> QED BY <3>2, <3>3
  <2>4. ref'[graph.end] = Cardinality(Pending(graph.end)') + 1
    <3>1. CASE graph.end = t
      BY <1>9, <1>11, <1>12, <3>1
    <3>2. CASE graph.end # t
      BY <1>1, <1>2, <1>4, <1>8, <1>11, <3>2 DEF Counts
    <3> QED BY <3>1, <3>2
  <2> QED BY <2>1, <2>2, <2>3, <2>4 DEF Counts
<1>15. Stored'
  <2>1. pc'[Main] # "idle"
    BY <1>1, Phase DEF Live
  <2>2. \A u \in done : u \in Task /\ u # t
    BY <1>2, <1>3 DEF TypeOK
  <2> QED BY <1>2, <1>11, <2>1, <2>2 DEF Stored
<1> QED BY <1>3, <1>4, <1>5, <1>6, <1>10, <1>11, <1>13, <1>14, <1>15

LEMMA DecrementStep ==
  ASSUME MpiInv, NEW th \in Thread, Decrement(th)
  PROVE  MpiInv'
<1>1. PICK t \in todo[th] :
        /\ ref' = [ref EXCEPT ![t] = @ - 1]
        /\ todo' = [todo EXCEPT ![th] = @ \ {t}]
        /\ IF ref[t] = 1 THEN Queue(t) ELSE UNCHANGED <<stack, mpiq>>
  BY DEF Decrement
<1>2. /\ pc[th] = "dec"
      /\ UNCHANGED <<graph, stored, round, backup, freed, suspend, polling, cur, last, nxt,
                     begun, done, count, comm, mt, pc, pending>>
  BY DEF Decrement, graphVars, historyVars
<1>3. TypeOK /\ Control /\ Rounds /\ Suspension /\ OnePlace /\ Bodies
  BY DEF MpiInv
<1>4. /\ todo' \in [Thread -> SUBSET Task] /\ todo'[th] = todo[th] \ {t}
      /\ \A x \in Thread \ {th} : todo'[x] = todo[x]
  BY <1>1, <1>3 DEF TypeOK
<1>5. t \in Owes(th) /\ SamePhase
  BY <1>1, <1>2 DEF Owes, SamePhase
<1>6. /\ Executing /\ Live /\ graph \in Graphs
      /\ t \in Out(graph, cur[th]) /\ cur[th] \in Work(graph)
  BY <1>5, OwedPending, Activity
<1>7. t # last[th]
  <2>1. t \in graph.succ[cur[th]] /\ last[th] \in Vertical(graph, cur[th]) \cup {NoTask}
    BY <1>1, <1>3, <1>5 DEF Bodies
  <2>2. /\ graph.vert[cur[th]] \notin graph.succ[cur[th]]
        /\ graph.succ[cur[th]] \subseteq Work(graph) /\ Work(graph) \subseteq graph.node
        /\ NoTask \notin graph.node
    BY <1>6, GraphFacts
  <2> QED BY <2>1, <2>2 DEF Vertical
<1>8. /\ Owes(th)' = Owes(th) \ {t}
      /\ \A x \in Thread \ {th} : Owes(x)' = Owes(x)
  BY <1>2, <1>4, <1>7 DEF Owes
<1>9. /\ t \in Task /\ t # NoTask /\ t \in graph.node /\ ~IsReady(t)
      /\ \A p \in Place : t \notin In(p)
      /\ t \notin begun
      /\ \A u : IsReady(u) => IsReady(u)'
      /\ ref[t] = 1 => IsReady(t)'
      /\ ref' \in [Task -> Int]
      /\ Counts' /\ Stored'
  BY <1>1, <1>2, <1>5, <1>8, Release
<1>10. \A x \in Thread : Hand(x)' = Hand(x) /\ t \notin Hand(x)
  <2>1. \A x \in Thread : t \notin Hand(x)
    BY <1>9, PlaceParts
  <2> QED BY <1>2, <1>4, <2>1 DEF Hand
<1>11. /\ stack' \in [Thread -> Seq(Task)] /\ mpiq' \in Seq(Task)
       /\ \A x \in Thread : IsInjective(stack'[x])
       /\ IsInjective(mpiq')
       /\ \A x \in Thread : ToSet(stack'[x]) \subseteq ToSet(stack[x]) \cup {t}
       /\ Places' /\ Disjoint' /\ Covered'
  <2>1. CASE ref[t] = 1
    <3>1. /\ \A x \in Thread : t \notin ToSet(stack[x])
          /\ t \notin ToSet(mpiq)
          /\ t \notin In(<<"polling", Mpi>>) /\ t \notin In(<<"test", Mpi>>)
      BY <1>9, PlaceParts
    <3>2. Queue(t) /\ \A x \in Thread : Hand(x)' = Hand(x) \ {t}
      BY <1>1, <1>10, <2>1
    <3>3. /\ stack' \in [Thread -> Seq(Task)] /\ mpiq' \in Seq(Task)
          /\ \E q \in Place : Moves(t, q)
          /\ \A x \in Thread : IsInjective(stack'[x])
          /\ IsInjective(mpiq')
          /\ \A x \in Thread : ToSet(stack'[x]) \subseteq ToSet(stack[x]) \cup {t}
      BY <1>2, <1>6, <1>9, <3>1, <3>2, QueueFacts
    <3>4. Places' /\ Disjoint' /\ Covered'
      BY <1>2, <1>9, <2>1, <3>3, Move
    <3> QED BY <3>3, <3>4
  <2>2. CASE ref[t] # 1
    <3>1. UNCHANGED <<stack, mpiq>>
      BY <1>1, <2>2
    <3>2. Stays
      BY <1>2, <1>10, <3>1, StaysByParts
    <3>3. Places' /\ Disjoint' /\ Covered'
      BY <1>2, <1>9, <3>2, Stay
    <3> QED BY <1>3, <3>1, <3>3 DEF TypeOK, OnePlace
  <2> QED BY <2>1, <2>2
<1>12. OnePlace'
  BY <1>2, <1>3, <1>11 DEF OnePlace, Disjoint, TaskOf
<1>13. TypeOK'
  BY <1>2, <1>3, <1>4, <1>9, <1>11 DEF TypeOK
<1>14. Control'
  BY <1>2, <1>3, <1>4 DEF Control, Live
<1>15. Rounds'
  BY <1>2, <1>3, <1>5, Phase DEF Rounds
<1>16. Quiet'
  BY <1>5, <1>6, Phase DEF Quiet
<1>17. Suspension'
  <2>1. \A x \in Thread : ToSet(stack'[x]) \cap begun = {}
    BY <1>3, <1>9, <1>11 DEF Suspension
  <2> QED BY <1>2, <1>3, <1>4, <1>11, <2>1 DEF Suspension, Covered
<1>18. Bodies'
  BY <1>2, <1>3, <1>4, <1>8 DEF Bodies
<1>19. Alive'
  BY <1>2, <1>5, AliveKept
<1>20. Requests'
  BY <1>2, RequestsKept
<1> QED BY <1>9, <1>11, <1>12, <1>13, <1>14, <1>15, <1>16, <1>17, <1>18, <1>19, <1>20 DEF MpiInv

LEMMA DecrementVerticalStep ==
  ASSUME MpiInv, NEW th \in Thread, DecrementVertical(th)
  PROVE  MpiInv'
<1>0. PICK v : v = last[th]
  OBVIOUS
<1>1. /\ pc[th] = "dec" /\ todo[th] = {} /\ Goto(th, "fin")
      /\ last' = [last EXCEPT ![th] = NoTask]
      /\ v = NoTask => UNCHANGED <<ref, nxt>>
      /\ v # NoTask => /\ ref' = [ref EXCEPT ![v] = @ - 1]
                       /\ nxt' = [nxt EXCEPT ![th] = IF ref[v] = 1 THEN v ELSE NoTask]
      /\ UNCHANGED <<graph, stored, round, backup, freed, suspend, stack, mpiq, polling,
                     cur, todo, begun, done, count, comm, mt, pending>>
  BY <1>0 DEF DecrementVertical, graphVars, queueVars, historyVars
<1>2. TypeOK /\ Control /\ Rounds /\ Suspension /\ Bodies /\ Alive
  BY DEF MpiInv
<1>3. /\ SamePhase
      /\ pc' \in [Thread -> MainLabel \cup MpiLabel] /\ pc'[th] = "fin"
      /\ \A x \in Thread \ {th} : pc'[x] = pc[x]
  BY <1>1, <1>2, LoopStepFacts DEF MpiLabel, WorkerLabel
<1>4. /\ last' \in [Thread -> Task \cup {NoTask}] /\ last'[th] = NoTask
      /\ \A x \in Thread \ {th} : last'[x] = last[x]
  BY <1>1, <1>2 DEF TypeOK
<1>5. nxt[th] = NoTask /\ v \in Task \cup {NoTask}
  BY <1>0, <1>1, <1>2 DEF Control, TypeOK
<1>6. /\ Owes(th) = {v} \ {NoTask} /\ Owes(th)' = {}
      /\ \A x \in Thread \ {th} : Owes(x)' = Owes(x)
  BY <1>0, <1>1, <1>3, <1>4 DEF Owes
<1>7. /\ nxt' \in [Thread -> Task \cup {NoTask}]
      /\ \A x \in Thread \ {th} : nxt'[x] = nxt[x]
      /\ nxt'[th] = IF v # NoTask /\ ref[v] = 1 THEN v ELSE NoTask
  <2>1. PICK n \in Task \cup {NoTask} : n = IF v # NoTask /\ ref[v] = 1 THEN v ELSE NoTask
    BY <1>5
  <2>2. CASE v = NoTask
    BY <1>1, <1>2, <1>5, <2>1, <2>2 DEF TypeOK
  <2>3. CASE v # NoTask
    <3>1. nxt' = [nxt EXCEPT ![th] = n]
      BY <1>1, <2>1, <2>3
    <3> QED BY <1>2, <2>1, <3>1 DEF TypeOK
  <2> QED BY <2>2, <2>3
<1>8. \A x \in Thread \ {th} : Hand(x)' = Hand(x)
  BY <1>1, <1>3, <1>7 DEF Hand
<1>9. Hand(th) = {} /\ Hand(th)' = {nxt'[th]} \ {NoTask}
  BY <1>1, <1>3, <1>5 DEF Hand
<1>10. /\ ref' \in [Task -> Int] /\ Counts' /\ Stored' /\ nxt'[th] \notin begun
       /\ Places' /\ Disjoint' /\ Covered'
       /\ nxt'[th] # NoTask => Executing
  <2>1. NoTask \notin begun
    BY <1>2, MpiAssumption DEF TypeOK
  <2>2. CASE v = NoTask
    <3>1. /\ UNCHANGED ref /\ \A x \in Thread : Owes(x)' = Owes(x) /\ Hand(x)' = Hand(x)
          /\ nxt'[th] = NoTask
      BY <1>1, <1>6, <1>7, <1>8, <1>9, <2>2
    <3>2. \A x \in Thread : Owes(x) # {} => last'[x] = last[x]
      BY <1>4, <1>6, <2>2
    <3>3. /\ \A t : IsReady(t)' <=> IsReady(t)
          /\ Counts' /\ Stored'
      BY <1>1, <1>3, <3>1, <3>2, ExecFrame
    <3>4. Stays
      BY <1>1, <3>1, StaysByParts
    <3>5. Places' /\ Disjoint' /\ Covered'
      BY <1>1, <3>3, <3>4, Stay
    <3> QED BY <1>2, <2>1, <3>1, <3>3, <3>5 DEF TypeOK
  <2>3. CASE v # NoTask
    <3>1. v \in Owes(th) /\ Owes(th)' = Owes(th) \ {v} /\ ref' = [ref EXCEPT ![v] = @ - 1]
      BY <1>1, <1>6, <2>3
    <3>2. /\ ~IsReady(v) /\ v \notin begun
          /\ \A p \in Place : v \notin In(p)
          /\ \A u : IsReady(u) => IsReady(u)'
          /\ ref[v] = 1 => IsReady(v)'
          /\ ref' \in [Task -> Int]
          /\ Counts' /\ Stored'
      BY <1>1, <1>3, <1>6, <3>1, Release
    <3>3. Executing
      BY <3>1, Activity
    <3>4. CASE ref[v] = 1
      <4>1. nxt'[th] = v
        BY <1>7, <2>3, <3>4
      <4>2. /\ \A x \in Thread : v \notin Hand(x) /\ v \notin ToSet(stack[x])
            /\ v \notin ToSet(mpiq)
            /\ v \notin In(<<"polling", Mpi>>) /\ v \notin In(<<"test", Mpi>>)
        BY <3>2, PlaceParts
      <4>3. /\ In(<<"polling", Mpi>>)' = In(<<"polling", Mpi>>) \ {v}
            /\ In(<<"test", Mpi>>)' = In(<<"test", Mpi>>) \ {v}
        BY <1>1, <4>2 DEF In, TaskOf
      <4>4. /\ \A x \in Thread : Hand(x)' = IF x = th THEN Hand(x) \cup {v} ELSE Hand(x) \ {v}
            /\ \A x \in Thread : ToSet(stack'[x]) = ToSet(stack[x]) \ {v}
            /\ ToSet(mpiq') = ToSet(mpiq) \ {v}
        BY <1>1, <1>8, <1>9, <2>3, <4>1, <4>2
      <4>5. Moves(v, <<"hand", th>>) /\ <<"hand", th>> \in Place
        BY <4>3, <4>4, MovesToHand, PlaceParts
      <4>6. Places' /\ Disjoint' /\ Covered'
        BY <1>1, <3>2, <3>4, <4>5, Move
      <4> QED BY <3>2, <3>3, <4>1, <4>6
    <3>5. CASE ref[v] # 1
      <4>1. nxt'[th] = NoTask /\ \A x \in Thread : Hand(x)' = Hand(x)
        BY <1>7, <1>8, <1>9, <3>5
      <4>2. Stays
        BY <1>1, <4>1, StaysByParts
      <4>3. Places' /\ Disjoint' /\ Covered'
        BY <1>1, <3>2, <4>2, Stay
      <4> QED BY <2>1, <3>2, <4>1, <4>3
    <3> QED BY <3>4, <3>5
  <2> QED BY <2>2, <2>3
<1>11. OnePlace'
  BY <1>1, <1>10, QueuesKept
<1>12. TypeOK'
  BY <1>1, <1>2, <1>3, <1>4, <1>7, <1>10 DEF TypeOK
<1>13. Control'
  <2>1. (Live' <=> Live) /\ pc'[Mpi] \in MpiLabel /\ pc'[Main] \in MainLabel
        /\ \A w \in Thread \ {Main, Mpi} : pc'[w] \in WorkerLabel
    BY <1>2, <1>3, Phase, MpiAssumption DEF Control, MainLabel, MpiLabel, WorkerLabel
  <2>2. \A x \in Thread :
       /\ todo'[x] # {} => pc'[x] \in {"spawn", "dec"}
       /\ last'[x] # NoTask => pc'[x] = "dec"
       /\ nxt'[x] # NoTask => pc'[x] = "fin"
       /\ pc'[x] \in {"run", "requeue", "dec", "fin"} => cur'[x] # NoTask
       /\ pc'[x] \notin {"check", "run", "requeue", "dec", "fin"} => cur'[x] = NoTask
       /\ pc'[x] = "run" /\ x # Mpi => cur'[x] \notin Blocking
    BY <1>1, <1>2, <1>3, <1>4, <1>7 DEF Control
  <2>3. /\ pc[Mpi] = "requeue" <=> pc'[Mpi] = "requeue"
        /\ pc[Mpi] \in {"test1", "test2"} <=> pc'[Mpi] \in {"test1", "test2"}
    BY <1>1, <1>3, MpiAssumption
  <2> QED BY <1>1, <1>2, <2>1, <2>2, <2>3 DEF Control
<1>14. Rounds'
  BY <1>1, <1>2, <1>3, Phase DEF Rounds
<1>15. Quiet'
  <2>1. SUFFICES ASSUME ~Executing'
                 PROVE  (\A p \in Place : In(p)' = {}) /\ \A x \in Thread : Owes(x)' = {}
    BY DEF Quiet
  <2>2. ~Executing
    BY <1>3, <2>1, Phase
  <2>3. (\A p \in Place : In(p) = {}) /\ \A x \in Thread : Owes(x) = {}
    BY <2>2 DEF MpiInv, Quiet
  <2>4. \A x \in Thread : Hand(x)' = Hand(x)
    BY <1>8, <1>9, <1>10, <2>2
  <2>5. Stays
    BY <1>1, <2>4, StaysByParts
  <2> QED BY <1>6, <2>3, <2>5 DEF Stays
<1>16. Suspension'
  <2>1. \A x \in Thread :
         /\ pc'[x] \in {"run", "requeue"} => cur[x] \in begun
         /\ pc'[x] = "spawn" => todo[x] \cap begun = {}
         /\ pc'[x] = "check" /\ x # Mpi => cur[x] \notin begun
         /\ nxt'[x] \notin begun
         /\ ToSet(stack[x]) \cap begun = {}
    BY <1>2, <1>3, <1>7, <1>10 DEF Suspension
  <2> QED BY <1>1, <1>10, <2>1 DEF Suspension, Covered
<1>17. Bodies'
  BY <1>1, <1>2, <1>4, <1>6 DEF Bodies
<1>18. Alive'
  <2>1. \A x \in Thread : pc'[x] \in {"dec", "fin"} /\ x # th => pc'[x] = pc[x]
    BY <1>3
  <2>2. Live /\ ~stored /\ cur[th] \in graph.node \ done => FALSE
    BY <1>1, <1>2 DEF Alive
  <2> QED BY <1>1, <1>2, <1>3, <2>1, <2>2, Phase DEF Alive
<1>19. Requests'
  <2>1. \/ pc'[Mpi] = pc[Mpi] /\ cur'[Mpi] = cur[Mpi]
        \/ {pc[Mpi], pc'[Mpi]} \cap {"requeue", "test2"} = {}
    BY <1>1, <1>3, MpiAssumption
  <2> QED BY <1>1, <2>1, RequestsKept
<1> QED BY <1>10, <1>11, <1>12, <1>13, <1>14, <1>15, <1>16, <1>17, <1>18, <1>19 DEF MpiInv

-----------------------------------------------------------------------------
(***************************************************************************)
(* The extra thread: a task is suspended.                                  *)
(***************************************************************************)

\* The main thread and the workers do not move.
LEMMA MpiLoopFacts ==
  ASSUME MpiInv, NEW l \in MpiLabel, Goto(Mpi, l)
  PROVE  /\ Mpi \in Thread /\ Main \in Thread /\ Mpi # Main
         /\ SamePhase
         /\ pc' \in [Thread -> MainLabel \cup MpiLabel]
         /\ pc'[Mpi] = l
         /\ \A x \in Thread \ {Mpi} : pc'[x] = pc[x]
         /\ pc'[Main] \in MainLabel /\ pc'[Mpi] \in MpiLabel
         /\ \A w \in Thread \ {Main, Mpi} : pc'[w] \in WorkerLabel
<1>1. TypeOK /\ pc[Mpi] \in MpiLabel /\ Mpi \in Thread /\ Main \in Thread /\ Mpi # Main
  BY MpiAssumption DEF MpiInv, Control
<1>2. /\ SamePhase
      /\ pc' \in [Thread -> MainLabel \cup MpiLabel]
      /\ pc'[Mpi] = l
      /\ \A x \in Thread \ {Mpi} : pc'[x] = pc[x]
  BY <1>1, LoopStepFacts
<1>3. /\ pc'[Main] \in MainLabel /\ pc'[Mpi] \in MpiLabel
      /\ \A w \in Thread \ {Main, Mpi} : pc'[w] \in WorkerLabel
  BY <1>1, <1>2 DEF MpiInv, Control
<1> QED BY <1>1, <1>2, <1>3

\* What the extra thread executes is its own ready task.
LEMMA MpiTask ==
  ASSUME MpiInv, pc[Mpi] \in {"run", "requeue"}
  PROVE  /\ cur[Mpi] # NoTask /\ nxt[Mpi] = NoTask /\ Hand(Mpi) = {cur[Mpi]}
         /\ <<"hand", Mpi>> \in Place /\ cur[Mpi] \in In(<<"hand", Mpi>>)
         /\ Executing /\ Live /\ graph \in Graphs /\ IsReady(cur[Mpi])
         /\ cur[Mpi] \in Task /\ cur[Mpi] \in graph.node /\ cur[Mpi] \in begun
         /\ \A x \in Thread : /\ x # Mpi => cur[Mpi] \notin Hand(x)
                              /\ cur[Mpi] \notin ToSet(stack[x])
         /\ cur[Mpi] \notin ToSet(mpiq) /\ cur[Mpi] \notin ToSet(TaskOf(polling))
         /\ cur[Mpi] # mt.cur.task
<1>1. Mpi \in Thread
  BY MpiAssumption
<1>2. cur[Mpi] # NoTask /\ nxt[Mpi] = NoTask /\ cur[Mpi] \in begun
  BY <1>1 DEF MpiInv, Control, Suspension
<1>3. Hand(Mpi) = {cur[Mpi]}
  BY <1>2 DEF Hand
<1>4. <<"hand", Mpi>> \in Place /\ cur[Mpi] \in In(<<"hand", Mpi>>)
  BY <1>1, <1>3, PlaceParts
<1>5. /\ Executing /\ Live /\ graph \in Graphs /\ IsReady(cur[Mpi])
      /\ cur[Mpi] \in Task /\ cur[Mpi] \in graph.node
      /\ \A x \in Thread : /\ x # Mpi => cur[Mpi] \notin Hand(x)
                           /\ cur[Mpi] \notin ToSet(stack[x])
      /\ cur[Mpi] \notin ToSet(mpiq) /\ cur[Mpi] \notin ToSet(TaskOf(polling))
      /\ cur[Mpi] # mt.cur.task
  BY <1>4, Somewhere
<1> QED BY <1>2, <1>3, <1>4, <1>5

\* Request r is among the handles of an mtest_task of the queue.
Waits(queue, r) ==
  \E i \in DOMAIN queue : r \in queue[i].comm /\ r[1] = queue[i].task

LEMMA WaitsFacts ==
  ASSUME NEW queue \in Seq(MtestTask), NEW r
  PROVE  /\ \A m \in MtestTask :
              Waits(Append(queue, m), r) <=> Waits(queue, r) \/ (r \in m.comm /\ r[1] = m.task)
         /\ queue # <<>> =>
              (Waits(queue, r) <=> \/ Waits(Tail(queue), r)
                                   \/ r \in Head(queue).comm /\ r[1] = Head(queue).task)
<1>1. DOMAIN queue = 1 .. Len(queue) /\ Len(queue) \in Nat
  OBVIOUS
<1>2. ASSUME NEW m \in MtestTask
      PROVE  Waits(Append(queue, m), r) <=> Waits(queue, r) \/ (r \in m.comm /\ r[1] = m.task)
  <2>1. /\ DOMAIN Append(queue, m) = 1 .. (Len(queue) + 1)
        /\ \A i \in 1 .. Len(queue) : Append(queue, m)[i] = queue[i]
        /\ Append(queue, m)[Len(queue) + 1] = m
    BY <1>1
  <2>2. \A i \in 1 .. (Len(queue) + 1) : i \in 1 .. Len(queue) \/ i = Len(queue) + 1
    BY <1>1
  <2>3. /\ Len(queue) + 1 \in 1 .. (Len(queue) + 1)
        /\ \A i \in 1 .. Len(queue) : i \in 1 .. (Len(queue) + 1)
    BY <1>1
  <2> QED BY <1>1, <2>1, <2>2, <2>3 DEF Waits
<1>3. ASSUME queue # <<>>
      PROVE  Waits(queue, r) <=> \/ Waits(Tail(queue), r)
                                 \/ r \in Head(queue).comm /\ r[1] = Head(queue).task
  <2>1. /\ Head(queue) = queue[1] /\ Len(queue) # 0
        /\ DOMAIN Tail(queue) = 1 .. (Len(queue) - 1)
        /\ \A i \in 1 .. (Len(queue) - 1) : Tail(queue)[i] = queue[i + 1]
    BY <1>3
  <2>2. ASSUME Waits(queue, r)
        PROVE  Waits(Tail(queue), r) \/ (r \in Head(queue).comm /\ r[1] = Head(queue).task)
    <3>1. PICK i \in 1 .. Len(queue) : r \in queue[i].comm /\ r[1] = queue[i].task
      BY <1>1, <2>2 DEF Waits
    <3>2. CASE i = 1
      BY <2>1, <3>1, <3>2
    <3>3. CASE i # 1
      <4>1. i - 1 \in 1 .. (Len(queue) - 1) /\ Tail(queue)[i - 1] = queue[i]
        BY <1>1, <2>1, <3>3
      <4> QED BY <2>1, <3>1, <4>1 DEF Waits
    <3> QED BY <3>2, <3>3
  <2>3. ASSUME Waits(Tail(queue), r) PROVE Waits(queue, r)
    <3>1. PICK i \in 1 .. (Len(queue) - 1) : r \in Tail(queue)[i].comm /\ r[1] = Tail(queue)[i].task
      BY <2>1, <2>3 DEF Waits
    <3>2. i + 1 \in 1 .. Len(queue) /\ Tail(queue)[i] = queue[i + 1]
      BY <1>1, <2>1
    <3> QED BY <1>1, <3>1, <3>2 DEF Waits
  <2>4. 1 \in 1 .. Len(queue)
    BY <1>1, <2>1
  <2> QED BY <1>1, <2>1, <2>2, <2>3, <2>4 DEF Waits
<1> QED BY <1>2, <1>3

\* The same of the places of requests that Requests lists.
LEMMA RequestsParts ==
  Requests <=>
    \A r \in pending :
      \/ pc[Mpi] = "requeue" /\ r \in comm /\ r[1] = cur[Mpi]
      \/ Waits(polling, r)
      \/ /\ r \in mt.cur.comm /\ r[1] = mt.cur.task
         /\ ~(pc[Mpi] = "test2" /\ r[2] = 1 /\ mt.flag1)
BY DEF Requests, Waits

LEMMA RequestsPartsNext ==
  Requests' <=>
    \A r \in pending' :
      \/ pc'[Mpi] = "requeue" /\ r \in comm' /\ r[1] = cur'[Mpi]
      \/ Waits(polling', r)
      \/ /\ r \in mt'.cur.comm /\ r[1] = mt'.cur.task
         /\ ~(pc'[Mpi] = "test2" /\ r[2] = 1 /\ mt'.flag1)
BY DEF Requests, Waits

LEMMA SuspendBodyStep ==
  ASSUME MpiInv, SuspendBody
  PROVE  MpiInv'
<1>0. PICK c : c = cur[Mpi]
  OBVIOUS
<1>1. PICK k \in Kinds :
        /\ pending' = pending \cup {<<c, i>> : i \in k}
        /\ comm' = IF k = {} THEN comm ELSE {<<c, i>> : i \in k}
  BY <1>0 DEF SuspendBody
<1>2. /\ pc[Mpi] = "run" /\ c \in Blocking /\ Goto(Mpi, "requeue")
      /\ suspend' = [suspend EXCEPT ![c] = TRUE]
      /\ count' = [count EXCEPT ![c] = @ + 1]
      /\ UNCHANGED <<graph, stored, round, ref, backup, freed, stack, mpiq, polling,
                     cur, todo, last, nxt, begun, done, mt>>
  BY <1>0 DEF SuspendBody, graphVars, queueVars, localVars
<1>3. TypeOK /\ Control /\ Rounds /\ Suspension /\ Alive /\ Requests
  BY DEF MpiInv
<1>4. /\ Mpi \in Thread /\ Main \in Thread /\ Mpi # Main
      /\ SamePhase
      /\ pc' \in [Thread -> MainLabel \cup MpiLabel]
      /\ pc'[Mpi] = "requeue"
      /\ \A x \in Thread \ {Mpi} : pc'[x] = pc[x]
      /\ pc'[Main] \in MainLabel /\ pc'[Mpi] \in MpiLabel
      /\ \A w \in Thread \ {Main, Mpi} : pc'[w] \in WorkerLabel
  BY <1>2, MpiLoopFacts DEF MpiLabel
<1>5. Executing /\ Live /\ c \in Task /\ c # NoTask /\ c \in begun
  BY <1>0, <1>2, MpiTask
<1>6. /\ suspend' \in [Task -> BOOLEAN] /\ suspend'[c]
      /\ \A t \in Task \ {c} : suspend'[t] = suspend[t]
      /\ count' \in [Task -> Nat]
  BY <1>2, <1>3, <1>5 DEF TypeOK
<1>7. comm = {} /\ comm' = {<<c, i>> : i \in k}
  BY <1>1, <1>2, <1>3 DEF Control
<1>8. {<<c, i>> : i \in k} \subseteq Task \X {1, 2}
  <2>1. k \subseteq {1, 2}
    BY MpiAssumption
  <2> QED BY <1>5, <2>1
<1>9. \A x \in Thread : Owes(x)' = Owes(x) /\ Hand(x)' = Hand(x)
  BY <1>2, <1>4 DEF Owes, Hand
<1>10. /\ \A t : IsReady(t)' <=> IsReady(t)
       /\ Bodies' /\ Counts' /\ Stored'
  BY <1>2, <1>4, <1>9, ExecFrame
<1>11. Stays
  BY <1>2, <1>9, StaysByParts
<1>12. Places' /\ Disjoint' /\ Covered'
  BY <1>2, <1>10, <1>11, Stay
<1>13. OnePlace'
  BY <1>2, <1>12, QueuesKept
<1>14. TypeOK'
  BY <1>1, <1>2, <1>3, <1>4, <1>6, <1>7, <1>8 DEF TypeOK
<1>15. Control'
  <2>1. Live' <=> Live
    BY <1>4, Phase
  <2>2. \A x \in Thread :
       /\ todo'[x] # {} => pc'[x] \in {"spawn", "dec"}
       /\ last'[x] # NoTask => pc'[x] = "dec"
       /\ nxt'[x] # NoTask => pc'[x] = "fin"
       /\ pc'[x] \in {"run", "requeue", "dec", "fin"} => cur'[x] # NoTask
       /\ pc'[x] \notin {"check", "run", "requeue", "dec", "fin"} => cur'[x] = NoTask
       /\ pc'[x] = "run" /\ x # Mpi => cur'[x] \notin Blocking
    BY <1>0, <1>2, <1>3, <1>4, <1>5 DEF Control
  <2>3. \A t \in Task : suspend'[t] => t \in Blocking
    BY <1>2, <1>3, <1>6 DEF Control
  <2> QED BY <1>0, <1>2, <1>3, <1>4, <1>6, <2>1, <2>2, <2>3 DEF Control
<1>16. Rounds'
  BY <1>2, <1>3, <1>4, Phase DEF Rounds
<1>17. Quiet'
  BY <1>4, <1>5, Phase DEF Quiet
<1>18. Suspension'
  BY <1>0, <1>2, <1>3, <1>4, <1>5, <1>12 DEF Suspension, Covered
<1>19. Alive'
  <2>1. stored' => freed' \cap graph'.node = {}
    BY <1>2, <1>3 DEF Alive
  <2>2. Live' => freed' \cap (graph'.node \ done') = {}
    BY <1>2, <1>3, <1>5 DEF Alive
  <2>3. ASSUME ~stored, NEW x \in Thread, pc'[x] \in {"dec", "fin"},
               cur[x] \in graph.node \ done
        PROVE  FALSE
    BY <1>3, <1>4, <1>5, <2>3 DEF Alive
  <2> QED BY <1>2, <2>1, <2>2, <2>3 DEF Alive
<1>20. Requests'
  <2>1. ASSUME NEW r \in pending'
        PROVE  \/ r \in comm' /\ r[1] = c
               \/ Waits(polling, r)
               \/ r \in mt.cur.comm /\ r[1] = mt.cur.task
    <3>1. CASE r \in pending
      BY <1>2, <1>3, <3>1, RequestsParts
    <3>2. CASE r \in {<<c, i>> : i \in k}
      BY <1>7, <3>2
    <3> QED BY <1>1, <3>1, <3>2
  <2> QED BY <1>0, <1>2, <1>4, <2>1, RequestsPartsNext
<1> QED BY <1>10, <1>12, <1>13, <1>14, <1>15, <1>16, <1>17, <1>18, <1>19, <1>20 DEF MpiInv

LEMMA MovesToPolling ==
  ASSUME NEW t,
         \A x \in Thread : Hand(x)' = Hand(x) \ {t},
         \A x \in Thread : ToSet(stack'[x]) = ToSet(stack[x]) \ {t},
         ToSet(mpiq') = ToSet(mpiq) \ {t},
         In(<<"polling", Mpi>>)' = In(<<"polling", Mpi>>) \cup {t},
         In(<<"test", Mpi>>)' = In(<<"test", Mpi>>) \ {t}
  PROVE  Moves(t, <<"polling", Mpi>>)
<1> DEFINE q == <<"polling", Mpi>>
<1>1. /\ q \in Place /\ \A x \in Thread : q # <<"stack", x>> /\ q # <<"hand", x>>
      /\ q = <<"polling", Mpi>> /\ q # <<"mpiq", Mpi>> /\ q # <<"test", Mpi>>
  BY PlaceParts
<1> HIDE DEF q
<1>2. Moves(t, q)
  BY <1>1, MovesByParts
<1> QED BY <1>2 DEF q

LEMMA MovesToTest ==
  ASSUME NEW t,
         \A x \in Thread : Hand(x)' = Hand(x) \ {t},
         \A x \in Thread : ToSet(stack'[x]) = ToSet(stack[x]) \ {t},
         ToSet(mpiq') = ToSet(mpiq) \ {t},
         In(<<"polling", Mpi>>)' = In(<<"polling", Mpi>>) \ {t},
         In(<<"test", Mpi>>)' = In(<<"test", Mpi>>) \cup {t}
  PROVE  Moves(t, <<"test", Mpi>>)
<1> DEFINE q == <<"test", Mpi>>
<1>1. /\ q \in Place /\ \A x \in Thread : q # <<"stack", x>> /\ q # <<"hand", x>>
      /\ q = <<"test", Mpi>> /\ q # <<"mpiq", Mpi>> /\ q # <<"polling", Mpi>>
  BY PlaceParts
<1> HIDE DEF q
<1>2. Moves(t, q)
  BY <1>1, MovesByParts
<1> QED BY <1>2 DEF q

LEMMA RequeueStep ==
  ASSUME MpiInv, Requeue
  PROVE  MpiInv'
<1>0. PICK c, m : c = cur[Mpi] /\ m = [task |-> c, comm |-> comm]
  OBVIOUS
<1>1. /\ pc[Mpi] = "requeue" /\ Goto(Mpi, "fin")
      /\ ref' = IF stored THEN [ref EXCEPT ![c] = backup[c]] ELSE ref
      /\ comm = {} => mpiq' = Append(mpiq, c) /\ UNCHANGED <<polling, comm>>
      /\ comm # {} => polling' = Append(polling, m) /\ comm' = {} /\ UNCHANGED mpiq
      /\ UNCHANGED <<graph, stored, round, backup, freed, suspend, stack,
                     cur, todo, last, nxt, begun, done, count, mt, pending>>
  BY <1>0 DEF Requeue, Restored, CommCleared, graphVars, localVars, historyVars
<1>2. TypeOK /\ Control /\ Rounds /\ Suspension /\ Alive /\ Requests /\ OnePlace
  BY DEF MpiInv
<1>3. /\ Mpi \in Thread /\ Main \in Thread /\ Mpi # Main
      /\ SamePhase
      /\ pc' \in [Thread -> MainLabel \cup MpiLabel]
      /\ pc'[Mpi] = "fin"
      /\ \A x \in Thread \ {Mpi} : pc'[x] = pc[x]
      /\ pc'[Main] \in MainLabel /\ pc'[Mpi] \in MpiLabel
      /\ \A w \in Thread \ {Main, Mpi} : pc'[w] \in WorkerLabel
  BY <1>1, MpiLoopFacts DEF MpiLabel, WorkerLabel
<1>4. /\ c # NoTask /\ nxt[Mpi] = NoTask /\ Hand(Mpi) = {c}
      /\ <<"hand", Mpi>> \in Place /\ c \in In(<<"hand", Mpi>>)
      /\ Executing /\ Live /\ graph \in Graphs /\ IsReady(c)
      /\ c \in Task /\ c \in graph.node /\ c \in begun
      /\ \A x \in Thread : (x # Mpi => c \notin Hand(x)) /\ c \notin ToSet(stack[x])
      /\ c \notin ToSet(mpiq) /\ c \notin ToSet(TaskOf(polling))
      /\ c # mt.cur.task
  BY <1>0, <1>1, MpiTask
<1>5. m \in MtestTask /\ m.task = c /\ m.comm = comm
  BY <1>0, <1>2, <1>4 DEF TypeOK, MtestTask
<1>6. ref' \in [Task -> Int] /\ \A u \in Task : ref'[u] = ref[u] \/ (Executing /\ IsReady(u))
  BY <1>1, <1>2, <1>4 DEF TypeOK
<1>7. \A x \in Thread : Owes(x)' = Owes(x)
  BY <1>1, <1>3 DEF Owes
<1>8. \A x \in Thread : Hand(x)' = Hand(x) \ {c}
  <2>1. Hand(Mpi)' = {}
    BY <1>1, <1>3, <1>4 DEF Hand
  <2>2. \A x \in Thread \ {Mpi} : Hand(x)' = Hand(x)
    BY <1>1, <1>3 DEF Hand
  <2> QED BY <1>4, <2>1, <2>2
<1>9. /\ \A t : IsReady(t)' <=> IsReady(t)
      /\ Bodies' /\ Counts' /\ Stored'
  BY <1>1, <1>3, <1>6, <1>7, ExecFrame
<1>10. mpiq \in Seq(Task) /\ polling \in Seq(MtestTask) /\ TaskOf(polling) \in Seq(Task)
       /\ IsInjective(mpiq) /\ IsInjective(TaskOf(polling))
  <2>1. mpiq \in Seq(Task) /\ polling \in Seq(MtestTask)
    BY <1>2 DEF TypeOK
  <2> QED BY <1>2, <2>1, TaskOfFacts DEF OnePlace
<1>11. \A x \in Thread : ToSet(stack'[x]) = ToSet(stack[x]) \ {c}
  BY <1>1, <1>4
<1>12. In(<<"test", Mpi>>)' = In(<<"test", Mpi>>) \ {c}
  BY <1>1, <1>4 DEF In
<1>13. /\ mpiq' \in Seq(Task) /\ polling' \in Seq(MtestTask)
       /\ IsInjective(mpiq') /\ IsInjective(TaskOf(polling'))
       /\ \E q \in Place : Moves(c, q)
       /\ \A r \in pending : Waits(polling, r) \/ (r \in comm /\ r[1] = c) => Waits(polling', r)
  <2>1. CASE comm = {}
    <3>1. mpiq' = Append(mpiq, c) /\ polling' = polling
      BY <1>1, <2>1
    <3>2. mpiq' \in Seq(Task) /\ IsInjective(mpiq') /\ ToSet(mpiq') = ToSet(mpiq) \cup {c}
      BY <1>4, <1>10, <3>1, AppendFacts
    <3>3. In(<<"polling", Mpi>>)' = In(<<"polling", Mpi>>) \ {c}
      BY <1>4, <3>1 DEF In, TaskOf
    <3>4. Moves(c, <<"mpiq", Mpi>>) /\ <<"mpiq", Mpi>> \in Place
      BY <1>8, <1>11, <1>12, <3>2, <3>3, MovesToMpiq, PlaceParts
    <3> QED BY <1>10, <2>1, <3>1, <3>2, <3>4
  <2>2. CASE comm # {}
    <3>1. polling' = Append(polling, m) /\ mpiq' = mpiq
      BY <1>1, <2>2
    <3>2. polling' \in Seq(MtestTask) /\ TaskOf(polling') = Append(TaskOf(polling), c)
      BY <1>5, <1>10, <3>1, TaskOfFacts
    <3>3. IsInjective(TaskOf(polling')) /\ ToSet(TaskOf(polling')) = ToSet(TaskOf(polling)) \cup {c}
      BY <1>4, <1>10, <3>2, AppendFacts
    <3>4. In(<<"polling", Mpi>>)' = In(<<"polling", Mpi>>) \cup {c}
      BY <3>3, PlaceParts, PlacePartsNext
    <3>5. ToSet(mpiq') = ToSet(mpiq) \ {c}
      BY <1>4, <3>1
    <3>6. Moves(c, <<"polling", Mpi>>) /\ <<"polling", Mpi>> \in Place
      BY <1>8, <1>11, <1>12, <3>4, <3>5, MovesToPolling, PlaceParts
    <3>7. \A r : Waits(polling, r) \/ (r \in comm /\ r[1] = c) => Waits(polling', r)
      BY <1>5, <1>10, <3>1, WaitsFacts
    <3> QED BY <1>10, <3>1, <3>2, <3>3, <3>6, <3>7
  <2> QED BY <2>1, <2>2
<1>14. Places' /\ Disjoint' /\ Covered'
  BY <1>1, <1>4, <1>9, <1>13, Move
<1>15. OnePlace'
  BY <1>1, <1>2, <1>13, <1>14 DEF OnePlace, Disjoint, TaskOf
<1>16. comm' = {}
  BY <1>1
<1>17. TypeOK'
  BY <1>1, <1>2, <1>3, <1>6, <1>13, <1>16 DEF TypeOK
<1>18. Control'
  <2>1. Live' <=> Live
    BY <1>3, Phase
  <2>2. \A x \in Thread :
       /\ todo'[x] # {} => pc'[x] \in {"spawn", "dec"}
       /\ last'[x] # NoTask => pc'[x] = "dec"
       /\ nxt'[x] # NoTask => pc'[x] = "fin"
       /\ pc'[x] \in {"run", "requeue", "dec", "fin"} => cur'[x] # NoTask
       /\ pc'[x] \notin {"check", "run", "requeue", "dec", "fin"} => cur'[x] = NoTask
       /\ pc'[x] = "run" /\ x # Mpi => cur'[x] \notin Blocking
    BY <1>0, <1>1, <1>2, <1>3, <1>4 DEF Control
  <2> QED BY <1>1, <1>2, <1>3, <1>16, <2>1, <2>2 DEF Control
<1>19. Rounds'
  BY <1>1, <1>2, <1>3, Phase DEF Rounds
<1>20. Quiet'
  BY <1>3, <1>4, Phase DEF Quiet
<1>21. Suspension'
  BY <1>1, <1>2, <1>3, <1>14 DEF Suspension, Covered
<1>22. Alive'
  <2>1. suspend[c]
    BY <1>0, <1>1, <1>2 DEF Control
  <2>2. Live' => freed' \cap (graph'.node \ done') = {}
    BY <1>1, <1>2, <1>4 DEF Alive
  <2>3. ASSUME ~stored, NEW x \in Thread, pc'[x] \in {"dec", "fin"},
               cur[x] \in graph.node \ done
        PROVE  x = Mpi /\ pc'[x] = "fin" /\ suspend[cur[x]]
    <3>1. CASE x = Mpi
      BY <1>0, <1>3, <2>1, <3>1
    <3>2. CASE x # Mpi
      BY <1>2, <1>3, <1>4, <2>3, <3>2 DEF Alive
    <3> QED BY <3>1, <3>2
  <2> QED BY <1>1, <1>2, <2>2, <2>3 DEF Alive
<1>23. Requests'
  <2>1. ASSUME NEW r \in pending
        PROVE  Waits(polling', r) \/ (r \in mt.cur.comm /\ r[1] = mt.cur.task)
    BY <1>0, <1>2, <1>13, RequestsParts
  <2> QED BY <1>1, <1>3, <2>1, RequestsPartsNext
<1> QED BY <1>9, <1>14, <1>15, <1>17, <1>18, <1>19, <1>20, <1>21, <1>22, <1>23 DEF MpiInv

-----------------------------------------------------------------------------
(***************************************************************************)
(* The extra thread: polling.                                              *)
(***************************************************************************)

\* Steps of the extra thread on the two queues and mt only.
LEMMA PollFrame ==
  ASSUME MpiInv, NEW l \in MpiLabel \ {"check", "run", "requeue", "dec", "fin"}, Goto(Mpi, l),
         pc[Mpi] \notin {"check", "run", "requeue", "dec", "fin"},
         mt'.cur = NoTest <=> l \notin {"test1", "test2"},
         UNCHANGED <<graph, stored, round, ref, backup, freed, suspend, stack,
                     cur, todo, last, nxt, begun, done, count, comm, pending>>
  PROVE  /\ SamePhase
         /\ \A x \in Thread : Hand(x)' = Hand(x)
         /\ Hand(Mpi) = {}
         /\ \A t : IsReady(t)' <=> IsReady(t)
         /\ mpiq' \in Seq(Task) /\ polling' \in Seq(MtestTask)
              /\ mt' \in [cur : MtestTask \cup {NoTest}, old : MtestTask \cup {NoTest},
                          flag1 : BOOLEAN]
              => TypeOK'
         /\ Control' /\ Rounds' /\ Bodies' /\ Counts' /\ Stored' /\ Alive'
         /\ Executing \/ Stays => Quiet'
         /\ Covered' => Suspension'
<1>1. TypeOK /\ Control /\ Rounds /\ Suspension /\ Quiet
  BY DEF MpiInv
<1>2. /\ Mpi \in Thread /\ Main \in Thread /\ Mpi # Main
      /\ SamePhase
      /\ pc' \in [Thread -> MainLabel \cup MpiLabel]
      /\ pc'[Mpi] = l
      /\ \A x \in Thread \ {Mpi} : pc'[x] = pc[x]
      /\ pc'[Main] \in MainLabel /\ pc'[Mpi] \in MpiLabel
      /\ \A w \in Thread \ {Main, Mpi} : pc'[w] \in WorkerLabel
  BY MpiLoopFacts
<1>3. l \notin {"check", "run", "requeue", "dec", "fin", "spawn"}
  BY DEF MpiLabel, WorkerLabel
<1>4. cur[Mpi] = NoTask /\ nxt[Mpi] = NoTask /\ todo[Mpi] = {} /\ pc[Mpi] # "spawn"
  BY <1>1, <1>2 DEF Control, MpiLabel, WorkerLabel
<1>5. \A x \in Thread : Owes(x)' = Owes(x)
  BY <1>2, <1>3 DEF Owes
<1>6. (\A x \in Thread : Hand(x)' = Hand(x)) /\ Hand(Mpi) = {}
  BY <1>2, <1>3, <1>4 DEF Hand
<1>7. /\ \A t : IsReady(t)' <=> IsReady(t)
      /\ Bodies' /\ Counts' /\ Stored'
  BY <1>2, <1>5, ExecFrame
<1>8. ASSUME mpiq' \in Seq(Task), polling' \in Seq(MtestTask),
             mt' \in [cur : MtestTask \cup {NoTest}, old : MtestTask \cup {NoTest},
                      flag1 : BOOLEAN]
      PROVE  TypeOK'
  BY <1>1, <1>2, <1>8 DEF TypeOK
<1>9. Control'
  <2>1. (Live' <=> Live) /\ comm = {} /\ l # "requeue"
    BY <1>1, <1>2, <1>3, Phase DEF Control
  <2>2. \A x \in Thread :
       /\ todo'[x] # {} => pc'[x] \in {"spawn", "dec"}
       /\ last'[x] # NoTask => pc'[x] = "dec"
       /\ nxt'[x] # NoTask => pc'[x] = "fin"
       /\ pc'[x] \in {"run", "requeue", "dec", "fin"} => cur'[x] # NoTask
       /\ pc'[x] \notin {"check", "run", "requeue", "dec", "fin"} => cur'[x] = NoTask
       /\ pc'[x] = "run" /\ x # Mpi => cur'[x] \notin Blocking
    BY <1>1, <1>2, <1>3, <1>4 DEF Control
  <2> QED BY <1>1, <1>2, <2>1, <2>2 DEF Control
<1>10. Rounds'
  BY <1>1, <1>2, Phase DEF Rounds
<1>11. Alive'
  BY <1>2, <1>3, AliveKept
<1>12. ASSUME Stays PROVE Quiet'
  BY <1>1, <1>2, <1>5, <1>12, Phase DEF Quiet, Stays
<1>13. ASSUME Executing PROVE Quiet'
  BY <1>2, <1>13, Phase DEF Quiet
<1>14. ASSUME Covered' PROVE Suspension'
  BY <1>1, <1>2, <1>3, <1>14 DEF Suspension, Covered
<1> QED BY <1>2, <1>6, <1>7, <1>8, <1>9, <1>10, <1>11, <1>12, <1>13, <1>14

\* The record of the polling loop, and a request it is about.
LEMMA MtFacts ==
  ASSUME MpiInv
  PROVE  /\ mt.cur \in MtestTask \cup {NoTest} /\ mt.old \in MtestTask \cup {NoTest}
         /\ mt.flag1 \in BOOLEAN
         /\ mt = [cur |-> mt.cur, old |-> mt.old, flag1 |-> mt.flag1]
         /\ \A m \in MtestTask : m.task \in Task /\ m.task # NoTask /\ m # NoTest
         /\ mt.cur = NoTest => mt.cur.task = NoTask /\ mt.cur.comm = {}
         /\ \A r \in pending : r[2] \in {1, 2}
<1>1. TypeOK
  BY DEF MpiInv
<1>2. \A m \in MtestTask : m.task \in Task /\ m.task # NoTask /\ m # NoTest
  BY MpiAssumption DEF MtestTask, NoTest
<1>3. \A r \in pending : r[2] \in {1, 2}
  BY <1>1 DEF TypeOK
<1> QED BY <1>1, <1>2, <1>3 DEF TypeOK, NoTest

LEMMA PollBeginStep ==
  ASSUME MpiInv, PollBegin
  PROVE  MpiInv'
<1>1. /\ pc[Mpi] = "poll"
      /\ UNCHANGED <<graph, stored, round, ref, backup, freed, suspend, stack, mpiq,
                     cur, todo, last, nxt, begun, done, count, comm, pending>>
  BY DEF PollBegin, graphVars, taskVars, localVars, historyVars
<1>2. TypeOK /\ Control /\ OnePlace /\ Requests
  BY DEF MpiInv
<1>3. mt.cur = NoTest /\ mt.cur.task = NoTask /\ mt.cur.comm = {}
  BY <1>1, <1>2, MtFacts DEF Control
<1>4. CASE polling = <<>>
  <2>1. Goto(Mpi, "pop") /\ UNCHANGED <<polling, mt>>
    BY <1>4 DEF PollBegin
  <2>2. "pop" \in MpiLabel \ {"check", "run", "requeue", "dec", "fin"}
        /\ pc[Mpi] \notin {"check", "run", "requeue", "dec", "fin"}
    BY <1>1 DEF MpiLabel
  <2>3. /\ SamePhase
        /\ \A x \in Thread : Hand(x)' = Hand(x)
        /\ \A t : IsReady(t)' <=> IsReady(t)
        /\ mpiq' \in Seq(Task) /\ polling' \in Seq(MtestTask)
             /\ mt' \in [cur : MtestTask \cup {NoTest}, old : MtestTask \cup {NoTest},
                         flag1 : BOOLEAN]
             => TypeOK'
        /\ Control' /\ Rounds' /\ Bodies' /\ Counts' /\ Stored' /\ Alive'
        /\ Executing \/ Stays => Quiet'
        /\ Covered' => Suspension'
    BY <1>1, <1>3, <2>1, <2>2, PollFrame
  <2>4. Stays
    BY <1>1, <2>1, <2>3, StaysByParts
  <2>5. Places' /\ Disjoint' /\ Covered'
    BY <1>1, <2>3, <2>4, Stay
  <2>6. OnePlace'
    BY <1>1, <2>1, <2>5, QueuesKept
  <2>7. TypeOK'
    BY <1>1, <1>2, <2>1, <2>3 DEF TypeOK
  <2>8. pc'[Mpi] = "pop"
    BY <1>2, <2>1, MpiAssumption DEF Goto, TypeOK
  <2>9. Requests'
    BY <1>1, <2>1, <2>8, RequestsKept
  <2> QED BY <2>3, <2>4, <2>5, <2>6, <2>7, <2>9 DEF MpiInv
<1>5. CASE polling # <<>>
  <2>0. PICK h, c : h = Head(polling) /\ c = h.task
    OBVIOUS
  <2>1. /\ Goto(Mpi, "test1") /\ polling' = Tail(polling)
        /\ mt' = [cur |-> h, old |-> NoTest, flag1 |-> FALSE]
    BY <1>5, <2>0 DEF PollBegin
  <2>2. /\ polling \in Seq(MtestTask) /\ TaskOf(polling) \in Seq(Task)
        /\ IsInjective(TaskOf(polling))
    <3>1. polling \in Seq(MtestTask)
      BY <1>2 DEF TypeOK
    <3> QED BY <1>2, <3>1, TaskOfFacts DEF OnePlace
  <2>3. /\ h \in MtestTask /\ polling' \in Seq(MtestTask)
    BY <1>5, <2>0, <2>1, <2>2, TailFacts
  <2>4. h # NoTest /\ c \in Task /\ c # NoTask
    BY <2>0, <2>3, MtFacts
  <2>5. TaskOf(polling) # <<>> /\ c = Head(TaskOf(polling)) /\ TaskOf(polling') = Tail(TaskOf(polling))
    BY <1>5, <2>0, <2>1, <2>2, TaskOfFacts
  <2>6. /\ ToSet(TaskOf(polling)) = ToSet(TaskOf(polling')) \cup {c}
        /\ c \notin ToSet(TaskOf(polling')) /\ IsInjective(TaskOf(polling'))
    BY <2>2, <2>5, TailFacts
  <2>7. mt'.cur = h /\ mt'.old = NoTest /\ mt'.flag1 = FALSE
    BY <2>1
  <2>8. mt' \in [cur : MtestTask \cup {NoTest}, old : MtestTask \cup {NoTest}, flag1 : BOOLEAN]
    BY <2>1, <2>3
  <2>9. "test1" \in MpiLabel \ {"check", "run", "requeue", "dec", "fin"}
        /\ pc[Mpi] \notin {"check", "run", "requeue", "dec", "fin"}
        /\ mt'.cur # NoTest
    BY <1>1, <2>4, <2>7 DEF MpiLabel
  <2>10. /\ SamePhase
         /\ \A x \in Thread : Hand(x)' = Hand(x)
         /\ \A t : IsReady(t)' <=> IsReady(t)
         /\ mpiq' \in Seq(Task) /\ polling' \in Seq(MtestTask)
              /\ mt' \in [cur : MtestTask \cup {NoTest}, old : MtestTask \cup {NoTest},
                          flag1 : BOOLEAN]
              => TypeOK'
         /\ Control' /\ Rounds' /\ Bodies' /\ Counts' /\ Stored' /\ Alive'
         /\ Executing \/ Stays => Quiet'
         /\ Covered' => Suspension'
    BY <1>1, <2>1, <2>9, PollFrame
  <2>11. <<"polling", Mpi>> \in Place /\ c \in In(<<"polling", Mpi>>)
    BY <2>6, PlaceParts
  <2>12. /\ Executing /\ IsReady(c)
         /\ \A x \in Thread : c \notin Hand(x) /\ c \notin ToSet(stack[x])
         /\ c \notin ToSet(mpiq)
    BY <2>11, Somewhere
  <2>13. Moves(c, <<"test", Mpi>>) /\ <<"test", Mpi>> \in Place
    <3>1. In(<<"polling", Mpi>>)' = In(<<"polling", Mpi>>) \ {c}
      BY <2>6, PlaceParts, PlacePartsNext
    <3>2. In(<<"test", Mpi>>)' = In(<<"test", Mpi>>) \cup {c}
      BY <1>3, <2>0, <2>4, <2>7, PlaceParts, PlacePartsNext
    <3>3. /\ \A x \in Thread : Hand(x)' = Hand(x) \ {c}
          /\ \A x \in Thread : ToSet(stack'[x]) = ToSet(stack[x]) \ {c}
          /\ ToSet(mpiq') = ToSet(mpiq) \ {c}
      BY <1>1, <2>10, <2>12
    <3> QED BY <3>1, <3>2, <3>3, MovesToTest, PlaceParts
  <2>14. Places' /\ Disjoint' /\ Covered'
    BY <1>1, <2>10, <2>12, <2>13, Move
  <2>15. OnePlace'
    BY <1>1, <1>2, <2>6, <2>14 DEF OnePlace, Disjoint, TaskOf
  <2>16. TypeOK'
    BY <1>1, <1>2, <2>3, <2>8, <2>10 DEF TypeOK
  <2>17. Requests'
    <3>1. pc'[Mpi] = "test1"
      BY <1>2, <2>1, MpiAssumption DEF Goto, TypeOK
    <3>2. ASSUME NEW r \in pending PROVE Waits(polling', r) \/ (r \in h.comm /\ r[1] = h.task)
      <4>1. Waits(polling, r)
        BY <1>1, <1>2, <1>3, RequestsParts
      <4> QED BY <1>5, <2>0, <2>1, <2>2, <4>1, WaitsFacts
    <3> QED BY <1>1, <2>7, <3>1, <3>2, RequestsPartsNext
  <2> QED BY <2>10, <2>12, <2>14, <2>15, <2>16, <2>17 DEF MpiInv
<1> QED BY <1>4, <1>5

LEMMA TestFirstStep ==
  ASSUME MpiInv, TestFirst
  PROVE  MpiInv'
<1>0. PICK f : f = Complete(mt.cur.comm, 1)
  OBVIOUS
<1>1. /\ pc[Mpi] = "test1" /\ mt' = [mt EXCEPT !.flag1 = f] /\ Goto(Mpi, "test2")
      /\ UNCHANGED <<graph, stored, round, ref, backup, freed, suspend, stack, mpiq, polling,
                     cur, todo, last, nxt, begun, done, count, comm, pending>>
  BY <1>0 DEF TestFirst, graphVars, taskVars, queueVars, localVars, historyVars
<1>2. TypeOK /\ Control /\ Requests /\ OnePlace
  BY DEF MpiInv
<1>3. f \in BOOLEAN
  BY <1>0 DEF Complete
<1>4. /\ mt'.cur = mt.cur /\ mt'.flag1 = f
      /\ mt' \in [cur : MtestTask \cup {NoTest}, old : MtestTask \cup {NoTest}, flag1 : BOOLEAN]
  <2>1. mt \in [cur : MtestTask \cup {NoTest}, old : MtestTask \cup {NoTest}, flag1 : BOOLEAN]
    BY <1>2 DEF TypeOK
  <2> QED BY <1>1, <1>3, <2>1
<1>5. "test2" \in MpiLabel \ {"check", "run", "requeue", "dec", "fin"}
      /\ pc[Mpi] \notin {"check", "run", "requeue", "dec", "fin"}
      /\ mt'.cur # NoTest
  BY <1>1, <1>2, <1>4 DEF MpiLabel, Control
<1>6. /\ SamePhase
      /\ \A x \in Thread : Hand(x)' = Hand(x)
      /\ \A t : IsReady(t)' <=> IsReady(t)
      /\ mpiq' \in Seq(Task) /\ polling' \in Seq(MtestTask)
           /\ mt' \in [cur : MtestTask \cup {NoTest}, old : MtestTask \cup {NoTest},
                       flag1 : BOOLEAN]
           => TypeOK'
      /\ Control' /\ Rounds' /\ Bodies' /\ Counts' /\ Stored' /\ Alive'
      /\ Executing \/ Stays => Quiet'
      /\ Covered' => Suspension'
  BY <1>1, <1>5, PollFrame
<1>7. Stays
  <2>1. \A p \in Place : In(p)' = In(p)
    <3>1. ASSUME NEW x \in Thread
          PROVE  In(<<"hand", x>>)' = In(<<"hand", x>>) /\ In(<<"stack", x>>)' = In(<<"stack", x>>)
      BY <1>1, <1>6, PlaceParts, PlacePartsNext
    <3>2. /\ In(<<"mpiq", Mpi>>)' = In(<<"mpiq", Mpi>>)
          /\ In(<<"polling", Mpi>>)' = In(<<"polling", Mpi>>)
          /\ In(<<"test", Mpi>>)' = In(<<"test", Mpi>>)
      BY <1>1, <1>4 DEF In, TaskOf
    <3>3. ASSUME NEW p \in Place PROVE In(p)' = In(p)
      <4>1. ASSUME NEW x \in Thread, p = <<"hand", x>> \/ p = <<"stack", x>>
            PROVE  In(p)' = In(p)
        BY <3>1, <4>1
      <4>2. CASE p \in {<<"mpiq", Mpi>>, <<"polling", Mpi>>, <<"test", Mpi>>}
        BY <3>2, <4>2
      <4> QED BY <4>1, <4>2, PlaceParts
    <3> QED BY <3>3
  <2> QED BY <2>1 DEF Stays
<1>8. Places' /\ Disjoint' /\ Covered'
  BY <1>1, <1>6, <1>7, Stay
<1>9. OnePlace'
  BY <1>1, <1>8, QueuesKept
<1>10. TypeOK'
  BY <1>1, <1>2, <1>4, <1>6 DEF TypeOK
<1>11. Requests'
  <2>1. pc'[Mpi] = "test2"
    BY <1>1, <1>2, MpiAssumption DEF Goto, TypeOK
  <2>2. ASSUME NEW r \in pending
        PROVE  \/ Waits(polling, r)
               \/ r \in mt.cur.comm /\ r[1] = mt.cur.task /\ ~(r[2] = 1 /\ f)
    BY <1>0, <1>1, <1>2, RequestsParts DEF Complete
  <2> QED BY <1>1, <1>4, <2>1, <2>2, RequestsPartsNext
<1> QED BY <1>6, <1>7, <1>8, <1>9, <1>10, <1>11 DEF MpiInv

LEMMA PopMpiStep ==
  ASSUME MpiInv, PopMpi
  PROVE  MpiInv'
<1>1. /\ pc[Mpi] = "pop"
      /\ UNCHANGED <<graph, stored, round, ref, backup, freed, suspend, stack, polling,
                     todo, last, nxt, begun, done, count, comm, mt, pending>>
  BY DEF PopMpi, graphVars, taskVars, historyVars
<1>2. TypeOK /\ Control /\ Rounds /\ Suspension /\ OnePlace /\ Requests
  BY DEF MpiInv
<1>3. CASE mpiq = <<>>
  <2>1. Goto(Mpi, "poll") /\ UNCHANGED <<mpiq, cur>>
    BY <1>3 DEF PopMpi
  <2>2. "poll" \in MpiLabel \ {"check", "run", "requeue", "dec", "fin"}
        /\ pc[Mpi] \notin {"check", "run", "requeue", "dec", "fin"}
        /\ mt'.cur = NoTest
    BY <1>1, <1>2 DEF MpiLabel, Control
  <2>3. /\ SamePhase
        /\ \A x \in Thread : Hand(x)' = Hand(x)
        /\ \A t : IsReady(t)' <=> IsReady(t)
        /\ mpiq' \in Seq(Task) /\ polling' \in Seq(MtestTask)
             /\ mt' \in [cur : MtestTask \cup {NoTest}, old : MtestTask \cup {NoTest},
                         flag1 : BOOLEAN]
             => TypeOK'
        /\ Control' /\ Rounds' /\ Bodies' /\ Counts' /\ Stored' /\ Alive'
        /\ Executing \/ Stays => Quiet'
        /\ Covered' => Suspension'
    BY <1>1, <2>1, <2>2, PollFrame
  <2>4. Stays
    BY <1>1, <2>1, <2>3, StaysByParts
  <2>5. Places' /\ Disjoint' /\ Covered'
    BY <1>1, <2>3, <2>4, Stay
  <2>6. OnePlace'
    BY <1>1, <2>1, <2>5, QueuesKept
  <2>7. TypeOK'
    BY <1>1, <1>2, <2>1, <2>3 DEF TypeOK
  <2>8. pc'[Mpi] = "poll"
    BY <1>2, <2>1, MpiAssumption DEF Goto, TypeOK
  <2>9. Requests'
    BY <1>1, <2>1, <2>8, RequestsKept
  <2> QED BY <2>3, <2>4, <2>5, <2>6, <2>7, <2>9 DEF MpiInv
<1>4. CASE mpiq # <<>>
  <2>0. PICK c : c = Head(mpiq)
    OBVIOUS
  <2>1. /\ cur' = [cur EXCEPT ![Mpi] = c] /\ mpiq' = Tail(mpiq) /\ Goto(Mpi, "check")
    BY <1>4, <2>0 DEF PopMpi
  <2>2. /\ c \in Task /\ mpiq' \in Seq(Task)
        /\ ToSet(mpiq) = ToSet(mpiq') \cup {c}
        /\ c \notin ToSet(mpiq') /\ IsInjective(mpiq')
    <3>1. mpiq \in Seq(Task) /\ IsInjective(mpiq)
      BY <1>2 DEF TypeOK, OnePlace
    <3> QED BY <1>4, <2>0, <2>1, <3>1, TailFacts
  <2>3. /\ Mpi \in Thread /\ Main \in Thread /\ Mpi # Main
        /\ SamePhase
        /\ pc' \in [Thread -> MainLabel \cup MpiLabel]
        /\ pc'[Mpi] = "check"
        /\ \A x \in Thread \ {Mpi} : pc'[x] = pc[x]
        /\ pc'[Main] \in MainLabel /\ pc'[Mpi] \in MpiLabel
        /\ \A w \in Thread \ {Main, Mpi} : pc'[w] \in WorkerLabel
    BY <2>1, MpiLoopFacts DEF MpiLabel, WorkerLabel
  <2>4. /\ cur' \in [Thread -> Task \cup {NoTask}] /\ cur'[Mpi] = c
        /\ \A x \in Thread \ {Mpi} : cur'[x] = cur[x]
    BY <1>2, <2>1, <2>2, <2>3 DEF TypeOK
  <2>5. c \in In(<<"mpiq", Mpi>>) /\ <<"mpiq", Mpi>> \in Place
    BY <2>2, PlaceParts
  <2>6. /\ Executing /\ IsReady(c) /\ c # NoTask
        /\ \A x \in Thread : c \notin Hand(x) /\ c \notin ToSet(stack[x])
    BY <2>5, Somewhere
  <2>7. \A x \in Thread : Owes(x)' = Owes(x) /\ (Owes(x) # {} => cur'[x] = cur[x])
    BY <1>1, <2>3, <2>4 DEF Owes
  <2>8. /\ \A t : IsReady(t)' <=> IsReady(t)
        /\ Bodies' /\ Counts' /\ Stored'
    BY <1>1, <2>3, <2>7, ExecFrame
  <2>9. \A x \in Thread : Hand(x)' = IF x = Mpi THEN Hand(x) \cup {c} ELSE Hand(x) \ {c}
    <3>1. nxt[Mpi] = NoTask
      BY <1>1, <1>2, <2>3 DEF Control
    <3>2. Hand(Mpi) = {} /\ Hand(Mpi)' = {c}
      BY <1>1, <2>3, <2>4, <2>6, <3>1 DEF Hand
    <3>3. \A x \in Thread \ {Mpi} : Hand(x)' = Hand(x)
      BY <1>1, <2>3, <2>4 DEF Hand
    <3> QED BY <2>6, <3>2, <3>3
  <2>10. Moves(c, <<"hand", Mpi>>) /\ <<"hand", Mpi>> \in Place
    <3>1. In(<<"polling", Mpi>>)' = In(<<"polling", Mpi>>) \ {c}
          /\ In(<<"test", Mpi>>)' = In(<<"test", Mpi>>) \ {c}
      <4>1. c \notin ToSet(TaskOf(polling)) /\ c # mt.cur.task
        BY <2>5, Somewhere
      <4> QED BY <1>1, <4>1 DEF In, TaskOf
    <3>2. \A x \in Thread : ToSet(stack'[x]) = ToSet(stack[x]) \ {c}
      BY <1>1, <2>6
    <3>3. ToSet(mpiq') = ToSet(mpiq) \ {c}
      BY <2>2
    <3> QED BY <2>3, <2>9, <3>1, <3>2, <3>3, MovesToHand, PlaceParts
  <2>11. Places' /\ Disjoint' /\ Covered'
    BY <1>1, <2>6, <2>8, <2>10, Move
  <2>12. OnePlace'
    BY <1>1, <1>2, <2>2, <2>11 DEF OnePlace, Disjoint, TaskOf
  <2>13. TypeOK'
    BY <1>1, <1>2, <2>2, <2>3, <2>4 DEF TypeOK
  <2>14. Control'
    <3>1. Live' <=> Live
      BY <2>3, Phase
    <3>2. \A x \in Thread :
         /\ todo'[x] # {} => pc'[x] \in {"spawn", "dec"}
         /\ last'[x] # NoTask => pc'[x] = "dec"
         /\ nxt'[x] # NoTask => pc'[x] = "fin"
         /\ pc'[x] \in {"run", "requeue", "dec", "fin"} => cur'[x] # NoTask
         /\ pc'[x] \notin {"check", "run", "requeue", "dec", "fin"} => cur'[x] = NoTask
         /\ pc'[x] = "run" /\ x # Mpi => cur'[x] \notin Blocking
      BY <1>1, <1>2, <2>3, <2>4 DEF Control
    <3> QED BY <1>1, <1>2, <2>3, <3>1, <3>2 DEF Control
  <2>15. Rounds'
    BY <1>1, <1>2, <2>3, Phase DEF Rounds
  <2>16. Quiet'
    BY <2>3, <2>6, Phase DEF Quiet
  <2>17. Suspension'
    BY <1>1, <1>2, <2>3, <2>4, <2>11 DEF Suspension, Covered
  <2>18. Alive'
    BY <1>1, <2>3, <2>4, AliveKept
  <2>19. Requests'
    BY <1>1, <2>3, RequestsKept
  <2> QED BY <2>8, <2>11, <2>12, <2>13, <2>14, <2>15, <2>16, <2>17, <2>18, <2>19 DEF MpiInv
<1> QED BY <1>3, <1>4

LEMMA CompleteRequestStep ==
  ASSUME MpiInv, NEW r, CompleteRequest(r)
  PROVE  MpiInv'
<1>1. /\ pending' = pending \ {r}
      /\ UNCHANGED <<graph, stored, round, ref, backup, freed, suspend, stack, mpiq, polling,
                     cur, todo, last, nxt, begun, done, count, comm, mt, pc>>
  BY DEF CompleteRequest, graphVars, taskVars, queueVars, localVars, historyVars
<1>2. TypeOK /\ Control /\ Rounds /\ Quiet /\ Suspension /\ Requests
  BY DEF MpiInv
<1>3. SamePhase
  BY <1>1 DEF SamePhase
<1>4. \A x \in Thread : Owes(x)' = Owes(x) /\ Hand(x)' = Hand(x)
  BY <1>1 DEF Owes, Hand
<1>5. /\ \A t : IsReady(t)' <=> IsReady(t)
      /\ Bodies' /\ Counts' /\ Stored'
  BY <1>1, <1>3, <1>4, ExecFrame
<1>6. Stays
  BY <1>1, <1>4, StaysByParts
<1>7. Places' /\ Disjoint' /\ Covered'
  BY <1>1, <1>5, <1>6, Stay
<1>8. OnePlace'
  BY <1>1, <1>7, QueuesKept
<1>9. TypeOK' /\ Control' /\ Rounds'
  BY <1>1, <1>2 DEF TypeOK, Control, Rounds, Live
<1>10. Quiet'
  BY <1>2, <1>3, <1>4, <1>6, Phase DEF Quiet, Stays
<1>11. Suspension'
  BY <1>1, <1>2, <1>7 DEF Suspension, Covered
<1>12. Alive'
  BY <1>1, <1>3, AliveKept
<1>13. Requests'
  BY <1>1, <1>2 DEF Requests
<1> QED BY <1>5, <1>7, <1>8, <1>9, <1>10, <1>11, <1>12, <1>13 DEF MpiInv

\* The polling queue after the second test, and the mtest_task in hand.
LEMMA TestSecondStep ==
  ASSUME MpiInv, TestSecond
  PROVE  MpiInv'
<1> DEFINE P == ToSet(TaskOf(polling))
           M == ToSet(mpiq)
<1>0. PICK m, ready, queue, old, ends :
        /\ m = mt.cur
        /\ ready = Both(mt.flag1, Complete(mt.cur.comm, 2))
        /\ queue = IF ready THEN polling ELSE Append(polling, mt.cur)
        /\ old = IF ~ready /\ mt.old = NoTest THEN mt.cur ELSE mt.old
        /\ ends = (queue = <<>> \/ Head(queue) = old)
  OBVIOUS
<1>1. /\ pc[Mpi] = "test2"
      /\ mpiq' = IF ready THEN Append(mpiq, m.task) ELSE mpiq
      /\ polling' = IF ends THEN PutBack(queue) ELSE Tail(queue)
      /\ mt' = IF ends THEN [mt EXCEPT !.cur = NoTest, !.old = NoTest]
               ELSE [mt EXCEPT !.cur = Head(queue), !.old = old]
      /\ Goto(Mpi, IF ends THEN "pop" ELSE "test1")
      /\ UNCHANGED <<graph, stored, round, ref, backup, freed, suspend, stack,
                     cur, todo, last, nxt, begun, done, count, comm, pending>>
  BY <1>0 DEF TestSecond, graphVars, taskVars, localVars, historyVars
<1>2. TypeOK /\ Control /\ OnePlace /\ Requests
  BY DEF MpiInv
<1>3. /\ ready \in BOOLEAN /\ ends \in BOOLEAN
      /\ ready => mt.flag1 /\ Complete(m.comm, 2)
      /\ ends => queue = <<>> \/ Head(queue) = old
      /\ ~ends => queue # <<>>
  BY <1>0 DEF Both, Complete
<1>4. /\ m \in MtestTask /\ m # NoTest /\ m.task \in Task /\ m.task # NoTask
      /\ old \in MtestTask \cup {NoTest}
      /\ mt \in [cur : MtestTask \cup {NoTest}, old : MtestTask \cup {NoTest}, flag1 : BOOLEAN]
  <2>1. m # NoTest
    BY <1>0, <1>1, <1>2 DEF Control
  <2>2. mt \in [cur : MtestTask \cup {NoTest}, old : MtestTask \cup {NoTest}, flag1 : BOOLEAN]
    BY <1>2 DEF TypeOK
  <2>3. m \in MtestTask /\ m.task \in Task /\ m.task # NoTask
    BY <1>0, <2>1, MtFacts
  <2> QED BY <1>0, <2>1, <2>2, <2>3, MtFacts
<1>5. m.task \in In(<<"test", Mpi>>) /\ <<"test", Mpi>> \in Place
  BY <1>0, <1>4, PlaceParts
<1>6. /\ Executing
      /\ \A x \in Thread : m.task \notin Hand(x) /\ m.task \notin ToSet(stack[x])
      /\ m.task \notin M /\ m.task \notin P
  BY <1>5, Somewhere
<1>7. /\ polling \in Seq(MtestTask) /\ TaskOf(polling) \in Seq(Task) /\ mpiq \in Seq(Task)
      /\ IsInjective(TaskOf(polling)) /\ IsInjective(mpiq)
  <2>1. polling \in Seq(MtestTask) /\ mpiq \in Seq(Task)
    BY <1>2 DEF TypeOK
  <2> QED BY <1>2, <2>1, TaskOfFacts DEF OnePlace
\* What is left after the test, all but the next mtest_task in hand.
<1>8. /\ queue \in Seq(MtestTask) /\ TaskOf(queue) \in Seq(Task) /\ IsInjective(TaskOf(queue))
      /\ ToSet(TaskOf(queue)) = IF ready THEN P ELSE P \cup {m.task}
  <2>1. CASE ready
    <3>1. queue = polling
      BY <1>0, <2>1
    <3> QED BY <1>7, <2>1, <3>1
  <2>2. CASE ~ready
    <3>1. queue = Append(polling, m)
      BY <1>0, <2>2
    <3>2. queue \in Seq(MtestTask) /\ TaskOf(queue) = Append(TaskOf(polling), m.task)
      BY <1>4, <1>7, <3>1, TaskOfFacts
    <3>3. /\ TaskOf(queue) \in Seq(Task) /\ IsInjective(TaskOf(queue))
          /\ ToSet(TaskOf(queue)) = P \cup {m.task}
      BY <1>4, <1>6, <1>7, <3>2, AppendFacts
    <3> QED BY <2>2, <3>2, <3>3
  <2> QED BY <2>1, <2>2
<1>9. /\ mpiq' \in Seq(Task) /\ IsInjective(mpiq')
      /\ ToSet(mpiq') = IF ready THEN M \cup {m.task} ELSE M
  <2>1. CASE ready
    <3>1. mpiq' = Append(mpiq, m.task)
      BY <1>1, <2>1
    <3>2. mpiq' \in Seq(Task) /\ IsInjective(mpiq') /\ ToSet(mpiq') = M \cup {m.task}
      BY <1>4, <1>6, <1>7, <3>1, AppendFacts
    <3> QED BY <2>1, <3>2
  <2>2. CASE ~ready
    BY <1>1, <1>7, <2>2
  <2> QED BY <2>1, <2>2
<1>10. queue # <<>> =>
         /\ Head(queue) \in MtestTask /\ Tail(queue) \in Seq(MtestTask)
         /\ TaskOf(Tail(queue)) \in Seq(Task) /\ IsInjective(TaskOf(Tail(queue)))
         /\ Head(queue).task \in Task /\ Head(queue).task # NoTask /\ Head(queue) # NoTest
         /\ ToSet(TaskOf(queue)) = ToSet(TaskOf(Tail(queue))) \cup {Head(queue).task}
         /\ Head(queue).task \notin ToSet(TaskOf(Tail(queue)))
  <2>1. SUFFICES ASSUME queue # <<>>
                 PROVE  /\ Head(queue) \in MtestTask /\ Tail(queue) \in Seq(MtestTask)
                        /\ TaskOf(Tail(queue)) \in Seq(Task) /\ IsInjective(TaskOf(Tail(queue)))
                        /\ Head(queue).task \in Task /\ Head(queue).task # NoTask
                        /\ Head(queue) # NoTest
                        /\ ToSet(TaskOf(queue)) = ToSet(TaskOf(Tail(queue))) \cup {Head(queue).task}
                        /\ Head(queue).task \notin ToSet(TaskOf(Tail(queue)))
    OBVIOUS
  <2>2. Head(queue) \in MtestTask /\ Tail(queue) \in Seq(MtestTask)
    BY <1>8, <2>1, TailFacts
  <2>3. /\ TaskOf(queue) # <<>> /\ Head(TaskOf(queue)) = Head(queue).task
        /\ TaskOf(Tail(queue)) = Tail(TaskOf(queue))
    BY <1>8, <2>1, TaskOfFacts
  <2>4. /\ Tail(TaskOf(queue)) \in Seq(Task) /\ IsInjective(Tail(TaskOf(queue)))
        /\ ToSet(TaskOf(queue)) = ToSet(Tail(TaskOf(queue))) \cup {Head(TaskOf(queue))}
        /\ Head(TaskOf(queue)) \notin ToSet(Tail(TaskOf(queue)))
    BY <1>8, <2>3, TailFacts
  <2> QED BY <2>2, <2>3, <2>4, MtFacts
<1>11. /\ polling' \in Seq(MtestTask) /\ IsInjective(TaskOf(polling'))
       /\ ToSet(TaskOf(polling')) \cup ({mt'.cur.task} \ {NoTask}) = ToSet(TaskOf(queue))
       /\ mt'.cur.task \notin ToSet(TaskOf(polling'))
       /\ \A r : Waits(queue, r) =>
            Waits(polling', r) \/ (~ends /\ r \in mt'.cur.comm /\ r[1] = mt'.cur.task)
       /\ mt' \in [cur : MtestTask \cup {NoTest}, old : MtestTask \cup {NoTest}, flag1 : BOOLEAN]
       /\ mt'.cur = NoTest <=> ends
  <2>1. CASE ends
    <3>1. /\ mt'.cur = NoTest /\ mt'.cur.task = NoTask
          /\ mt' \in [cur : MtestTask \cup {NoTest}, old : MtestTask \cup {NoTest},
                      flag1 : BOOLEAN]
      <4>1. mt' = [mt EXCEPT !.cur = NoTest, !.old = NoTest]
        BY <1>1, <2>1
      <4>2. mt'.cur = NoTest
        BY <1>4, <4>1
      <4> QED BY <1>4, <4>1, <4>2 DEF NoTest
    <3>2. /\ polling' \in Seq(MtestTask) /\ IsInjective(TaskOf(polling'))
          /\ ToSet(TaskOf(polling')) = ToSet(TaskOf(queue))
          /\ \A r : Waits(queue, r) => Waits(polling', r)
      <4>1. CASE queue = <<>>
        <5>1. polling' = queue
          BY <1>1, <2>1, <4>1 DEF PutBack
        <5> QED BY <1>8, <5>1
      <4>2. CASE queue # <<>>
        <5>1. polling' = Append(Tail(queue), Head(queue))
          BY <1>1, <2>1, <4>2 DEF PutBack
        <5>2. /\ polling' \in Seq(MtestTask)
              /\ TaskOf(polling') = Append(TaskOf(Tail(queue)), Head(queue).task)
          <6>1. PICK tl \in Seq(MtestTask), h \in MtestTask : tl = Tail(queue) /\ h = Head(queue)
            BY <1>10, <4>2
          <6>2. Append(tl, h) \in Seq(MtestTask) /\ TaskOf(Append(tl, h)) = Append(TaskOf(tl), h.task)
            BY TaskOfFacts
          <6>3. polling' = Append(tl, h)
            BY <5>1, <6>1
          <6>4. TaskOf(polling') = TaskOf(Append(tl, h))
            BY <6>3
          <6> QED BY <6>1, <6>2, <6>3, <6>4
        <5>3. /\ IsInjective(TaskOf(polling'))
              /\ ToSet(TaskOf(polling')) = ToSet(TaskOf(Tail(queue))) \cup {Head(queue).task}
          BY <1>10, <4>2, <5>2, AppendFacts
        <5>4. ASSUME NEW r, Waits(queue, r) PROVE Waits(polling', r)
          <6>1. Waits(Tail(queue), r) \/ (r \in Head(queue).comm /\ r[1] = Head(queue).task)
            BY <1>8, <4>2, <5>4, WaitsFacts
          <6> QED BY <1>10, <4>2, <5>1, <6>1, WaitsFacts
        <5> QED BY <1>10, <4>2, <5>2, <5>3, <5>4
      <4> QED BY <4>1, <4>2
    <3>3. NoTask \notin ToSet(TaskOf(polling'))
      <4>1. TaskOf(queue) \in Seq(Task)
        BY <1>8
      <4>2. \A i \in DOMAIN TaskOf(queue) : TaskOf(queue)[i] # NoTask
        BY <4>1, MpiAssumption
      <4> QED BY <3>2, <4>2 DEF ToSet
    <3> QED BY <2>1, <3>1, <3>2, <3>3
  <2>2. CASE ~ends
    <3>1. queue # <<>> /\ polling' = Tail(queue)
          /\ mt' = [mt EXCEPT !.cur = Head(queue), !.old = old]
      BY <1>1, <1>3, <2>2
    <3>2. /\ mt'.cur = Head(queue)
          /\ mt' \in [cur : MtestTask \cup {NoTest}, old : MtestTask \cup {NoTest},
                      flag1 : BOOLEAN]
      BY <1>4, <1>10, <3>1
    <3>3. \A r : Waits(queue, r) =>
            Waits(Tail(queue), r) \/ (r \in Head(queue).comm /\ r[1] = Head(queue).task)
      BY <1>8, <3>1, WaitsFacts
    <3> QED BY <1>10, <2>2, <3>1, <3>2, <3>3
  <2> QED BY <1>3, <2>1, <2>2
<1>12. PICK l : l = (IF ends THEN "pop" ELSE "test1")
  OBVIOUS
<1>13. /\ l \in MpiLabel \ {"check", "run", "requeue", "dec", "fin"}
       /\ pc[Mpi] \notin {"check", "run", "requeue", "dec", "fin"}
       /\ mt'.cur = NoTest <=> l \notin {"test1", "test2"}
  BY <1>1, <1>11, <1>12 DEF MpiLabel
<1>14. /\ SamePhase
       /\ \A x \in Thread : Hand(x)' = Hand(x)
       /\ \A t : IsReady(t)' <=> IsReady(t)
       /\ mpiq' \in Seq(Task) /\ polling' \in Seq(MtestTask)
            /\ mt' \in [cur : MtestTask \cup {NoTest}, old : MtestTask \cup {NoTest},
                        flag1 : BOOLEAN]
            => TypeOK'
       /\ Control' /\ Rounds' /\ Bodies' /\ Counts' /\ Stored' /\ Alive'
       /\ Executing \/ Stays => Quiet'
       /\ Covered' => Suspension'
  BY <1>1, <1>12, <1>13, PollFrame
\* The three places of the extra thread, before and after.
<1> DEFINE T == {m.task}
           X == {<<"mpiq", Mpi>>, <<"polling", Mpi>>, <<"test", Mpi>>}
<1>15. /\ In(<<"mpiq", Mpi>>) = M /\ In(<<"polling", Mpi>>) = P /\ In(<<"test", Mpi>>) = T
       /\ In(<<"mpiq", Mpi>>)' \cup In(<<"polling", Mpi>>)' \cup In(<<"test", Mpi>>)'
            = M \cup P \cup T
       /\ In(<<"mpiq", Mpi>>)' \cap In(<<"polling", Mpi>>)' = {}
       /\ In(<<"mpiq", Mpi>>)' \cap In(<<"test", Mpi>>)' = {}
       /\ In(<<"polling", Mpi>>)' \cap In(<<"test", Mpi>>)' = {}
  <2>1. /\ In(<<"mpiq", Mpi>>) = M /\ In(<<"polling", Mpi>>) = P
        /\ In(<<"test", Mpi>>) = {m.task} \ {NoTask}
    BY <1>0, PlaceParts
  <2>2. In(<<"test", Mpi>>) = T
    BY <1>4, <2>1
  <2>3. /\ In(<<"mpiq", Mpi>>)' = ToSet(mpiq')
        /\ In(<<"polling", Mpi>>)' = ToSet(TaskOf(polling'))
        /\ In(<<"test", Mpi>>)' = {mt'.cur.task} \ {NoTask}
    BY PlacePartsNext
  <2>4. M \cap P = {} /\ m.task \notin M /\ m.task \notin P
    <3>1. M \cap P = {}
      <4>1. <<"mpiq", Mpi>> \in Place /\ <<"polling", Mpi>> \in Place
            /\ <<"mpiq", Mpi>> # <<"polling", Mpi>>
        BY PlaceParts
      <4> QED BY <1>2, <2>1, <4>1 DEF OnePlace
    <3> QED BY <1>6, <3>1
  <2> DEFINE Q == ToSet(TaskOf(queue))
             M2 == ToSet(mpiq')
             P2 == ToSet(TaskOf(polling'))
             T2 == {mt'.cur.task} \ {NoTask}
  <2>5. /\ Q = IF ready THEN P ELSE P \cup {m.task}
        /\ M2 = IF ready THEN M \cup {m.task} ELSE M
        /\ P2 \cup T2 = Q /\ P2 \cap T2 = {}
    BY <1>8, <1>9, <1>11
  <2> HIDE DEF P, M, Q, M2, P2, T2
  <2>6. M2 \cup Q = M \cup P \cup {m.task} /\ M2 \cap Q = {}
    BY <1>3, <2>4, <2>5
  <2>7. M2 \cup P2 \cup T2 = M \cup P \cup {m.task} /\ M2 \cap P2 = {} /\ M2 \cap T2 = {}
    BY <2>5, <2>6
  <2> QED BY <2>1, <2>2, <2>3, <2>5, <2>7 DEF M2, P2, T2, P, M
<1>16. \A p \in Place : p \notin X => In(p)' = In(p)
  <2>1. ASSUME NEW x \in Thread, NEW p, p = <<"hand", x>> \/ p = <<"stack", x>>
        PROVE  In(p)' = In(p)
    BY <1>1, <1>14, <2>1, PlaceParts, PlacePartsNext
  <2> QED BY <2>1, PlaceParts
<1> HIDE DEF P, M, T
<1>17. \A q \in X : q \in Place
  BY PlaceParts
<1>18. ASSUME NEW q \in X, NEW u, u \in In(q)' PROVE \E p \in X : u \in In(p)
  <2>1. u \in M \cup P \cup T
    BY <1>15, <1>18
  <2> QED BY <1>15, <2>1
<1>19. ASSUME NEW q \in X, NEW u, u \in In(q) PROVE \E p \in X : u \in In(p)'
  <2>1. u \in M \cup P \cup T
    BY <1>15, <1>19
  <2>2. u \in In(<<"mpiq", Mpi>>)' \cup In(<<"polling", Mpi>>)' \cup In(<<"test", Mpi>>)'
    BY <1>15, <2>1
  <2> QED BY <2>2
<1>20. \A p, q \in X : p # q => In(p)' \cap In(q)' = {}
  BY <1>15
<1> HIDE DEF X
<1>21. Places'
  <2>1. Places
    BY DEF MpiInv
  <2>2. ASSUME NEW p \in Place, NEW u, u \in In(p)' PROVE IsReady(u)
    <3>1. \E q \in Place : u \in In(q)
      BY <1>16, <1>17, <1>18, <2>2
    <3> QED BY <2>1, <3>1 DEF Places
  <2> QED BY <1>14, <2>2 DEF Places
<1>22. Disjoint'
  <2>1. \A p, q \in Place : p # q => In(p) \cap In(q) = {}
    BY <1>2 DEF OnePlace
  <2>2. ASSUME NEW p \in Place, NEW q \in Place, p # q, NEW u, u \in In(p)', u \in In(q)'
        PROVE  FALSE
    <3>1. CASE p \in X /\ q \in X
      BY <1>20, <2>2, <3>1
    <3>2. CASE p \notin X /\ q \in X
      BY <1>16, <1>17, <1>18, <2>1, <2>2, <3>2
    <3>3. CASE p \in X /\ q \notin X
      BY <1>16, <1>17, <1>18, <2>1, <2>2, <3>3
    <3>4. CASE p \notin X /\ q \notin X
      BY <1>16, <2>1, <2>2, <3>4
    <3> QED BY <3>1, <3>2, <3>3, <3>4
  <2> QED BY <2>2 DEF Disjoint
<1>23. Covered'
  <2>1. ASSUME NEW u \in begun \ done PROVE \E p \in Place : u \in In(p)'
    <3>1. PICK p \in Place : u \in In(p)
      BY DEF MpiInv, Suspension
    <3>2. CASE p \in X
      BY <1>17, <1>19, <3>1, <3>2
    <3>3. CASE p \notin X
      BY <1>16, <3>1, <3>3
    <3> QED BY <3>2, <3>3
  <2> QED BY <1>1, <2>1 DEF Covered
<1>24. OnePlace'
  BY <1>1, <1>2, <1>9, <1>11, <1>22 DEF OnePlace, Disjoint, TaskOf
<1>25. TypeOK'
  BY <1>9, <1>11, <1>14
<1>26. Requests'
  <2>1. pc'[Mpi] = l /\ l # "test2"
    BY <1>1, <1>2, <1>12, MpiAssumption DEF Goto, TypeOK
  <2>2. ASSUME NEW r \in pending PROVE Waits(queue, r)
    <3>1. \/ Waits(polling, r)
          \/ r \in m.comm /\ r[1] = m.task /\ ~(r[2] = 1 /\ mt.flag1)
      BY <1>0, <1>1, <1>2, RequestsParts
    <3>2. CASE ready
      <4>1. r[2] \in {1, 2}
        BY MtFacts
      <4>2. ~(r \in m.comm /\ ~(r[2] = 1 /\ mt.flag1))
        BY <1>3, <3>2, <4>1 DEF Complete
      <4> QED BY <1>0, <3>1, <3>2, <4>2
    <3>3. CASE ~ready
      <4>1. queue = Append(polling, m)
        BY <1>0, <3>3
      <4> QED BY <1>4, <1>7, <3>1, <4>1, WaitsFacts
    <3> QED BY <1>3, <3>2, <3>3
  <2>3. ASSUME NEW r \in pending
        PROVE  Waits(polling', r) \/ (r \in mt'.cur.comm /\ r[1] = mt'.cur.task)
    BY <1>11, <2>2, <2>3
  <2> QED BY <1>1, <2>1, <2>3, RequestsPartsNext
<1> QED BY <1>6, <1>14, <1>21, <1>22, <1>23, <1>24, <1>25, <1>26 DEF MpiInv

-----------------------------------------------------------------------------
(***************************************************************************)
(* The main thread outside the wait loop.                                  *)
(***************************************************************************)

\* Outside the loop, no thread is executing a task or has one in hand.
LEMMA QuietFacts ==
  ASSUME MpiInv, ~Executing
  PROVE  /\ \A x \in Thread : /\ Hand(x) = {} /\ Owes(x) = {} /\ nxt[x] = NoTask
                              /\ pc[x] \notin {"run", "requeue", "spawn"}
                              /\ pc[x] = "check" => cur[x] = NoTask
                              /\ stack[x] = <<>> \/ ToSet(stack[x]) = {}
         /\ \A p \in Place : In(p) = {}
         /\ cur[Main] = NoTask
<1>1. TypeOK /\ Control /\ Main \in Thread /\ Mpi \in Thread
  BY MpiAssumption DEF MpiInv
<1>2. (\A p \in Place : In(p) = {}) /\ \A x \in Thread : Owes(x) = {}
  BY DEF MpiInv, Quiet
<1>3. \A x \in Thread : Hand(x) = {} /\ ToSet(stack[x]) = {}
  BY <1>2, PlaceParts
<1>4. ASSUME NEW x \in Thread
      PROVE  /\ nxt[x] = NoTask
             /\ pc[x] \notin {"run", "requeue", "spawn"}
             /\ pc[x] = "check" => cur[x] = NoTask
  <2>1. nxt[x] = NoTask /\ (pc[x] \in {"check", "run", "requeue"} => cur[x] = NoTask)
    BY <1>3 DEF Hand
  <2>2. pc[x] = "spawn" => x = Main
    BY <1>1 DEF Control, MpiLabel, WorkerLabel
  <2>3. pc[Main] # "spawn"
    BY DEF Executing
  <2> QED BY <1>1, <2>1, <2>2, <2>3 DEF Control
<1>5. cur[Main] = NoTask
  BY <1>1 DEF Executing, Control
<1> QED BY <1>2, <1>3, <1>4, <1>5

\* The main thread moves between two points where no task is ready.
LEMMA QuietFrame ==
  ASSUME MpiInv, NEW l \in {"idle", "built"}, Goto(Main, l),
         \A p \in Place : In(p) = {}, \A x \in Thread : Owes(x) = {},
         pc[Main] \in {"idle", "built", "check"}, todo[Main] = {}, cur[Main] = NoTask,
         graph' \in Graphs \cup {NoTask}, stored' \in BOOLEAN, round' \in Nat,
         ref' \in [Task -> Int], backup' \in [Task -> Int], freed' \in SUBSET Task,
         begun' \in SUBSET Task, done' = begun', count' \in [Task -> Nat],
         \A x \in Thread : pc[x] \notin {"run", "requeue"} /\ nxt[x] = NoTask,
         \A x \in Thread : pc[x] = "check" => cur[x] = NoTask,
         Live' \/ stored' => graph' \in Graphs,
         UNCHANGED <<stack, mpiq, polling, cur, todo, last, nxt, suspend, comm, mt, pending>>
  PROVE  /\ pc'[Main] = l /\ ~Executing'
         /\ \A x \in Thread \ {Main} : pc'[x] = pc[x]
         /\ TypeOK' /\ Control' /\ Quiet' /\ Places' /\ OnePlace' /\ Suspension' /\ Bodies'
         /\ Requests'
<1>1. TypeOK /\ Control /\ Suspension /\ Main \in Thread /\ Mpi \in Thread /\ Mpi # Main
  BY MpiAssumption DEF MpiInv
<1>2. /\ pc' \in [Thread -> MainLabel \cup MpiLabel] /\ pc'[Main] = l
      /\ \A x \in Thread \ {Main} : pc'[x] = pc[x]
  BY <1>1 DEF TypeOK, Goto, MainLabel
<1>3. ~Executing'
  BY <1>2 DEF Executing
<1>4. \A x \in Thread : Owes(x)' = {} /\ Hand(x)' = Hand(x)
  BY <1>1, <1>2 DEF Owes, Hand
<1>5. Stays
  BY <1>4, StaysByParts
<1>6. \A p \in Place : In(p)' = {}
  BY <1>5 DEF Stays
<1>7. Quiet' /\ Places' /\ Disjoint'
  BY <1>4, <1>6 DEF Quiet, Places, Disjoint
<1>8. OnePlace'
  BY <1>7, QueuesKept
<1>9. TypeOK'
  BY <1>1, <1>2 DEF TypeOK
<1>10. Control'
  <2>1. pc'[Main] \in MainLabel /\ pc'[Mpi] \in MpiLabel
        /\ \A w \in Thread \ {Main, Mpi} : pc'[w] \in WorkerLabel
    BY <1>1, <1>2 DEF Control, MainLabel
  <2>2. \A x \in Thread :
       /\ todo'[x] # {} => pc'[x] \in {"spawn", "dec"}
       /\ last'[x] # NoTask => pc'[x] = "dec"
       /\ nxt'[x] # NoTask => pc'[x] = "fin"
       /\ pc'[x] \in {"run", "requeue", "dec", "fin"} => cur'[x] # NoTask
       /\ pc'[x] \notin {"check", "run", "requeue", "dec", "fin"} => cur'[x] = NoTask
       /\ pc'[x] = "run" /\ x # Mpi => cur'[x] \notin Blocking
    BY <1>1, <1>2 DEF Control
  <2>3. pc'[Mpi] = pc[Mpi]
    BY <1>1, <1>2
  <2> QED BY <1>1, <2>1, <2>2, <2>3 DEF Control
<1>11. Suspension'
  <2>1. \A x \in Thread : ToSet(stack'[x]) = {}
    BY <1>6, PlaceParts, PlacePartsNext
  <2>2. NoTask \notin begun'
    BY MpiAssumption
  <2>3. \A x \in Thread : pc'[x] \notin {"run", "requeue", "spawn"} /\ nxt'[x] = NoTask
                          /\ (pc'[x] = "check" => cur'[x] = NoTask)
    <3>1. \A x \in Thread \ {Main} : pc[x] # "spawn"
      BY <1>1 DEF Control, MpiLabel, WorkerLabel
    <3> QED BY <1>2, <3>1
  <2> QED BY <2>1, <2>2, <2>3 DEF Suspension
<1>12. Bodies'
  BY <1>4 DEF Bodies
<1>13. Requests'
  <2>1. pc'[Mpi] = pc[Mpi] /\ cur'[Mpi] = cur[Mpi]
    BY <1>1, <1>2
  <2> QED BY <2>1, RequestsKept
<1> QED BY <1>2, <1>3, <1>7, <1>8, <1>9, <1>10, <1>11, <1>12, <1>13

LEMMA BuildStep ==
  ASSUME MpiInv, NEW g \in Graphs, NEW store \in BOOLEAN, Build(g, store)
  PROVE  MpiInv'
<1>1. /\ pc[Main] = "idle" /\ ~stored /\ Goto(Main, "built")
      /\ \A th \in Thread : cur[th] \notin g.node
      /\ graph' = g /\ stored' = store /\ round' = round + 1
      /\ ref' = [t \in Task |-> IF t \in g.node THEN Indegree(g, t) ELSE 0]
      /\ backup' = [t \in Task |-> IF store /\ t \in g.node THEN Indegree(g, t) ELSE GarbageRef]
      /\ freed' = freed \ g.node
      /\ begun' = {} /\ done' = {} /\ count' = [t \in Task |-> 0]
      /\ UNCHANGED <<stack, mpiq, polling, cur, todo, last, nxt, suspend, comm, mt, pending>>
  BY DEF Build, queueVars, localVars
<1>2. TypeOK /\ Control /\ Main \in Thread
  BY MpiAssumption DEF MpiInv
<1>3. ~Executing
  BY <1>1 DEF Executing
<1>4. \A t \in g.node : Indegree(g, t) \in Nat /\ t \in Task
  BY PredsFinite, GraphFacts
<1>5. ref' \in [Task -> Int] /\ backup' \in [Task -> Int] /\ count' \in [Task -> Nat]
  BY <1>1, <1>4, MpiAssumption
<1>6. round' \in Nat /\ freed' \in SUBSET Task /\ begun' \in SUBSET Task /\ done' = begun'
  BY <1>1, <1>2 DEF TypeOK
<1>7. todo[Main] = {}
  BY <1>1, <1>2 DEF Control
<1>8. /\ pc'[Main] = "built" /\ ~Executing'
      /\ TypeOK' /\ Control' /\ Quiet' /\ Places' /\ OnePlace' /\ Suspension' /\ Bodies'
      /\ Requests'
  BY <1>1, <1>3, <1>5, <1>6, <1>7, QuietFacts, QuietFrame
<1>9. Rounds'
  BY <1>1, <1>8 DEF Rounds
<1>10. Counts' /\ Stored'
  BY <1>1, <1>4, <1>8 DEF Counts, Stored
<1>11. Alive'
  BY <1>1 DEF Alive
<1> QED BY <1>8, <1>9, <1>10, <1>11 DEF MpiInv

LEMMA ResumeStep ==
  ASSUME MpiInv, Resume
  PROVE  MpiInv'
<1>1. /\ pc[Main] = "idle" /\ stored /\ Goto(Main, "built")
      /\ round' = round + 1
      /\ begun' = {} /\ done' = {} /\ count' = [t \in Task |-> 0]
      /\ UNCHANGED <<graph, stored, ref, backup, freed, suspend, stack, mpiq, polling,
                     cur, todo, last, nxt, comm, mt, pending>>
  BY DEF Resume, taskVars, queueVars, localVars
<1>2. TypeOK /\ Control /\ Rounds /\ Stored /\ Alive /\ Main \in Thread
  BY MpiAssumption DEF MpiInv
<1>3. ~Executing /\ graph \in Graphs
  BY <1>1, <1>2 DEF Executing, Control
<1>4. round' \in Nat /\ begun' \in SUBSET Task /\ done' = begun' /\ count' \in [Task -> Nat]
  BY <1>1, <1>2 DEF TypeOK
<1>5. todo[Main] = {}
  BY <1>1, <1>2 DEF Control
<1>6. /\ graph' \in Graphs \cup {NoTask} /\ stored' \in BOOLEAN
      /\ ref' \in [Task -> Int] /\ backup' \in [Task -> Int] /\ freed' \in SUBSET Task
  BY <1>1, <1>2 DEF TypeOK
<1>7. /\ pc'[Main] = "built" /\ ~Executing'
      /\ TypeOK' /\ Control' /\ Quiet' /\ Places' /\ OnePlace' /\ Suspension' /\ Bodies'
      /\ Requests'
  BY <1>1, <1>3, <1>4, <1>5, <1>6, QuietFacts, QuietFrame
<1>8. Rounds'
  BY <1>1, <1>7 DEF Rounds
\* The references that the round before has used up are there again.
<1>9. \A t \in graph.node : ref[t] = Indegree(graph, t)
  <2>1. done = Work(graph) /\ graph.node = Work(graph) \cup {graph.end}
    BY <1>1, <1>2, <1>3, GraphFacts DEF Rounds
  <2>2. \A t \in graph.node : ref[t] = backup[t]
    BY <1>1, <1>2, <2>1 DEF Stored
  <2> QED BY <1>1, <1>2, <2>2 DEF Stored
<1>10. Counts' /\ Stored'
  BY <1>1, <1>2, <1>7, <1>9 DEF Counts, Stored
<1>11. Alive'
  BY <1>1, <1>2 DEF Alive
<1> QED BY <1>7, <1>8, <1>10, <1>11 DEF MpiInv

LEMMA LeaveStep ==
  ASSUME MpiInv, Leave
  PROVE  MpiInv'
<1>1. /\ pc[Main] = "check" /\ ref[graph.end] <= 1 /\ Goto(Main, "idle")
      /\ stored => ref' = [ref EXCEPT ![graph.end] = backup[graph.end]] /\ UNCHANGED freed
      /\ ~stored => freed' = freed \cup {graph.end} /\ UNCHANGED ref
      /\ UNCHANGED <<graph, stored, round, backup, suspend, stack, mpiq, polling,
                     cur, todo, last, nxt, begun, done, count, comm, mt, pending>>
  BY DEF Leave, graphVars, queueVars, localVars, historyVars
<1>2. TypeOK /\ Control /\ Rounds /\ Stored /\ Alive /\ Main \in Thread
  BY MpiAssumption DEF MpiInv
<1>3. Executing
  BY <1>1 DEF Executing
<1>4. /\ done = Work(graph) /\ begun = done
      /\ \A p \in Place : In(p) = {}
      /\ \A x \in Thread : Owes(x) = {}
  BY <1>1, <1>3, Termination
<1>5. graph \in Graphs /\ graph.end \in Task /\ graph.end \notin done
  BY <1>3, <1>4, Activity, GraphFacts
<1>6. \A x \in Thread : /\ pc[x] \notin {"run", "requeue"} /\ nxt[x] = NoTask
                        /\ pc[x] = "check" => cur[x] = NoTask
  <2>1. \A x \in Thread : Hand(x) = {}
    BY <1>4, PlaceParts
  <2>2. \A x \in Thread : nxt[x] = NoTask /\ (pc[x] \in {"check", "run", "requeue"} => cur[x] = NoTask)
    BY <2>1 DEF Hand
  <2> QED BY <1>2, <2>2 DEF Control
<1>7. todo[Main] = {} /\ cur[Main] = NoTask
  BY <1>1, <1>2, <1>6 DEF Control
<1>8. /\ ref' \in [Task -> Int] /\ freed' \in SUBSET Task
      /\ stored => ref'[graph.end] = backup[graph.end] /\ \A t \in done : ref'[t] = ref[t]
  <2>1. CASE stored
    <3>1. ref' = [ref EXCEPT ![graph.end] = backup[graph.end]] /\ freed' = freed
      BY <1>1, <2>1
    <3> QED BY <1>2, <1>5, <3>1 DEF TypeOK
  <2>2. CASE ~stored
    BY <1>1, <1>2, <1>5, <2>2 DEF TypeOK
  <2> QED BY <2>1, <2>2
<1>9. /\ graph' \in Graphs \cup {NoTask} /\ stored' \in BOOLEAN /\ round' \in Nat
      /\ backup' \in [Task -> Int] /\ begun' \in SUBSET Task /\ done' = begun'
      /\ count' \in [Task -> Nat] /\ (Live' \/ stored' => graph' \in Graphs)
  BY <1>1, <1>2, <1>4, <1>5 DEF TypeOK
<1>10. /\ pc'[Main] = "idle" /\ ~Executing'
       /\ TypeOK' /\ Control' /\ Quiet' /\ Places' /\ OnePlace' /\ Suspension' /\ Bodies'
       /\ Requests'
  BY <1>1, <1>4, <1>6, <1>7, <1>8, <1>9, QuietFrame
<1>11. Rounds'
  BY <1>1, <1>4, <1>10 DEF Rounds, Live
<1>12. Counts' /\ Stored'
  BY <1>1, <1>2, <1>8, <1>10 DEF Counts, Stored
<1>13. Alive'
  BY <1>1, <1>2, <1>10 DEF Alive, Live
<1> QED BY <1>10, <1>11, <1>12, <1>13 DEF MpiInv

LEMMA BeginSpawnStep ==
  ASSUME MpiInv, BeginSpawn
  PROVE  MpiInv'
<1>1. /\ pc[Main] = "built" /\ Goto(Main, "spawn")
      /\ ref' = [ref EXCEPT ![graph.end] = @ + 1]
      /\ todo' = [todo EXCEPT ![Main] = Roots(graph)]
      /\ UNCHANGED <<graph, stored, round, backup, freed, suspend, stack, mpiq, polling,
                     cur, last, nxt, begun, done, count, comm, mt, pending>>
  BY DEF BeginSpawn, graphVars, queueVars, historyVars
<1>2. TypeOK /\ Control /\ Rounds /\ Suspension /\ Counts /\ Stored /\ Alive
      /\ Main \in Thread /\ Mpi \in Thread /\ Mpi # Main
  BY MpiAssumption DEF MpiInv
<1>3. ~Executing /\ Live /\ graph \in Graphs /\ begun = {} /\ done = {}
  BY <1>1, <1>2 DEF Executing, Live, Control, Rounds
<1>4. /\ graph.end \in Task /\ graph.end \notin Work(graph) /\ graph.end \in graph.node
      /\ Work(graph) \subseteq graph.node /\ graph.node \subseteq Task
      /\ Roots(graph) \subseteq Work(graph) /\ NoTask \notin Roots(graph)
  BY <1>3, GraphFacts DEF Roots
<1>5. /\ \A x \in Thread : /\ Hand(x) = {} /\ Owes(x) = {} /\ nxt[x] = NoTask
                           /\ pc[x] \notin {"run", "requeue", "spawn"}
                           /\ pc[x] = "check" => cur[x] = NoTask
      /\ \A p \in Place : In(p) = {}
      /\ cur[Main] = NoTask
  BY <1>3, QuietFacts
<1>6. /\ pc' \in [Thread -> MainLabel \cup MpiLabel] /\ pc'[Main] = "spawn"
      /\ \A x \in Thread \ {Main} : pc'[x] = pc[x]
      /\ todo' \in [Thread -> SUBSET Task] /\ todo'[Main] = Roots(graph)
      /\ \A x \in Thread \ {Main} : todo'[x] = todo[x]
  BY <1>1, <1>2, <1>4 DEF TypeOK, Goto, MainLabel
<1>7. /\ ref' \in [Task -> Int] /\ ref'[graph.end] = ref[graph.end] + 1
      /\ \A t \in Task \ {graph.end} : ref'[t] = ref[t]
  BY <1>1, <1>2, <1>4 DEF TypeOK
<1>8. Executing' /\ Live' /\ pc'[Main] # "idle" /\ pc'[Main] # "built"
  BY <1>6 DEF Executing, Live
<1>9. \A x \in Thread : Owes(x)' = {}
  BY <1>1, <1>5, <1>6 DEF Owes
<1>10. \A t : Pending(t)' = Preds(graph, t)
  BY <1>1, <1>3 DEF Pending
<1>11. \A x \in Thread : Hand(x)' = IF x = Main THEN Roots(graph) ELSE {}
  <2>1. Hand(Main)' = Roots(graph)
    BY <1>1, <1>4, <1>5, <1>6 DEF Hand
  <2>2. \A x \in Thread \ {Main} : Hand(x)' = Hand(x)
    BY <1>1, <1>6 DEF Hand
  <2> QED BY <1>5, <2>1, <2>2
<1>12. \A p \in Place : In(p)' = IF p = <<"hand", Main>> THEN Roots(graph) ELSE {}
  <2>1. ASSUME NEW x \in Thread
        PROVE  /\ In(<<"hand", x>>)' = IF x = Main THEN Roots(graph) ELSE {}
               /\ In(<<"stack", x>>)' = {}
    BY <1>1, <1>5, <1>11, PlaceParts, PlacePartsNext
  <2>2. /\ In(<<"mpiq", Mpi>>)' = {}
        /\ In(<<"polling", Mpi>>)' = {}
        /\ In(<<"test", Mpi>>)' = {}
    BY <1>1, <1>5, PlaceParts, PlacePartsNext
  <2>3. ASSUME NEW p \in Place
        PROVE  In(p)' = IF p = <<"hand", Main>> THEN Roots(graph) ELSE {}
    <3>1. ASSUME NEW x \in Thread, p = <<"hand", x>> \/ p = <<"stack", x>>
          PROVE  In(p)' = IF p = <<"hand", Main>> THEN Roots(graph) ELSE {}
      <4>1. CASE p = <<"hand", x>>
        <5>1. p = <<"hand", Main>> <=> x = Main
          BY <4>1
        <5> QED BY <2>1, <4>1, <5>1
      <4>2. CASE p = <<"stack", x>>
        <5>1. p # <<"hand", Main>>
          BY <4>2
        <5> QED BY <2>1, <4>2, <5>1
      <4> QED BY <3>1, <4>1, <4>2
    <3>2. CASE p \in {<<"mpiq", Mpi>>, <<"polling", Mpi>>, <<"test", Mpi>>}
      BY <2>2, <3>2
    <3> QED BY <3>1, <3>2, PlaceParts
  <2> QED BY <2>3
<1>13. Places'
  <2>1. \A t \in Roots(graph) : IsReady(t)'
    BY <1>1, <1>3, <1>4, <1>10 DEF IsReady, Roots
  <2> QED BY <1>12, <2>1 DEF Places
<1>14. Disjoint'
  BY <1>12 DEF Disjoint
<1>15. OnePlace'
  BY <1>1, <1>14, QueuesKept
<1>16. TypeOK'
  BY <1>1, <1>2, <1>6, <1>7 DEF TypeOK
<1>17. Control'
  <2>1. pc'[Main] \in MainLabel /\ pc'[Mpi] \in MpiLabel
        /\ \A w \in Thread \ {Main, Mpi} : pc'[w] \in WorkerLabel
    BY <1>2, <1>6 DEF Control, MainLabel
  <2>2. \A x \in Thread :
       /\ todo'[x] # {} => pc'[x] \in {"spawn", "dec"}
       /\ last'[x] # NoTask => pc'[x] = "dec"
       /\ nxt'[x] # NoTask => pc'[x] = "fin"
       /\ pc'[x] \in {"run", "requeue", "dec", "fin"} => cur'[x] # NoTask
       /\ pc'[x] \notin {"check", "run", "requeue", "dec", "fin"} => cur'[x] = NoTask
       /\ pc'[x] = "run" /\ x # Mpi => cur'[x] \notin Blocking
    BY <1>1, <1>2, <1>5, <1>6 DEF Control
  <2>3. pc'[Mpi] = pc[Mpi]
    BY <1>2, <1>6
  <2> QED BY <1>1, <1>2, <1>3, <2>1, <2>2, <2>3 DEF Control
<1>18. Rounds'
  BY <1>1, <1>3, <1>8 DEF Rounds
<1>19. Quiet'
  BY <1>8 DEF Quiet
<1>20. Suspension'
  <2>1. \A x \in Thread : pc'[x] \notin {"run", "requeue"}
    BY <1>5, <1>6
  <2> QED BY <1>1, <1>3, <2>1 DEF Suspension
<1>21. Bodies'
  BY <1>9 DEF Bodies
<1>22. Counts'
  <2>1. \A t \in graph.node : ref[t] = Indegree(graph, t)
    BY <1>1, <1>2 DEF Counts
  <2>2. \A t \in Work(graph) : ref'[t] = Cardinality(Pending(t)')
    BY <1>4, <1>7, <1>10, <2>1 DEF Indegree
  <2>3. ref'[graph.end] = Cardinality(Pending(graph.end)') + 1
    <3>1. Pending(graph.end)' = Preds(graph, graph.end)
      BY <1>1, <1>10
    <3>2. ref[graph.end] = Cardinality(Preds(graph, graph.end))
      BY <1>4, <2>1 DEF Indegree
    <3> QED BY <1>7, <3>1, <3>2
  <2> QED BY <1>1, <1>3, <1>8, <2>2, <2>3 DEF Counts
<1>23. Stored'
  BY <1>1, <1>2, <1>3, <1>8 DEF Stored
<1>24. Alive'
  <2>1. \A x \in Thread : pc'[x] \in {"dec", "fin"} => pc'[x] = pc[x]
    BY <1>6
  <2> QED BY <1>1, <1>2, <1>3, <2>1 DEF Alive
<1>25. Requests'
  BY <1>1, <1>2, <1>6, RequestsKept
<1> QED BY <1>13, <1>15, <1>16, <1>17, <1>18, <1>19, <1>20, <1>21, <1>22, <1>23, <1>24, <1>25
        DEF MpiInv

-----------------------------------------------------------------------------
(***************************************************************************)
(* The invariant is inductive.                                             *)
(***************************************************************************)

LEMMA Stutter ==
  ASSUME MpiInv, UNCHANGED vars
  PROVE  MpiInv'
<1>1. UNCHANGED <<graph, stored, round, ref, backup, freed, suspend, stack, mpiq, polling,
                  cur, todo, last, nxt, begun, done, count, comm, mt, pc, pending>>
  BY DEF vars, graphVars, taskVars, queueVars, localVars, historyVars
<1>2. TypeOK /\ Control /\ Rounds /\ Quiet /\ Suspension /\ Requests
  BY DEF MpiInv
<1>3. SamePhase
  BY <1>1 DEF SamePhase
<1>4. \A x \in Thread : Owes(x)' = Owes(x) /\ Hand(x)' = Hand(x)
  BY <1>1 DEF Owes, Hand
<1>5. /\ \A t : IsReady(t)' <=> IsReady(t)
      /\ Bodies' /\ Counts' /\ Stored'
  BY <1>1, <1>3, <1>4, ExecFrame
<1>6. Stays
  BY <1>1, <1>4, StaysByParts
<1>7. Places' /\ Disjoint' /\ Covered'
  BY <1>1, <1>5, <1>6, Stay
<1>8. OnePlace'
  BY <1>1, <1>7, QueuesKept
<1>9. TypeOK' /\ Control' /\ Rounds' /\ Requests'
  BY <1>1, <1>2 DEF TypeOK, Control, Rounds, Requests, Live
<1>10. Quiet'
  BY <1>2, <1>3, <1>4, <1>6, Phase DEF Quiet, Stays
<1>11. Suspension'
  BY <1>1, <1>2, <1>7 DEF Suspension, Covered
<1>12. Alive'
  BY <1>1, <1>3, AliveKept
<1> QED BY <1>5, <1>7, <1>8, <1>9, <1>10, <1>11, <1>12 DEF MpiInv

LEMMA InitInvariant ==
  ASSUME Init
  PROVE  MpiInv
<1>1. /\ graph = NoTask /\ stored = FALSE /\ round = 0 /\ freed = {}
      /\ stack = [th \in Thread |-> <<>>] /\ mpiq = <<>> /\ polling = <<>> /\ comm = {}
      /\ suspend = [t \in Task |-> FALSE]
      /\ mt = [cur |-> NoTest, old |-> NoTest, flag1 |-> FALSE]
      /\ cur = [th \in Thread |-> NoTask] /\ nxt = [th \in Thread |-> NoTask]
      /\ todo = [th \in Thread |-> {}] /\ last = [th \in Thread |-> NoTask]
      /\ begun = {} /\ done = {} /\ pending = {}
  BY DEF Init
<1>2. /\ ref \in [Task -> Int] /\ backup \in [Task -> Int] /\ count \in [Task -> Nat]
      /\ suspend \in [Task -> BOOLEAN]
  BY DEF Init
<1>3. /\ pc[Main] = "idle" /\ pc[Mpi] = "poll"
      /\ \A x \in Thread \ {Main, Mpi} : pc[x] = "check"
      /\ pc \in [Thread -> MainLabel \cup MpiLabel]
  <2>1. Main \in Thread /\ Mpi \in Thread /\ Main # Mpi
    BY MpiAssumption
  <2>2. pc = [th \in Thread |-> CASE th = Main -> "idle" [] th = Mpi -> "poll"
                                  [] OTHER -> "check"]
    BY DEF Init
  <2>3. /\ pc[Main] = "idle" /\ pc[Mpi] = "poll"
        /\ \A x \in Thread \ {Main, Mpi} : pc[x] = "check"
    BY <2>1, <2>2
  <2>4. \A x \in Thread : pc[x] \in MainLabel \cup MpiLabel
    BY <2>3 DEF MainLabel, MpiLabel
  <2> QED BY <2>2, <2>3, <2>4
<1>4. TypeOK
  <2>1. /\ stack \in [Thread -> Seq(Task)] /\ mpiq \in Seq(Task) /\ polling \in Seq(MtestTask)
    <3>1. <<>> \in Seq(Task) /\ <<>> \in Seq(MtestTask)
      OBVIOUS
    <3> QED BY <1>1, <3>1
  <2>2. mt \in [cur : MtestTask \cup {NoTest}, old : MtestTask \cup {NoTest}, flag1 : BOOLEAN]
    BY <1>1
  <2>3. /\ cur \in [Thread -> Task \cup {NoTask}] /\ nxt \in [Thread -> Task \cup {NoTask}]
        /\ last \in [Thread -> Task \cup {NoTask}] /\ todo \in [Thread -> SUBSET Task]
    BY <1>1
  <2> QED BY <1>1, <1>2, <1>3, <2>1, <2>2, <2>3 DEF TypeOK
<1>5. Control
  <2>1. pc[Main] \in MainLabel /\ pc[Mpi] \in MpiLabel
        /\ \A w \in Thread \ {Main, Mpi} : pc[w] \in WorkerLabel
    BY <1>3 DEF MainLabel, MpiLabel, WorkerLabel
  <2>2. \A x \in Thread : todo[x] = {} /\ last[x] = NoTask /\ nxt[x] = NoTask /\ cur[x] = NoTask
                          /\ pc[x] \in {"idle", "poll", "check"}
    BY <1>1, <1>3
  <2>3. (\A t \in Task : ~suspend[t]) /\ mt.cur = NoTest /\ ~Live
    BY <1>1, <1>3 DEF Live
  <2> QED BY <1>1, <1>3, <2>1, <2>2, <2>3 DEF Control
<1>6. \A p \in Place : In(p) = {}
  <2>1. \A x \in Thread : Hand(x) = {}
    BY <1>1, <1>3 DEF Hand
  <2>2. mt.cur.task = NoTask /\ ToSet(mpiq) = {} /\ TaskOf(polling) = <<>>
        /\ \A x \in Thread : stack[x] = <<>>
    <3>1. polling \in Seq(MtestTask)
      BY <1>4 DEF TypeOK
    <3>2. TaskOf(polling) = <<>>
      BY <1>1, <3>1, TaskOfFacts
    <3> QED BY <1>1, <3>2 DEF NoTest, ToSet
  <2>3. ToSet(<<>>) = {}
    BY DEF ToSet
  <2>4. \A x \in Thread : ToSet(stack[x]) = {}
    BY <2>2, <2>3
  <2>5. ToSet(TaskOf(polling)) = {}
    BY <2>2, <2>3
  <2>6. ASSUME NEW p \in Place PROVE In(p) = {}
    <3>1. ASSUME NEW x \in Thread, p = <<"hand", x>> \/ p = <<"stack", x>> PROVE In(p) = {}
      BY <2>1, <2>4, <3>1, PlaceParts
    <3>2. CASE p \in {<<"mpiq", Mpi>>, <<"polling", Mpi>>, <<"test", Mpi>>}
      BY <2>2, <2>5, <3>2, PlaceParts
    <3> QED BY <3>1, <3>2, PlaceParts
  <2> QED BY <2>6
<1>7. \A x \in Thread : Owes(x) = {}
  BY <1>1, <1>3 DEF Owes
<1>8. Quiet /\ Places /\ Bodies
  BY <1>6, <1>7 DEF Quiet, Places, Bodies
<1>9. OnePlace
  <2>1. IsInjective(<<>>)
    BY DEF IsInjective
  <2>2. TaskOf(polling) = <<>> /\ \A x \in Thread : stack[x] = <<>>
    <3>1. polling \in Seq(MtestTask)
      BY <1>4 DEF TypeOK
    <3> QED BY <1>1, <3>1, TaskOfFacts
  <2> QED BY <1>1, <1>6, <2>1, <2>2 DEF OnePlace
<1>10. Rounds /\ Suspension
  BY <1>1, <1>3, MpiAssumption DEF Rounds, Suspension, Live
<1>11. Counts /\ Stored /\ Alive /\ Requests
  BY <1>1, <1>3 DEF Counts, Stored, Alive, Requests, Executing, Live
<1> QED BY <1>4, <1>5, <1>8, <1>9, <1>10, <1>11 DEF MpiInv

LEMMA NextInvariant ==
  ASSUME MpiInv, [Next]_vars
  PROVE  MpiInv'
<1>1. CASE MainStep
  <2>1. ASSUME NEW g \in Graphs, NEW store \in BOOLEAN, Build(g, store) PROVE MpiInv'
    BY <2>1, BuildStep
  <2> QED BY <1>1, <2>1, ResumeStep, BeginSpawnStep, SpawnRootStep, EndSpawnStep, LeaveStep
          DEF MainStep
<1>2. ASSUME NEW th \in Thread, LoopStep(th) PROVE MpiInv'
  BY <1>2, TakeStep, HandOverStep, BeginStep, RunBodyStep, DecrementStep,
     DecrementVerticalStep, FinishStep DEF LoopStep
<1>3. CASE MpiStep
  BY <1>3, SuspendBodyStep, RequeueStep, PollBeginStep, TestFirstStep, TestSecondStep,
     PopMpiStep DEF MpiStep
<1>4. ASSUME NEW r, CompleteRequest(r) PROVE MpiInv'
  BY <1>4, CompleteRequestStep
<1>5. CASE UNCHANGED vars
  BY <1>5, Stutter
<1> QED BY <1>1, <1>2, <1>3, <1>4, <1>5 DEF Next

-----------------------------------------------------------------------------
(***************************************************************************)
(* The safety properties, for every instance.                              *)
(***************************************************************************)

\* Spawning, the loops, suspension and polling keep the threads, the queues,
\* the counts and the requests consistent.
THEOREM MpiIsInvariant == Spec => []MpiInv
<1>1. Init => MpiInv
  BY InitInvariant
<1>2. MpiInv /\ [Next]_vars => MpiInv'
  BY NextInvariant
<1> QED BY <1>1, <1>2, PTL DEF Spec

\* When the extra thread runs a body (again), polling has found all requests of
\* the task complete, although their handles passed through comm1 and comm2.
THEOREM ResumedWhenReadyHolds == Spec => []ResumedWhenReady
<1>1. ASSUME MpiInv PROVE ResumedWhenReady
  <2>1. SUFFICES ASSUME pc[Mpi] = "run", NEW i \in {1, 2}, <<cur[Mpi], i>> \in pending
                 PROVE  FALSE
    BY DEF ResumedWhenReady
  <2>2. PICK r \in pending : r = <<cur[Mpi], i>>
    BY <2>1
  <2>3. r[1] = cur[Mpi]
    BY <2>2
  <2>4. cur[Mpi] \notin ToSet(TaskOf(polling)) /\ cur[Mpi] # mt.cur.task
    BY <1>1, <2>1, MpiTask
  <2>5. Waits(polling, r)
    BY <1>1, <2>1, <2>3, <2>4, RequestsParts DEF MpiInv
  <2>6. PICK j \in DOMAIN polling : r[1] = polling[j].task
    BY <2>5 DEF Waits
  <2>7. TaskOf(polling)[j] = cur[Mpi] /\ j \in DOMAIN TaskOf(polling)
    BY <2>3, <2>6 DEF TaskOf
  <2> QED BY <2>4, <2>7 DEF ToSet
<1> QED BY <1>1, MpiIsInvariant, PTL

\* A task that has begun and not ended exists and is in exactly one place.
THEOREM SuspendedOnceHolds == Spec => []SuspendedOnce
<1>1. ASSUME MpiInv, NEW t \in begun \ done
      PROVE  /\ t \notin freed
             /\ Cardinality({i \in DOMAIN mpiq : mpiq[i] = t})
                  + Cardinality({i \in DOMAIN polling : polling[i].task = t})
                  + (IF mt.cur.task = t THEN 1 ELSE 0)
                  + Cardinality({th \in Thread : cur[th] = t /\ pc[th] \notin {"dec", "fin"}}) = 1
  <2> DEFINE A == {i \in DOMAIN mpiq : mpiq[i] = t}
             B == {i \in DOMAIN polling : polling[i].task = t}
             C == {th \in Thread : cur[th] = t /\ pc[th] \notin {"dec", "fin"}}
  <2>1. PICK p \in Place : t \in In(p)
    BY <1>1 DEF MpiInv, Suspension
  <2>2. /\ Live /\ t \in graph.node /\ t \notin done /\ t # NoTask
        /\ \A x \in Thread : /\ p # <<"hand", x>> => t \notin Hand(x)
                             /\ p # <<"stack", x>> => t \notin ToSet(stack[x])
        /\ p # <<"mpiq", Mpi>> => t \notin ToSet(mpiq)
        /\ p # <<"polling", Mpi>> => t \notin ToSet(TaskOf(polling))
        /\ p # <<"test", Mpi>> => t # mt.cur.task
    BY <1>1, <2>1, Somewhere
  <2>3. t \notin freed
    BY <1>1, <2>2 DEF MpiInv, Alive
  <2>4. \A x \in Thread : x \in C <=> t \in Hand(x)
    <3>1. ASSUME NEW x \in C PROVE t \in Hand(x)
      <4>1. pc[x] \in {"check", "run", "requeue"}
        BY <1>1, <2>2 DEF MpiInv, Control
      <4> QED BY <2>2, <4>1 DEF Hand
    <3>2. ASSUME NEW x \in Thread, t \in Hand(x) PROVE x \in C
      <4>1. nxt[x] # t /\ (pc[x] = "spawn" => t \notin todo[x])
        BY <1>1 DEF MpiInv, Suspension
      <4> QED BY <3>2, <4>1 DEF Hand
    <3> QED BY <3>1, <3>2
  <2>5. A # {} <=> t \in ToSet(mpiq)
    BY DEF ToSet
  <2>6. B # {} <=> t \in ToSet(TaskOf(polling))
    BY DEF ToSet, TaskOf
  <2>7. \A i, j \in A : i = j
    BY <1>1 DEF MpiInv, OnePlace, IsInjective
  <2>8. \A i, j \in B : i = j
    <3>1. IsInjective(TaskOf(polling))
      BY <1>1 DEF MpiInv, OnePlace
    <3>2. \A i \in B : i \in DOMAIN TaskOf(polling) /\ TaskOf(polling)[i] = t
      BY DEF TaskOf
    <3> QED BY <3>1, <3>2 DEF IsInjective
  <2>9. \A x, y \in C : x = y
    <3>1. SUFFICES ASSUME NEW x \in C, NEW y \in C PROVE x = y
      OBVIOUS
    <3>2. p = <<"hand", x>> /\ p = <<"hand", y>>
      BY <2>2, <2>4, <3>1
    <3> QED BY <3>2
  <2>10. ASSUME NEW S, S # {}, \A x, y \in S : x = y PROVE Cardinality(S) = 1
    <3>1. PICK x \in S : S = {x}
      BY <2>10
    <3> QED BY <3>1, FS_Singleton
  <2>11. Cardinality({}) = 0
    BY FS_EmptySet
  <2> HIDE DEF A, B, C
  <2>12. Cardinality(A) + Cardinality(B) + (IF mt.cur.task = t THEN 1 ELSE 0)
           + Cardinality(C) = 1
    <3>1. ASSUME NEW x \in Thread, p = <<"hand", x>>
          PROVE  /\ Cardinality(A) = 0 /\ Cardinality(B) = 0 /\ mt.cur.task # t
                 /\ Cardinality(C) = 1
      <4>1. p # <<"mpiq", Mpi>> /\ p # <<"polling", Mpi>> /\ p # <<"test", Mpi>>
        BY <3>1
      <4>2. A = {} /\ B = {} /\ mt.cur.task # t
        BY <2>2, <2>5, <2>6, <4>1
      <4>3. x \in C
        BY <2>1, <2>4, <3>1, PlaceParts
      <4> QED BY <2>9, <2>10, <2>11, <4>2, <4>3
    <3>2. ASSUME NEW x \in Thread, p = <<"stack", x>> PROVE FALSE
      <4>1. t \in ToSet(stack[x])
        BY <2>1, <3>2, PlaceParts
      <4> QED BY <1>1, <4>1 DEF MpiInv, Suspension
    <3>3. ASSUME p \in {<<"mpiq", Mpi>>, <<"polling", Mpi>>, <<"test", Mpi>>}
          PROVE  C = {}
      <4>1. \A x \in Thread : p # <<"hand", x>>
        BY <3>3
      <4>2. C \subseteq Thread
        BY DEF C
      <4> QED BY <2>2, <2>4, <4>1, <4>2
    <3>4. CASE p = <<"mpiq", Mpi>>
      <4>1. p # <<"polling", Mpi>> /\ p # <<"test", Mpi>> /\ t \in ToSet(mpiq)
        BY <2>1, <3>4, PlaceParts
      <4>2. A # {} /\ B = {} /\ mt.cur.task # t /\ C = {}
        BY <2>2, <2>5, <2>6, <3>3, <3>4, <4>1
      <4> QED BY <2>7, <2>10, <2>11, <4>2
    <3>5. CASE p = <<"polling", Mpi>>
      <4>1. p # <<"mpiq", Mpi>> /\ p # <<"test", Mpi>> /\ t \in ToSet(TaskOf(polling))
        BY <2>1, <3>5, PlaceParts
      <4>2. A = {} /\ B # {} /\ mt.cur.task # t /\ C = {}
        BY <2>2, <2>5, <2>6, <3>3, <3>5, <4>1
      <4> QED BY <2>8, <2>10, <2>11, <4>2
    <3>6. CASE p = <<"test", Mpi>>
      <4>1. p # <<"mpiq", Mpi>> /\ p # <<"polling", Mpi>> /\ t = mt.cur.task
        BY <2>1, <3>6, PlaceParts
      <4>2. A = {} /\ B = {} /\ mt.cur.task = t /\ C = {}
        BY <2>2, <2>5, <2>6, <3>3, <3>6, <4>1
      <4> QED BY <2>11, <4>2
    <3>7. CASE \E x \in Thread : p = <<"hand", x>>
      BY <3>1, <3>7
    <3> QED BY <3>2, <3>4, <3>5, <3>6, <3>7, PlaceParts
  <2> QED BY <2>3, <2>12 DEF A, B, C
<1>2. MpiInv => SuspendedOnce
  BY <1>1 DEF SuspendedOnce
<1> QED BY <1>2, MpiIsInvariant, PTL

-----------------------------------------------------------------------------
(***************************************************************************)
(* MpiExec implements DagSpec.                                             *)
(***************************************************************************)

\* DagSpec sees the same graph.
LEMMA SameGraph ==
  /\ \A g : Abstract!Work(g) = Work(g)
  /\ \A g, t : Abstract!Preds(g, t) = Preds(g, t)
BY DEF Abstract!Work, Work, Abstract!Preds, Preds, Abstract!Out, Out,
       Abstract!Vertical, Vertical

LEMMA StutterMapped ==
  ASSUME UNCHANGED <<graph, begun, done>>, pc'[Main] = "idle" <=> pc[Main] = "idle"
  PROVE  UNCHANGED Abstract!vars
BY DEF Abstract!vars

\* The first execution of a task starts it; a later one is not seen.
LEMMA LoopMapped ==
  ASSUME MpiInv, NEW th \in Thread, LoopStep(th)
  PROVE  Abstract!Next \/ UNCHANGED Abstract!vars
<1>0. PICK c : c = cur[th]
  OBVIOUS
<1>1. TypeOK /\ Control /\ Rounds /\ Suspension
  BY DEF MpiInv
<1>2. CASE Begin(th)
  <2>1. /\ pc[th] = "check" /\ c # NoTask /\ Goto(th, "run")
        /\ begun' = begun \cup {c} /\ UNCHANGED <<graph, done>>
    BY <1>0, <1>2 DEF Begin, graphVars
  <2>2. SamePhase
    BY <1>1, <2>1, LoopStepFacts DEF MpiLabel, WorkerLabel
  <2>3. c \in In(<<"hand", th>>) /\ <<"hand", th>> \in Place
    <3>1. c \in Hand(th)
      BY <1>0, <2>1 DEF Hand
    <3> QED BY <3>1, PlaceParts
  <2>4. Executing /\ Live /\ IsReady(c) /\ c \notin done
    BY <2>3, Somewhere
  <2>5. CASE c \in begun
    <3>1. begun' = begun
      BY <2>1, <2>5
    <3> QED BY <2>1, <2>2, <3>1, Phase, StutterMapped
  <2>6. CASE c \notin begun
    <3>1. c \in Work(graph) \ done /\ Preds(graph, c) \subseteq done
      BY <2>4 DEF IsReady, Pending
    <3>2. begun' \ done' = (begun \ done) \cup {c}
      BY <2>1, <2>4
    <3>3. pc[Main] # "idle" /\ pc'[Main] # "idle"
      BY <2>2, <2>4, Phase DEF Live
    <3>4. Abstract!Start(c)
      BY <2>1, <2>6, <3>1, <3>2, <3>3, SameGraph DEF Abstract!Start
    <3> QED BY <3>1, <3>3, <3>4, SameGraph DEF Abstract!Next
  <2> QED BY <2>5, <2>6
<1>3. CASE RunBody(th)
  <2>1. /\ pc[th] = "run" /\ Goto(th, "dec")
        /\ done' = done \cup {c} /\ UNCHANGED <<graph, begun>>
    BY <1>0, <1>3 DEF RunBody, graphVars
  <2>2. SamePhase
    BY <1>1, <2>1, LoopStepFacts DEF MpiLabel, WorkerLabel
  <2>3. c \in In(<<"hand", th>>) /\ <<"hand", th>> \in Place
    <3>1. c \in Hand(th)
      BY <1>0, <1>1, <2>1 DEF Hand, Control
    <3> QED BY <3>1, PlaceParts
  <2>4. Executing /\ Live /\ c \in Work(graph) /\ c \notin done
    BY <2>3, Somewhere
  <2>5. c \in begun \ done /\ begun' \ done' = (begun \ done) \ {c}
    BY <1>0, <1>1, <2>1, <2>4 DEF Suspension
  <2>6. pc[Main] # "idle" /\ pc'[Main] # "idle"
    BY <2>2, <2>4, Phase DEF Live
  <2>7. Abstract!Complete(c)
    BY <2>1, <2>5, <2>6 DEF Abstract!Complete
  <2> QED BY <2>4, <2>6, <2>7, SameGraph DEF Abstract!Next
<1>4. CASE Take(th) \/ HandOver(th) \/ Decrement(th)
  <2>1. UNCHANGED <<graph, begun, done, pc>>
    BY <1>4 DEF Take, HandOver, Decrement, graphVars, historyVars
  <2> QED BY <2>1, StutterMapped
<1>5. CASE DecrementVertical(th) \/ Finish(th)
  <2>1. /\ pc[th] \in MpiLabel /\ UNCHANGED <<graph, begun, done>>
        /\ \E l \in MpiLabel : Goto(th, l)
    BY <1>5 DEF DecrementVertical, Finish, graphVars, historyVars, MpiLabel, WorkerLabel
  <2>2. SamePhase
    BY <1>1, <2>1, LoopStepFacts
  <2> QED BY <2>1, <2>2, Phase, StutterMapped
<1> QED BY <1>2, <1>3, <1>4, <1>5 DEF LoopStep

\* What the extra thread does for suspended tasks is not seen.
LEMMA MpiMapped ==
  ASSUME MpiInv, MpiStep
  PROVE  UNCHANGED Abstract!vars
<1>1. UNCHANGED <<graph, begun, done>>
  BY DEF MpiStep, SuspendBody, Requeue, PollBegin, TestFirst, TestSecond, PopMpi,
         graphVars, historyVars
<1>2. \E l \in MpiLabel : Goto(Mpi, l)
  BY DEF MpiStep, SuspendBody, Requeue, PollBegin, TestFirst, TestSecond, PopMpi,
         MpiLabel, WorkerLabel
<1>3. SamePhase
  BY <1>2, MpiLoopFacts
<1> QED BY <1>1, <1>3, Phase, StutterMapped

LEMMA MainMapped ==
  ASSUME MpiInv, MainStep
  PROVE  Abstract!Next \/ UNCHANGED Abstract!vars
<1>1. TypeOK /\ Control /\ Rounds /\ Main \in Thread
  BY MpiAssumption DEF MpiInv
<1>2. ASSUME NEW l, Goto(Main, l) PROVE pc'[Main] = l
  BY <1>1, <1>2 DEF TypeOK, Goto
<1>3. ASSUME NEW g \in Graphs, pc[Main] = "idle", Goto(Main, "built"), graph' = g,
             begun' = {}, done' = {}
      PROVE  Abstract!Next
  <2>1. begun \ done = {} /\ begun' \ done' = {}
    BY <1>1, <1>3 DEF Rounds
  <2>2. pc'[Main] = "built"
    BY <1>2, <1>3
  <2>3. Abstract!Submit(g)
    BY <1>3, <2>1, <2>2 DEF Abstract!Submit
  <2> QED BY <2>3 DEF Abstract!Next
<1>4. ASSUME NEW g \in Graphs, NEW store \in BOOLEAN, Build(g, store) PROVE Abstract!Next
  BY <1>3, <1>4 DEF Build
<1>5. ASSUME Resume PROVE Abstract!Next
  <2>1. graph \in Graphs
    BY <1>1, <1>5 DEF Resume, Control
  <2> QED BY <1>3, <1>5, <2>1 DEF Resume
<1>6. ASSUME Leave PROVE Abstract!Next
  <2>1. /\ pc[Main] = "check" /\ ref[graph.end] <= 1 /\ Goto(Main, "idle")
        /\ UNCHANGED <<graph, begun, done>>
    BY <1>6 DEF Leave, graphVars, historyVars
  <2>2. done = Work(graph)
    BY <2>1, Termination DEF Executing
  <2>3. pc'[Main] = "idle"
    BY <1>2, <2>1
  <2>4. Abstract!Return
    BY <2>1, <2>2, <2>3, SameGraph DEF Abstract!Return
  <2> QED BY <2>4 DEF Abstract!Next
<1>7. ASSUME BeginSpawn \/ EndSpawn PROVE UNCHANGED Abstract!vars
  <2>1. /\ pc[Main] # "idle" /\ UNCHANGED <<graph, begun, done>>
        /\ \E l \in {"spawn", "check"} : Goto(Main, l)
    BY <1>7 DEF BeginSpawn, EndSpawn, graphVars, historyVars
  <2>2. pc'[Main] # "idle"
    BY <1>2, <2>1
  <2> QED BY <2>1, <2>2, StutterMapped
<1>8. ASSUME SpawnRoot PROVE UNCHANGED Abstract!vars
  <2>1. UNCHANGED <<graph, begun, done, pc>>
    BY <1>8 DEF SpawnRoot, graphVars, historyVars
  <2> QED BY <2>1, StutterMapped
<1> QED BY <1>4, <1>5, <1>6, <1>7, <1>8 DEF MainStep

\* The build with an extra thread executes graphs as DagSpec allows: a task that
\* is suspended and executed again has started once and completes once.
THEOREM MpiRefinesDag == Spec => RefinesDag
<1>1. Init => Abstract!Init
  <2> SUFFICES ASSUME Init PROVE Abstract!Init
    OBVIOUS
  <2>1. graph = NoTask /\ begun = {} /\ done = {}
    BY DEF Init
  <2>2. pc[Main] = "idle"
    BY MpiAssumption DEF Init
  <2> QED BY <2>1, <2>2 DEF Abstract!Init
<1>2. MpiInv /\ [Next]_vars => [Abstract!Next]_(Abstract!vars)
  <2>1. SUFFICES ASSUME MpiInv, [Next]_vars PROVE Abstract!Next \/ UNCHANGED Abstract!vars
    OBVIOUS
  <2>2. ASSUME NEW r, CompleteRequest(r) PROVE UNCHANGED Abstract!vars
    <3>1. UNCHANGED <<graph, begun, done, pc>>
      BY <2>2 DEF CompleteRequest, graphVars, historyVars
    <3> QED BY <3>1, StutterMapped
  <2>3. CASE UNCHANGED vars
    <3>1. UNCHANGED <<graph, begun, done, pc>>
      BY <2>3 DEF vars, graphVars, historyVars
    <3> QED BY <3>1, StutterMapped
  <2> QED BY <2>1, <2>2, <2>3, MainMapped, LoopMapped, MpiMapped DEF Next
<1> QED BY <1>1, <1>2, MpiIsInvariant, PTL DEF Spec, RefinesDag, Abstract!Spec
=============================================================================
