--------------------------- MODULE DagExecProofs ---------------------------
(***************************************************************************)
(* Proofs about DagExec: the inductive invariant IInv, and the safety      *)
(* properties that follow from it, for every set of graphs, threads and    *)
(* tasks and every value of an uninitialised flag.                         *)
(***************************************************************************)
EXTENDS DagExec, FiniteSetTheorems, TLAPS

-----------------------------------------------------------------------------
(***************************************************************************)
(* Facts about well-formed graphs.                                         *)
(***************************************************************************)

LEMMA GraphFacts ==
  ASSUME NEW g \in Graphs
  PROVE  /\ g.node \subseteq Task
         /\ NoTask \notin g.node
         /\ g.end \in g.node
         /\ g.end \notin Work(g)
         /\ g.node = Work(g) \cup {g.end}
         /\ \A t \in g.node : /\ g.succ[t] \subseteq Work(g)
                              /\ g.vert[t] \in g.node \cup {NoTask}
                              /\ g.vert[t] \notin g.succ[t]
                              /\ g.aff[t] \in Thread
                              /\ Out(g, t) \subseteq g.node
         /\ \A t : Preds(g, t) \subseteq Work(g)
<1>1. WellFormed(g, Task, Thread)
  BY ExecAssumption
<1>2. g.node \subseteq Task /\ NoTask \notin g.node /\ g.end \in g.node
  BY <1>1, ExecAssumption DEF WellFormed
<1>3. g.end \notin Work(g) /\ g.node = Work(g) \cup {g.end}
  BY <1>2 DEF Work
<1>4. ASSUME NEW t \in g.node
      PROVE  /\ g.succ[t] \subseteq Work(g)
             /\ g.vert[t] \in g.node \cup {NoTask}
             /\ g.vert[t] \notin g.succ[t]
             /\ g.aff[t] \in Thread
             /\ Out(g, t) \subseteq g.node
  <2>1. g.succ[t] \subseteq Work(g) /\ g.vert[t] \in g.node \cup {NoTask} /\ g.aff[t] \in Thread
    BY <1>1, <1>4 DEF WellFormed
  <2>2. g.vert[t] \notin g.succ[t]
    <3>1. CASE t = g.end
      BY <3>1, <1>1 DEF WellFormed, Out
    <3>2. CASE t # g.end
      BY <3>2, <1>1, <1>4 DEF WellFormed, Work
    <3> QED BY <3>1, <3>2
  <2> QED BY <2>1, <2>2, <1>3 DEF Out, Vertical
<1>5. ASSUME NEW t PROVE Preds(g, t) \subseteq Work(g)
  BY <1>1 DEF WellFormed, Preds, Work
<1> QED BY <1>2, <1>3, <1>4, <1>5

LEMMA PredsFinite ==
  ASSUME NEW g \in Graphs, NEW t
  PROVE  IsFiniteSet(Preds(g, t)) /\ Indegree(g, t) \in Nat
<1>1. IsFiniteSet(g.node)
  BY ExecAssumption DEF WellFormed
<1>2. IsFiniteSet(Preds(g, t))
  BY <1>1, FS_Subset DEF Preds
<1> QED BY <1>2, FS_CardinalityType DEF Indegree

\* A set of tasks that is not empty has one that releases none of them.
LEMMA Sink ==
  ASSUME NEW g \in Graphs, NEW S, S \subseteq Work(g), S # {}
  PROVE  \E t \in S : Out(g, t) \cap S = {} /\ Out(g, t) # {}
<1>1. WellFormed(g, Task, Thread)
  BY ExecAssumption
<1>2. PICK t \in S : Out(g, t) \cap S = {}
  BY <1>1 DEF WellFormed
<1>3. Out(g, t) # {}
  BY <1>1 DEF WellFormed
<1> QED BY <1>2, <1>3

-----------------------------------------------------------------------------
(***************************************************************************)
(* Consequences of the invariant that several steps use.                   *)
(***************************************************************************)

\* Whatever is ready, queued or owed, a graph is being executed.
LEMMA Activity ==
  ASSUME IInv
  PROVE  /\ Executing => Live /\ Open
         /\ Live => Open /\ graph \in Graphs
         /\ \A x \in Thread :
              Ready(x) # {} \/ Owes(x) # {} \/ stack[x] # <<>> => Executing
<1>1. Executing => Live /\ Open
  BY DEF Executing, Live, Open, Label
<1>2. Live => Open /\ graph \in Graphs
  BY DEF IInv, Control, Live, Open
<1>3. \A x \in Thread : Ready(x) # {} \/ Owes(x) # {} \/ stack[x] # <<>> => Executing
  BY DEF IInv, Quiet
<1> QED BY <1>1, <1>2, <1>3

\* Steps that change neither the graph nor a decrement that is owed.
LEMMA PendingKept ==
  ASSUME UNCHANGED <<graph, done>>,
         \A x \in Thread : Owes(x)' = Owes(x),
         \A x \in Thread : Owes(x) # {} => cur'[x] = cur[x]
  PROVE  \A t : Pending(t)' = Pending(t)
BY DEF Pending

\* A predecessor that owes a decrement is pending, so its successor has not run.
LEMMA OwedPending ==
  ASSUME IInv, NEW x \in Thread, NEW t \in Owes(x)
  PROVE  /\ Executing
         /\ cur[x] \in Work(graph) /\ cur[x] \in done
         /\ t \in Out(graph, cur[x]) /\ t \in graph.node
         /\ cur[x] \in Pending(t)
         /\ t \notin done
<1>1. Executing /\ Live /\ graph \in Graphs
  BY Activity
<1>2. cur[x] \in done /\ cur[x] \in Work(graph)
  BY <1>1 DEF IInv, Bodies, Counts
<1>3. t \in Out(graph, cur[x])
  BY DEF IInv, Bodies, Owes, Out
<1>4. t \in graph.node /\ cur[x] \in graph.node
  BY <1>1, <1>2, <1>3, GraphFacts
<1>5. cur[x] \in Pending(t)
  BY <1>3, <1>4 DEF Pending, Preds
<1>6. t \notin done
  BY <1>1, <1>5 DEF IInv, Counts
<1> QED BY <1>1, <1>2, <1>3, <1>4, <1>5, <1>6

LEMMA PendingFinite ==
  ASSUME NEW t, graph \in Graphs
  PROVE  IsFiniteSet(Pending(t)) /\ Cardinality(Pending(t)) \in Nat
<1>1. IsFiniteSet(Pending(t))
  BY PredsFinite, FS_Subset DEF Pending
<1> QED BY <1>1, FS_CardinalityType

\* Termination detection: the end task has its own reference only, so nothing is
\* pending.  A task that had not run would have a successor it keeps waiting; the
\* last of them in the order of the graph keeps nobody but the end task waiting.
LEMMA Termination ==
  ASSUME IInv, pc[Main] \in Label, ref[graph.end] <= 1
  PROVE  /\ done = Work(graph)
         /\ \A x \in Thread : Ready(x) = {} /\ Owes(x) = {} /\ stack[x] = <<>>
<1>1. Executing /\ Live /\ graph \in Graphs /\ pc[Main] # "built"
  BY Activity DEF Executing, Label
<1>2. Pending(graph.end) = {}
  <2>1. ref[graph.end] = Cardinality(Pending(graph.end)) + 1
    BY <1>1 DEF IInv, Counts
  <2>2. Cardinality(Pending(graph.end)) \in Nat /\ IsFiniteSet(Pending(graph.end))
    BY <1>1, PendingFinite
  <2>3. Cardinality(Pending(graph.end)) = 0
    BY <2>1, <2>2
  <2> QED BY <2>2, <2>3, FS_EmptySet
<1>3. done \subseteq Work(graph)
  BY <1>1 DEF IInv, Counts
<1>4. Work(graph) \ done = {}
  <2>1. SUFFICES ASSUME Work(graph) \ done # {} PROVE FALSE
    OBVIOUS
  <2>2. PICK t \in Work(graph) \ done :
          Out(graph, t) \cap (Work(graph) \ done) = {} /\ Out(graph, t) # {}
    BY <1>1, <2>1, Sink
  <2>3. PICK u : u \in Out(graph, t)
    BY <2>2
  <2>4. t \in graph.node /\ u \in Work(graph) \cup {graph.end}
    BY <1>1, <2>3, GraphFacts
  <2>5. t \in Pending(u)
    BY <2>2, <2>3, <2>4 DEF Pending, Preds
  <2>6. u \in done
    BY <1>2, <2>2, <2>3, <2>4, <2>5
  <2> QED BY <1>1, <2>5, <2>6 DEF IInv, Counts
<1>5. done = Work(graph)
  BY <1>3, <1>4
<1>6. ASSUME NEW x \in Thread PROVE Ready(x) = {}
  BY <1>4 DEF IInv, Places, IsReady
<1>7. ASSUME NEW x \in Thread PROVE stack[x] = <<>>
  <2>1. stack[x] \in Seq(Task)
    BY DEF IInv, TypeOK
  <2>2. SUFFICES ASSUME Len(stack[x]) # 0 PROVE FALSE
    BY <2>1
  <2>3. 1 \in 1 .. Len(stack[x])
    BY <2>1, <2>2
  <2> QED BY <1>4, <2>3 DEF IInv, Places, IsReady
<1>8. ASSUME NEW x \in Thread PROVE Owes(x) = {}
  <2>1. SUFFICES ASSUME NEW t \in Owes(x) PROVE FALSE
    OBVIOUS
  <2>2. t \in graph.node /\ cur[x] \in Pending(t) /\ t \notin done
    BY OwedPending
  <2> QED BY <1>1, <1>2, <1>5, <2>2, GraphFacts
<1> QED BY <1>5, <1>6, <1>7, <1>8

-----------------------------------------------------------------------------
(***************************************************************************)
(* What a step keeps if it only moves a task from one place to another.    *)
(***************************************************************************)

\* The step leaves the main thread in the same part of spawn_and_wait.
SamePhase ==
  \/ pc'[Main] = pc[Main]
  \/ {pc[Main], pc'[Main]} \subseteq Label \cup {"spawn"}

LEMMA Phase ==
  ASSUME SamePhase
  PROVE  /\ Executing' <=> Executing
         /\ Live' <=> Live
         /\ Open' <=> Open
         /\ Returning' <=> Returning
         /\ \A l \in MainLabel \ {"spawn"} : pc'[Main] = l <=> pc[Main] = l
BY DEF SamePhase, Executing, Live, Open, Returning, Label, MainLabel

\* A step of the loop, to another point of the loop.
LEMMA LoopStepFacts ==
  ASSUME TypeOK, NEW th \in Thread, pc[th] \in Label, NEW l \in Label, Goto(th, l)
  PROVE  /\ SamePhase
         /\ pc' \in [Thread -> Label \cup MainLabel \cup {"exited"}]
         /\ pc'[th] = l
         /\ \A x \in Thread \ {th} : pc'[x] = pc[x]
         /\ pc'[Main] = "spawn" <=> pc[Main] = "spawn"
BY ExecAssumption DEF TypeOK, Goto, SamePhase, Label

LEMMA ExecFrame ==
  ASSUME IInv, SamePhase,
         UNCHANGED <<graph, saved, ref, backup, reused, done>>,
         \A x \in Thread : Owes(x)' = Owes(x),
         \A x \in Thread : Owes(x) # {} =>
            cur'[x] = cur[x] /\ todo'[x] = todo[x] /\ last'[x] = last[x]
  PROVE  /\ \A t : Pending(t)' = Pending(t)
         /\ \A t : IsReady(t)' <=> IsReady(t)
         /\ Bodies' /\ Counts' /\ Stored'
<1>1. \A t : Pending(t)' = Pending(t)
  BY PendingKept
<1>2. \A t : IsReady(t)' <=> IsReady(t)
  BY <1>1 DEF IsReady
<1>3. Bodies'
  <2>1. Bodies
    BY DEF IInv
  <2> QED BY <2>1 DEF Bodies
<1>4. Counts'
  <2>1. Counts /\ (Live' <=> Live) /\ (Returning' <=> Returning)
        /\ (pc'[Main] = "built" <=> pc[Main] = "built")
    BY Phase DEF IInv, MainLabel
  <2> QED BY <1>1, <2>1 DEF Counts
<1>5. Stored'
  <2>1. Stored /\ (Live' <=> Live)
    BY Phase DEF IInv
  <2> QED BY <2>1 DEF Stored
<1> QED BY <1>1, <1>2, <1>3, <1>4, <1>5

LEMMA MemoryFrame ==
  ASSUME IInv, SamePhase,
         UNCHANGED <<graph, saved, alloc, reused, done>>,
         \A x \in Thread : pc'[x] \in {"dec", "push", "fin"} =>
            pc[x] \in {"dec", "push", "fin"} /\ cur'[x] = cur[x],
         Open => \A x \in Thread : pc'[x] = "run" => cur'[x] \in alloc
  PROVE  Memory'
<1>1. Memory /\ (Live' <=> Live) /\ (Open' <=> Open) /\ (pc'[Main] = "post" <=> pc[Main] = "post")
  BY Phase DEF IInv, MainLabel
<1>2. Open => \A x \in Thread : pc'[x] \in {"run", "dec", "push", "fin"} => cur'[x] \in alloc'
  BY <1>1 DEF Memory
<1> QED BY <1>1, <1>2 DEF Memory

\* A ready task exists.
LEMMA ReadyExists ==
  ASSUME IInv, NEW t, IsReady(t), Executing
  PROVE  t \in alloc /\ t \in Task /\ t \in graph.node /\ t # graph.end /\ t # NoTask
<1>1. Live /\ Open /\ graph \in Graphs
  BY Activity
<1>2. t \in Work(graph) /\ t \in alloc
  BY <1>1 DEF IInv, Memory, IsReady
<1> QED BY <1>1, <1>2, GraphFacts, ExecAssumption

\* Nothing is taken and nothing is queued.
LEMMA PlacesFrame ==
  ASSUME IInv, UNCHANGED <<toSpawn, stack>>,
         \A x \in Thread : Ready(x)' = Ready(x),
         \A t : IsReady(t)' <=> IsReady(t)
  PROVE  Places' /\ Unique'
<1>1. Places /\ Unique
  BY DEF IInv
<1>2. Places'
  BY <1>1 DEF Places
<1>3. Unique'
  BY <1>1 DEF Unique
<1> QED BY <1>2, <1>3

\* A task is pushed that was in no queue.
LEMMA PushFacts ==
  ASSUME TypeOK, NEW h \in Thread, NEW t \in Task, Push(h, t)
  PROVE  /\ stack' \in [Thread -> Seq(Task)]
         /\ \A x \in Thread : \A i \in 1 .. Len(stack'[x]) :
              \/ i \in 1 .. Len(stack[x]) /\ stack'[x][i] = stack[x][i]
              \/ x = h /\ i = Len(stack[h]) + 1 /\ stack'[x][i] = t
<1>1. stack[h] \in Seq(Task)
  BY DEF TypeOK
<1>2. /\ Append(stack[h], t) \in Seq(Task)
      /\ Len(Append(stack[h], t)) = Len(stack[h]) + 1
      /\ \A i \in 1 .. Len(stack[h]) : Append(stack[h], t)[i] = stack[h][i]
      /\ Append(stack[h], t)[Len(stack[h]) + 1] = t
      /\ Len(stack[h]) \in Nat
  BY <1>1
<1> QED BY <1>1, <1>2 DEF TypeOK, Push

LEMMA PushUnique ==
  ASSUME IInv, NEW h \in Thread, NEW t \in Task, Push(h, t),
         t \notin toSpawn',
         toSpawn' \subseteq toSpawn,
         \A x \in Thread : t \notin Ready(x)' /\ Ready(x)' \subseteq Ready(x),
         \A x \in Thread : \A i \in 1 .. Len(stack[x]) : stack[x][i] # t,
         IsReady(t),
         \A u : IsReady(u)' <=> IsReady(u)
  PROVE  Places' /\ Unique'
<1>1. Places /\ Unique /\ TypeOK
  BY DEF IInv
<1>2. \A x \in Thread : \A i \in 1 .. Len(stack'[x]) :
        \/ i \in 1 .. Len(stack[x]) /\ stack'[x][i] = stack[x][i]
        \/ x = h /\ i = Len(stack[h]) + 1 /\ stack'[x][i] = t
  BY <1>1, PushFacts
<1>3. Places'
  BY <1>1, <1>2 DEF Places
<1>4. \A x \in Thread : Ready(x)' \cap toSpawn' = {}
  BY <1>1 DEF Unique
<1>5. \A x, y \in Thread : x # y => Ready(x)' \cap Ready(y)' = {}
  BY <1>1 DEF Unique
<1>6. ASSUME NEW x \in Thread, NEW i \in 1 .. Len(stack'[x])
      PROVE  /\ stack'[x][i] \notin toSpawn'
             /\ \A y \in Thread : stack'[x][i] \notin Ready(y)'
  <2>1. CASE stack'[x][i] = t
    BY <2>1
  <2>2. CASE i \in 1 .. Len(stack[x]) /\ stack'[x][i] = stack[x][i]
    BY <2>2, <1>1 DEF Unique
  <2> QED BY <1>2, <2>1, <2>2
<1>7. ASSUME NEW x \in Thread, NEW y \in Thread,
             NEW i \in 1 .. Len(stack'[x]), NEW j \in 1 .. Len(stack'[y]),
             stack'[x][i] = stack'[y][j]
      PROVE  x = y /\ i = j
  <2>1. CASE stack'[x][i] = t
    BY <2>1, <1>2, <1>7
  <2>2. CASE stack'[x][i] # t
    BY <2>2, <1>1, <1>2, <1>7 DEF Unique
  <2> QED BY <2>1, <2>2
<1> QED BY <1>3, <1>4, <1>5, <1>6, <1>7 DEF Unique

-----------------------------------------------------------------------------
(***************************************************************************)
(* Every step keeps the invariant.                                         *)
(***************************************************************************)

LEMMA PopStep ==
  ASSUME IInv, NEW th \in Thread, Pop(th)
  PROVE  IInv'
<1> DEFINE s == stack[th]
           c == s[Len(s)]
<1>1. TypeOK /\ s \in Seq(Task) /\ s # <<>> /\ Len(s) \in 1 .. Len(s) /\ c \in Task
  BY DEF IInv, TypeOK, Pop
<1>2. /\ pc[th] = "poll" /\ Goto(th, "run")
      /\ cur'[th] = c /\ \A x \in Thread \ {th} : cur'[x] = cur[x]
      /\ cur' \in [Thread -> Task \cup {NoTask}]
  BY <1>1 DEF Pop, TypeOK
<1>3. /\ SamePhase
      /\ pc' \in [Thread -> Label \cup MainLabel \cup {"exited"}]
      /\ pc'[th] = "run"
      /\ \A x \in Thread \ {th} : pc'[x] = pc[x]
      /\ pc'[Main] = "spawn" <=> pc[Main] = "spawn"
  BY <1>1, <1>2, LoopStepFacts DEF Label
<1>4. /\ stack' \in [Thread -> Seq(Task)]
      /\ \A x \in Thread : \A i \in 1 .. Len(stack'[x]) :
           /\ i \in 1 .. Len(stack[x])
           /\ stack'[x][i] = stack[x][i]
           /\ ~(x = th /\ i = Len(s))
  <2>1. stack' = [stack EXCEPT ![th] = SubSeq(s, 1, Len(s) - 1)]
    BY DEF Pop
  <2>2. /\ SubSeq(s, 1, Len(s) - 1) \in Seq(Task)
        /\ Len(SubSeq(s, 1, Len(s) - 1)) = Len(s) - 1
        /\ \A i \in 1 .. Len(s) - 1 : SubSeq(s, 1, Len(s) - 1)[i] = s[i]
    BY <1>1
  <2> QED BY <1>1, <2>1, <2>2 DEF TypeOK
<1>5. UNCHANGED <<graph, saved, round, alloc, ref, backup, reused, done,
                  todo, last, hand, nxt, toSpawn, close>>
  BY DEF Pop, graphVars, taskVars
<1>6. Executing /\ Live /\ Open /\ graph \in Graphs
  BY <1>1, Activity
<1>7. \A x \in Thread : Owes(x)' = Owes(x) /\ (Owes(x) # {} => cur'[x] = cur[x])
  BY <1>2, <1>3, <1>5 DEF Owes
<1>8. /\ \A t : Pending(t)' = Pending(t)
      /\ \A t : IsReady(t)' <=> IsReady(t)
      /\ Bodies' /\ Counts' /\ Stored'
  BY <1>3, <1>5, <1>7, ExecFrame
<1>9. hand[th] = NoTask /\ nxt[th] = NoTask
  BY <1>2 DEF IInv, Control
<1>10. Ready(th)' = {c} /\ \A x \in Thread \ {th} : Ready(x)' = Ready(x)
  BY <1>1, <1>2, <1>3, <1>5, <1>9, ExecAssumption DEF Ready
<1>11. IsReady(c)
  BY <1>1 DEF IInv, Places
<1>12. TypeOK'
  BY <1>1, <1>2, <1>3, <1>4, <1>5 DEF TypeOK
<1>13. Control'
  <2>1. Control /\ (Live' <=> Live) /\ (pc'[Main] = "built" <=> pc[Main] = "built")
        /\ (pc'[Main] \in {"join", "halted"} <=> pc[Main] \in {"join", "halted"})
    BY <1>2, <1>3, Phase DEF IInv, MainLabel
  <2> QED BY <1>1, <1>2, <1>3, <1>5, <1>9, <2>1, ExecAssumption DEF Control, Worker, Label
<1>14. Quiet'
  BY <1>3, <1>6, Phase DEF Quiet
<1>15. Places'
  BY <1>4, <1>5, <1>8, <1>10, <1>11 DEF IInv, Places
<1>16. Unique'
  <2>1. Unique
    BY DEF IInv
  <2>2. c \notin toSpawn /\ \A x \in Thread : c \notin Ready(x)
    BY <1>1, <2>1 DEF Unique
  <2>3. \A x \in Thread : \A i \in 1 .. Len(stack'[x]) : stack'[x][i] # c
    BY <1>1, <1>4, <2>1 DEF Unique
  <2>4. \A x \in Thread : Ready(x)' \cap toSpawn' = {}
    BY <1>5, <1>10, <2>1, <2>2 DEF Unique
  <2>5. ASSUME NEW x \in Thread, NEW i \in 1 .. Len(stack'[x])
        PROVE  /\ stack'[x][i] \notin toSpawn'
               /\ \A y \in Thread : stack'[x][i] \notin Ready(y)'
    <3>1. i \in 1 .. Len(stack[x]) /\ stack'[x][i] = stack[x][i] /\ stack'[x][i] # c
      BY <1>4, <2>3
    <3>2. stack[x][i] \notin toSpawn /\ \A y \in Thread : stack[x][i] \notin Ready(y)
      BY <3>1, <2>1 DEF Unique
    <3> HIDE DEF c
    <3> QED BY <1>5, <1>10, <3>1, <3>2
  <2>6. \A x, y \in Thread : x # y => Ready(x)' \cap Ready(y)' = {}
    BY <1>10, <2>1, <2>2 DEF Unique
  <2>7. \A x, y \in Thread : \A i \in 1 .. Len(stack'[x]), j \in 1 .. Len(stack'[y]) :
          stack'[x][i] = stack'[y][j] => x = y /\ i = j
    BY <1>4, <2>1 DEF Unique
  <2> QED BY <2>4, <2>5, <2>6, <2>7 DEF Unique
<1>17. Memory'
  <2>1. c \in alloc
    BY <1>6, <1>11, ReadyExists
  <2>2. \A x \in Thread : pc'[x] = "run" => cur'[x] \in alloc
    BY <1>2, <1>3, <1>6, <2>1 DEF IInv, Memory
  <2> QED BY <1>2, <1>3, <1>5, <2>2, MemoryFrame
<1> QED BY <1>8, <1>12, <1>13, <1>14, <1>15, <1>16, <1>17 DEF IInv

LEMMA PopNothingStep ==
  ASSUME IInv, NEW th \in Thread, PopNothing(th)
  PROVE  IInv'
<1>1. pc[th] = "poll" /\ Goto(th, "check") /\ TypeOK
  BY DEF PopNothing, IInv
<1>2. /\ SamePhase
      /\ pc' \in [Thread -> Label \cup MainLabel \cup {"exited"}]
      /\ pc'[th] = "check"
      /\ \A x \in Thread \ {th} : pc'[x] = pc[x]
      /\ pc'[Main] = "spawn" <=> pc[Main] = "spawn"
  BY <1>1, LoopStepFacts DEF Label
<1>3. UNCHANGED <<graph, saved, round, alloc, ref, backup, reused, done, cur,
                  todo, last, hand, nxt, toSpawn, stack, close>>
  BY DEF PopNothing, graphVars, taskVars
<1>4. \A x \in Thread : Owes(x)' = Owes(x)
  BY <1>1, <1>2, <1>3 DEF Owes
<1>5. cur[th] = NoTask
  BY <1>1 DEF IInv, Control
<1>6. \A x \in Thread : Ready(x)' = Ready(x)
  BY <1>1, <1>2, <1>3, <1>5 DEF Ready
<1>7. /\ \A t : Pending(t)' = Pending(t)
      /\ \A t : IsReady(t)' <=> IsReady(t)
      /\ Bodies' /\ Counts' /\ Stored'
  BY <1>2, <1>3, <1>4, ExecFrame
<1>8. TypeOK'
  BY <1>1, <1>2, <1>3 DEF TypeOK
<1>9. Control'
  <2>1. Control /\ (Live' <=> Live) /\ (pc'[Main] = "built" <=> pc[Main] = "built")
        /\ (pc'[Main] \in {"join", "halted"} <=> pc[Main] \in {"join", "halted"})
    BY <1>1, <1>2, Phase DEF IInv, MainLabel
  <2> QED BY <1>1, <1>2, <1>3, <2>1, ExecAssumption DEF Control, Worker, Label
<1>10. Quiet'
  BY <1>2, <1>3, <1>4, <1>6, Phase DEF IInv, Quiet
<1>11. Places' /\ Unique'
  BY <1>3, <1>6, <1>7, PlacesFrame
<1>12. Memory'
  BY <1>1, <1>2, <1>3, MemoryFrame DEF IInv, Memory
<1> QED BY <1>7, <1>8, <1>9, <1>10, <1>11, <1>12 DEF IInv

LEMMA SpawnStep ==
  ASSUME IInv, NEW th \in Thread, Spawn(th)
  PROVE  IInv'
<1> DEFINE c == hand[th]
           h == graph.aff[c]
<1>1. pc[th] = "push" /\ Goto(th, "dec") /\ TypeOK /\ Push(h, c)
      /\ hand' = [hand EXCEPT ![th] = NoTask]
  BY DEF Spawn, IInv
<1>2. /\ SamePhase
      /\ pc' \in [Thread -> Label \cup MainLabel \cup {"exited"}]
      /\ pc'[th] = "dec"
      /\ \A x \in Thread \ {th} : pc'[x] = pc[x]
      /\ pc'[Main] = "spawn" <=> pc[Main] = "spawn"
  BY <1>1, LoopStepFacts DEF Label
<1>3. UNCHANGED <<graph, saved, round, alloc, ref, backup, reused, done, cur,
                  todo, last, nxt, toSpawn, close>>
  BY DEF Spawn, graphVars, taskVars
<1>4. /\ hand' \in [Thread -> Task \cup {NoTask}]
      /\ hand'[th] = NoTask
      /\ \A x \in Thread \ {th} : hand'[x] = hand[x]
  BY <1>1 DEF TypeOK
<1>5. c # NoTask /\ nxt[th] = NoTask
  BY <1>1 DEF IInv, Control
<1>6. c \in Ready(th) /\ Ready(th)' = {} /\ \A x \in Thread \ {th} : Ready(x)' = Ready(x)
  BY <1>1, <1>2, <1>3, <1>4, <1>5 DEF Ready
<1>7. IsReady(c) /\ Executing /\ Live /\ graph \in Graphs
  BY <1>6, Activity DEF IInv, Places
<1>8. c \in Task /\ h \in Thread
  BY <1>7, ReadyExists, GraphFacts
<1>9. \A x \in Thread : Owes(x)' = Owes(x)
  BY <1>1, <1>2, <1>3 DEF Owes
<1>10. /\ \A t : Pending(t)' = Pending(t)
       /\ \A t : IsReady(t)' <=> IsReady(t)
       /\ Bodies' /\ Counts' /\ Stored'
  BY <1>2, <1>3, <1>9, ExecFrame
<1>11. TypeOK'
  BY <1>1, <1>2, <1>3, <1>4, <1>8, PushFacts DEF TypeOK
<1>12. Control'
  <2>1. Control /\ (Live' <=> Live) /\ (pc'[Main] = "built" <=> pc[Main] = "built")
        /\ (pc'[Main] \in {"join", "halted"} <=> pc[Main] \in {"join", "halted"})
    BY <1>1, <1>2, Phase DEF IInv, MainLabel
  <2> QED BY <1>1, <1>2, <1>3, <1>4, <1>5, <2>1, ExecAssumption DEF Control, Worker, Label
<1>13. Quiet'
  BY <1>2, <1>7, Phase DEF Quiet
<1>14. Places' /\ Unique'
  <2>1. /\ c \notin toSpawn
        /\ \A x \in Thread \ {th} : c \notin Ready(x)
        /\ \A x \in Thread : \A i \in 1 .. Len(stack[x]) : stack[x][i] # c
    BY <1>6 DEF IInv, Unique
  <2>2. \A x \in Thread : c \notin Ready(x)' /\ Ready(x)' \subseteq Ready(x)
    BY <1>6, <2>1
  <2> HIDE DEF c, h
  <2> QED BY <1>1, <1>3, <1>7, <1>8, <1>10, <2>1, <2>2, PushUnique
<1>15. Memory'
  BY <1>1, <1>2, <1>3, MemoryFrame DEF IInv, Memory
<1> QED BY <1>10, <1>11, <1>12, <1>13, <1>14, <1>15 DEF IInv

LEMMA SpawnRootStep ==
  ASSUME IInv, SpawnRoot
  PROVE  IInv'
<1>1. PICK t \in toSpawn : toSpawn' = toSpawn \ {t} /\ Push(graph.aff[t], t)
  BY DEF SpawnRoot
<1>2. pc[Main] = "spawn" /\ TypeOK
  BY DEF SpawnRoot, IInv
<1>3. UNCHANGED <<graph, saved, round, alloc, ref, backup, reused, done, pc, cur,
                  todo, last, hand, nxt, close>>
  BY DEF SpawnRoot, graphVars, taskVars, threadVars
<1>4. SamePhase
  BY <1>3 DEF SamePhase
<1>5. Executing /\ Live /\ graph \in Graphs
  BY <1>2, Activity DEF Executing
<1>6. IsReady(t) /\ t \in Task /\ graph.aff[t] \in Thread
  <2>1. IsReady(t)
    BY DEF IInv, Places
  <2> QED BY <2>1, <1>5, ReadyExists, GraphFacts
<1>7. \A x \in Thread : Owes(x)' = Owes(x) /\ Ready(x)' = Ready(x)
  BY <1>3 DEF Owes, Ready
<1>8. /\ \A u : Pending(u)' = Pending(u)
      /\ \A u : IsReady(u)' <=> IsReady(u)
      /\ Bodies' /\ Counts' /\ Stored'
  BY <1>3, <1>4, <1>7, ExecFrame
<1>9. TypeOK'
  BY <1>1, <1>2, <1>3, <1>6, PushFacts DEF TypeOK
<1>10. Control'
  BY <1>2, <1>3 DEF IInv, Control, Live, Worker
<1>11. Quiet'
  BY <1>4, <1>5, Phase DEF Quiet
<1>12. Places' /\ Unique'
  <2>1. t \notin toSpawn' /\ toSpawn' \subseteq toSpawn
    BY <1>1
  <2>2. /\ \A x \in Thread : t \notin Ready(x)
        /\ \A x \in Thread : \A i \in 1 .. Len(stack[x]) : stack[x][i] # t
    BY DEF IInv, Unique
  <2>3. \A x \in Thread : t \notin Ready(x)' /\ Ready(x)' \subseteq Ready(x)
    BY <1>7, <2>2
  <2> QED BY <1>1, <1>6, <1>8, <2>1, <2>2, <2>3, PushUnique
<1>13. Memory'
  BY <1>3, <1>4, MemoryFrame DEF IInv, Memory
<1> QED BY <1>8, <1>9, <1>10, <1>11, <1>12, <1>13 DEF IInv

LEMMA EndSpawnStep ==
  ASSUME IInv, EndSpawn
  PROVE  IInv'
<1>1. pc[Main] = "spawn" /\ toSpawn = {} /\ Goto(Main, "check") /\ TypeOK
  BY DEF EndSpawn, IInv
<1>2. /\ SamePhase
      /\ pc' \in [Thread -> Label \cup MainLabel \cup {"exited"}]
      /\ pc'[Main] = "check"
      /\ \A x \in Thread \ {Main} : pc'[x] = pc[x]
  BY <1>1, ExecAssumption DEF Goto, TypeOK, SamePhase, Label
<1>3. UNCHANGED <<graph, saved, round, alloc, ref, backup, reused, done, cur,
                  todo, last, hand, nxt, toSpawn, stack, close>>
  BY DEF EndSpawn, graphVars, taskVars
<1>4. cur[Main] = NoTask
  BY <1>1, ExecAssumption DEF IInv, Control
<1>5. \A x \in Thread : Owes(x)' = Owes(x) /\ Ready(x)' = Ready(x)
  BY <1>1, <1>2, <1>3, <1>4 DEF Owes, Ready
<1>6. /\ \A t : Pending(t)' = Pending(t)
      /\ \A t : IsReady(t)' <=> IsReady(t)
      /\ Bodies' /\ Counts' /\ Stored'
  BY <1>2, <1>3, <1>5, ExecFrame
<1>7. TypeOK'
  BY <1>1, <1>2, <1>3 DEF TypeOK
<1>8. Control'
  <2>1. Control /\ (Live' <=> Live)
    BY <1>2, Phase DEF IInv
  <2> QED BY <1>1, <1>2, <1>3, <2>1, ExecAssumption DEF Control, Worker, Label
<1>9. Quiet'
  BY <1>2, <1>3, <1>5, Phase DEF IInv, Quiet
<1>10. Places' /\ Unique'
  BY <1>3, <1>5, <1>6, PlacesFrame
<1>11. Memory'
  BY <1>1, <1>2, <1>3, MemoryFrame DEF IInv, Memory
<1> QED BY <1>6, <1>7, <1>8, <1>9, <1>10, <1>11 DEF IInv

LEMMA FinishStep ==
  ASSUME IInv, NEW th \in Thread, Finish(th)
  PROVE  IInv'
<1> DEFINE c == cur[th]
<1>1. pc[th] = "fin" /\ Goto(th, "check") /\ TypeOK
      /\ cur' = [cur EXCEPT ![th] = nxt[th]] /\ nxt' = [nxt EXCEPT ![th] = NoTask]
  BY DEF Finish, IInv
<1>2. /\ SamePhase
      /\ pc' \in [Thread -> Label \cup MainLabel \cup {"exited"}]
      /\ pc'[th] = "check"
      /\ \A x \in Thread \ {th} : pc'[x] = pc[x]
      /\ pc'[Main] = "spawn" <=> pc[Main] = "spawn"
  BY <1>1, LoopStepFacts DEF Label
<1>3. UNCHANGED <<graph, saved, round, ref, backup, reused, done,
                  todo, last, hand, toSpawn, stack, close>>
  BY DEF Finish, graphVars
<1>4. /\ cur' \in [Thread -> Task \cup {NoTask}]
      /\ nxt' \in [Thread -> Task \cup {NoTask}]
      /\ cur'[th] = nxt[th] /\ nxt'[th] = NoTask
      /\ \A x \in Thread \ {th} : cur'[x] = cur[x] /\ nxt'[x] = nxt[x]
  BY <1>1 DEF TypeOK
<1>5. c # NoTask /\ hand[th] = NoTask
  BY <1>1 DEF IInv, Control
<1>6. \A x \in Thread : Owes(x)' = Owes(x) /\ (Owes(x) # {} => x # th)
  BY <1>1, <1>2, <1>3 DEF Owes
<1>7. \A x \in Thread : Ready(x)' = Ready(x)
  BY <1>1, <1>2, <1>3, <1>4, <1>5 DEF Ready
<1>8. /\ \A t : Pending(t)' = Pending(t)
      /\ \A t : IsReady(t)' <=> IsReady(t)
      /\ Bodies' /\ Counts' /\ Stored'
  BY <1>2, <1>3, <1>4, <1>6, ExecFrame
<1>9. alloc' \in {alloc, alloc \ {c}}
  BY DEF Finish
<1>10. TypeOK'
  BY <1>1, <1>2, <1>3, <1>4, <1>9 DEF TypeOK
<1>11. Control'
  <2>1. Control /\ (Live' <=> Live) /\ (pc'[Main] = "built" <=> pc[Main] = "built")
        /\ (pc'[Main] \in {"join", "halted"} <=> pc[Main] \in {"join", "halted"})
    BY <1>1, <1>2, Phase DEF IInv, MainLabel
  <2> QED BY <1>1, <1>2, <1>3, <1>4, <1>5, <2>1, ExecAssumption DEF Control, Worker, Label
<1>12. Quiet'
  BY <1>2, <1>3, <1>6, <1>7, Phase DEF IInv, Quiet
<1>13. Places' /\ Unique'
  BY <1>3, <1>7, <1>8, PlacesFrame
<1>14. Memory'
  <2>1. SUFFICES ASSUME Open PROVE Memory'
    BY <1>2, Phase DEF Memory
  <2>2. Memory /\ Stored /\ Counts
        /\ (Live' <=> Live) /\ (pc'[Main] = "post" <=> pc[Main] = "post")
    BY <1>2, Phase DEF IInv, MainLabel
  <2>3. c \in alloc /\ alloc' = IF reused[c] THEN alloc ELSE alloc \ {c}
    BY <1>1, <2>1, <2>2 DEF Memory, Finish, FlagOf
  <2>4. saved # NoTask => saved.node \subseteq alloc'
    BY <2>1, <2>2, <2>3 DEF Memory, Stored
  <2>5. ~reused[c] /\ Live => c \notin Work(graph) \ done /\ c # graph.end
    <3>1. SUFFICES ASSUME ~reused[c], Live PROVE c \notin Work(graph) \ done /\ c # graph.end
      OBVIOUS
    <3>2. c \notin graph.node \ done
      BY <1>1, <2>1, <2>2, <3>1 DEF Memory
    <3>3. graph.end \in graph.node \ done /\ Work(graph) \subseteq graph.node
      BY <2>2, <3>1, Activity, GraphFacts DEF Counts
    <3> QED BY <3>2, <3>3
  <2>6. Live => Work(graph) \ done \subseteq alloc' /\ (pc[Main] # "post" => graph.end \in alloc')
    BY <2>1, <2>2, <2>3, <2>5 DEF Memory
  <2>7. \A x \in Thread : pc'[x] \in {"run", "dec", "push", "fin"} =>
          x # th /\ pc[x] = pc'[x] /\ cur'[x] = cur[x]
    BY <1>2, <1>4
  <2>8. \A x \in Thread : pc'[x] \in {"run", "dec", "push", "fin"} => cur'[x] \in alloc'
    <3>1. SUFFICES ASSUME NEW x \in Thread \ {th}, pc[x] \in {"run", "dec", "push", "fin"},
                          ~reused[c]
                   PROVE  cur[x] # c /\ cur[x] \in alloc
      BY <2>1, <2>2, <2>3, <2>7 DEF Memory
    <3>2. CASE pc[x] = "run"
      <4>1. cur[x] \in Ready(x)
        BY <3>2, <1>1, <3>1 DEF IInv, Control, Ready
      <4>2. Live /\ IsReady(cur[x])
        BY <4>1, <3>1, Activity DEF IInv, Places
      <4> QED BY <2>1, <2>2, <2>5, <3>1, <4>2 DEF IsReady, Memory
    <3>3. CASE pc[x] \in {"dec", "push", "fin"}
      BY <1>1, <2>1, <2>2, <3>1, <3>3 DEF Memory
    <3> QED BY <3>1, <3>2, <3>3
  <2> QED BY <1>3, <2>1, <2>2, <2>4, <2>6, <2>7, <2>8 DEF Memory
<1> QED BY <1>8, <1>10, <1>11, <1>12, <1>13, <1>14 DEF IInv

\* The main thread leaves the loop.
LEMMA LeaveStep ==
  ASSUME IInv, Check(Main), ~KeepRunning(Main)
  PROVE  IInv'
<1>1. pc[Main] = "check" /\ Goto(Main, "leave") /\ TypeOK
  BY DEF Check, IInv
<1>2. /\ pc' \in [Thread -> Label \cup MainLabel \cup {"exited"}]
      /\ pc'[Main] = "leave"
      /\ \A x \in Thread \ {Main} : pc'[x] = pc[x]
  BY <1>1, ExecAssumption DEF Goto, TypeOK, MainLabel
<1>3. UNCHANGED <<graph, saved, round, alloc, ref, backup, reused, done, cur,
                  todo, last, hand, nxt, toSpawn, stack, close>>
  BY DEF Check, graphVars, taskVars
<1>4. Executing /\ Live /\ Open /\ graph \in Graphs /\ pc[Main] \in Label
  BY <1>1, Activity DEF Executing, Label
<1>5. ref[graph.end] <= 1
  <2>1. graph.end \in Task
    BY <1>4, GraphFacts
  <2>2. ref[graph.end] \in Int
    BY <1>1, <2>1 DEF TypeOK
  <2> QED BY <2>2 DEF KeepRunning
<1>6. /\ done = Work(graph)
      /\ \A x \in Thread : Ready(x) = {} /\ Owes(x) = {} /\ stack[x] = <<>>
  BY <1>4, <1>5, Termination
<1>7. Live' /\ Open' /\ ~Executing' /\ pc[Main] # "built" /\ pc'[Main] # "built"
  BY <1>1, <1>2 DEF Live, Open, Executing, Label
<1>8. cur[Main] = NoTask
  BY <1>1, <1>6, ExecAssumption DEF Ready
<1>9. \A x \in Thread : Owes(x)' = {} /\ Ready(x)' = {}
  BY <1>2, <1>3, <1>6 DEF Owes, Ready
<1>10. \A t : Pending(t)' = Pending(t)
  BY <1>3, <1>6, <1>9, PendingKept
<1>11. \A t : IsReady(t)' <=> IsReady(t)
  BY <1>3, <1>10 DEF IsReady
<1>12. TypeOK'
  BY <1>1, <1>2, <1>3 DEF TypeOK
<1>13. Control'
  BY <1>1, <1>2, <1>3, <1>4, <1>8, ExecAssumption DEF IInv, Control, Worker, Label, MainLabel
<1>14. Quiet'
  BY <1>3, <1>6, <1>9 DEF Quiet
<1>15. Places' /\ Unique'
  BY <1>3, <1>6, <1>9, <1>11, PlacesFrame
<1>16. Bodies'
  BY <1>9 DEF Bodies
<1>17. Counts'
  BY <1>3, <1>4, <1>6, <1>7, <1>10 DEF IInv, Counts
<1>18. Stored'
  BY <1>3, <1>4, <1>7 DEF IInv, Stored
<1>19. Memory'
  <2>1. \A x \in Thread : pc'[x] \in {"run", "dec", "push", "fin"} => pc[x] = pc'[x]
    BY <1>2
  <2>2. Memory /\ pc[Main] # "post" /\ pc'[Main] # "post"
    BY <1>1, <1>2 DEF IInv
  <2> QED BY <1>3, <1>4, <1>7, <2>1, <2>2 DEF Memory
<1> QED BY <1>12, <1>13, <1>14, <1>15, <1>16, <1>17, <1>18, <1>19 DEF IInv

\* A worker leaves the loop.
LEMMA ExitStep ==
  ASSUME IInv, NEW th \in Worker, Check(th), ~KeepRunning(th)
  PROVE  IInv'
<1>1. pc[th] = "check" /\ Goto(th, "exited") /\ TypeOK /\ close /\ th \in Thread /\ th # Main
  BY DEF Check, KeepRunning, IInv, Worker
<1>2. /\ pc' \in [Thread -> Label \cup MainLabel \cup {"exited"}]
      /\ pc'[th] = "exited"
      /\ \A x \in Thread \ {th} : pc'[x] = pc[x]
      /\ pc'[Main] = pc[Main]
  BY <1>1, ExecAssumption DEF Goto, TypeOK
<1>3. UNCHANGED <<graph, saved, round, alloc, ref, backup, reused, done, cur,
                  todo, last, hand, nxt, toSpawn, stack, close>>
  BY DEF Check, graphVars, taskVars
<1>4. SamePhase /\ ~Executing
  <2>1. pc[Main] \in {"join", "halted"}
    BY <1>1 DEF IInv, Control
  <2> QED BY <1>2, <2>1 DEF SamePhase, Executing, Label
<1>5. \A x \in Thread : Owes(x)' = Owes(x)
  BY <1>1, <1>2, <1>3 DEF Owes
<1>6. Ready(th) = {} /\ cur[th] = NoTask
  <2>1. Ready(th) = {}
    BY <1>1, <1>4 DEF IInv, Quiet
  <2> QED BY <1>1, <2>1 DEF Ready
<1>7. \A x \in Thread : Ready(x)' = Ready(x)
  BY <1>1, <1>2, <1>3, <1>6 DEF Ready
<1>8. /\ \A t : Pending(t)' = Pending(t)
      /\ \A t : IsReady(t)' <=> IsReady(t)
      /\ Bodies' /\ Counts' /\ Stored'
  BY <1>2, <1>3, <1>4, <1>5, ExecFrame
<1>9. TypeOK'
  BY <1>1, <1>2, <1>3 DEF TypeOK
<1>10. Control'
  <2>1. Control /\ (Live' <=> Live)
    BY <1>4, Phase DEF IInv
  <2> QED BY <1>1, <1>2, <1>3, <1>6, <2>1 DEF Control, Worker
<1>11. Quiet'
  BY <1>3, <1>4, <1>5, <1>7, Phase DEF IInv, Quiet
<1>12. Places' /\ Unique'
  BY <1>3, <1>7, <1>8, PlacesFrame
<1>13. Memory'
  BY <1>1, <1>2, <1>3, <1>4, MemoryFrame DEF IInv, Memory
<1> QED BY <1>8, <1>9, <1>10, <1>11, <1>12, <1>13 DEF IInv

LEMMA CheckStep ==
  ASSUME IInv, NEW th \in Thread, Check(th)
  PROVE  IInv'
<1>1. CASE ~KeepRunning(th)
  BY <1>1, LeaveStep, ExitStep DEF Worker
<1>2. CASE KeepRunning(th)
  <2> DEFINE l == IF cur[th] = NoTask THEN "poll" ELSE "run"
  <2>1. pc[th] = "check" /\ Goto(th, l) /\ TypeOK
    BY <1>2 DEF Check, IInv
  <2>2. l \in Label /\ pc[th] \in Label
    BY <2>1 DEF Label
  <2> HIDE DEF l
  <2>3. /\ SamePhase
        /\ pc' \in [Thread -> Label \cup MainLabel \cup {"exited"}]
        /\ pc'[th] = l
        /\ \A x \in Thread \ {th} : pc'[x] = pc[x]
        /\ pc'[Main] = "spawn" <=> pc[Main] = "spawn"
    BY <2>1, <2>2, LoopStepFacts
  <2> USE DEF l
  <2>4. UNCHANGED <<graph, saved, round, alloc, ref, backup, reused, done, cur,
                    todo, last, hand, nxt, toSpawn, stack, close>>
    BY DEF Check, graphVars, taskVars
  <2>5. \A x \in Thread : Owes(x)' = Owes(x)
    BY <2>1, <2>3, <2>4 DEF Owes
  <2>6. \A x \in Thread : Ready(x)' = Ready(x)
    BY <2>1, <2>3, <2>4 DEF Ready
  <2>7. /\ \A t : Pending(t)' = Pending(t)
        /\ \A t : IsReady(t)' <=> IsReady(t)
        /\ Bodies' /\ Counts' /\ Stored'
    BY <2>3, <2>4, <2>5, ExecFrame
  <2>8. TypeOK'
    BY <2>1, <2>3, <2>4 DEF TypeOK
  <2>9. Control'
    <3>1. Control /\ (Live' <=> Live) /\ (pc'[Main] = "built" <=> pc[Main] = "built")
          /\ (pc'[Main] \in {"join", "halted"} <=> pc[Main] \in {"join", "halted"})
      BY <2>1, <2>3, Phase DEF IInv, MainLabel
    <3> QED BY <2>1, <2>3, <2>4, <3>1, ExecAssumption DEF Control, Worker, Label
  <2>10. Quiet'
    BY <2>3, <2>4, <2>5, <2>6, Phase DEF IInv, Quiet
  <2>11. Places' /\ Unique'
    BY <2>4, <2>6, <2>7, PlacesFrame
  <2>12. Memory'
    <3>1. cur[th] # NoTask => cur[th] \in alloc
      <4>1. SUFFICES ASSUME cur[th] # NoTask PROVE cur[th] \in alloc
        OBVIOUS
      <4>2. cur[th] \in Ready(th)
        BY <2>1, <4>1 DEF Ready
      <4>3. IsReady(cur[th]) /\ Executing
        BY <4>2, Activity DEF IInv, Places
      <4> QED BY <4>3, ReadyExists
    <3>2. \A x \in Thread : pc'[x] \in {"dec", "push", "fin"} => pc[x] = pc'[x]
      BY <2>3
    <3>3. Open => \A x \in Thread : pc'[x] = "run" => cur'[x] \in alloc
      BY <2>3, <2>4, <3>1 DEF IInv, Memory
    <3> QED BY <2>3, <2>4, <3>2, <3>3, MemoryFrame
  <2> QED BY <2>7, <2>8, <2>9, <2>10, <2>11, <2>12 DEF IInv
<1> QED BY <1>1, <1>2

\* One successor is released: what it waits for shrinks by the thread's task.
LEMMA Release ==
  ASSUME IInv, SamePhase, NEW th \in Thread, NEW t \in Owes(th),
         UNCHANGED <<graph, saved, backup, reused, done, cur>>,
         ref' = [ref EXCEPT ![t] = @ - 1],
         Owes(th)' = Owes(th) \ {t},
         \A x \in Thread \ {th} : Owes(x)' = Owes(x)
  PROVE  /\ t \in Task /\ t # NoTask /\ ~IsReady(t)
         /\ \A u : IsReady(u) => IsReady(u)'
         /\ ref[t] - 1 = 0 => IsReady(t)'
         /\ ref' \in [Task -> Int]
         /\ Counts' /\ Stored'
<1> DEFINE c == cur[th]
<1>1. Executing /\ Live /\ graph \in Graphs /\ pc[Main] # "built"
  BY OwedPending, Activity DEF Executing, Label
<1>2. TypeOK /\ Counts /\ Stored /\ Bodies
  BY DEF IInv
<1>3. c \in Pending(t) /\ c \in done /\ t \in graph.node /\ t \notin done
  BY OwedPending
<1>4. t \in Task /\ t # NoTask /\ graph.end \in Task
  BY <1>1, <1>3, GraphFacts
<1>5. ~IsReady(t)
  BY <1>3 DEF IsReady
<1>6. Pending(t)' = Pending(t) \ {c}
  <2>1. ASSUME NEW p, p \in Pending(t), p # c PROVE p \in Pending(t)'
    <3>1. p \in Preds(graph, t)
      BY <2>1 DEF Pending
    <3>2. CASE p \notin done
      BY <3>1, <3>2 DEF Pending
    <3>3. CASE \E x \in Thread : cur[x] = p /\ t \in Owes(x)
      BY <2>1, <3>1, <3>3 DEF Pending
    <3> QED BY <2>1, <3>2, <3>3 DEF Pending
  <2>2. ASSUME NEW p, p \in Pending(t)' PROVE p \in Pending(t)
    BY <2>2 DEF Pending
  <2>3. c \notin Pending(t)'
    <3>1. SUFFICES ASSUME NEW x \in Thread, cur[x] = c, t \in Owes(x)' PROVE FALSE
      BY <1>3 DEF Pending
    <3>2. x # th /\ t \in Owes(x)
      BY <3>1
    <3> QED BY <1>2, <3>1, <3>2 DEF Bodies
  <2> QED BY <2>1, <2>2, <2>3
<1>7. ASSUME NEW u, u # t PROVE Pending(u)' = Pending(u)
  <2>1. \A x \in Thread : u \in Owes(x)' <=> u \in Owes(x)
    BY <1>7
  <2> QED BY <2>1 DEF Pending
<1>8. /\ IsFiniteSet(Pending(t)) /\ Cardinality(Pending(t)) \in Nat
      /\ IsFiniteSet(Pending(t)') /\ Cardinality(Pending(t)') \in Nat
      /\ Cardinality(Pending(t)') = Cardinality(Pending(t)) - 1
  <2>1. IsFiniteSet(Pending(t)) /\ Cardinality(Pending(t)) \in Nat
    BY <1>1, PendingFinite
  <2> QED BY <1>3, <1>6, <2>1, FS_RemoveElement, FS_CardinalityType
<1>9. \A u : IsReady(u) => IsReady(u)'
  BY <1>5, <1>7 DEF IsReady
<1>10. ref' \in [Task -> Int] /\ ref'[t] = ref[t] - 1 /\ \A u \in Task \ {t} : ref'[u] = ref[u]
  BY <1>2, <1>4 DEF TypeOK
<1>11. ref[t] = Cardinality(Pending(t)) + IF t = graph.end THEN 1 ELSE 0
  <2>1. t \in Work(graph) \/ t = graph.end
    BY <1>1, <1>3, GraphFacts
  <2>2. CASE t = graph.end
    BY <1>1, <1>2, <2>2 DEF Counts
  <2>3. CASE t # graph.end
    <3>1. ref[t] = Cardinality(Pending(t))
      BY <1>1, <1>2, <1>3, <2>1, <2>3 DEF Counts
    <3> QED BY <1>8, <2>3, <3>1
  <2> QED BY <2>2, <2>3
<1>12. ASSUME ref[t] - 1 = 0 PROVE IsReady(t)'
  <2>1. t # graph.end
    BY <1>8, <1>11, <1>12
  <2>2. Cardinality(Pending(t)') = 0
    BY <1>8, <1>11, <1>12, <2>1
  <2>3. Pending(t)' = {}
    BY <1>8, <2>2, FS_EmptySet
  <2> QED BY <1>3, <2>1, <2>3 DEF IsReady, Work
<1>13. Counts'
  <2>1. (Live' <=> Live) /\ (Returning' <=> Returning) /\ pc'[Main] # "built"
    BY <1>1, Phase DEF MainLabel
  <2>2. done' \subseteq Work(graph') /\ (Returning' => done' = Work(graph'))
    BY <1>1, <1>2, <2>1 DEF Counts
  <2>3. \A u \in done : u # t /\ u \in Task
    BY <1>2, <1>3 DEF TypeOK
  <2>4. \A u \in done' : Pending(u)' = {} /\ (reused'[u] => ref'[u] = backup'[u])
    BY <1>1, <1>2, <1>7, <1>10, <2>3 DEF Counts
  <2>5. ASSUME NEW u \in Work(graph) \ done PROVE ref'[u] = Cardinality(Pending(u)')
    <3>1. u \in Task /\ u # graph.end
      BY <1>1, GraphFacts
    <3>2. CASE u = t
      BY <1>8, <1>10, <1>11, <3>1, <3>2
    <3>3. CASE u # t
      BY <1>1, <1>2, <1>7, <1>10, <3>1, <3>3 DEF Counts
    <3> QED BY <3>2, <3>3
  <2>6. ref'[graph.end] = Cardinality(Pending(graph.end)') + 1
    <3>1. CASE graph.end = t
      BY <1>8, <1>10, <1>11, <3>1
    <3>2. CASE graph.end # t
      BY <1>1, <1>2, <1>4, <1>7, <1>10, <3>2 DEF Counts
    <3> QED BY <3>1, <3>2
  <2> QED BY <2>1, <2>2, <2>4, <2>5, <2>6 DEF Counts
<1>14. Stored'
  <2>1. (Live' <=> Live)
    BY Phase
  <2>2. SUFFICES ASSUME saved # NoTask PROVE Stored'
    BY DEF Stored
  <2>3. graph # saved => \A u \in saved.node : ref'[u] = ref[u]
    <3>1. saved \in Graphs
      BY <1>2, <2>2 DEF TypeOK
    <3>2. graph # saved => t \notin saved.node
      BY <1>1, <1>2, <1>3, <2>2 DEF Stored
    <3> QED BY <1>10, <3>1, <3>2, GraphFacts
  <2> QED BY <1>1, <1>2, <2>1, <2>2, <2>3 DEF Stored
<1> QED BY <1>4, <1>5, <1>9, <1>10, <1>12, <1>13, <1>14

\* A task that was not ready before is the only one thread th has in its hands.
LEMMA NewReady ==
  ASSUME IInv, NEW th \in Thread, NEW t, ~IsReady(t),
         UNCHANGED <<toSpawn, stack>>,
         Ready(th) = {}, Ready(th)' \subseteq {t},
         t \in Ready(th)' => IsReady(t)',
         \A x \in Thread \ {th} : Ready(x)' = Ready(x),
         \A u : IsReady(u) => IsReady(u)'
  PROVE  Places' /\ Unique'
<1>1. Places /\ Unique
  BY DEF IInv
<1>2. /\ t \notin toSpawn
      /\ \A x \in Thread : t \notin Ready(x)
      /\ \A x \in Thread : \A i \in 1 .. Len(stack[x]) : stack[x][i] # t
  BY <1>1 DEF Places
<1>3. Places'
  BY <1>1 DEF Places
<1>4. \A x \in Thread : Ready(x)' \cap toSpawn' = {}
  BY <1>1, <1>2 DEF Unique
<1>5. \A x \in Thread : \A i \in 1 .. Len(stack'[x]) :
        /\ stack'[x][i] \notin toSpawn'
        /\ \A y \in Thread : stack'[x][i] \notin Ready(y)'
  BY <1>1, <1>2 DEF Unique
<1>6. \A x, y \in Thread : x # y => Ready(x)' \cap Ready(y)' = {}
  BY <1>1, <1>2 DEF Unique
<1> QED BY <1>1, <1>3, <1>4, <1>5, <1>6 DEF Unique

LEMMA DecrementStep ==
  ASSUME IInv, NEW th \in Thread, Decrement(th)
  PROVE  IInv'
<1> DEFINE c == cur[th]
<1>1. PICK t \in todo[th] :
        /\ ref' = [ref EXCEPT ![t] = @ - 1]
        /\ todo' = [todo EXCEPT ![th] = @ \ {t}]
        /\ IF ref[t] - 1 = 0
           THEN hand' = [hand EXCEPT ![th] = t] /\ Goto(th, "push")
           ELSE UNCHANGED <<hand, pc>>
  BY DEF Decrement, Released
<1>2. pc[th] = "dec" /\ TypeOK /\ Bodies /\ Control
  BY DEF Decrement, IInv
<1>3. UNCHANGED <<graph, saved, round, alloc, backup, reused, done, cur, last, nxt,
                  toSpawn, stack, close>>
  BY DEF Decrement, graphVars
<1>4. t \in Owes(th)
  BY <1>2 DEF Owes
<1>5. Executing /\ Live /\ graph \in Graphs /\ c \in graph.node
  BY <1>4, OwedPending, Activity, GraphFacts
<1>6. t # last[th]
  <2>1. t \in graph.succ[c] /\ last[th] \in Vertical(graph, c) \cup {NoTask}
    BY <1>2, <1>4 DEF Bodies
  <2>2. graph.vert[c] \notin graph.succ[c] /\ NoTask \notin graph.succ[c]
    BY <1>5, GraphFacts
  <2> QED BY <2>1, <2>2 DEF Vertical
<1>7. /\ todo' \in [Thread -> SUBSET Task]
      /\ todo'[th] = todo[th] \ {t}
      /\ \A x \in Thread \ {th} : todo'[x] = todo[x]
  BY <1>1, <1>2 DEF TypeOK
<1>8. /\ pc' \in [Thread -> Label \cup MainLabel \cup {"exited"}]
      /\ pc'[th] \in {"dec", "push"}
      /\ pc'[th] = "push" <=> ref[t] - 1 = 0
      /\ \A x \in Thread \ {th} : pc'[x] = pc[x]
      /\ pc'[Main] = "spawn" <=> pc[Main] = "spawn"
      /\ SamePhase
  <2>1. CASE ref[t] - 1 = 0
    BY <1>1, <1>2, <2>1, LoopStepFacts DEF Label
  <2>2. CASE ref[t] - 1 # 0
    BY <1>1, <1>2, <2>2 DEF TypeOK, SamePhase
  <2> QED BY <2>1, <2>2
<1>9. /\ Owes(th)' = Owes(th) \ {t}
      /\ \A x \in Thread \ {th} : Owes(x)' = Owes(x)
  BY <1>2, <1>3, <1>6, <1>7, <1>8 DEF Owes
<1>10. /\ t \in Task /\ t # NoTask /\ ~IsReady(t)
       /\ \A u : IsReady(u) => IsReady(u)'
       /\ ref[t] - 1 = 0 => IsReady(t)'
       /\ ref' \in [Task -> Int]
       /\ Counts' /\ Stored'
  BY <1>1, <1>3, <1>4, <1>8, <1>9, Release
<1>11. hand[th] = NoTask /\ nxt[th] = NoTask
  BY <1>2 DEF Control
<1>12. /\ hand' \in [Thread -> Task \cup {NoTask}]
       /\ hand'[th] = IF ref[t] - 1 = 0 THEN t ELSE NoTask
       /\ \A x \in Thread \ {th} : hand'[x] = hand[x]
  BY <1>1, <1>2, <1>10, <1>11 DEF TypeOK
<1>13. /\ Ready(th) = {}
       /\ Ready(th)' = IF ref[t] - 1 = 0 THEN {t} ELSE {}
       /\ \A x \in Thread \ {th} : Ready(x)' = Ready(x)
  BY <1>2, <1>3, <1>8, <1>10, <1>11, <1>12 DEF Ready
<1>14. TypeOK'
  BY <1>2, <1>3, <1>7, <1>8, <1>10, <1>12 DEF TypeOK
<1>15. Control'
  <2>1. (Live' <=> Live) /\ (pc'[Main] = "built" <=> pc[Main] = "built")
        /\ (pc'[Main] \in {"join", "halted"} <=> pc[Main] \in {"join", "halted"})
    BY <1>8, Phase DEF MainLabel
  <2> QED BY <1>2, <1>3, <1>7, <1>8, <1>10, <1>11, <1>12, <2>1, ExecAssumption
          DEF Control, Worker, Label
<1>16. Quiet'
  BY <1>5, <1>8, Phase DEF Quiet
<1>17. Places' /\ Unique'
  BY <1>3, <1>10, <1>13, NewReady
<1>18. Bodies'
  <2>1. \A x \in Thread : Owes(x)' # {} => Owes(x) # {}
    BY <1>9
  <2> QED BY <1>2, <1>3, <1>7, <2>1 DEF Bodies
<1>19. Memory'
  <2>1. \A x \in Thread : pc'[x] \in {"dec", "push", "fin"} => pc[x] \in {"dec", "push", "fin"}
    BY <1>2, <1>8
  <2>2. Open => \A x \in Thread : pc'[x] = "run" => cur'[x] \in alloc
    BY <1>3, <1>8 DEF IInv, Memory
  <2> QED BY <1>3, <1>8, <2>1, <2>2, MemoryFrame
<1> QED BY <1>10, <1>14, <1>15, <1>16, <1>17, <1>18, <1>19 DEF IInv

LEMMA DecrementVerticalStep ==
  ASSUME IInv, NEW th \in Thread, DecrementVertical(th)
  PROVE  IInv'
<1>0. PICK v : v = last[th]
  OBVIOUS
<1>1. /\ pc[th] = "dec" /\ todo[th] = {} /\ Goto(th, "fin")
      /\ last' = [last EXCEPT ![th] = NoTask]
      /\ TypeOK /\ Bodies /\ Control
  BY DEF DecrementVertical, IInv
<1>2. UNCHANGED <<graph, saved, round, alloc, backup, reused, done, cur, todo, hand,
                  toSpawn, stack, close>>
  BY DEF DecrementVertical, graphVars
<1>3. /\ SamePhase
      /\ pc' \in [Thread -> Label \cup MainLabel \cup {"exited"}]
      /\ pc'[th] = "fin"
      /\ \A x \in Thread \ {th} : pc'[x] = pc[x]
      /\ pc'[Main] = "spawn" <=> pc[Main] = "spawn"
  BY <1>1, LoopStepFacts DEF Label
<1>4. /\ last' \in [Thread -> Task \cup {NoTask}]
      /\ last'[th] = NoTask
      /\ \A x \in Thread \ {th} : last'[x] = last[x]
  BY <1>1 DEF TypeOK
<1>5. /\ Owes(th) = {v} \ {NoTask} /\ Owes(th)' = {}
      /\ \A x \in Thread \ {th} : Owes(x)' = Owes(x)
  BY <1>0, <1>1, <1>2, <1>3, <1>4 DEF Owes
<1>6. hand[th] = NoTask /\ nxt[th] = NoTask
  BY <1>1 DEF Control
<1>7. /\ ref' \in [Task -> Int]
      /\ nxt' \in [Thread -> Task \cup {NoTask}]
      /\ nxt'[th] \in {NoTask, v}
      /\ \A x \in Thread \ {th} : nxt'[x] = nxt[x]
      /\ Counts' /\ Stored' /\ Places' /\ Unique' /\ Quiet'
  <2>1. CASE v = NoTask
    <3>1. UNCHANGED <<ref, nxt>> /\ \A x \in Thread : Owes(x)' = Owes(x)
      BY <1>0, <1>5, <2>1 DEF DecrementVertical
    <3>2. \A x \in Thread : Owes(x) # {} => x # th
      BY <1>5, <2>1
    <3>3. \A x \in Thread : Ready(x)' = Ready(x)
      BY <1>1, <1>2, <1>3, <3>1 DEF Ready
    <3>4. /\ \A t : IsReady(t)' <=> IsReady(t)
          /\ Counts' /\ Stored'
      BY <1>2, <1>3, <1>4, <3>1, <3>2, ExecFrame
    <3>5. Places' /\ Unique'
      BY <1>2, <3>3, <3>4, PlacesFrame
    <3>6. Quiet'
      BY <1>2, <1>3, <3>1, <3>3, Phase DEF IInv, Quiet
    <3> QED BY <1>1, <1>6, <3>1, <3>4, <3>5, <3>6 DEF TypeOK
  <2>2. CASE v # NoTask
    <3>1. /\ v \in Owes(th)
          /\ ref' = [ref EXCEPT ![v] = @ - 1]
          /\ nxt' = [nxt EXCEPT ![th] = IF ref[v] - 1 = 0 THEN v ELSE NoTask]
          /\ Owes(th)' = Owes(th) \ {v}
      BY <1>0, <1>5, <2>2 DEF DecrementVertical, Released
    <3>2. /\ v \in Task /\ ~IsReady(v)
          /\ \A u : IsReady(u) => IsReady(u)'
          /\ ref[v] - 1 = 0 => IsReady(v)'
          /\ ref' \in [Task -> Int]
          /\ Counts' /\ Stored'
      <4>1. \A x \in Thread \ {th} : Owes(x)' = Owes(x)
        BY <1>5
      <4> QED BY <1>2, <1>3, <3>1, <4>1, Release
    <3>3. /\ nxt' \in [Thread -> Task \cup {NoTask}]
          /\ nxt'[th] = IF ref[v] - 1 = 0 THEN v ELSE NoTask
          /\ \A x \in Thread \ {th} : nxt'[x] = nxt[x]
      BY <1>1, <3>1, <3>2 DEF TypeOK
    <3>4. /\ Ready(th) = {}
          /\ Ready(th)' = IF ref[v] - 1 = 0 THEN {v} ELSE {}
          /\ \A x \in Thread \ {th} : Ready(x)' = Ready(x)
      BY <1>1, <1>2, <1>3, <1>6, <2>2, <3>3 DEF Ready
    <3>5. Places' /\ Unique'
      <4>1. Ready(th)' \subseteq {v} /\ (v \in Ready(th)' => IsReady(v)')
        BY <3>2, <3>4
      <4> QED BY <1>2, <3>2, <3>4, <4>1, NewReady
    <3>6. Quiet'
      BY <1>3, <3>1, Activity, Phase DEF Quiet
    <3> QED BY <3>2, <3>3, <3>5, <3>6
  <2> QED BY <2>1, <2>2
<1>8. TypeOK'
  BY <1>1, <1>2, <1>3, <1>4, <1>7 DEF TypeOK
<1>9. Control'
  <2>1. (Live' <=> Live) /\ (pc'[Main] = "built" <=> pc[Main] = "built")
        /\ (pc'[Main] \in {"join", "halted"} <=> pc[Main] \in {"join", "halted"})
    BY <1>1, <1>3, Phase DEF MainLabel
  <2> QED BY <1>1, <1>2, <1>3, <1>4, <1>6, <1>7, <2>1, ExecAssumption
          DEF Control, Worker, Label
<1>10. Bodies'
  BY <1>1, <1>2, <1>4, <1>5 DEF Bodies
<1>11. Memory'
  <2>1. \A x \in Thread : pc'[x] \in {"dec", "push", "fin"} => pc[x] \in {"dec", "push", "fin"}
    BY <1>1, <1>3
  <2>2. Open => \A x \in Thread : pc'[x] = "run" => cur'[x] \in alloc
    BY <1>2, <1>3 DEF IInv, Memory
  <2> QED BY <1>2, <1>3, <2>1, <2>2, MemoryFrame
<1> QED BY <1>7, <1>8, <1>9, <1>10, <1>11 DEF IInv

LEMMA RunBodyStep ==
  ASSUME IInv, NEW th \in Thread, RunBody(th)
  PROVE  IInv'
<1>0. PICK c : c = cur[th]
  OBVIOUS
<1>1. /\ pc[th] = "run" /\ Goto(th, "dec")
      /\ ref' = IF reused[c] THEN [ref EXCEPT ![c] = backup[c]] ELSE ref
      /\ done' = done \cup {c}
      /\ todo' = [todo EXCEPT ![th] = graph.succ[c]]
      /\ last' = [last EXCEPT ![th] = graph.vert[c]]
  BY <1>0 DEF RunBody, Restored
<1>2. TypeOK /\ Control /\ Bodies /\ Counts /\ Stored /\ Memory /\ Places /\ Unique
  BY DEF IInv
<1>3. UNCHANGED <<graph, saved, round, alloc, backup, reused, cur, hand, nxt,
                  toSpawn, stack, close>>
  BY DEF RunBody, graphVars
<1>4. /\ SamePhase
      /\ pc' \in [Thread -> Label \cup MainLabel \cup {"exited"}]
      /\ pc'[th] = "dec"
      /\ \A x \in Thread \ {th} : pc'[x] = pc[x]
      /\ pc'[Main] = "spawn" <=> pc[Main] = "spawn"
  BY <1>1, <1>2, LoopStepFacts DEF Label
<1>5. c # NoTask /\ hand[th] = NoTask /\ nxt[th] = NoTask
  BY <1>0, <1>1, <1>2 DEF Control
<1>6. Ready(th) = {c} /\ Ready(th)' = {} /\ \A x \in Thread \ {th} : Ready(x)' = Ready(x)
  BY <1>0, <1>1, <1>3, <1>4, <1>5 DEF Ready
<1>7. IsReady(c)
  BY <1>2, <1>6 DEF Places
<1>8. Executing /\ Live /\ graph \in Graphs /\ pc[Main] # "built" /\ ~Returning
  BY <1>6, Activity DEF Executing, Returning, Label
<1>9. c \in Task /\ c \in graph.node /\ c # graph.end /\ c \in Work(graph) /\ c \notin done
  BY <1>7, <1>8, ReadyExists DEF IsReady
<1>10. /\ graph.succ[c] \subseteq graph.node /\ graph.vert[c] \in graph.node \cup {NoTask}
       /\ graph.node \subseteq Task
  BY <1>8, <1>9, GraphFacts
<1>11. /\ todo' \in [Thread -> SUBSET Task] /\ last' \in [Thread -> Task \cup {NoTask}]
       /\ todo'[th] = graph.succ[c] /\ last'[th] = graph.vert[c]
       /\ \A x \in Thread \ {th} : todo'[x] = todo[x] /\ last'[x] = last[x]
  BY <1>1, <1>2, <1>10 DEF TypeOK
<1>12. /\ Owes(th) = {} /\ Owes(th)' = Out(graph, c)
       /\ \A x \in Thread \ {th} : Owes(x)' = Owes(x)
  BY <1>1, <1>3, <1>4, <1>11 DEF Owes, Out, Vertical
<1>13. \A t : Pending(t)' = Pending(t)
  <2>1. ASSUME NEW t, NEW p, p \in Pending(t) PROVE p \in Pending(t)'
    <3>1. p \in Preds(graph, t)
      BY <2>1 DEF Pending
    <3>2. CASE p = c
      BY <1>0, <1>3, <1>12, <3>1, <3>2 DEF Pending, Preds
    <3>3. CASE p # c /\ p \notin done
      BY <1>1, <1>3, <3>1, <3>3 DEF Pending
    <3>4. CASE \E x \in Thread : cur[x] = p /\ t \in Owes(x)
      BY <1>3, <1>12, <3>1, <3>4 DEF Pending
    <3> QED BY <2>1, <3>2, <3>3, <3>4 DEF Pending
  <2>2. ASSUME NEW t, NEW p, p \in Pending(t)' PROVE p \in Pending(t)
    <3>1. p \in Preds(graph, t)
      BY <1>3, <2>2 DEF Pending
    <3>2. CASE p = c
      BY <1>9, <3>1, <3>2 DEF Pending
    <3>3. CASE p # c
      BY <1>0, <1>1, <1>3, <1>12, <2>2, <3>1, <3>3 DEF Pending
    <3> QED BY <3>2, <3>3
  <2> QED BY <2>1, <2>2
<1>14. \A u : IsReady(u) /\ u # c => IsReady(u)'
  BY <1>1, <1>3, <1>13 DEF IsReady
<1>15. /\ ref' \in [Task -> Int]
       /\ reused[c] => ref'[c] = backup[c]
       /\ \A u \in Task \ {c} : ref'[u] = ref[u]
  BY <1>1, <1>2, <1>9 DEF TypeOK
<1>16. TypeOK'
  BY <1>1, <1>2, <1>3, <1>4, <1>9, <1>11, <1>15 DEF TypeOK
<1>17. Control'
  <2>1. (Live' <=> Live) /\ (pc'[Main] = "built" <=> pc[Main] = "built")
        /\ (pc'[Main] \in {"join", "halted"} <=> pc[Main] \in {"join", "halted"})
    BY <1>4, Phase DEF MainLabel
  <2> QED BY <1>0, <1>1, <1>2, <1>3, <1>4, <1>5, <1>8, <1>11, <2>1, ExecAssumption
          DEF Control, Worker, Label
<1>18. Quiet'
  BY <1>4, <1>8, Phase DEF Quiet
<1>19. /\ c \notin toSpawn
       /\ \A x \in Thread \ {th} : c \notin Ready(x)
       /\ \A x \in Thread : \A i \in 1 .. Len(stack[x]) : stack[x][i] # c
  BY <1>2, <1>6 DEF Unique
<1>20. Places'
  BY <1>2, <1>3, <1>6, <1>14, <1>19 DEF Places
<1>21. Unique'
  <2>1. \A x \in Thread : Ready(x)' \subseteq Ready(x)
    BY <1>6
  <2> QED BY <1>2, <1>3, <2>1 DEF Unique
<1>22. Bodies'
  <2>1. ASSUME NEW x \in Thread, Owes(x)' # {}
        PROVE  /\ cur'[x] \in done'
               /\ todo'[x] \subseteq graph'.succ[cur'[x]]
               /\ last'[x] \in Vertical(graph', cur'[x]) \cup {NoTask}
    <3>1. CASE x = th
      BY <1>0, <1>1, <1>3, <1>11, <3>1 DEF Vertical
    <3>2. CASE x # th
      BY <1>1, <1>2, <1>3, <1>11, <1>12, <2>1, <3>2 DEF Bodies
    <3> QED BY <3>1, <3>2
  <2>2. ASSUME NEW x \in Thread, NEW y \in Thread, Owes(x)' # {}, Owes(y)' # {},
               cur'[x] = cur'[y]
        PROVE  x = y
    <3>1. \A z \in Thread \ {th} : Owes(z) # {} => cur[z] # c
      BY <1>2, <1>9 DEF Bodies
    <3> QED BY <1>0, <1>2, <1>3, <1>12, <2>2, <3>1 DEF Bodies
  <2> QED BY <2>1, <2>2 DEF Bodies
<1>23. Counts'
  <2>1. (Live' <=> Live) /\ ~Returning' /\ pc'[Main] # "built"
    BY <1>4, <1>8, Phase DEF MainLabel
  <2>2. done' \subseteq Work(graph) /\ graph.end \in Task
    BY <1>1, <1>2, <1>8, <1>9, <1>10, GraphFacts DEF Counts
  <2>3. ASSUME NEW t \in done'
        PROVE  Pending(t)' = {} /\ (reused[t] => ref'[t] = backup[t])
    <3>1. CASE t = c
      BY <1>7, <1>13, <1>15, <3>1 DEF IsReady
    <3>2. CASE t # c
      <4>1. t \in done /\ t \in Task
        BY <1>1, <1>2, <2>3, <3>2 DEF TypeOK
      <4> QED BY <1>2, <1>8, <1>13, <1>15, <3>2, <4>1 DEF Counts
    <3> QED BY <3>1, <3>2
  <2>4. ASSUME NEW t \in Work(graph) \ done'
        PROVE  ref'[t] = Cardinality(Pending(t)')
    <3>1. t \in Work(graph) \ done /\ t # c
      BY <1>1, <2>4
    <3>2. t \in Task
      BY <1>8, <1>10, <3>1, GraphFacts
    <3> QED BY <1>2, <1>8, <1>13, <1>15, <3>1, <3>2 DEF Counts
  <2>5. ref'[graph.end] = Cardinality(Pending(graph.end)') + 1
    <3>1. ref[graph.end] = Cardinality(Pending(graph.end)) + 1
      BY <1>2, <1>8 DEF Counts
    <3>2. ref'[graph.end] = ref[graph.end]
      BY <1>9, <1>15, <2>2
    <3>3. Pending(graph.end)' = Pending(graph.end)
      BY <1>3, <1>13
    <3> QED BY <3>1, <3>2, <3>3
  <2> QED BY <1>3, <2>1, <2>2, <2>3, <2>4, <2>5 DEF Counts
<1>24. Stored'
  <2>1. Live' <=> Live
    BY <1>4, Phase
  <2>2. SUFFICES ASSUME saved # NoTask PROVE Stored'
    BY <1>3 DEF Stored
  <2>3. saved \in Graphs /\ saved.node \subseteq Task
    BY <1>2, <2>2, GraphFacts DEF TypeOK
  <2>4. graph # saved => c \notin saved.node
    BY <1>2, <1>8, <1>9, <2>2 DEF Stored
  <2> QED BY <1>2, <1>3, <1>8, <1>15, <2>1, <2>2, <2>3, <2>4 DEF Stored
<1>25. Memory'
  <2>1. SUFFICES ASSUME Open PROVE Memory'
    BY <1>4, Phase DEF Memory
  <2>2. (Live' <=> Live) /\ (pc'[Main] = "post" <=> pc[Main] = "post")
    BY <1>4, Phase DEF MainLabel
  <2>3. saved # NoTask => saved.node \subseteq alloc
    BY <1>2, <2>1 DEF Memory
  <2>4. Work(graph) \ done' \subseteq alloc /\ (pc[Main] # "post" => graph.end \in alloc)
    BY <1>1, <1>2, <1>8, <2>1 DEF Memory
  <2>5. \A x \in Thread : pc'[x] \in {"run", "dec", "push", "fin"} => cur[x] \in alloc
    BY <1>1, <1>2, <1>4, <2>1 DEF Memory
  <2>6. \A x \in Thread \ {th} :
          pc[x] \in {"dec", "push", "fin"} /\ ~reused[cur[x]] => cur[x] # c
    BY <1>2, <1>8, <1>9, <2>1 DEF Memory
  <2>7. ASSUME NEW x \in Thread, pc'[x] \in {"dec", "push", "fin"}, ~reused[cur[x]]
        PROVE  /\ cur[x] \notin graph.node \ done'
               /\ \A y \in Thread \ {x} : pc'[y] \in {"dec", "push", "fin"} => cur[y] # cur[x]
    <3>1. CASE x = th
      <4>1. \A y \in Thread \ {th} : pc[y] \in {"dec", "push", "fin"} => cur[y] # c
        BY <1>0, <2>6, <2>7, <3>1
      <4> QED BY <1>0, <1>1, <1>4, <3>1, <4>1
    <3>2. CASE x # th
      <4>1. pc[x] \in {"dec", "push", "fin"} /\ cur[x] # c
        BY <1>4, <2>6, <2>7, <3>2
      <4>2. /\ cur[x] \notin graph.node \ done
            /\ \A y \in Thread \ {x} : pc[y] \in {"dec", "push", "fin"} => cur[y] # cur[x]
        BY <1>2, <1>8, <2>1, <2>7, <4>1 DEF Memory
      <4> QED BY <1>0, <1>1, <1>4, <4>1, <4>2
    <3> QED BY <3>1, <3>2
  <2> QED BY <1>3, <1>8, <2>1, <2>2, <2>3, <2>4, <2>5, <2>7 DEF Memory
<1> QED BY <1>16, <1>17, <1>18, <1>20, <1>21, <1>22, <1>23, <1>24, <1>25 DEF IInv

\* Outside the wait loop the queues are empty and no thread has a task to run, so
\* every main step that touches none of them keeps them so.
LEMMA QuietFrame ==
  ASSUME IInv, ~Executing, NEW l, Goto(Main, l), l \in MainLabel \ {"spawn"},
         UNCHANGED <<cur, todo, last, hand, nxt, toSpawn, stack>>,
         pc[Main] \in MainLabel \ {"spawn"}
  PROVE  /\ pc' \in [Thread -> Label \cup MainLabel \cup {"exited"}]
         /\ pc'[Main] = l
         /\ \A x \in Thread \ {Main} : pc'[x] = pc[x]
         /\ \A x \in Thread : Owes(x) = {} /\ Owes(x)' = {}
         /\ Quiet' /\ Places' /\ Unique' /\ Bodies'
<1>1. TypeOK /\ Control /\ Quiet
  BY DEF IInv
<1>2. /\ pc' \in [Thread -> Label \cup MainLabel \cup {"exited"}]
      /\ pc'[Main] = l
      /\ \A x \in Thread \ {Main} : pc'[x] = pc[x]
  BY <1>1, ExecAssumption DEF TypeOK, Goto
<1>3. \A x \in Thread : Ready(x) = {} /\ Owes(x) = {} /\ stack[x] = <<>>
  BY <1>1 DEF Quiet
<1>4. \A x \in Thread : Owes(x)' = {}
  BY <1>2, <1>3 DEF Owes, MainLabel
<1>5. ASSUME NEW x \in Thread PROVE Ready(x)' = {}
  BY <1>2, <1>3 DEF Ready, MainLabel
<1>6. toSpawn = {}
  BY <1>1 DEF Control
<1>7. \A x \in Thread : Len(stack'[x]) = 0
  BY <1>3
<1>8. Places' /\ Unique'
  BY <1>5, <1>6, <1>7 DEF Places, Unique
<1> QED BY <1>2, <1>3, <1>4, <1>5, <1>8 DEF Quiet, Bodies

\* A graph is about to be executed: nothing of it has run.
LEMMA StartFrame ==
  ASSUME IInv, pc[Main] = "idle", Goto(Main, "built"), graph' \in Graphs, done' = {},
         UNCHANGED <<cur, todo, last, hand, nxt, toSpawn, stack, close>>
  PROVE  /\ ~Live /\ Live' /\ Open /\ Open' /\ ~Returning'
         /\ pc' \in [Thread -> Label \cup MainLabel \cup {"exited"}]
         /\ pc'[Main] = "built"
         /\ \A x \in Thread \ {Main} : pc'[x] = pc[x]
         /\ \A t : Pending(t)' = Preds(graph', t)
         /\ Control' /\ Quiet' /\ Places' /\ Unique' /\ Bodies'
<1>1. ~Executing /\ ~Live /\ Open /\ TypeOK /\ Control
  BY DEF Executing, Live, Open, Label, IInv
<1>2. /\ pc' \in [Thread -> Label \cup MainLabel \cup {"exited"}]
      /\ pc'[Main] = "built"
      /\ \A x \in Thread \ {Main} : pc'[x] = pc[x]
      /\ \A x \in Thread : Owes(x) = {} /\ Owes(x)' = {}
      /\ Quiet' /\ Places' /\ Unique' /\ Bodies'
  BY <1>1, QuietFrame DEF MainLabel
<1>3. Live' /\ Open' /\ ~Returning'
  BY <1>2 DEF Live, Open, Returning
<1>4. \A t : Pending(t)' = Preds(graph', t)
  BY DEF Pending, Preds
<1>5. Control'
  BY <1>1, <1>2, ExecAssumption DEF Control, Worker, MainLabel
<1> QED BY <1>1, <1>2, <1>3, <1>4, <1>5

LEMMA BuildFreshStep ==
  ASSUME IInv, NEW g \in Graphs, NEW store \in BOOLEAN, BuildFresh(g, store)
  PROVE  IInv'
<1>1. PICK flag \in [g.node -> GarbageFlag], count \in GarbageRef :
        /\ reused' = [t \in Task |-> IF t \notin g.node THEN reused[t]
                                     ELSE store \/ flag[t]]
        /\ backup' = [t \in Task |-> IF t \notin g.node THEN backup[t]
                                     ELSE IF store THEN Indegree(g, t) ELSE count]
  BY DEF BuildFresh
<1>2. /\ pc[Main] = "idle" /\ Goto(Main, "built")
      /\ graph' = g /\ done' = {}
      /\ round' = round + 1
      /\ g.node \cap alloc = {} /\ alloc' = alloc \cup g.node
      /\ store => saved = NoTask
      /\ saved' = IF store THEN g ELSE saved
      /\ ref' = [t \in Task |-> IF t \in g.node THEN Indegree(g, t) ELSE ref[t]]
      /\ UNCHANGED <<cur, todo, last, hand, nxt, toSpawn, stack, close>>
  BY DEF BuildFresh
<1>3. TypeOK /\ Stored /\ Memory
  BY DEF IInv
<1>4. /\ ~Live /\ Live' /\ Open /\ Open' /\ ~Returning'
      /\ pc' \in [Thread -> Label \cup MainLabel \cup {"exited"}]
      /\ pc'[Main] = "built"
      /\ \A x \in Thread \ {Main} : pc'[x] = pc[x]
      /\ \A t : Pending(t)' = Preds(g, t)
      /\ Control' /\ Quiet' /\ Places' /\ Unique' /\ Bodies'
  BY <1>2, StartFrame
<1>5. g.node \subseteq Task /\ g.end \in g.node /\ g.end \notin Work(g)
      /\ Work(g) \subseteq g.node /\ \A t : Indegree(g, t) \in Nat
  BY GraphFacts, PredsFinite
<1>6. /\ ref' \in [Task -> Int]
      /\ \A t \in g.node : ref'[t] = Indegree(g, t)
      /\ \A t \in Task \ g.node : ref'[t] = ref[t]
  BY <1>2, <1>3, <1>5 DEF TypeOK
<1>7. /\ reused' \in [Task -> BOOLEAN]
      /\ store => \A t \in g.node : reused'[t]
      /\ \A t \in Task \ g.node : reused'[t] = reused[t]
  <2>1. \A t \in g.node : flag[t] \in BOOLEAN
    BY ExecAssumption
  <2>2. ASSUME NEW t \in Task \ g.node PROVE reused[t] \in BOOLEAN
    BY <1>3 DEF TypeOK
  <2> QED BY <1>1, <1>5, <2>1, <2>2, Zenon
<1>8. /\ backup' \in [Task -> Int]
      /\ store => \A t \in g.node : backup'[t] = Indegree(g, t)
      /\ \A t \in Task \ g.node : backup'[t] = backup[t]
  <2>1. count \in Int
    BY ExecAssumption
  <2> QED BY <1>1, <1>3, <1>5, <2>1 DEF TypeOK
<1>9. TypeOK'
  BY <1>2, <1>3, <1>4, <1>5, <1>6, <1>7, <1>8 DEF TypeOK
<1>10. Counts'
  <2>1. \A t \in g.node : ref'[t] = Cardinality(Pending(t)')
    BY <1>4, <1>6 DEF Indegree
  <2>2. ref'[g.end] = Cardinality(Pending(g.end)') + 0
    BY <1>4, <1>5, <1>6 DEF Indegree
  <2> QED BY <1>2, <1>4, <1>5, <2>1, <2>2 DEF Counts
<1>11. saved # NoTask => ~store /\ saved \in Graphs /\ saved.node \subseteq Task
                         /\ saved.node \cap g.node = {}
  <2>1. SUFFICES ASSUME saved # NoTask
                 PROVE  ~store /\ saved \in Graphs /\ saved.node \subseteq Task
                        /\ saved.node \cap g.node = {}
    OBVIOUS
  <2>2. saved \in Graphs /\ ~store
    BY <1>2, <1>3, <2>1 DEF TypeOK
  <2>3. saved.node \subseteq alloc
    BY <1>3, <1>4, <2>1 DEF Memory
  <2> QED BY <1>2, <2>2, <2>3, GraphFacts
<1>12. Stored'
  <2>1. CASE store
    BY <1>2, <1>4, <1>7, <1>8, <2>1 DEF Stored
  <2>2. CASE ~store
    <3>1. saved' = saved
      BY <1>2, <2>2
    <3>2. SUFFICES ASSUME saved # NoTask PROVE Stored'
      BY <3>1 DEF Stored
    <3>3. \A t \in saved.node : /\ ref'[t] = ref[t] /\ reused'[t] = reused[t]
                                /\ backup'[t] = backup[t]
      BY <1>6, <1>7, <1>8, <1>11, <3>2
    <3>4. \A t \in saved.node : /\ ref[t] = Indegree(saved, t) /\ reused[t]
                                /\ backup[t] = Indegree(saved, t)
      BY <1>3, <1>4, <3>2 DEF Stored
    <3> QED BY <1>2, <1>11, <3>1, <3>2, <3>3, <3>4 DEF Stored
  <2> QED BY <2>1, <2>2
<1>13. Memory'
  <2>1. saved' # NoTask => saved'.node \subseteq alloc'
    BY <1>2, <1>3, <1>4 DEF Memory
  <2>2. Work(g) \subseteq alloc' /\ g.end \in alloc'
    BY <1>2, <1>5
  <2>3. \A x \in Thread : pc'[x] \in {"run", "dec", "push", "fin"} =>
          pc[x] = pc'[x] /\ cur[x] \in alloc /\ cur[x] \in Task \ g.node
    BY <1>2, <1>3, <1>4 DEF Memory, TypeOK
  <2>4. ASSUME NEW x \in Thread, pc'[x] \in {"dec", "push", "fin"}, ~reused'[cur[x]]
        PROVE  /\ cur[x] \notin g.node
               /\ \A y \in Thread \ {x} : pc'[y] \in {"dec", "push", "fin"} => cur[y] # cur[x]
    <3>1. pc[x] \in {"dec", "push", "fin"} /\ cur[x] \in Task \ g.node
      BY <2>3, <2>4
    <3>2. ~reused[cur[x]]
      BY <1>7, <2>4, <3>1
    <3> QED BY <1>3, <1>4, <2>3, <3>1, <3>2 DEF Memory
  <2> QED BY <1>2, <2>1, <2>2, <2>3, <2>4 DEF Memory
<1> QED BY <1>4, <1>9, <1>10, <1>12, <1>13 DEF IInv

LEMMA ResumeStep ==
  ASSUME IInv, Resume
  PROVE  IInv'
<1>1. /\ pc[Main] = "idle" /\ Goto(Main, "built")
      /\ saved # NoTask /\ graph' = saved /\ done' = {} /\ round' = round + 1
      /\ UNCHANGED <<saved, alloc, ref, backup, reused, cur, todo, last, hand, nxt,
                     toSpawn, stack, close>>
  BY DEF Resume
<1>2. TypeOK /\ Stored /\ Memory
  BY DEF IInv
<1>3. saved \in Graphs
  BY <1>1, <1>2 DEF TypeOK
<1>4. /\ ~Live /\ Live' /\ Open /\ Open' /\ ~Returning'
      /\ pc' \in [Thread -> Label \cup MainLabel \cup {"exited"}]
      /\ pc'[Main] = "built"
      /\ \A x \in Thread \ {Main} : pc'[x] = pc[x]
      /\ \A t : Pending(t)' = Preds(saved, t)
      /\ Control' /\ Quiet' /\ Places' /\ Unique' /\ Bodies'
  BY <1>1, <1>3, StartFrame
<1>5. saved.end \in saved.node /\ saved.end \notin Work(saved) /\ Work(saved) \subseteq saved.node
  BY <1>3, GraphFacts
<1>6. TypeOK'
  BY <1>1, <1>2, <1>3, <1>4 DEF TypeOK
<1>7. Counts'
  <2>1. \A t \in saved.node : ref[t] = Cardinality(Pending(t)') /\ ref[t] \in Nat
    BY <1>1, <1>2, <1>3, <1>4, PredsFinite DEF Stored, Indegree
  <2>2. ref[saved.end] = Cardinality(Pending(saved.end)') + 0
    BY <1>1, <1>5, <2>1
  <2> QED BY <1>1, <1>4, <1>5, <2>1, <2>2 DEF Counts
<1>8. Stored'
  BY <1>1, <1>2, <1>4 DEF Stored
<1>9. Memory'
  <2>1. saved.node \subseteq alloc
    BY <1>1, <1>2, <1>4 DEF Memory
  <2>2. \A x \in Thread : pc'[x] \in {"run", "dec", "push", "fin"} => pc[x] = pc'[x]
    BY <1>4
  <2>3. ASSUME NEW x \in Thread, pc'[x] \in {"dec", "push", "fin"}, ~reused[cur[x]]
        PROVE  /\ cur[x] \notin saved.node
               /\ \A y \in Thread \ {x} : pc'[y] \in {"dec", "push", "fin"} => cur[y] # cur[x]
    BY <1>1, <1>2, <1>4, <2>2, <2>3 DEF Memory, Stored
  <2> QED BY <1>1, <1>2, <1>4, <1>5, <2>1, <2>2, <2>3 DEF Memory
<1> QED BY <1>4, <1>6, <1>7, <1>8, <1>9 DEF IInv

LEMMA BeginSpawnStep ==
  ASSUME IInv, BeginSpawn
  PROVE  IInv'
<1>1. /\ pc[Main] = "built" /\ Goto(Main, "spawn")
      /\ ref' = [ref EXCEPT ![graph.end] = @ + 1]
      /\ toSpawn' = Roots(graph)
      /\ UNCHANGED <<graph, saved, round, alloc, backup, reused, done, cur, todo, last,
                     hand, nxt, stack, close>>
  BY DEF BeginSpawn, graphVars
<1>2. TypeOK /\ Control /\ Quiet /\ Counts /\ Stored /\ Memory
  BY DEF IInv
<1>3. Live /\ Open /\ ~Executing /\ ~Returning /\ graph \in Graphs
  <2>1. Live /\ ~Executing /\ ~Returning
    BY <1>1 DEF Live, Executing, Returning, Label
  <2> QED BY <2>1, Activity
<1>4. /\ pc' \in [Thread -> Label \cup MainLabel \cup {"exited"}]
      /\ pc'[Main] = "spawn"
      /\ \A x \in Thread \ {Main} : pc'[x] = pc[x]
      /\ Live' /\ Open' /\ Executing' /\ ~Returning'
  BY <1>1, <1>2, ExecAssumption DEF TypeOK, Goto, MainLabel, Live, Open, Executing, Returning
<1>5. graph.end \in graph.node /\ graph.end \notin Work(graph) /\ graph.node \subseteq Task
      /\ Work(graph) \subseteq graph.node /\ NoTask \notin graph.node
  BY <1>3, GraphFacts
<1>6. done = {} /\ toSpawn = {}
  BY <1>1, <1>2 DEF Control
<1>7. \A x \in Thread : Ready(x) = {} /\ Owes(x) = {} /\ stack[x] = <<>>
  BY <1>2, <1>3 DEF Quiet
<1>8. \A x \in Thread : Ready(x)' = {} /\ Owes(x)' = {}
  BY <1>1, <1>4, <1>7 DEF Ready, Owes
<1>9. \A t : Pending(t)' = Pending(t)
  BY <1>1, <1>7, <1>8, PendingKept
<1>10. \A t \in Roots(graph) : IsReady(t)'
  BY <1>1, <1>6, <1>9 DEF Roots, IsReady, Pending
<1>11. /\ ref' \in [Task -> Int]
       /\ ref'[graph.end] = ref[graph.end] + 1
       /\ \A t \in Task \ {graph.end} : ref'[t] = ref[t]
  BY <1>1, <1>2, <1>5 DEF TypeOK
<1>12. TypeOK'
  <2>1. Roots(graph) \subseteq Task
    BY <1>5 DEF Roots
  <2> QED BY <1>1, <1>2, <1>4, <1>11, <2>1 DEF TypeOK
<1>13. Control'
  BY <1>1, <1>2, <1>3, <1>4, ExecAssumption DEF Control, Worker, MainLabel, Label
<1>14. Quiet'
  BY <1>4 DEF Quiet
<1>15. Places' /\ Unique'
  <2>1. \A x \in Thread : Len(stack'[x]) = 0
    BY <1>1, <1>7
  <2> QED BY <1>1, <1>8, <1>10, <2>1 DEF Places, Unique
<1>16. Bodies'
  BY <1>8 DEF Bodies
<1>17. Counts'
  <2>1. ref[graph.end] = Cardinality(Pending(graph.end)) + 0
    BY <1>1, <1>2, <1>3 DEF Counts
  <2>2. ref'[graph.end] = Cardinality(Pending(graph.end)') + 1
    <3>1. Cardinality(Pending(graph.end)) \in Nat
      BY <1>3, PendingFinite
    <3>2. Pending(graph.end)' = Pending(graph.end)
      BY <1>1, <1>9
    <3> QED BY <1>11, <2>1, <3>1, <3>2
  <2>3. \A t \in Work(graph) : ref'[t] = Cardinality(Pending(t)')
    BY <1>2, <1>3, <1>5, <1>6, <1>9, <1>11 DEF Counts
  <2> QED BY <1>1, <1>4, <1>6, <2>2, <2>3 DEF Counts
<1>18. Stored'
  <2>1. SUFFICES ASSUME saved # NoTask PROVE Stored'
    BY <1>1 DEF Stored
  <2>2. saved \in Graphs /\ saved.node \subseteq Task
    BY <1>2, <2>1, GraphFacts DEF TypeOK
  <2>3. graph # saved => graph.end \notin saved.node
    BY <1>2, <1>3, <1>5, <2>1 DEF Stored
  <2> QED BY <1>1, <1>2, <1>3, <1>4, <1>11, <2>1, <2>2, <2>3 DEF Stored
<1>19. Memory'
  <2>1. \A x \in Thread : pc'[x] \in {"run", "dec", "push", "fin"} => pc[x] = pc'[x]
    BY <1>4
  <2>2. Live /\ Live' /\ Open /\ Open' /\ pc[Main] # "post" /\ pc'[Main] # "post"
    BY <1>1, <1>3, <1>4
  <2> QED BY <1>1, <1>2, <2>1, <2>2 DEF Memory
<1> QED BY <1>12, <1>13, <1>14, <1>15, <1>16, <1>17, <1>18, <1>19 DEF IInv

LEMMA DeleteEndStep ==
  ASSUME IInv, DeleteEnd
  PROVE  IInv'
<1>1. /\ pc[Main] = "leave" /\ Goto(Main, "post")
      /\ alloc' = IF reused[graph.end] THEN alloc ELSE alloc \ {graph.end}
      /\ UNCHANGED <<graph, saved, round, ref, backup, reused, done, cur, todo, last,
                     hand, nxt, toSpawn, stack, close>>
  BY DEF DeleteEnd, graphVars
<1>2. TypeOK /\ Control /\ Counts /\ Stored /\ Memory
  BY DEF IInv
<1>3. Live /\ Open /\ ~Executing /\ Returning /\ graph \in Graphs
  <2>1. Live /\ ~Executing /\ Returning
    BY <1>1 DEF Live, Executing, Returning, Label
  <2> QED BY <2>1, Activity
<1>4. /\ pc' \in [Thread -> Label \cup MainLabel \cup {"exited"}]
      /\ pc'[Main] = "post"
      /\ \A x \in Thread \ {Main} : pc'[x] = pc[x]
      /\ \A x \in Thread : Owes(x) = {} /\ Owes(x)' = {}
      /\ Quiet' /\ Places' /\ Unique' /\ Bodies'
  BY <1>1, <1>3, QuietFrame DEF MainLabel
<1>5. Live' /\ Open' /\ Returning'
  BY <1>4 DEF Live, Open, Returning
<1>6. \A t : Pending(t)' = Pending(t)
  BY <1>1, <1>4, PendingKept
<1>7. TypeOK'
  BY <1>1, <1>2, <1>4 DEF TypeOK
<1>8. Control'
  BY <1>1, <1>2, <1>3, <1>4, ExecAssumption DEF Control, Worker, MainLabel, Label
<1>9. Counts'
  BY <1>1, <1>2, <1>3, <1>4, <1>5, <1>6 DEF Counts
<1>10. Stored'
  BY <1>1, <1>2, <1>3, <1>5 DEF Stored
<1>11. Memory'
  <2>1. saved # NoTask => saved.node \subseteq alloc'
    BY <1>1, <1>2, <1>3 DEF Memory, Stored
  <2>2. Work(graph) \ done = {}
    BY <1>2, <1>3 DEF Counts
  <2>3. graph.end \in graph.node \ done
    BY <1>2, <1>3, GraphFacts DEF Counts
  <2>4. \A x \in Thread : pc'[x] \in {"run", "dec", "push", "fin"} => pc[x] = pc'[x]
    BY <1>4
  <2>5. ASSUME NEW x \in Thread, pc'[x] \in {"run", "dec", "push", "fin"}
        PROVE  cur[x] \in alloc'
    <3>1. cur[x] \in alloc
      BY <1>2, <1>3, <2>4, <2>5 DEF Memory
    <3>2. pc[x] # "run"
      <4>1. Ready(x) = {} /\ cur[x] # NoTask
        BY <1>2, <1>3, <2>4, <2>5 DEF IInv, Quiet, Control
      <4> QED BY <4>1 DEF Ready
    <3>3. ~reused[graph.end] => cur[x] # graph.end
      BY <1>2, <1>3, <2>3, <2>4, <2>5, <3>2 DEF Memory
    <3> QED BY <1>1, <3>1, <3>3
  <2> QED BY <1>1, <1>2, <1>3, <1>4, <1>5, <2>1, <2>2, <2>4, <2>5 DEF Memory
<1> QED BY <1>4, <1>7, <1>8, <1>9, <1>10, <1>11 DEF IInv

LEMMA RestoreEndStep ==
  ASSUME IInv, RestoreEnd
  PROVE  IInv'
<1>1. PICK flag \in BOOLEAN :
        /\ graph.end \in alloc => flag = reused[graph.end]
        /\ ref' = IF flag THEN [ref EXCEPT ![graph.end] = backup[graph.end]] ELSE ref
  <2>1. PICK flag \in IF graph.end \in alloc THEN {reused[graph.end]} ELSE BOOLEAN :
          ref' = IF flag THEN [ref EXCEPT ![graph.end] = backup[graph.end]] ELSE ref
    BY DEF RestoreEnd, Restored, FlagOf
  <2>2. TypeOK
    BY DEF IInv
  <2>3. CASE graph.end \in alloc
    <3>1. reused[graph.end] \in BOOLEAN
      BY <2>2, <2>3 DEF TypeOK
    <3> QED BY <2>1, <2>3, <3>1
  <2>4. CASE graph.end \notin alloc
    BY <2>1, <2>4
  <2> QED BY <2>3, <2>4
<1>2. /\ pc[Main] = "post" /\ Goto(Main, "idle")
      /\ UNCHANGED <<graph, saved, round, alloc, backup, reused, done, cur, todo, last,
                     hand, nxt, toSpawn, stack, close>>
  BY DEF RestoreEnd, graphVars
<1>3. TypeOK /\ Control /\ Counts /\ Stored /\ Memory
  BY DEF IInv
<1>4. Live /\ Open /\ ~Executing /\ Returning /\ graph \in Graphs
  <2>1. Live /\ ~Executing /\ Returning
    BY <1>2 DEF Live, Executing, Returning, Label
  <2> QED BY <2>1, Activity
<1>5. /\ pc' \in [Thread -> Label \cup MainLabel \cup {"exited"}]
      /\ pc'[Main] = "idle"
      /\ \A x \in Thread \ {Main} : pc'[x] = pc[x]
      /\ Quiet' /\ Places' /\ Unique' /\ Bodies'
  BY <1>2, <1>4, QuietFrame DEF MainLabel
<1>6. ~Live' /\ Open' /\ ~Returning'
  BY <1>5 DEF Live, Open, Returning
<1>7. graph.end \in graph.node /\ graph.node \subseteq Task
      /\ graph.node = Work(graph) \cup {graph.end}
  BY <1>4, GraphFacts
<1>8. /\ ref' \in [Task -> Int]
      /\ flag => ref'[graph.end] = backup[graph.end]
      /\ \A t \in Task \ {graph.end} : ref'[t] = ref[t]
  BY <1>1, <1>3, <1>7 DEF TypeOK
<1>9. TypeOK'
  BY <1>2, <1>3, <1>5, <1>8 DEF TypeOK
<1>10. Control'
  BY <1>2, <1>3, <1>5, <1>6, ExecAssumption DEF Control, Worker, MainLabel
<1>11. Counts'
  BY <1>6 DEF Counts
<1>12. Stored'
  <2>1. SUFFICES ASSUME saved # NoTask PROVE Stored'
    BY <1>2 DEF Stored
  <2>2. \A t \in saved.node : reused[t] /\ backup[t] = Indegree(saved, t)
    BY <1>3, <2>1 DEF Stored
  <2>3. saved \in Graphs /\ saved.node \subseteq Task
    BY <1>3, <2>1, GraphFacts DEF TypeOK
  <2>4. ASSUME NEW t \in saved.node PROVE ref'[t] = Indegree(saved, t)
    <3>1. CASE graph = saved /\ t = graph.end
      <4>1. graph.end \in alloc
        BY <1>3, <1>4, <2>1, <2>4, <3>1 DEF Memory
      <4> QED BY <1>1, <1>8, <2>2, <2>4, <3>1, <4>1
    <3>2. CASE graph = saved /\ t # graph.end
      <4>1. t \in done /\ t \in Task
        BY <1>3, <1>4, <1>7, <2>4, <3>2 DEF Counts
      <4>2. ref[t] = backup[t]
        BY <1>3, <1>4, <2>2, <2>4, <4>1 DEF Counts
      <4> QED BY <1>8, <2>2, <2>4, <3>2, <4>1, <4>2
    <3>3. CASE graph # saved
      <4>1. t \notin graph.node /\ ref[t] = Indegree(saved, t)
        BY <1>3, <1>4, <2>1, <2>4, <3>3 DEF Stored
      <4> QED BY <1>7, <1>8, <2>3, <2>4, <4>1
    <3> QED BY <3>1, <3>2, <3>3
  <2> QED BY <1>2, <1>6, <2>1, <2>2, <2>4 DEF Stored
<1>13. Memory'
  <2>1. \A x \in Thread : pc'[x] \in {"run", "dec", "push", "fin"} => pc[x] = pc'[x]
    BY <1>5
  <2> QED BY <1>2, <1>3, <1>4, <1>6, <2>1 DEF Memory
<1> QED BY <1>5, <1>9, <1>10, <1>11, <1>12, <1>13 DEF IInv

\* The steps of the shutdown.
LEMMA ShutdownStep ==
  ASSUME IInv, FreeTasks \/ CloseWorkers \/ JoinWorkers
  PROVE  IInv'
<1>1. PICK l \in {"close", "join", "halted"} : Goto(Main, l)
  BY DEF FreeTasks, CloseWorkers, JoinWorkers
<1>2. /\ pc[Main] \in {"idle", "close", "join"}
      /\ alloc' \subseteq alloc
      /\ close' \in BOOLEAN /\ (close' => l \in {"join", "halted"})
      /\ UNCHANGED <<graph, saved, round, ref, backup, reused, done, cur, todo, last,
                     hand, nxt, toSpawn, stack>>
  <2>1. TypeOK /\ Control
    BY DEF IInv
  <2>2. CASE FreeTasks
    BY <2>1, <2>2 DEF FreeTasks, TypeOK, Control, graphVars
  <2>3. CASE CloseWorkers
    <3>1. l = "join"
      BY <1>1, <2>1, <2>3, ExecAssumption DEF CloseWorkers, Goto, TypeOK
    <3> QED BY <2>3, <3>1 DEF CloseWorkers, graphVars, taskVars
  <2>4. CASE JoinWorkers
    <3>1. l = "halted"
      BY <1>1, <2>1, <2>4, ExecAssumption DEF JoinWorkers, Goto, TypeOK
    <3> QED BY <2>1, <2>4, <3>1 DEF JoinWorkers, TypeOK, graphVars, taskVars
  <2> QED BY <2>2, <2>3, <2>4
<1>3. TypeOK /\ Control /\ Stored
  BY DEF IInv
<1>4. ~Live /\ ~Executing
  BY <1>2 DEF Live, Executing, Label
<1>5. /\ pc' \in [Thread -> Label \cup MainLabel \cup {"exited"}]
      /\ pc'[Main] = l
      /\ \A x \in Thread \ {Main} : pc'[x] = pc[x]
      /\ Quiet' /\ Places' /\ Unique' /\ Bodies'
  BY <1>1, <1>2, <1>4, QuietFrame DEF MainLabel
<1>6. ~Live' /\ ~Open'
  BY <1>5 DEF Live, Open
<1>7. TypeOK'
  BY <1>2, <1>3, <1>5 DEF TypeOK
<1>8. Control'
  BY <1>2, <1>3, <1>5, <1>6, ExecAssumption DEF Control, Worker, MainLabel
<1>9. Counts' /\ Memory'
  BY <1>6 DEF Counts, Memory
<1>10. Stored'
  BY <1>2, <1>3, <1>4, <1>6 DEF Stored
<1> QED BY <1>5, <1>7, <1>8, <1>9, <1>10 DEF IInv

LEMMA Stutter ==
  ASSUME IInv, UNCHANGED vars
  PROVE  IInv'
<1>1. UNCHANGED <<graph, saved, round, alloc, ref, backup, reused, done, pc, cur, todo,
                  last, hand, nxt, toSpawn, stack, close>>
  BY DEF vars, graphVars, taskVars, threadVars
<1>2. SamePhase
  BY <1>1 DEF SamePhase
<1>3. \A x \in Thread : Owes(x)' = Owes(x) /\ Ready(x)' = Ready(x)
  BY <1>1 DEF Owes, Ready
<1>4. /\ \A t : IsReady(t)' <=> IsReady(t)
      /\ Bodies' /\ Counts' /\ Stored'
  BY <1>1, <1>2, <1>3, ExecFrame
<1>5. Places' /\ Unique'
  BY <1>1, <1>3, <1>4, PlacesFrame
<1>6. TypeOK'
  BY <1>1 DEF IInv, TypeOK
<1>7. Control'
  BY <1>1 DEF IInv, Control, Live
<1>8. Quiet'
  BY <1>1, <1>2, <1>3, Phase DEF IInv, Quiet
<1>9. Memory'
  BY <1>1, <1>2, MemoryFrame DEF IInv, Memory
<1> QED BY <1>4, <1>5, <1>6, <1>7, <1>8, <1>9 DEF IInv

LEMMA InitInvariant ==
  ASSUME Init
  PROVE  IInv
<1>1. TypeOK
  <2>1. stack \in [Thread -> Seq(Task)]
    <3>1. <<>> \in Seq(Task)
      OBVIOUS
    <3> QED BY <3>1 DEF Init
  <2>2. pc \in [Thread -> Label \cup MainLabel \cup {"exited"}]
    BY DEF Init, Label, MainLabel
  <2>3. graph = NoTask /\ saved = NoTask /\ alloc = {} /\ done = {} /\ toSpawn = {}
        /\ close = FALSE /\ round = 0
    BY DEF Init
  <2>4. ref \in [Task -> Int] /\ backup \in [Task -> Int] /\ reused \in [Task -> BOOLEAN]
    BY DEF Init
  <2>5. /\ cur \in [Thread -> Task \cup {NoTask}] /\ last \in [Thread -> Task \cup {NoTask}]
        /\ hand \in [Thread -> Task \cup {NoTask}] /\ nxt \in [Thread -> Task \cup {NoTask}]
        /\ todo \in [Thread -> SUBSET Task]
    BY DEF Init
  <2> QED BY <2>1, <2>2, <2>3, <2>4, <2>5 DEF TypeOK
<1>2. Control
  BY ExecAssumption DEF Init, Control, Worker, Live, Label, MainLabel
<1>3. \A x \in Thread : Ready(x) = {} /\ Owes(x) = {} /\ Len(stack[x]) = 0
  BY DEF Init, Ready, Owes
<1>4. Quiet
  BY <1>3 DEF Init, Quiet
<1>5. Places /\ Unique /\ Bodies
  BY <1>3 DEF Init, Places, Unique, Bodies
<1>6. Counts /\ Stored /\ Memory
  BY ExecAssumption DEF Init, Counts, Stored, Memory, Live
<1> QED BY <1>1, <1>2, <1>4, <1>5, <1>6 DEF IInv

\* The invariant is inductive.
LEMMA NextInvariant ==
  ASSUME IInv, [Next]_vars
  PROVE  IInv'
<1>1. CASE MainStep
  <2>1. ASSUME NEW g \in Graphs, NEW store \in BOOLEAN, BuildFresh(g, store) PROVE IInv'
    BY <2>1, BuildFreshStep
  <2> QED BY <1>1, <2>1, ResumeStep, BeginSpawnStep, SpawnRootStep, EndSpawnStep,
             DeleteEndStep, RestoreEndStep, ShutdownStep DEF MainStep
<1>2. ASSUME NEW th \in Thread, LoopStep(th) PROVE IInv'
  BY <1>2, CheckStep, PopStep, PopNothingStep, RunBodyStep, DecrementStep, SpawnStep,
     DecrementVerticalStep, FinishStep DEF LoopStep
<1>3. CASE Halted \/ UNCHANGED vars
  BY <1>3, Stutter DEF Halted
<1> QED BY <1>1, <1>2, <1>3 DEF Next

-----------------------------------------------------------------------------
(***************************************************************************)
(* The safety properties, for every instance.                              *)
(***************************************************************************)

\* The inductive invariant holds of every state of an execution: init_spawn,
\* get_next_task, execute and the main thread's wait keep it together.
THEOREM Invariance == Spec => []IInv
<1>1. Init => IInv
  BY InitInvariant
<1>2. IInv /\ [Next]_vars => IInv'
  BY NextInvariant
<1> QED BY <1>1, <1>2, PTL DEF Spec

\* The variables of the scheduler, the tasks and the threads keep their types.
THEOREM TypeCorrect == Spec => []TypeOK
<1>1. IInv => TypeOK
  BY DEF IInv
<1> QED BY <1>1, Invariance, PTL

\* No decrement of any thread lets a task run before the tasks it depends on.
THEOREM PrecedenceHolds == Spec => []Precedence
<1>1. ASSUME IInv PROVE Precedence
  <2>1. SUFFICES ASSUME NEW th \in Thread, pc[th] = "run"
                 PROVE  Preds(graph, cur[th]) \subseteq done
    BY DEF Precedence
  <2>2. cur[th] \in Ready(th)
    BY <1>1, <2>1 DEF IInv, Control, Ready
  <2>3. Pending(cur[th]) = {}
    BY <1>1, <2>2 DEF IInv, Places, IsReady
  <2> QED BY <2>3 DEF Pending
<1> QED BY <1>1, Invariance, PTL

\* No task runs twice in a round, in whatever order the threads pop and push.
THEOREM RunOnceHolds == Spec => []RunOnce
<1>1. ASSUME IInv PROVE RunOnce
  <2>1. SUFFICES ASSUME NEW th \in Thread, pc[th] = "run"
                 PROVE  /\ cur[th] \notin done
                        /\ \A x \in Thread \ {th} : pc[x] = "run" => cur[x] # cur[th]
    BY DEF RunOnce
  <2>2. \A x \in Thread : pc[x] = "run" => cur[x] \in Ready(x)
    BY <1>1 DEF IInv, Control, Ready
  <2>3. cur[th] \notin done
    BY <1>1, <2>1, <2>2 DEF IInv, Places, IsReady
  <2>4. \A x \in Thread \ {th} : Ready(x) \cap Ready(th) = {}
    BY <1>1 DEF IInv, Unique
  <2> QED BY <2>1, <2>2, <2>3, <2>4
<1> QED BY <1>1, Invariance, PTL

\* The counts that execute() decrements are exact while the graph is executed.
THEOREM RefCountHolds == Spec => []RefCount
<1>1. ASSUME IInv PROVE RefCount
  <2>1. SUFFICES ASSUME Executing
                 PROVE  /\ \A t \in Work(graph) \ done : ref[t] = Cardinality(Pending(t))
                        /\ ref[graph.end] = Cardinality(Pending(graph.end)) + 1
    BY DEF RefCount
  <2>2. Live /\ pc[Main] # "built"
    BY <1>1, <2>1, Activity DEF Executing, Label
  <2> QED BY <1>1, <2>2 DEF IInv, Counts
<1> QED BY <1>1, Invariance, PTL

\* When main_kernel_func stops waiting, every task has run and none is left.
THEOREM AllDoneHolds == Spec => []AllDone
<1>1. ASSUME IInv PROVE AllDone
  <2>1. SUFFICES ASSUME Returning
                 PROVE  /\ done = Work(graph)
                        /\ toSpawn = {}
                        /\ \A th \in Thread : stack[th] = <<>> /\ hand[th] = NoTask
                                               /\ nxt[th] = NoTask
    BY DEF AllDone
  <2>2. Live /\ ~Executing /\ pc[Main] # "spawn"
    BY <2>1 DEF Returning, Live, Executing, Label
  <2>3. done = Work(graph) /\ toSpawn = {}
    BY <1>1, <2>1, <2>2 DEF IInv, Counts, Control
  <2>4. \A th \in Thread : Ready(th) = {} /\ stack[th] = <<>>
    BY <1>1, <2>2 DEF IInv, Quiet
  <2> QED BY <2>3, <2>4 DEF Ready
<1> QED BY <1>1, Invariance, PTL

\* The counts of a stored graph are restored by the end of every round.
THEOREM StoredReadyHolds == Spec => []StoredReady
<1>1. ASSUME IInv PROVE StoredReady
  <2>1. SUFFICES ASSUME pc[Main] \in {"idle", "built"}, saved # NoTask,
                        NEW t \in saved.node
                 PROVE  ref[t] = Indegree(saved, t)
    BY DEF StoredReady
  <2>2. CASE Live /\ graph = saved
    <3>1. done = {} /\ pc[Main] = "built" /\ graph \in Graphs
      BY <1>1, <2>1, <2>2 DEF IInv, Control, Live
    <3>2. Pending(t) = Preds(graph, t) /\ Cardinality(Pending(t)) \in Nat
      BY <3>1, PendingFinite DEF Pending
    <3>3. t \in Work(graph) \/ t = graph.end
      BY <2>1, <2>2, <3>1, GraphFacts
    <3>4. CASE t \in Work(graph)
      BY <1>1, <2>2, <3>1, <3>2, <3>4 DEF IInv, Counts, Indegree
    <3>5. CASE t = graph.end
      <4>1. ref[graph.end] = Cardinality(Pending(graph.end)) + 0
        BY <1>1, <2>2, <3>1 DEF IInv, Counts
      <4> QED BY <2>2, <3>2, <3>5, <4>1 DEF Indegree
    <3> QED BY <3>3, <3>4, <3>5
  <2>3. CASE ~(Live /\ graph = saved)
    BY <1>1, <2>1, <2>3 DEF IInv, Stored
  <2> QED BY <2>2, <2>3
<1> QED BY <1>1, Invariance, PTL

\* Nothing a thread or a queue still refers to is deleted before the shutdown.
THEOREM NoDanglingHolds == Spec => []NoDangling
<1>1. ASSUME IInv PROVE NoDangling
  <2>1. SUFFICES ASSUME Open, NEW th \in Thread
                 PROVE  /\ pc[th] \in {"run", "dec", "push", "fin"} => cur[th] \in alloc
                        /\ Owes(th) \cup ({hand[th], nxt[th]} \ {NoTask}) \subseteq alloc
                        /\ \A i \in 1 .. Len(stack[th]) : stack[th][i] \in alloc
    BY DEF NoDangling, Open
  <2>2. pc[th] \in {"run", "dec", "push", "fin"} => cur[th] \in alloc
    BY <1>1, <2>1 DEF IInv, Memory
  <2>3. ASSUME NEW t \in Owes(th) PROVE t \in alloc
    <3>1. Executing /\ t \in graph.node /\ t \notin done
      BY <1>1, OwedPending
    <3>2. Live /\ graph \in Graphs /\ pc[Main] # "post"
      BY <1>1, <3>1, Activity DEF Executing, Label
    <3>3. t \in Work(graph) \/ t = graph.end
      BY <3>1, <3>2, GraphFacts
    <3> QED BY <1>1, <2>1, <3>1, <3>2, <3>3 DEF IInv, Memory
  <2>4. ASSUME NEW t \in {hand[th], nxt[th]} \ {NoTask} PROVE t \in alloc
    <3>1. t \in Ready(th)
      BY <2>4 DEF Ready
    <3>2. IsReady(t) /\ Executing
      BY <1>1, <3>1, Activity DEF IInv, Places
    <3> QED BY <1>1, <3>2, ReadyExists
  <2>5. ASSUME NEW i \in 1 .. Len(stack[th]) PROVE stack[th][i] \in alloc
    <3>1. stack[th] # <<>>
      BY <2>5
    <3>2. IsReady(stack[th][i]) /\ Executing
      BY <1>1, <3>1, Activity DEF IInv, Places
    <3> QED BY <1>1, <3>2, ReadyExists
  <2> QED BY <2>2, <2>3, <2>4, <2>5
<1> QED BY <1>1, Invariance, PTL

-----------------------------------------------------------------------------
(***************************************************************************)
(* DagExec implements DagSpec.                                             *)
(***************************************************************************)

\* DagSpec sees the same graph.
LEMMA SameGraph ==
  /\ \A g : Abstract!Work(g) = Work(g)
  /\ \A g, t : Abstract!Preds(g, t) = Preds(g, t)
BY DEF Abstract!Work, Work, Abstract!Preds, Preds, Abstract!Out, Out,
       Abstract!Vertical, Vertical

\* The body of c starts.
LEMMA StartMapped ==
  ASSUME IInv, NEW th \in Thread, NEW c, UNCHANGED <<graph, done>>, SamePhase,
         IsReady(c), Executing, c \notin Running,
         pc[th] # "run", pc'[th] = "run", cur'[th] = c,
         \A x \in Thread \ {th} : pc'[x] = pc[x] /\ cur'[x] = cur[x]
  PROVE  Abstract!Next
<1>1. Live /\ Live'
  BY Activity, Phase
<1>2. c \in Work(graph) \ done /\ Preds(graph, c) \subseteq done
  BY DEF IsReady, Pending
<1>3. Running' = Running \cup {c}
  BY DEF Running
<1>4. Abstract!Start(c)
  BY <1>1, <1>2, <1>3, SameGraph DEF Abstract!Start
<1> QED BY <1>1, <1>2, <1>4, SameGraph DEF Abstract!Next

\* Nothing that the abstract specification sees changes.
LEMMA StutterMapped ==
  ASSUME UNCHANGED <<graph, done>>, Live' <=> Live,
         \A x \in Thread : pc'[x] = "run" <=> pc[x] = "run",
         \A x \in Thread : pc[x] = "run" => cur'[x] = cur[x]
  PROVE  UNCHANGED Abstract!vars
<1>1. Running' = Running
  BY DEF Running
<1> QED BY <1>1 DEF Abstract!vars

\* A step of the loop that every thread runs.
LEMMA LoopMapped ==
  ASSUME IInv, NEW th \in Thread, LoopStep(th)
  PROVE  Abstract!Next \/ UNCHANGED Abstract!vars
<1>1. TypeOK /\ Control
  BY DEF IInv
<1>2. ASSUME NEW c, c \in Task, IsReady(c), \A x \in Thread : pc[x] = "run" => c \notin Ready(x)
      PROVE  c \notin Running
  <2>1. \A x \in Thread : pc[x] = "run" => cur[x] \in Ready(x)
    BY <1>1 DEF Control, Ready
  <2> QED BY <1>2, <2>1 DEF Running
<1>3. ASSUME Check(th), pc'[th] = "run" PROVE Abstract!Next
  <2>1. PICK c : c = cur[th]
    OBVIOUS
  <2>2. /\ pc[th] = "check" /\ c # NoTask /\ Goto(th, "run")
        /\ UNCHANGED <<graph, done, cur>>
    BY <1>1, <1>3, <2>1 DEF Check, Goto, TypeOK, graphVars, taskVars
  <2>3. SamePhase /\ \A x \in Thread \ {th} : pc'[x] = pc[x]
    BY <1>1, <2>2, LoopStepFacts DEF Label
  <2>4. c \in Ready(th)
    BY <2>1, <2>2 DEF Ready
  <2>5. IsReady(c) /\ Executing
    BY <2>4, Activity DEF IInv, Places
  <2>6. c \in Task /\ \A x \in Thread : pc[x] = "run" => c \notin Ready(x)
    BY <2>2, <2>4, <2>5, ReadyExists DEF IInv, Unique
  <2>7. c \notin Running
    BY <1>2, <2>5, <2>6
  <2> QED BY <1>3, <2>1, <2>2, <2>3, <2>5, <2>7, StartMapped
<1>4. ASSUME Check(th), pc'[th] # "run" PROVE UNCHANGED Abstract!vars
  <2>1. CASE KeepRunning(th)
    <3>1. pc[th] = "check" /\ Goto(th, "poll") /\ UNCHANGED <<graph, done, cur>>
      BY <1>1, <1>4, <2>1 DEF Check, Goto, TypeOK, graphVars, taskVars
    <3>2. SamePhase /\ \A x \in Thread \ {th} : pc'[x] = pc[x]
      BY <1>1, <3>1, LoopStepFacts DEF Label
    <3> QED BY <1>4, <3>1, <3>2, Phase, StutterMapped
  <2>2. CASE ~KeepRunning(th)
    <3>1. pc[th] = "check" /\ UNCHANGED <<graph, done, cur>>
          /\ Goto(th, IF th = Main THEN "leave" ELSE "exited")
      BY <2>2, <1>4 DEF Check, graphVars, taskVars
    <3>2. \A x \in Thread \ {th} : pc'[x] = pc[x]
      BY <1>1, <3>1 DEF TypeOK, Goto
    <3>3. Live' <=> Live
      BY <1>1, <3>1, ExecAssumption DEF TypeOK, Goto, Live
    <3> QED BY <1>4, <3>1, <3>2, <3>3, StutterMapped
  <2> QED BY <2>1, <2>2
<1>5. ASSUME Pop(th) PROVE Abstract!Next
  <2>1. PICK c : c = stack[th][Len(stack[th])]
    OBVIOUS
  <2>2. /\ pc[th] = "poll" /\ Goto(th, "run") /\ stack[th] # <<>>
        /\ cur' = [cur EXCEPT ![th] = c] /\ UNCHANGED <<graph, done>>
    BY <1>5, <2>1 DEF Pop, graphVars, taskVars
  <2>3. /\ SamePhase /\ pc'[th] = "run" /\ \A x \in Thread \ {th} : pc'[x] = pc[x]
    BY <1>1, <2>2, LoopStepFacts DEF Label
  <2>4. cur'[th] = c /\ \A x \in Thread \ {th} : cur'[x] = cur[x]
    BY <1>1, <2>2 DEF TypeOK
  <2>5. Len(stack[th]) \in 1 .. Len(stack[th])
    BY <1>1, <2>2 DEF TypeOK
  <2>6. IsReady(c) /\ Executing
    BY <2>1, <2>2, <2>5, Activity DEF IInv, Places
  <2>7. c \in Task /\ \A x \in Thread : pc[x] = "run" => c \notin Ready(x)
    BY <2>1, <2>5, <2>6, ReadyExists DEF IInv, Unique
  <2>8. c \notin Running
    BY <1>2, <2>6, <2>7
  <2> QED BY <2>2, <2>3, <2>4, <2>6, <2>8, StartMapped
<1>6. ASSUME RunBody(th) PROVE Abstract!Next
  <2>1. PICK c : c = cur[th]
    OBVIOUS
  <2>2. /\ pc[th] = "run" /\ Goto(th, "dec") /\ done' = done \cup {c}
        /\ UNCHANGED <<graph, cur>>
    BY <1>6, <2>1 DEF RunBody, graphVars
  <2>3. /\ SamePhase /\ pc'[th] = "dec" /\ \A x \in Thread \ {th} : pc'[x] = pc[x]
    BY <1>1, <2>2, LoopStepFacts DEF Label
  <2>4. \A x \in Thread : pc[x] = "run" => cur[x] \in Ready(x)
    BY <1>1 DEF Control, Ready
  <2>5. \A x \in Thread \ {th} : pc[x] = "run" => cur[x] # c
    BY <2>1, <2>2, <2>4 DEF IInv, Unique
  <2>6. Running' = Running \ {c} /\ c \in Running
    BY <2>1, <2>2, <2>3, <2>5 DEF Running
  <2>7. Live /\ Live' /\ c \in Work(graph)
    BY <2>1, <2>2, <2>3, <2>4, Activity, Phase DEF IInv, Places, IsReady
  <2>8. Abstract!Complete(c)
    BY <2>2, <2>6, <2>7 DEF Abstract!Complete
  <2> QED BY <2>7, <2>8, SameGraph DEF Abstract!Next
<1>7. ASSUME PopNothing(th) \/ Decrement(th) \/ Spawn(th) \/ DecrementVertical(th) \/ Finish(th)
      PROVE  UNCHANGED Abstract!vars
  <2>1. /\ pc[th] \in Label \ {"run"} /\ UNCHANGED <<graph, done>>
        /\ (cur' = cur \/ (pc[th] = "fin" /\ cur' = [cur EXCEPT ![th] = nxt[th]]))
    BY <1>7 DEF PopNothing, Decrement, Spawn, DecrementVertical, Finish, Label,
                graphVars, taskVars
  <2>2. pc' = pc \/ \E l \in Label \ {"run"} : Goto(th, l)
    BY <1>7 DEF PopNothing, Decrement, Spawn, DecrementVertical, Finish, Label
  <2>3. SamePhase /\ pc'[th] # "run" /\ \A x \in Thread \ {th} : pc'[x] = pc[x]
    BY <1>1, <2>1, <2>2, LoopStepFacts DEF SamePhase
  <2>4. \A x \in Thread \ {th} : cur'[x] = cur[x]
    BY <1>1, <2>1 DEF TypeOK
  <2> QED BY <2>1, <2>3, <2>4, Phase, StutterMapped
<1> QED BY <1>3, <1>4, <1>5, <1>6, <1>7 DEF LoopStep

\* A step of the main thread outside the loop.
LEMMA MainMapped ==
  ASSUME IInv, MainStep
  PROVE  Abstract!Next \/ UNCHANGED Abstract!vars
<1>1. TypeOK /\ Control
  BY DEF IInv
<1>2. ASSUME NEW l, Goto(Main, l), l # "run", pc[Main] # "run", UNCHANGED cur
      PROVE  Running' = Running /\ pc'[Main] = l
             /\ \A x \in Thread : pc'[x] = "run" <=> pc[x] = "run"
  BY <1>1, <1>2, ExecAssumption DEF TypeOK, Goto, Running
<1>3. ASSUME NEW g \in Graphs, pc[Main] = "idle", Goto(Main, "built"),
             graph' = g, done' = {}, UNCHANGED cur
      PROVE  Abstract!Next
  <2>1. Running' = Running /\ ~Live /\ Live'
    BY <1>2, <1>3 DEF Live
  <2>2. Abstract!Submit(g)
    BY <1>3, <2>1 DEF Abstract!Submit
  <2> QED BY <2>2 DEF Abstract!Next
<1>4. ASSUME NEW g \in Graphs, NEW store \in BOOLEAN, BuildFresh(g, store)
      PROVE  Abstract!Next
  BY <1>3, <1>4 DEF BuildFresh
<1>5. ASSUME Resume PROVE Abstract!Next
  BY <1>1, <1>3, <1>5 DEF Resume, TypeOK
<1>6. ASSUME RestoreEnd PROVE Abstract!Next
  <2>1. /\ pc[Main] = "post" /\ Goto(Main, "idle") /\ UNCHANGED <<graph, done, cur>>
    BY <1>6 DEF RestoreEnd, graphVars
  <2>2. Running' = Running /\ Live /\ ~Live' /\ Returning
    BY <1>2, <2>1 DEF Live, Returning
  <2>3. done = Work(graph)
    BY <2>2 DEF IInv, Counts
  <2>4. Abstract!Return
    BY <2>1, <2>2, <2>3, SameGraph DEF Abstract!Return
  <2> QED BY <2>4 DEF Abstract!Next
<1>7. ASSUME NEW l, Goto(Main, l), UNCHANGED <<graph, done, cur>>,
             \/ pc[Main] \in {"built", "spawn", "leave"} /\ l \in {"spawn", "check", "post"}
             \/ pc[Main] \in {"idle", "close", "join"} /\ l \in {"close", "join", "halted"}
      PROVE  UNCHANGED Abstract!vars
  <2>1. pc[Main] # "run" /\ l # "run"
    BY <1>7
  <2>2. pc'[Main] = l /\ \A x \in Thread : pc'[x] = "run" <=> pc[x] = "run"
    BY <1>2, <1>7, <2>1
  <2>3. Live' <=> Live
    BY <1>7, <2>2 DEF Live
  <2> QED BY <1>7, <2>2, <2>3, StutterMapped
<1>8. ASSUME SpawnRoot PROVE UNCHANGED Abstract!vars
  BY <1>8, StutterMapped DEF SpawnRoot, graphVars, taskVars, threadVars, Live
<1>9. ASSUME BeginSpawn \/ EndSpawn \/ DeleteEnd \/ FreeTasks \/ CloseWorkers \/ JoinWorkers
      PROVE  UNCHANGED Abstract!vars
  BY <1>7, <1>9 DEF BeginSpawn, EndSpawn, DeleteEnd, FreeTasks, CloseWorkers, JoinWorkers,
                    graphVars, taskVars
<1> QED BY <1>4, <1>5, <1>6, <1>8, <1>9 DEF MainStep

\* Whatever the threads do is an execution that DagSpec allows.
THEOREM Refinement == Spec => RefinesDagSpec
<1>1. Init => Abstract!Init
  <2> SUFFICES ASSUME Init PROVE Abstract!Init
    OBVIOUS
  <2>1. graph = NoTask /\ done = {}
        /\ pc = [x \in Thread |-> IF x = Main THEN "idle" ELSE "check"]
    BY DEF Init
  <2>2. ~Live /\ \A x \in Thread : pc[x] # "run"
    BY <2>1, ExecAssumption DEF Live
  <2>3. Running = {}
    BY <2>2 DEF Running
  <2> QED BY <2>1, <2>2, <2>3 DEF Abstract!Init
<1>2. IInv /\ [Next]_vars => [Abstract!Next]_(Abstract!vars)
  <2>1. SUFFICES ASSUME IInv, [Next]_vars PROVE Abstract!Next \/ UNCHANGED Abstract!vars
    OBVIOUS
  <2>2. CASE Halted \/ UNCHANGED vars
    BY <2>2, StutterMapped DEF Halted, vars, graphVars, taskVars, threadVars, Live
  <2> QED BY <2>1, <2>2, MainMapped, LoopMapped DEF Next
<1> QED BY <1>1, <1>2, Invariance, PTL DEF Spec, RefinesDagSpec, Abstract!Spec

-----------------------------------------------------------------------------
(***************************************************************************)
(* No task is left over.                                                   *)
(***************************************************************************)

\* A step in which nothing is allocated, deleted, marked or stored, and which leaves
\* the phase of the main thread and the tasks to be executed alone.
LEMMA OwnedFrame ==
  ASSUME Owned, UNCHANGED <<saved, alloc, reused, graph>>,
         Open' => Open, Live => Live' /\ (pc[Main] # "post" => pc'[Main] # "post"),
         \A t \in done' \ done : \E x \in Thread : pc'[x] \in {"dec", "push", "fin"} /\ cur'[x] = t,
         \A x \in Thread : pc[x] \in {"dec", "push", "fin"} =>
           pc'[x] \in {"dec", "push", "fin"} /\ cur'[x] = cur[x]
  PROVE  Owned'
<1>1. SUFFICES ASSUME Open', NEW t \in alloc
      PROVE  /\ reused[t] => saved # NoTask /\ t \in saved.node
             /\ \/ saved # NoTask /\ t \in saved.node
                \/ Live' /\ t \in Work(graph) \ done'
                \/ Live' /\ pc'[Main] # "post" /\ t = graph.end
                \/ \E x \in Thread : pc'[x] \in {"dec", "push", "fin"} /\ cur'[x] = t
  BY DEF Owned
<1>2. /\ reused[t] => saved # NoTask /\ t \in saved.node
      /\ \/ saved # NoTask /\ t \in saved.node
         \/ Live /\ t \in Work(graph) \ done
         \/ Live /\ pc[Main] # "post" /\ t = graph.end
         \/ \E x \in Thread : pc[x] \in {"dec", "push", "fin"} /\ cur[x] = t
  BY <1>1 DEF Owned
<1>3. CASE Live /\ t \in Work(graph) \ done
  BY <1>2, <1>3
<1> QED BY <1>2, <1>3

\* Building: a new task is stored, or its flag is read from memory that is zero.
LEMMA OwnedBuildFresh ==
  ASSUME IInv, Owned, GarbageFlag \subseteq {FALSE},
         NEW g \in Graphs, NEW store \in BOOLEAN, BuildFresh(g, store)
  PROVE  Owned'
<1>1. /\ pc[Main] = "idle" /\ Goto(Main, "built") /\ graph' = g /\ done' = {}
      /\ store => saved = NoTask
      /\ saved' = IF store THEN g ELSE saved
      /\ alloc' = alloc \cup g.node /\ g.node \cap alloc = {} /\ cur' = cur
  BY DEF BuildFresh
<1>2. PICK flag \in [g.node -> GarbageFlag] :
        reused' = [t \in Task |-> IF t \notin g.node THEN reused[t] ELSE store \/ flag[t]]
  BY DEF BuildFresh
<1>3. /\ pc'[Main] = "built" /\ \A x \in Thread \ {Main} : pc'[x] = pc[x]
      /\ Open /\ ~Live /\ Live'
  BY <1>1, ExecAssumption DEF IInv, TypeOK, Goto, Open, Live
<1>4. alloc \subseteq Task /\ g.node \subseteq Task /\ g # NoTask
      /\ g.node = Work(g) \cup {g.end}
  BY GraphFacts, ExecAssumption DEF IInv, TypeOK, Work
<1>5. SUFFICES ASSUME NEW t \in alloc'
      PROVE  /\ reused'[t] => saved' # NoTask /\ t \in saved'.node
             /\ \/ saved' # NoTask /\ t \in saved'.node
                \/ t \in Work(g) \/ t = g.end
                \/ \E x \in Thread : pc'[x] \in {"dec", "push", "fin"} /\ cur'[x] = t
  BY <1>1, <1>3 DEF Owned
<1>6. CASE t \in g.node
  <2>1. flag[t] = FALSE
    BY <1>2, <1>6
  <2>2. reused'[t] = store
    BY <1>2, <1>4, <1>6, <2>1
  <2> QED BY <1>1, <1>4, <1>6, <2>2
<1>7. CASE t \in alloc
  <2>1. reused'[t] = reused[t]
    BY <1>1, <1>2, <1>4, <1>7
  <2>2. /\ reused[t] => saved # NoTask /\ t \in saved.node
        /\ \/ saved # NoTask /\ t \in saved.node
           \/ \E x \in Thread : pc[x] \in {"dec", "push", "fin"} /\ cur[x] = t
    BY <1>3, <1>7 DEF Owned
  <2>3. \A x \in Thread : pc[x] \in {"dec", "push", "fin"} => pc'[x] = pc[x]
    BY <1>1, <1>3
  <2>4. saved # NoTask => saved' = saved
    BY <1>1
  <2> QED BY <1>1, <2>1, <2>2, <2>3, <2>4
<1> QED BY <1>1, <1>5, <1>6, <1>7

\* The task a thread deletes is the one it has run; a flag that is set is that of a
\* stored task.
LEMMA OwnedFinish ==
  ASSUME IInv, Owned, NEW th \in Thread, Finish(th)
  PROVE  Owned'
<1>1. /\ pc[th] = "fin" /\ Goto(th, "check") /\ cur' = [cur EXCEPT ![th] = nxt[th]]
      /\ UNCHANGED <<saved, graph, done, reused>>
      /\ \E flag \in FlagOf(cur[th]) : alloc' = IF flag THEN alloc ELSE alloc \ {cur[th]}
  BY DEF Finish, graphVars
<1>2. \A x \in Thread \ {th} : pc'[x] = pc[x] /\ cur'[x] = cur[x]
  BY <1>1 DEF IInv, TypeOK, Goto
<1>3. pc'[th] = "check"
  BY <1>1 DEF IInv, TypeOK, Goto
<1>4. (Live' <=> Live) /\ (Open' <=> Open) /\ (pc'[Main] = "post" <=> pc[Main] = "post")
  BY <1>1, <1>2, <1>3, ExecAssumption DEF Live, Open
<1>5. SUFFICES ASSUME Open, NEW t \in alloc'
      PROVE  /\ reused[t] => saved # NoTask /\ t \in saved.node
             /\ \/ saved # NoTask /\ t \in saved.node
                \/ Live /\ t \in Work(graph) \ done
                \/ Live /\ pc[Main] # "post" /\ t = graph.end
                \/ \E x \in Thread : pc'[x] \in {"dec", "push", "fin"} /\ cur'[x] = t
  BY <1>1, <1>4 DEF Owned
<1>6. t \in alloc /\ (t = cur[th] => reused[t])
  BY <1>1, <1>5 DEF FlagOf
<1>7. /\ reused[t] => saved # NoTask /\ t \in saved.node
      /\ \/ saved # NoTask /\ t \in saved.node
         \/ Live /\ t \in Work(graph) \ done
         \/ Live /\ pc[Main] # "post" /\ t = graph.end
         \/ \E x \in Thread : pc[x] \in {"dec", "push", "fin"} /\ cur[x] = t
  BY <1>5, <1>6 DEF Owned
<1> QED BY <1>2, <1>6, <1>7

\* The main thread after the wait loop: what is not stored is gone, the end task too.
LEMMA OwnedReturn ==
  ASSUME IInv, Owned, DeleteEnd \/ RestoreEnd
  PROVE  Owned'
<1>1. CASE DeleteEnd
  <2>1. /\ pc[Main] = "leave" /\ Goto(Main, "post") /\ UNCHANGED <<saved, graph, done, reused, cur>>
        /\ alloc' = IF reused[graph.end] THEN alloc ELSE alloc \ {graph.end}
    BY <1>1 DEF DeleteEnd, graphVars
  <2>2. pc'[Main] = "post" /\ \A x \in Thread \ {Main} : pc'[x] = pc[x]
    BY <2>1, ExecAssumption DEF IInv, TypeOK, Goto
  <2>3. Live /\ Live' /\ Open /\ Open'
    BY <2>1, <2>2 DEF Live, Open
  <2>4. \A t \in alloc' : t \in alloc /\ (t = graph.end => reused[t])
    BY <2>1
  <2>5. \A x \in Thread : pc[x] \in {"dec", "push", "fin"} => pc'[x] = pc[x]
    BY <2>1, <2>2
  <2> QED BY <2>1, <2>3, <2>4, <2>5 DEF Owned
<1>2. CASE RestoreEnd
  <2>1. /\ pc[Main] = "post" /\ Goto(Main, "idle")
        /\ UNCHANGED <<saved, graph, done, reused, cur, alloc>>
    BY <1>2 DEF RestoreEnd, graphVars
  <2>2. \A x \in Thread \ {Main} : pc'[x] = pc[x]
    BY <2>1 DEF IInv, TypeOK, Goto
  <2>3. Live /\ Returning /\ Open
    BY <2>1 DEF Live, Open, Returning
  <2>4. Work(graph) \ done = {}
    BY <2>3 DEF IInv, Counts
  <2>5. \A x \in Thread : pc[x] \in {"dec", "push", "fin"} => pc'[x] = pc[x]
    BY <2>1, <2>2
  <2> QED BY <2>1, <2>3, <2>4, <2>5 DEF Owned
<1> QED BY <1>1, <1>2

\* The other steps of the main thread allocate and delete nothing, or end the claim.
LEMMA OwnedMain ==
  ASSUME IInv, Owned, \/ Resume \/ BeginSpawn \/ SpawnRoot \/ EndSpawn
                      \/ FreeTasks \/ CloseWorkers \/ JoinWorkers
  PROVE  Owned'
<1>1. CASE Resume
  <2>1. /\ pc[Main] = "idle" /\ Goto(Main, "built") /\ UNCHANGED <<saved, reused, cur, alloc>>
    BY <1>1 DEF Resume
  <2>2. \A x \in Thread : pc[x] \in {"dec", "push", "fin"} => pc'[x] = pc[x]
    BY <2>1 DEF IInv, TypeOK, Goto
  <2>3. Open /\ ~Live
    BY <2>1 DEF Open, Live
  <2> QED BY <2>1, <2>2, <2>3 DEF Owned
<1>2. CASE SpawnRoot
  BY <1>2, OwnedFrame DEF SpawnRoot, graphVars, taskVars, threadVars, Open, Live
<1>3. CASE BeginSpawn \/ EndSpawn
  <2>1. PICK l \in {"spawn", "check"} :
          /\ pc[Main] \in {"built", "spawn"} /\ Goto(Main, l)
          /\ UNCHANGED <<saved, alloc, reused, graph, done, cur>>
    BY <1>3 DEF BeginSpawn, EndSpawn, graphVars, taskVars
  <2>2. pc'[Main] = l /\ \A x \in Thread \ {Main} : pc'[x] = pc[x]
    BY <2>1, ExecAssumption DEF IInv, TypeOK, Goto
  <2>3. Open /\ Live /\ Live' /\ pc'[Main] # "post"
    BY <2>1, <2>2 DEF Open, Live
  <2>4. \A x \in Thread : pc[x] \in {"dec", "push", "fin"} => pc'[x] = pc[x]
    BY <2>1, <2>2
  <2> QED BY <2>1, <2>3, <2>4, OwnedFrame
<1>4. CASE FreeTasks \/ CloseWorkers \/ JoinWorkers
  <2>1. ~Open'
    BY <1>4, ExecAssumption DEF IInv, TypeOK, FreeTasks, CloseWorkers, JoinWorkers, Goto, Open
  <2> QED BY <2>1 DEF Owned
<1> QED BY <1>1, <1>2, <1>3, <1>4

\* The loop: a task that has been run is held by its thread until it is deleted.
LEMMA OwnedLoop ==
  ASSUME IInv, Owned, NEW th \in Thread, LoopStep(th)
  PROVE  Owned'
<1>1. CASE Finish(th)
  BY <1>1, OwnedFinish
<1>2. CASE Check(th)
  <2>1. PICK l \in {"leave", "exited", "poll", "run"} :
          /\ pc[th] = "check" /\ Goto(th, l) /\ (l = "exited" => th # Main)
          /\ UNCHANGED <<saved, alloc, reused, graph, done, cur>>
    BY <1>2 DEF Check, graphVars, taskVars
  <2>2. pc'[th] = l /\ \A x \in Thread \ {th} : pc'[x] = pc[x]
    BY <2>1 DEF IInv, TypeOK, Goto
  <2>3. (Open' <=> Open) /\ (Live' <=> Live) /\ (pc'[Main] = "post" <=> pc[Main] = "post")
    BY <2>1, <2>2, ExecAssumption DEF Open, Live
  <2>4. \A x \in Thread : pc[x] \in {"dec", "push", "fin"} => pc'[x] = pc[x]
    BY <2>1, <2>2
  <2> QED BY <2>1, <2>3, <2>4, OwnedFrame
<1>3. ASSUME NEW l \in Label, pc[th] \in Label, Goto(th, l) \/ (pc' = pc /\ l = pc[th]),
             UNCHANGED <<saved, alloc, reused, graph>>,
             pc[th] \in {"dec", "push", "fin"} => l \in {"dec", "push", "fin"},
             \A x \in Thread \ {th} : cur'[x] = cur[x],
             pc[th] # "poll" => cur' = cur, pc[th] = "poll" => done' = done,
             \A t \in done' \ done : l = "dec" /\ t = cur[th]
      PROVE  Owned'
  <2>1. pc'[th] = l /\ \A x \in Thread \ {th} : pc'[x] = pc[x]
    BY <1>3 DEF IInv, TypeOK, Goto
  <2>2. (Open' <=> Open) /\ (Live' <=> Live) /\ (pc'[Main] = "post" <=> pc[Main] = "post")
    BY <1>3, <2>1, ExecAssumption DEF Open, Live, Label
  <2>3. \A x \in Thread : pc[x] \in {"dec", "push", "fin"} =>
          pc'[x] \in {"dec", "push", "fin"} /\ cur'[x] = cur[x]
    BY <1>3, <2>1
  <2>4. \A t \in done' \ done : pc'[th] = "dec" /\ cur'[th] = t
    BY <1>3, <2>1
  <2> QED BY <1>3, <2>1, <2>2, <2>3, <2>4, OwnedFrame
<1>4. CASE Pop(th) \/ PopNothing(th)
  <2>1. PICK l \in {"run", "check"} :
          /\ pc[th] = "poll" /\ Goto(th, l)
          /\ UNCHANGED <<saved, alloc, reused, graph, done>>
          /\ cur' = cur \/ \E t : cur' = [cur EXCEPT ![th] = t]
    BY <1>4 DEF Pop, PopNothing, graphVars, taskVars
  <2>2. \A x \in Thread \ {th} : cur'[x] = cur[x]
    BY <2>1 DEF IInv, TypeOK
  <2> QED BY <1>3, <2>1, <2>2 DEF Label
<1>5. CASE RunBody(th)
  <2>1. /\ pc[th] = "run" /\ Goto(th, "dec") /\ done' = done \cup {cur[th]}
        /\ UNCHANGED <<saved, alloc, reused, graph, cur>>
    BY <1>5 DEF RunBody, graphVars
  <2> QED BY <1>3, <2>1 DEF Label
<1>6. CASE Decrement(th) \/ Spawn(th) \/ DecrementVertical(th)
  <2>1. PICK l \in {"dec", "push", "fin"} :
          /\ pc[th] \in {"dec", "push"} /\ (Goto(th, l) \/ (pc' = pc /\ l = pc[th]))
          /\ UNCHANGED <<saved, alloc, reused, graph, done, cur>>
    BY <1>6 DEF Decrement, Spawn, DecrementVertical, graphVars, taskVars
  <2> QED BY <1>3, <2>1 DEF Label
<1> QED BY <1>1, <1>2, <1>4, <1>5, <1>6 DEF LoopStep

\* Where uninitialised memory reads as zero, no task is left over when spawn_and_wait
\* has returned: only the stored ones exist, and those a thread is about to delete.
THEOREM NoLeakHolds ==
  ASSUME GarbageFlag \subseteq {FALSE}
  PROVE  Spec => []NoLeak
<1>1. Init => Owned
  BY DEF Init, Owned
<1>2. ASSUME IInv, Owned, [Next]_vars PROVE Owned'
  <2>1. CASE Halted \/ UNCHANGED vars
    BY <1>2, <2>1, OwnedFrame DEF Halted, vars, graphVars, taskVars, threadVars, Open, Live
  <2>2. CASE MainStep
    BY <1>2, <2>2, OwnedBuildFresh, OwnedReturn, OwnedMain DEF MainStep
  <2> QED BY <1>2, <2>1, <2>2, OwnedLoop DEF Next
<1>3. ASSUME IInv, Owned PROVE NoLeak
  <2>1. SUFFICES ASSUME pc[Main] = "idle", NEW t \in alloc, ~(saved # NoTask /\ t \in saved.node)
                 PROVE  \E th \in Thread : pc[th] \in {"dec", "fin"} /\ cur[th] = t
    BY DEF NoLeak
  <2>2. Open /\ ~Live /\ ~Executing
    BY <2>1 DEF Open, Live, Executing, Label
  <2>3. PICK th \in Thread : pc[th] \in {"dec", "push", "fin"} /\ cur[th] = t
    BY <1>3, <2>1, <2>2 DEF Owned
  <2>4. pc[th] = "push" => hand[th] \in Ready(th)
    BY <1>3 DEF IInv, Control, Ready
  <2>5. pc[th] # "push"
    BY <1>3, <2>2, <2>4 DEF IInv, Quiet
  <2> QED BY <2>3, <2>5
<1>4. IInv /\ Owned /\ [Next]_vars => Owned'
  BY <1>2
<1> QED BY <1>1, <1>3, <1>4, Invariance, PTL DEF Spec
=============================================================================
