-------------------------- MODULE DagReuseProofs ---------------------------
(***************************************************************************)
(* Proofs about the table of stored graphs, for any numbers, parameters    *)
(* and DAGs.                                                               *)
(***************************************************************************)
EXTENDS DagReuse, TLAPS

\* The table is correct initially ...
LEMMA InitInv == Init => ReuseInv
BY ReuseAssumption
   DEF Init, ReuseInv, TypeOK, Stored, Answered, Loop, Instance

\* ... every step keeps its types ...
LEMMA TypeStep ==
  ASSUME ReuseInv, [Next]_vars
  PROVE  TypeOK'
<1> USE ReuseAssumption DEF ReuseInv, TypeOK, table, program
<1>1. ASSUME NEW n \in No, NEW p \in Par, Start(n, p)
      PROVE  TypeOK'
  <2>1. n \in No /\ <<n, p>> \in No \X Par
    OBVIOUS
  <2>2. CASE StartFirst(n, p)
    BY <2>1, <2>2 DEF StartFirst, Called, FlagReset
  <2>3. CASE StartOther(n, p)
    BY <2>1, <2>3 DEF StartOther, Called, FlagReset
  <2>4. CASE StartReuse(n, p)
    BY <2>1, <2>4 DEF StartReuse, Called, FlagReset
  <2>5. QED
    BY <1>1, <2>2, <2>3, <2>4 DEF Start
<1>2. CASE RegisterBody
  <2>1. asked \in No \X Par
    BY <1>2 DEF RegisterBody, Answered
  <2>2. Body(asked[1], asked[2]) \subseteq Loop
    BY <2>1 DEF Body, Loop
  <2>3. QED
    BY <1>2, <2>2 DEF RegisterBody
<1>3. CASE RegisterOther
  BY <1>3 DEF RegisterOther, Loop
<1>4. CASE SpawnStored
  <2>1. inst[curr] # NoDag => inst[curr].loops \in SUBSET Loop
    BY DEF Instance
  <2>2. QED
    BY <1>4, <2>1 DEF SpawnStored, Spawned
<1>5. CASE SpawnAndStore
  <2>1. PICK marked \in BOOLEAN :
          inst' = [inst EXCEPT ![curr] = [loops |-> built, end |-> marked]]
    BY <1>5 DEF SpawnAndStore
  <2>2. [loops |-> built, end |-> marked] \in Instance
    BY DEF Instance
  <2>3. QED
    BY <1>5, <2>1, <2>2 DEF SpawnAndStore, Spawned, CountZero
<1>6. CASE SpawnOnce
  BY <1>6 DEF SpawnOnce, Spawned
<1>7. CASE Shutdown
  <2>1. \A n \in No : inst'[n] \in Instance \cup {NoDag}
    BY <1>7 DEF Shutdown, Instance
  <2>2. inst' \in [No -> Instance \cup {NoDag}]
    BY <1>7, <2>1 DEF Shutdown
  <2>3. QED
    BY <1>7, <2>2 DEF Shutdown
<1>8. CASE Halted \/ UNCHANGED vars
  BY <1>8 DEF Halted, vars
<1>9. QED
  BY <1>1, <1>2, <1>3, <1>4, <1>5, <1>6, <1>7, <1>8 DEF Next, SpawnAndWait

\* ... what it says of the stored graphs ...
LEMMA StoredStep ==
  ASSUME ReuseInv, [Next]_vars
  PROVE  Stored'
<1> USE ReuseAssumption DEF ReuseInv, TypeOK, table, program
<1>1. ASSUME NEW n \in No, NEW p \in Par, Start(n, p)
      PROVE  Stored'
  <2>0. \A m \in No : cnt[m] # "new"
    BY <1>1 DEF Start, StartFirst, StartOther, StartReuse, Called, Stored
  <2>1. CASE StartFirst(n, p)
    <3>1. inst[n] = NoDag /\ ~flag[n]
      BY <2>1 DEF StartFirst, Stored
    <3>2. QED
      BY <2>0, <2>1, <3>1 DEF StartFirst, Called, FlagReset, Stored
  <2>2. CASE StartOther(n, p)
    BY <2>0, <2>2 DEF StartOther, Called, FlagReset, Stored
  <2>3. CASE StartReuse(n, p)
    BY <2>0, <2>3 DEF StartReuse, Called, FlagReset, Stored
  <2>4. QED
    BY <1>1, <2>1, <2>2, <2>3 DEF Start
<1>2. CASE RegisterBody \/ RegisterOther
  BY <1>2 DEF RegisterBody, RegisterOther, Stored
<1>3. CASE SpawnStored \/ SpawnOnce
  <2>1. \A m \in No : cnt[m] # "new"
    BY <1>3 DEF SpawnStored, SpawnOnce, Stores, Stored
  <2>2. QED
    BY <1>3, <2>1 DEF SpawnStored, SpawnOnce, Spawned, Stored
<1>4. CASE SpawnAndStore
  <2>1. PICK marked \in BOOLEAN :
          inst' = [inst EXCEPT ![curr] = [loops |-> built, end |-> marked]]
    BY <1>4 DEF SpawnAndStore
  <2>2. cnt[curr] = "new" /\ phase = "ready" /\ ~flag[curr]
    BY <1>4 DEF SpawnAndStore, Spawned, Stores, Stored
  <2>3. built = Body(curr, vec[curr])
    BY <2>2 DEF Answered
  <2>4. inst'[curr] # NoDag /\ inst'[curr].loops = built
    <3>1. [loops |-> built, end |-> marked] \in Instance
      BY DEF Instance
    <3>2. QED
      BY <2>1, <3>1
  <2>5. \A m \in No : m # curr => inst'[m] = inst[m] /\ cnt'[m] = cnt[m] /\ cnt[m] # "new"
    BY <1>4, <2>1 DEF SpawnAndStore, CountZero, Stored
  <2>6. cnt'[curr] = "used" /\ vec' = vec /\ flag' = flag /\ curr' = curr
    BY <1>4 DEF SpawnAndStore, Spawned, CountZero
  <2>7. QED
    BY <2>2, <2>3, <2>4, <2>5, <2>6 DEF Stored
<1>5. CASE Shutdown
  <2>1. \A m \in No : /\ inst'[m] = NoDag <=> inst[m] = NoDag
                      /\ inst[m] # NoDag => inst'[m].loops = inst[m].loops
    <3>1. \A m \in No : inst[m] # NoDag => [inst[m] EXCEPT !.end = FALSE] \in Instance
      BY DEF Instance
    <3>2. QED
      BY <1>5, <3>1 DEF Shutdown, Instance
  <2>2. \A m \in No : cnt[m] # "new"
    BY <1>5 DEF Shutdown, Stored
  <2>3. QED
    BY <1>5, <2>1, <2>2 DEF Shutdown, Stored
<1>6. CASE Halted \/ UNCHANGED vars
  BY <1>6 DEF Halted, vars, Stored
<1>7. QED
  BY <1>1, <1>2, <1>3, <1>4, <1>5, <1>6 DEF Next, SpawnAndWait

\* ... and what the program may expect of the next spawn_and_wait.
LEMMA AnsweredStep ==
  ASSUME ReuseInv, [Next]_vars
  PROVE  Answered'
<1> USE ReuseAssumption DEF ReuseInv, TypeOK, table, program
<1>1. ASSUME NEW n \in No, NEW p \in Par, Start(n, p)
      PROVE  Answered'
  <2>0. /\ phase = "idle" /\ built' = {} /\ curr' = n /\ asked' = <<n, p>> /\ started'
        /\ asked'[1] = n /\ asked'[2] = p /\ asked' # <<>>
        /\ cnt[n] # "new"
    BY <1>1 DEF Start, StartFirst, StartOther, StartReuse, Called, Stored
  <2>1. CASE StartFirst(n, p)
    BY <2>0, <2>1 DEF StartFirst, FlagReset, Answered
  <2>2. CASE StartOther(n, p)
    BY <2>0, <2>2 DEF StartOther, Matches, FlagReset, Answered
  <2>3. CASE StartReuse(n, p)
    BY <2>0, <2>3 DEF StartReuse, Matches, FlagReset, Answered
  <2>4. QED
    BY <1>1, <2>1, <2>2, <2>3 DEF Start
<1>2. CASE RegisterBody \/ RegisterOther
  <2>1. CASE RegisterBody
    <3>1. /\ built = {} /\ ~flag[curr] /\ phase' = "ready"
          /\ built' = built \cup Body(asked[1], asked[2])
          /\ asked' = asked /\ flag' = flag /\ curr' = curr
      BY <2>1 DEF RegisterBody, Answered
    <3>2. built' = IF flag'[curr'] THEN {} ELSE Body(asked'[1], asked'[2])
      BY <3>1
    <3>3. QED
      BY <2>1, <3>1, <3>2 DEF RegisterBody, Answered
  <2>2. CASE RegisterOther
    BY <2>2 DEF RegisterOther, Answered
  <2>3. QED
    BY <1>2, <2>1, <2>2
<1>3. CASE SpawnAndWait
  <2>1. /\ phase' = "idle" /\ built' = {} /\ asked' = asked /\ started' = started
        /\ ~started => cnt' = cnt
    <3>1. ~started => \A n \in No : cnt[n] = "none"
      BY DEF Answered
    <3>2. QED
      BY <1>3, <3>1
         DEF SpawnAndWait, SpawnStored, SpawnAndStore, SpawnOnce, Spawned, Stores
  <2>2. QED
    BY <2>1 DEF Answered
<1>4. CASE Shutdown
  BY <1>4 DEF Shutdown, Answered
<1>5. CASE Halted \/ UNCHANGED vars
  BY <1>5 DEF Halted, vars, Answered
<1>6. QED
  BY <1>1, <1>2, <1>3, <1>4, <1>5 DEF Next

\* What the table holds and what the program expects stay in agreement, for any
\* numbers, parameters and DAGs, whether or not the program has other loops.
THEOREM Invariance == Spec => []ReuseInv
<1>1. ReuseInv /\ [Next]_vars => ReuseInv'
  BY TypeStep, StoredStep, AnsweredStep DEF ReuseInv
<1>2. QED
  BY InitInv, <1>1, PTL DEF Spec

\* What spawn_and_wait executes when the program follows a dag_start.
LEMMA RanReady ==
  ASSUME ReuseInv, SpawnAndWait, phase = "ready"
  PROVE  ran' = Body(asked[1], asked[2])
<1>1. curr \in No /\ curr = asked[1]
  BY DEF ReuseInv, TypeOK, Answered
<1>2. CASE SpawnStored
  <2>1. flag[curr] /\ inst[curr] # NoDag /\ vec[curr] = asked[2]
    BY <1>1, <1>2 DEF SpawnStored, ReuseInv, Stored, Answered
  <2>2. QED
    BY <1>1, <1>2, <2>1 DEF SpawnStored, ReuseInv, Stored
<1>3. CASE SpawnAndStore \/ SpawnOnce
  BY <1>3 DEF SpawnAndStore, SpawnOnce, ReuseInv, Answered
<1>4. QED
  BY <1>2, <1>3 DEF SpawnAndWait

\* Without a dag_start nothing is stored yet.
LEMMA RanOther ==
  ASSUME ~Bare, ReuseInv, SpawnAndWait, phase = "idle"
  PROVE  ran' = built /\ SpawnOnce /\ built = {Other} /\ ~started
<1>1. built = {Other} /\ ~started
  BY DEF SpawnAndWait, SpawnStored, SpawnAndStore, SpawnOnce, Spawned, ReuseInv, Answered
<1>2. curr \in No /\ cnt[curr] = "none" /\ ~flag[curr]
  BY <1>1 DEF ReuseInv, TypeOK, Answered, Stored
<1>3. SpawnOnce
  BY <1>2 DEF SpawnAndWait, SpawnStored, SpawnAndStore, Stores
<1>4. QED
  BY <1>1, <1>3 DEF SpawnOnce

\* spawn_and_wait executes what the program asked for, if every loop after the first
\* dag_start belongs to a DAG.
THEOREM Asked ==
  ASSUME ~Bare
  PROVE  Spec => ExecutesAsked
<1>1. ASSUME ReuseInv, Next
      PROVE  /\ phase = "ready" /\ phase' = "idle" => ran' = Body(asked[1], asked[2])
             /\ phase = "idle" /\ built # {} /\ built' = {} => ran' = built
  <2>1. CASE SpawnAndWait
    BY <1>1, <2>1, RanReady, RanOther
  <2>2. CASE ~SpawnAndWait
    <3>1. ~(phase = "ready" /\ phase' = "idle")
      BY <1>1, <2>2
         DEF Next, Start, StartFirst, StartOther, StartReuse, Called, RegisterBody,
             RegisterOther, Shutdown, Halted, vars, program
    <3>2. ~(phase = "idle" /\ built # {} /\ built' = {})
      BY <1>1, <2>2
         DEF Next, Start, StartFirst, StartOther, StartReuse, Called, RegisterBody,
             RegisterOther, Shutdown, Halted, vars
    <3>3. QED
      BY <3>1, <3>2
  <2>3. QED
    BY <2>1, <2>2
<1>2. QED
  BY <1>1, Invariance, PTL DEF Spec, ExecutesAsked

\* A stored graph is stored once.
THEOREM Once == Spec => StoredOnce
<1>1. ASSUME ReuseInv, Next
      PROVE  phase' # "halted" => \A n \in No : inst[n] # NoDag => inst'[n] = inst[n]
  <2>1. CASE SpawnAndStore
    <3>1. curr \in No /\ inst[curr] = NoDag
      BY <1>1, <2>1 DEF SpawnAndStore, Stores, ReuseInv, TypeOK, Stored
    <3>2. QED
      BY <2>1, <3>1 DEF SpawnAndStore, ReuseInv, TypeOK
  <2>2. CASE Shutdown
    BY <2>2 DEF Shutdown
  <2>3. CASE ~SpawnAndStore /\ ~Shutdown
    BY <1>1, <2>3
       DEF Next, Start, StartFirst, StartOther, StartReuse, Called, RegisterBody,
           RegisterOther, SpawnAndWait, SpawnStored, SpawnOnce, Halted, vars, table
  <2>4. QED
    BY <2>1, <2>2, <2>3
<1>2. QED
  BY <1>1, Invariance, PTL DEF Spec, StoredOnce

-----------------------------------------------------------------------------
(***************************************************************************)
(* The end tasks of stored graphs.                                         *)
(***************************************************************************)

\* While the runtime runs the end task of every stored graph exists.
Ends == phase # "halted" => \A n \in No : inst[n] # NoDag => inst[n].end

\* If every DAG has a task, the graph that is resumed still has its end task.
THEOREM Kept ==
  ASSUME Empty = {}
  PROVE  Spec => []EndKept
<1>1. Init => Ends
  BY DEF Init, Ends
<1>2. ASSUME ReuseInv, Ends, [Next]_vars
      PROVE  Ends'
  <2>1. CASE SpawnAndStore
    <3>1. PICK marked \in BOOLEAN :
            /\ Marks(built) => marked
            /\ inst' = [inst EXCEPT ![curr] = [loops |-> built, end |-> marked]]
      BY <2>1 DEF SpawnAndStore
    <3>2. built # {}
      BY <1>2, <2>1 DEF SpawnAndStore, Spawned, Stores, ReuseInv, Stored, Answered, Body
    <3>3. marked /\ phase # "halted"
      BY <2>1, <3>1, <3>2 DEF Marks, SpawnAndStore, Spawned
    <3>4. QED
      BY <1>2, <3>1, <3>3 DEF Ends, ReuseInv, TypeOK
  <2>2. CASE Shutdown
    BY <2>2 DEF Shutdown, Ends
  <2>3. CASE ~SpawnAndStore /\ ~Shutdown
    <3>1. inst' = inst /\ (phase' # "halted" => phase # "halted")
      BY <1>2, <2>3
         DEF Next, Start, StartFirst, StartOther, StartReuse, Called, RegisterBody,
             RegisterOther, SpawnAndWait, SpawnStored, SpawnOnce, Spawned, Halted, vars,
             table, program
    <3>2. QED
      BY <1>2, <3>1 DEF Ends
  <2>4. QED
    BY <2>1, <2>2, <2>3
<1>3. ReuseInv /\ Ends => EndKept
  BY DEF ReuseInv, TypeOK, Stored, Ends, EndKept
<1>4. QED
  BY <1>1, <1>2, <1>3, Invariance, PTL DEF Spec

-----------------------------------------------------------------------------
(***************************************************************************)
(* The service.                                                            *)
(***************************************************************************)

\* The parameters of the DAG kept under a number.
KeptPar == [n \in No |-> IF inst[n] = NoDag THEN NoPar ELSE vec[n]]

\* The table implements the service: dag_start answers 1 exactly for the parameters of
\* the first DAG executed under the number, and that DAG is what is executed then.
THEOREM Service ==
  ASSUME ~Bare
  PROVE  Spec => ImplementsService
<1>1. Init => S!Init
  <2> SUFFICES ASSUME Init
               PROVE  S!Init
    OBVIOUS
  <2>1. \A n \in No : inst[n] = NoDag
    BY DEF Init
  <2>2. QED
    BY <2>1 DEF Init, S!Init
<1>2. ReuseInv /\ [Next]_vars => [S!Next]_S!vars
  <2> SUFFICES ASSUME ReuseInv, [Next]_vars
               PROVE  [S!Next]_S!vars
    OBVIOUS
  <2> USE ReuseAssumption DEF table, program
  <2>0. /\ curr \in No /\ KeptPar \in [No -> Par \cup {NoPar}]
        /\ \A n \in No : KeptPar[n] = IF cnt[n] = "used" THEN vec[n] ELSE NoPar
        /\ \A n \in No : cnt[n] = "used" => vec[n] \in Par
    BY DEF KeptPar, ReuseInv, TypeOK, Stored
  <2>1. ASSUME UNCHANGED <<inst, vec>>
        PROVE  KeptPar' = KeptPar
    BY <2>1 DEF KeptPar
  <2>2. ASSUME NEW n \in No, NEW p \in Par, Start(n, p)
        PROVE  S!Start(n, p)
    <3>1. /\ phase = "idle" /\ asked' = <<n, p>> /\ started' = TRUE /\ ran' = ran
          /\ inst' = inst
      BY <2>2 DEF Start, StartFirst, StartOther, StartReuse, Called
    <3>2. cnt[n] # "new"
      BY <3>1 DEF ReuseInv, Stored
    <3>3. KeptPar' = KeptPar
      <4>1. \A m \in No : inst[m] # NoDag => vec'[m] = vec[m]
        BY <2>2 DEF Start, StartFirst, StartOther, StartReuse, ReuseInv, TypeOK, Stored
      <4>2. QED
        BY <3>1, <4>1 DEF KeptPar
    <3>4. phase' = IF KeptPar[n] = p THEN "ready" ELSE "building"
      <4>1. CASE StartFirst(n, p)
        BY <2>0, <4>1 DEF StartFirst
      <4>2. CASE StartOther(n, p)
        BY <2>0, <3>2, <4>2 DEF StartOther, Matches, ReuseInv, TypeOK
      <4>3. CASE StartReuse(n, p)
        BY <2>0, <3>2, <4>3 DEF StartReuse, Matches, ReuseInv, TypeOK
      <4>4. QED
        BY <2>2, <4>1, <4>2, <4>3 DEF Start
    <3>5. QED
      BY <3>1, <3>3, <3>4 DEF S!Start, S!Hit, KeptPar
  <2>3. CASE RegisterBody
    BY <2>1, <2>3 DEF RegisterBody, S!Build, S!Next, KeptPar
  <2>4. CASE RegisterOther
    BY <2>1, <2>4 DEF RegisterOther, S!vars, KeptPar
  <2>5. CASE SpawnAndWait /\ phase = "ready"
    <3>1. /\ ran' = Body(asked[1], asked[2]) /\ phase' = "idle"
          /\ asked' = asked /\ started' = started /\ vec' = vec
      BY <2>5, RanReady
         DEF SpawnAndWait, SpawnStored, SpawnAndStore, SpawnOnce, Spawned
    <3>2. curr = asked[1] /\ cnt[curr] # "none"
      BY <2>5 DEF ReuseInv, Answered
    <3>3. KeptPar' = [KeptPar EXCEPT ![asked[1]] = IF @ = NoPar THEN asked[2] ELSE @]
      <4>1. CASE SpawnAndStore
        <5>1. cnt[curr] = "new" /\ vec[curr] = asked[2] /\ KeptPar[curr] = NoPar
          BY <2>0, <2>5, <4>1 DEF SpawnAndStore, Stores, ReuseInv, Answered
        <5>2. inst'[curr] # NoDag /\ \A m \in No : m # curr => inst'[m] = inst[m]
          <6>1. \A marked \in BOOLEAN : [loops |-> built, end |-> marked] \in Instance
            BY DEF Instance, ReuseInv, TypeOK
          <6>2. QED
            BY <2>0, <4>1, <6>1 DEF SpawnAndStore, ReuseInv, TypeOK
        <5>3. KeptPar'[curr] = asked[2]
          BY <2>0, <3>1, <5>1, <5>2 DEF KeptPar
        <5>4. \A m \in No : m # curr => KeptPar'[m] = KeptPar[m]
          BY <3>1, <5>2 DEF KeptPar
        <5>5. KeptPar' = [m \in No |-> KeptPar'[m]]
          BY DEF KeptPar
        <5>6. QED
          BY <2>0, <3>2, <5>1, <5>3, <5>4, <5>5
      <4>2. CASE SpawnStored \/ SpawnOnce
        <5>1. cnt[curr] = "used"
          BY <2>0, <3>2, <4>2 DEF SpawnStored, SpawnOnce, Stores, ReuseInv, TypeOK, Stored
        <5>2. KeptPar[curr] # NoPar
          BY <2>0, <5>1
        <5>3. KeptPar' = KeptPar
          BY <2>1, <3>1, <4>2 DEF SpawnStored, SpawnOnce
        <5>4. QED
          BY <2>0, <3>2, <5>2, <5>3
      <4>3. QED
        BY <2>5, <4>1, <4>2 DEF SpawnAndWait
    <3>4. QED
      BY <2>5, <3>1, <3>3 DEF S!Execute, S!Next, KeptPar
  <2>6. CASE SpawnAndWait /\ phase # "ready"
    <3>1. phase = "idle"
      BY <2>6 DEF SpawnAndWait, SpawnStored, SpawnAndStore, SpawnOnce, Spawned
    <3>2. ran' = {Other} /\ SpawnOnce /\ ~started
      BY <2>6, <3>1, RanOther
    <3>3. KeptPar' = KeptPar
      BY <2>1, <3>2 DEF SpawnOnce, Spawned
    <3>4. QED
      BY <3>1, <3>2, <3>3 DEF SpawnOnce, Spawned, S!ExecuteOther, S!Next, KeptPar
  <2>7. CASE Shutdown
    <3>1. \A n \in No : inst'[n] = NoDag <=> inst[n] = NoDag
      <4>1. \A n \in No : inst[n] # NoDag => [inst[n] EXCEPT !.end = FALSE] \in Instance
        BY DEF Instance, ReuseInv, TypeOK
      <4>2. QED
        BY <2>7, <4>1 DEF Shutdown
    <3>2. KeptPar' = KeptPar
      BY <2>7, <3>1 DEF Shutdown, KeptPar
    <3>3. QED
      BY <2>7, <3>2 DEF Shutdown, S!Halt, S!Next, KeptPar
  <2>8. CASE Halted \/ UNCHANGED vars
    BY <2>1, <2>8 DEF Halted, vars, S!vars, KeptPar
  <2>9. QED
    BY <2>2, <2>3, <2>4, <2>5, <2>6, <2>7, <2>8 DEF Next, S!Next
<1>3. QED
  BY <1>1, <1>2, Invariance, PTL DEF Spec, S!Spec, ImplementsService
=============================================================================
