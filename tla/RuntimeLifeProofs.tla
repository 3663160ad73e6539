------------------------- MODULE RuntimeLifeProofs -------------------------
(***************************************************************************)
(* Proofs about the life of the runtime, for any number of starts, rounds, *)
(* threads and chains of tasks; about the programs that use it, for any    *)
(* texts; and about the cores threads are bound to, for any settings.      *)
(***************************************************************************)
EXTENDS RuntimeStart, RaceTrace, FiniteSetTheorems, SequenceTheorems, WellFoundedInduction, TLAPS

\* The greatest argument of aceMesh_runtime_init.
LEMMA MaxThreadsType ==
  /\ MaxThreads \in ThreadNums /\ MaxThreads \in Nat \ {0}
  /\ \A n \in ThreadNums : n <= MaxThreads
<1>1. PICK n \in ThreadNums : \A m \in ThreadNums : m <= n
  BY ThreadNumsAssumption
<1>2. MaxThreads \in ThreadNums /\ \A n1 \in ThreadNums : n1 <= MaxThreads
  BY <1>1 DEF MaxThreads
<1>3. QED
  BY <1>2, ThreadNumsAssumption

\* A start has numbers enough for its threads.
LEMMA StartsNumbered ==
  ASSUME NEW a \in Nat, a < MaxInit, NEW n \in ThreadNums
  PROVE  a * MaxThreads + n <= (a + 1) * MaxThreads
<1>1. n \in Nat /\ MaxThreads \in Nat /\ n <= MaxThreads
  BY MaxThreadsType, ThreadNumsAssumption
<1>2. (a + 1) * MaxThreads = a * MaxThreads + MaxThreads
  BY <1>1
<1>3. a * MaxThreads \in Nat
  BY <1>1
<1>4. QED
  BY <1>1, <1>2, <1>3

\* All starts together stay within the numbers there are.
LEMMA ObjectsNumbered ==
  ASSUME NEW a \in 0 .. MaxInit
  PROVE  a * MaxThreads \in Nat /\ a * MaxThreads <= MaxInit * MaxThreads /\ MaxInit * MaxThreads \in Nat
<1>1. MaxThreads \in Nat /\ MaxInit \in Nat /\ MaxInit - a \in Nat
  BY MaxThreadsType, BoundsAssumption
<1>2. (MaxInit - a) * MaxThreads \in Nat
  BY <1>1
<1>3. MaxInit * MaxThreads = a * MaxThreads + (MaxInit - a) * MaxThreads
  BY <1>1
<1>4. a * MaxThreads \in Nat /\ MaxInit * MaxThreads \in Nat
  BY <1>1
<1>5. QED
  BY <1>2, <1>3, <1>4

LEMMA InitInv == Init => LifeInv
<1> SUFFICES ASSUME Init PROVE LifeInv
  OBVIOUS
<1> USE AfterAssumption, BoundsAssumption DEF Init
<1>1. TypeOK
  <2>1. schedulers \in [{} -> Object \cup {None}] /\ threads \in [{} -> Object \cup {None}]
    OBVIOUS
  <2>2. Filled = {} /\ Filled \ {0} = {}
    BY DEF Filled
  <2>3. num_threads \in ThreadNums \cup {1} /\ i \in 1 .. num_threads
    OBVIOUS
  <2>4. /\ queue \in [Object -> SUBSET Task] /\ wcur \in [Object -> Task \cup {NoTask}]
        /\ wpc \in [Object -> {"none", "gate", "test", "take", "execute", "ended"}]
        /\ place \in [Task -> Nat]
    OBVIOUS
  <2>5. /\ is_run = FALSE /\ close_all_threads = FALSE /\ inits = 0 /\ rounds = 0 /\ index = 0
        /\ alive = {} /\ mcur = NoTask /\ mpc = "out" /\ left = 0
    OBVIOUS
  <2>6. /\ schedulers \in [Filled -> Object \cup {None}]
        /\ threads \in [Filled \ {0} -> Object \cup {None}]
    BY <2>1, <2>2
  <2> HIDE DEF Init
  <2>7. inits \in 0 .. MaxInit /\ rounds \in 0 .. MaxRound /\ index \in Nat /\ left \in Nat
    BY <2>5
  <2>8. QED
    BY <2>3, <2>4, <2>5, <2>6, <2>7 DEF TypeOK
<1>2. Table /\ Running /\ OnePlace
  BY DEF Table, Running, OnePlace
<1>3. Numbered
  BY MaxThreadsType DEF Numbered
<1>4. Unended({})
  BY FS_EmptySet DEF Unended, Active
<1>5. Rounds
  BY <1>4 DEF Rounds
<1>6. QED
  BY <1>1, <1>2, <1>3, <1>5 DEF LifeInv

\* The next object has a number.
LEMMA NextNumber ==
  ASSUME LifeInv
  PROVE  /\ \A n \in ThreadNums : Start(n) => index \in Object
         /\ CreateWorker => index \in Object
<1> USE DEF LifeInv, TypeOK, Numbered
<1>1. ASSUME NEW n \in ThreadNums, Start(n)
      PROVE  index \in Object
  <2>0. inits < MaxInit /\ mpc = "out"
    BY <1>1 DEF Start
  <2>1. inits < MaxInit /\ mpc = "out" /\ inits \in Nat /\ inits + 1 \in 0 .. MaxInit
    BY <2>0, BoundsAssumption
  <2>2. inits * MaxThreads + n <= (inits + 1) * MaxThreads
    BY <2>1, StartsNumbered
  <2>3. (inits + 1) * MaxThreads <= MaxInit * MaxThreads
    BY <2>1, ObjectsNumbered
  <2>4. inits * MaxThreads \in Nat /\ (inits + 1) * MaxThreads \in Nat
        /\ MaxInit * MaxThreads \in Nat
    BY <2>1, ObjectsNumbered
  <2>5. n \in Nat \ {0}
    BY ThreadNumsAssumption
  <2>6. index <= inits * MaxThreads
    BY <2>1
  <2>7. QED
    BY <2>2, <2>3, <2>4, <2>5, <2>6 DEF Object
<1>2. ASSUME CreateWorker
      PROVE  index \in Object
  <2>1. mpc = "create" /\ i < num_threads /\ num_threads \in Nat
    BY <1>2, ThreadNumsAssumption DEF CreateWorker
  <2>2. inits * MaxThreads \in Nat /\ inits * MaxThreads <= MaxInit * MaxThreads
        /\ MaxInit * MaxThreads \in Nat
    BY ObjectsNumbered
  <2>3. index + (num_threads - i) <= inits * MaxThreads
    BY <2>1
  <2>4. QED
    BY <2>1, <2>2, <2>3 DEF Object
<1>3. QED
  BY <1>1, <1>2

\* A round is on while a task is executed; when none is left nothing is queued.
LEMMA RoundFacts ==
  ASSUME LifeInv
  PROVE  /\ \A t \in Task : Active(t) => left > 0 /\ mpc = "wait" /\ left - 1 \in Nat
         /\ mpc # "wait" => \A o \in Object : queue[o] = {} /\ wcur[o] = NoTask
<1> USE DEF LifeInv, TypeOK
<1>1. ASSUME NEW t \in Task, Active(t)
      PROVE  left > 0 /\ mpc = "wait" /\ left - 1 \in Nat
  <2>1. PICK S \in SUBSET Task : Unended(S)
    BY DEF Rounds
  <2>2. t \in S /\ left = Cardinality(S)
    BY <1>1, <2>1 DEF Unended
  <2>3. IsFiniteSet(S)
    BY AfterAssumption, FS_Subset
  <2>4. left # 0
    BY <2>2, <2>3, FS_EmptySet
  <2>5. QED
    BY <2>4 DEF Rounds
<1>2. ASSUME mpc # "wait", NEW o \in Object
      PROVE  queue[o] = {} /\ wcur[o] = NoTask
  BY <1>1, <1>2 DEF Active
<1>3. QED
  BY <1>1, <1>2

\* Whoever executes a task, its release puts the next one in a queue.
LEMMA ReleaseType ==
  ASSUME LifeInv, NEW t \in Task, Active(t), Release(t)
  PROVE  /\ left' \in Nat
         /\ queue' \in [Object -> SUBSET Task]
         /\ After[t] # NoTask =>
              /\ After[t] \in Task /\ schedulers[place[After[t]]] \in Object
              /\ queue' = [queue EXCEPT ![schedulers[place[After[t]]]] = @ \cup {After[t]}]
         /\ After[t] = NoTask => queue' = queue
<1> USE DEF LifeInv, TypeOK
<1>1. mpc = "wait" /\ left - 1 \in Nat
  BY RoundFacts
<1>2. inits > 0
  BY <1>1 DEF Table
<1>3. \A k \in Slots : schedulers[k] \in Object
  <2>1. alive = {schedulers[k] : k \in {k \in Slots : Held(k)}}
    BY <1>2 DEF Table
  <2>2. \A k \in Slots : Held(k)
    BY <1>1 DEF Held
  <2>3. QED
    BY <2>1, <2>2
<1>4. After[t] # NoTask => After[t] \in Task /\ schedulers[place[After[t]]] \in Object
  BY <1>1, <1>3, AfterAssumption DEF Rounds
<1>5. QED
  BY <1>1, <1>4 DEF Release

\* What a step that starts nothing leaves of the tables' slots.
LEMMA FilledKept ==
  ASSUME inits' = inits, num_threads' = num_threads
  PROVE  Filled' = Filled /\ Slots' = Slots
BY DEF Filled, Slots

\* The statics, the tables and the places of tasks keep their types.
LEMMA TypeStep ==
  ASSUME LifeInv, [Next]_vars
  PROVE  TypeOK'
<1> USE BoundsAssumption DEF LifeInv, TypeOK, statics, tables, work
<1>0. num_threads \in Nat \ {0}
  BY ThreadNumsAssumption
<1>1. ASSUME NEW n \in ThreadNums, Start(n)
      PROVE  TypeOK'
  <2>0. inits' = inits + 1 /\ inits < MaxInit
    BY <1>1 DEF Start
  <2>1. index \in Object /\ n \in Nat \ {0} /\ inits' # 0 /\ inits' \in 0 .. MaxInit
    BY <1>1, <2>0, NextNumber, ThreadNumsAssumption
  <2>2. schedulers' \in [0 .. n - 1 -> Object \cup {None}]
        /\ threads' \in [1 .. n - 1 -> Object \cup {None}]
    BY <1>1, <2>1 DEF Start
  <2>3. Filled' = 0 .. n - 1 /\ Filled' \ {0} = 1 .. n - 1
    BY <1>1, <2>1 DEF Start, Slots, Filled
  <2>4. num_threads' \in ThreadNums \cup {1} /\ i' \in 1 .. num_threads' /\ index' \in Nat
    BY <1>1, <2>1 DEF Start
  <2>5. alive' \subseteq Object
    BY <1>1, <2>1 DEF Start
  <2>6. QED
    BY <1>1, <2>1, <2>2, <2>3, <2>4, <2>5 DEF Start
<1>2. CASE CreateWorker
  <2>1. index \in Object /\ i < num_threads
    BY <1>2, NextNumber DEF CreateWorker
  <2>2. Filled' = Filled
    BY <1>2, FilledKept DEF CreateWorker
  <2>a. schedulers' \in [Filled -> Object \cup {None}] /\ alive' \subseteq Object
    BY <1>2, <2>1 DEF CreateWorker
  <2>b. threads' = threads \/ threads' = [threads EXCEPT ![i] = index]
    BY <1>2 DEF CreateWorker
  <2>c. wpc' = wpc \/ wpc' = [wpc EXCEPT ![index] = "gate"]
    BY <1>2 DEF CreateWorker
  <2>3. /\ threads' \in [Filled \ {0} -> Object \cup {None}]
        /\ wpc' \in [Object -> {"none", "gate", "test", "take", "execute", "ended"}]
    BY <2>1, <2>b, <2>c
  <2>4. i' \in 1 .. num_threads' /\ index' \in Nat
    BY <1>0, <1>2, <2>1 DEF CreateWorker
  <2>5. QED
    BY <1>2, <2>2, <2>a, <2>3, <2>4 DEF CreateWorker
<1>3. CASE OpenGate \/ MainReturn \/ CloseAll \/ CloseEnd
  <2>1. Filled' = Filled /\ alive' \subseteq Object /\ i' \in 1 .. num_threads'
    BY <1>0, <1>3, FilledKept DEF OpenGate, MainReturn, CloseAll, CloseEnd
  <2>2. QED
    BY <1>3, <2>1 DEF OpenGate, MainReturn, CloseAll, CloseEnd, GateKept
<1>4. ASSUME NEW p \in [Task -> Slots], SpawnAndWait(p)
      PROVE  TypeOK'
  <2>1. left' \in Nat
    BY <1>4, AfterAssumption, FS_CardinalityType DEF SpawnAndWait
  <2>2. place' \in [Task -> Nat] /\ rounds' \in 0 .. MaxRound
    BY <1>0, <1>4 DEF SpawnAndWait, Slots
  <2>3. queue' \in [Object -> SUBSET Task]
    BY <1>4 DEF SpawnAndWait, Roots
  <2>4. Filled' = Filled
    BY <1>4, FilledKept DEF SpawnAndWait
  <2>5. QED
    BY <1>4, <2>1, <2>2, <2>3, <2>4 DEF SpawnAndWait
<1>5. CASE MainTake
  <2>1. PICK t \in queue[schedulers[0]] :
          mcur' = t /\ queue' = [queue EXCEPT ![schedulers[0]] = @ \ {t}]
    BY <1>5 DEF MainTake
  <2>2. mpc = "wait" /\ Filled' = Filled
    BY <1>5, FilledKept DEF MainTake
  <2>3. schedulers[0] \in Object
    BY <2>2 DEF Table
  <2>4. QED
    BY <1>5, <2>1, <2>2, <2>3 DEF MainTake
<1>6. CASE MainExecute
  <2>1. mcur \in Task /\ Active(mcur)
    BY <1>6 DEF MainExecute, Active
  <2>2. left' \in Nat /\ queue' \in [Object -> SUBSET Task]
    BY <1>6, <2>1, ReleaseType DEF MainExecute
  <2>3. Filled' = Filled
    BY <1>6, FilledKept DEF MainExecute
  <2>4. QED
    BY <1>6, <2>2, <2>3 DEF MainExecute
<1>7. CASE JoinWorker \/ JoinNothing
  <2>1. Filled' = Filled /\ alive' \subseteq Object /\ i' \in 1 .. num_threads'
    BY <1>0, <1>7, FilledKept DEF JoinWorker, JoinNothing
  <2>2. QED
    BY <1>7, <2>1 DEF JoinWorker, JoinNothing
<1>8. ASSUME NEW o \in Object, PassGate(o) \/ TestClose(o)
      PROVE  TypeOK'
  <2>1. Filled' = Filled
    BY <1>8, FilledKept DEF PassGate, TestClose
  <2>2. wpc' \in [Object -> {"none", "gate", "test", "take", "execute", "ended"}]
    BY <1>8 DEF PassGate, TestClose, Goto
  <2>3. QED
    BY <1>8, <2>1, <2>2 DEF PassGate, TestClose
<1>9. ASSUME NEW o \in Object, WorkerTake(o)
      PROVE  TypeOK'
  <2>1. Filled' = Filled
    BY <1>9, FilledKept DEF WorkerTake
  <2>2. /\ wpc' \in [Object -> {"none", "gate", "test", "take", "execute", "ended"}]
        /\ queue' \in [Object -> SUBSET Task] /\ wcur' \in [Object -> Task \cup {NoTask}]
    BY <1>9 DEF WorkerTake, Goto
  <2>3. QED
    BY <1>9, <2>1, <2>2 DEF WorkerTake
<1>10. ASSUME NEW o \in Object, WorkerExecute(o)
       PROVE  TypeOK'
  <2>1. wcur[o] \in Task /\ Active(wcur[o])
    BY <1>10 DEF WorkerExecute, OnePlace, Active
  <2>2. left' \in Nat /\ queue' \in [Object -> SUBSET Task]
    BY <1>10, <2>1, ReleaseType DEF WorkerExecute
  <2>3. Filled' = Filled
    BY <1>10, FilledKept DEF WorkerExecute
  <2>4. QED
    BY <1>10, <2>2, <2>3 DEF WorkerExecute, Goto
<1>11. CASE UNCHANGED vars
  <2>1. Filled' = Filled
    BY <1>11, FilledKept DEF vars
  <2>2. QED
    BY <1>11, <2>1 DEF vars
<1>12. QED
  BY <1>1, <1>2, <1>3, <1>4, <1>5, <1>6, <1>7, <1>8, <1>9, <1>10, <1>11
     DEF Next, MainStep, WorkerStep

\* The tables follow the threads that fill and empty them.
LEMMA TableStep ==
  ASSUME LifeInv, [Next]_vars
  PROVE  Table'
<1> USE BoundsAssumption DEF LifeInv, TypeOK, statics, tables, work
<1>0. num_threads \in Nat \ {0} /\ num_threads - 1 \in Nat /\ 0 \in Slots
  BY ThreadNumsAssumption DEF Slots
<1>1. ASSUME NEW n \in ThreadNums, Start(n)
      PROVE  Table'
  <2>1. index \in Object /\ n \in Nat \ {0} /\ index \in Nat
    BY <1>1, NextNumber, ThreadNumsAssumption
  <2>2. inits' > 0 /\ mpc' = "create" /\ i' = 1 /\ index' = index + 1 /\ num_threads' = n
    BY <1>1 DEF Start
  <2>3. Slots' = 0 .. n - 1 /\ 0 \in Slots'
    BY <2>1, <2>2 DEF Slots
  <2>4. \A k \in Slots' : schedulers'[k] = IF k = 0 THEN index ELSE None
    BY <1>1, <2>3 DEF Start
  <2>5. \A k \in Slots' \ {0} : threads'[k] = None
    BY <1>1, <2>3 DEF Start
  <2>6. \A k \in Slots' : Held(k)' <=> k = 0
    BY <2>2, <2>3 DEF Held
  <2>7. alive = {}
    BY <1>1 DEF Start, Table, Held
  <2>8. alive' = {schedulers'[k] : k \in {k \in Slots' : Held(k)'}}
    BY <1>1, <2>3, <2>4, <2>6, <2>7 DEF Start
  <2>9. \A k \in Slots' : (k = 0 <=> ~(k >= 1)) /\ index + 0 = index
    BY <2>1, <2>3
  <2>10. QED
    BY <2>1, <2>2, <2>3, <2>4, <2>5, <2>8, <2>9 DEF Table
<1>2. CASE CreateWorker
  <2>1. /\ mpc = "create" /\ i < num_threads /\ i \in Slots \ {0} /\ index \in Object
        /\ inits > 0 /\ index = schedulers[0] + i /\ 0 \in Slots
    BY <1>2, <1>0, NextNumber DEF CreateWorker, Table, Slots
  <2>2. /\ inits' = inits /\ mpc' = "create" /\ i' = i + 1 /\ index' = index + 1
        /\ num_threads' = num_threads /\ Slots' = Slots
        /\ alive' = alive \cup {index}
    BY <1>2 DEF CreateWorker, Slots
  <2>3. schedulers' = [schedulers EXCEPT ![i] = index] /\ i \in DOMAIN schedulers
        /\ DOMAIN schedulers = Slots
    BY <1>2, <2>1 DEF CreateWorker, Filled
  <2>4. schedulers'[0] = schedulers[0]
    BY <1>0, <2>1, <2>3
  <2>5. \A k \in Slots : schedulers'[k] = IF k >= i + 1 THEN None ELSE schedulers[0] + k
    BY <2>1, <2>3 DEF Table, Slots
  <2>6. \A k \in Slots \ {0} : threads'[k] \in {None, schedulers'[k]}
    <3>1. threads' = threads \/ threads' = [threads EXCEPT ![i] = index]
      BY <1>2 DEF CreateWorker
    <3>2. DOMAIN threads = Slots \ {0}
      BY <2>1 DEF Filled
    <3>3. \A k \in Slots \ {0} : threads[k] \in {None, schedulers[k]}
          /\ (k = i => schedulers[k] = None)
      BY <2>1 DEF Table
    <3>4. QED
      BY <2>1, <2>3, <3>1, <3>2, <3>3
  <2>7. alive' = {schedulers'[k] : k \in {k \in Slots : Held(k)'}}
    <3>1. alive = {schedulers[k] : k \in {k \in Slots : k < i}}
      BY <2>1 DEF Table, Held
    <3>2. \A k \in Slots : Held(k)' <=> k < i \/ k = i
      BY <2>1, <2>2 DEF Held, Slots
    <3>3. \A k \in Slots : k # i => schedulers'[k] = schedulers[k]
      BY <2>3
    <3>4. schedulers'[i] = index
      BY <2>3
    <3>a. i \in Slots /\ ~(i < i)
      BY <2>1
    <3>5. {k \in Slots : Held(k)'} = {k \in Slots : k < i} \cup {i} /\ ~(i < i)
      BY <3>a, <3>2
    <3>6. \A k \in {k \in Slots : k < i} : k # i /\ k \in Slots
      BY <3>5
    <3>7. {schedulers'[k] : k \in {k \in Slots : k < i} \cup {i}} =
            {schedulers[k] : k \in {k \in Slots : k < i}} \cup {index}
      BY <3>3, <3>4, <3>6
    <3>8. QED
      BY <2>2, <3>1, <3>5, <3>7
  <2>9. schedulers'[0] \in Object /\ schedulers[0] \in Int
    BY <2>1, <2>4 DEF Table, Object
  <2>8. index' = schedulers'[0] + i'
    BY <2>1, <2>2, <2>4, <2>9
  <2>10. QED
    BY <2>1, <2>2, <2>4, <2>5, <2>6, <2>7, <2>8, <2>9 DEF Table
<1>3. CASE OpenGate
  <2>1. /\ mpc = "create" /\ i = num_threads /\ mpc' = "ready" /\ inits > 0
        /\ UNCHANGED <<index, num_threads, schedulers, threads, alive, inits>>
    BY <1>3 DEF OpenGate, Table
  <2>2. Slots' = Slots /\ \A k \in Slots : k < i /\ ~(k >= i)
    BY <1>0, <2>1 DEF Slots
  <2>3. \A k \in Slots : Held(k)' /\ Held(k)
    BY <2>1, <2>2 DEF Held
  <2>4. QED
    BY <2>1, <2>2, <2>3 DEF Table
<1>4. CASE CloseAll
  <2>1. /\ mpc = "ready" /\ i' = 1 /\ mpc' = "join" /\ inits > 0
        /\ UNCHANGED <<index, num_threads, schedulers, threads, alive, inits>>
    BY <1>4 DEF CloseAll, Table
  <2>2. Slots' = Slots /\ \A k \in Slots : k = 0 \/ k >= 1
    BY <2>1 DEF Slots
  <2>3. \A k \in Slots : Held(k)' /\ Held(k)
    BY <2>1, <2>2 DEF Held
  <2>4. QED
    BY <2>1, <2>2, <2>3 DEF Table
<1>5. CASE JoinWorker \/ JoinNothing
  <2>1. /\ mpc = "join" /\ mpc' \in {"join", "crashed"} /\ inits > 0
        /\ i < num_threads /\ i \in Slots /\ i # 0
        /\ UNCHANGED <<index, num_threads, schedulers, threads, inits>>
    BY <1>0, <1>5 DEF JoinWorker, JoinNothing, Table, Slots
  <2>2. \/ alive' = alive /\ i' = i
        \/ alive' = alive \ {schedulers[i]} /\ i' = i + 1
    BY <1>5 DEF JoinWorker, JoinNothing
  <2>3. Slots' = Slots /\ alive = {schedulers[k] : k \in {k \in Slots : Held(k)}}
    BY <2>1 DEF Slots, Table
  <2>4. \A k \in Slots : k # i => schedulers[k] # schedulers[i]
    BY <2>1 DEF Table, Object, Slots
  <2>5. \A k \in Slots : Held(k)' <=> Held(k) /\ (i' = i \/ k # i)
    BY <2>1, <2>2 DEF Held, Slots
  <2>6. i' = i \/ (i' = i + 1 /\ i + 1 # i)
    BY <2>2
  <2>7. alive' = {schedulers[k] : k \in {k \in Slots : Held(k)'}}
    BY <2>1, <2>2, <2>3, <2>4, <2>5, <2>6
  <2>8. QED
    BY <2>1, <2>3, <2>7 DEF Table
<1>6. CASE CloseEnd
  <2>1. /\ mpc = "join" /\ mpc' = "out" /\ i = num_threads /\ inits > 0
        /\ alive' = alive \ {schedulers[0]}
        /\ UNCHANGED <<index, num_threads, schedulers, threads, inits>>
    BY <1>6 DEF CloseEnd, Table
  <2>2. Slots' = Slots /\ \A k \in Slots : ~Held(k)' /\ (Held(k) <=> k = 0)
    BY <1>0, <2>1 DEF Slots, Held
  <2>3. alive' = {}
    BY <2>1, <2>2 DEF Table
  <2>4. QED
    BY <2>1, <2>2, <2>3 DEF Table
<1>7. ASSUME UNCHANGED <<index, num_threads, schedulers, threads, alive, inits, i>>,
             mpc' = mpc \/ {mpc, mpc'} = {"ready", "wait"}
      PROVE  Table'
  <2>1. Slots' = Slots /\ \A k \in Slots : Held(k)' <=> Held(k)
    BY <1>7 DEF Slots, Held
  <2>2. QED
    BY <1>7, <2>1 DEF Table
<1>8. ASSUME NEW p \in [Task -> Slots], SpawnAndWait(p)
      PROVE  Table'
  BY <1>7, <1>8 DEF SpawnAndWait
<1>9. CASE MainTake \/ MainExecute \/ MainReturn \/ UNCHANGED vars
  <2>1. UNCHANGED <<index, num_threads, schedulers, threads, alive, inits, i>>
    BY <1>9 DEF MainTake, MainExecute, MainReturn, vars
  <2>2. mpc' = mpc \/ (mpc' = "ready" /\ mpc = "wait")
    BY <1>9 DEF MainTake, MainExecute, MainReturn, vars
  <2>3. QED
    BY <1>7, <2>1, <2>2
<1>10. ASSUME NEW o \in Object, WorkerStep(o)
       PROVE  Table'
  <2>1. UNCHANGED <<index, num_threads, schedulers, threads, alive, inits, i, mpc>>
    BY <1>10 DEF WorkerStep, PassGate, TestClose, WorkerTake, WorkerExecute
  <2>2. QED
    BY <1>7, <2>1
<1>11. QED
  BY <1>1, <1>2, <1>3, <1>4, <1>5, <1>6, <1>8, <1>9, <1>10 DEF Next, MainStep

\* The numbers still suffice for what is left of a start.
LEMMA NumberedStep ==
  ASSUME LifeInv, [Next]_vars
  PROVE  Numbered'
<1> USE BoundsAssumption DEF LifeInv, TypeOK, statics, tables
<1>0. num_threads \in Nat \ {0} /\ inits * MaxThreads \in Nat /\ inits \in Nat
  BY ThreadNumsAssumption, ObjectsNumbered
<1>1. ASSUME NEW n \in ThreadNums, Start(n)
      PROVE  Numbered'
  <2>1. inits < MaxInit /\ mpc = "out"
    BY <1>1 DEF Start
  <2>2. inits * MaxThreads + n <= (inits + 1) * MaxThreads /\ n \in Nat
        /\ (inits + 1) * MaxThreads \in Nat
    BY <1>0, <2>1, StartsNumbered, ObjectsNumbered, ThreadNumsAssumption
  <2>3. index <= inits * MaxThreads
    BY <2>1 DEF Numbered
  <2>4. inits' = inits + 1 /\ mpc' = "create" /\ num_threads' = n /\ i' = 1 /\ index' = index + 1
    BY <1>1 DEF Start
  <2>5. MaxThreads' = MaxThreads
    BY DEF MaxThreads
  <2>6. index' + (num_threads' - i') <= inits' * MaxThreads
    BY <1>0, <2>2, <2>3, <2>4
  <2>7. QED
    BY <2>4, <2>5, <2>6 DEF Numbered
<1>2. CASE CreateWorker
  <2>1. /\ mpc = "create" /\ mpc' = "create" /\ inits' = inits /\ num_threads' = num_threads
        /\ i' = i + 1 /\ index' = index + 1
    BY <1>2 DEF CreateWorker
  <2>2. index + (num_threads - i) <= inits * MaxThreads
    BY <2>1 DEF Numbered
  <2>3. index' + (num_threads' - i') = index + (num_threads - i)
    BY <1>0, <2>1
  <2>4. QED
    BY <2>1, <2>2, <2>3 DEF Numbered
<1>3. CASE OpenGate
  <2>1. /\ mpc = "create" /\ mpc' # "create" /\ inits' = inits /\ i = num_threads /\ index' = index
    BY <1>3 DEF OpenGate
  <2>2. QED
    BY <1>0, <2>1 DEF Numbered
<1>4. ASSUME UNCHANGED <<index, inits, num_threads>>, mpc # "create", mpc' # "create"
      PROVE  Numbered'
  BY <1>4 DEF Numbered
<1>5. ASSUME NEW p \in [Task -> Slots], SpawnAndWait(p)
      PROVE  Numbered'
  BY <1>4, <1>5 DEF SpawnAndWait
<1>6. CASE MainTake \/ MainExecute \/ MainReturn
  BY <1>4, <1>6 DEF MainTake, MainExecute, MainReturn
<1>7. CASE CloseAll \/ JoinWorker \/ JoinNothing \/ CloseEnd
  BY <1>4, <1>7 DEF CloseAll, JoinWorker, JoinNothing, CloseEnd
<1>8. ASSUME UNCHANGED <<index, inits, num_threads, mpc, i>>
      PROVE  Numbered'
  BY <1>8 DEF Numbered
<1>9. ASSUME NEW o \in Object, WorkerStep(o)
      PROVE  Numbered'
  BY <1>8, <1>9 DEF WorkerStep, PassGate, TestClose, WorkerTake, WorkerExecute
<1>10. CASE UNCHANGED vars
  BY <1>8, <1>10 DEF vars
<1>11. QED
  BY <1>1, <1>2, <1>3, <1>5, <1>6, <1>7, <1>9, <1>10 DEF Next, MainStep

\* A running thread keeps its slot: a slot is emptied only when its thread has ended.
LEMMA RunningStep ==
  ASSUME LifeInv, [Next]_vars
  PROVE  Running'
<1> USE BoundsAssumption DEF LifeInv, TypeOK, statics, tables, work
<1>0. num_threads \in Nat \ {0}
  BY ThreadNumsAssumption
<1> DEFINE Runs(o) == wpc[o] \notin {"none", "ended"}
<1>1. ASSUME NEW n \in ThreadNums, Start(n)
      PROVE  Running'
  <2>1. \A o \in Object : ~Runs(o)
    BY <1>1 DEF Start, Running, Held
  <2>2. wpc' = wpc /\ ~is_run'
    BY <1>1 DEF Start
  <2>3. QED
    BY <2>1, <2>2 DEF Running
<1>2. CASE CreateWorker
  <2>1. /\ mpc = "create" /\ mpc' = "create" /\ ~is_run' /\ i' = i + 1 /\ i \in Nat \ {0}
        /\ i < num_threads /\ Slots' = Slots /\ inits > 0 /\ index \in Object
    BY <1>0, <1>2, NextNumber DEF CreateWorker, Running, Slots, Table
  <2>2. i \in Slots \ {0} /\ \A k \in Slots : /\ k = i => Held(k)'
                                              /\ Held(k) => Held(k)' /\ k # i
    BY <1>0, <2>1 DEF Slots, Held
  <2>3. \/ threads' = [threads EXCEPT ![i] = index] /\ wpc' = [wpc EXCEPT ![index] = "gate"]
        \/ UNCHANGED <<threads, wpc>>
    BY <1>2 DEF CreateWorker
  <2>4. DOMAIN threads = Slots \ {0}
    BY <2>1 DEF Filled
  <2>5. ASSUME NEW o \in Object, Runs(o)
        PROVE  /\ \E k \in Slots \ {0} : Held(k)' /\ threads'[k] = o
               /\ wpc[o] = "gate"
    <3>1. PICK k \in Slots \ {0} : Held(k) /\ threads[k] = o
      BY <2>5 DEF Running
    <3>2. threads'[k] = o /\ Held(k)'
      BY <2>2, <2>3, <2>4, <3>1
    <3>3. wpc[o] = "gate"
      BY <2>1, <2>5 DEF Running
    <3>4. QED
      BY <3>2, <3>3
  <2>6. CASE UNCHANGED <<threads, wpc>>
    BY <2>1, <2>5, <2>6 DEF Running
  <2>7. CASE threads' = [threads EXCEPT ![i] = index] /\ wpc' = [wpc EXCEPT ![index] = "gate"]
    <3>1. threads'[i] = index /\ wpc'[index] = "gate"
      BY <2>1, <2>2, <2>4, <2>7
    <3>2. \A o \in Object : o # index => wpc'[o] = wpc[o]
      BY <2>1, <2>7
    <3>3. \E k \in Slots \ {0} : Held(k)' /\ threads'[k] = index
      BY <2>2, <3>1
    <3>4. QED
      BY <2>1, <2>5, <3>1, <3>2, <3>3 DEF Running
  <2>8. QED
    BY <2>3, <2>6, <2>7
<1>3. ASSUME UNCHANGED <<threads, wpc, num_threads>>, mpc' # "create",
             \A k \in Slots \ {0} : Held(k) => Held(k)' \/ threads[k] = None
                                                        \/ wpc[threads[k]] = "ended"
      PROVE  Running'
  <2>1. Slots' = Slots
    BY <1>3 DEF Slots
  <2>2. ASSUME NEW o \in Object, Runs(o)
        PROVE  \E k \in Slots \ {0} : Held(k)' /\ threads[k] = o
    <3>1. PICK k \in Slots \ {0} : Held(k) /\ threads[k] = o
      BY <2>2 DEF Running
    <3>2. QED
      BY <1>3, <2>2, <3>1
  <2>3. QED
    BY <1>3, <2>1, <2>2 DEF Running
<1>4. CASE OpenGate \/ CloseAll \/ MainReturn
  <2>1. /\ UNCHANGED <<threads, wpc, num_threads>>
        /\ mpc' \in {"ready", "join"} /\ (mpc' = "join" => i' = 1)
    BY <1>4 DEF OpenGate, CloseAll, MainReturn
  <2>2. \A k \in Slots \ {0} : Held(k)'
    BY <1>0, <2>1 DEF Held, Slots
  <2>3. QED
    BY <1>3, <2>1, <2>2
<1>5. ASSUME NEW p \in [Task -> Slots], SpawnAndWait(p)
      PROVE  Running'
  <2>1. UNCHANGED <<threads, wpc, num_threads>> /\ mpc' = "wait"
    BY <1>5 DEF SpawnAndWait
  <2>2. QED
    BY <1>3, <2>1 DEF Held
<1>6. CASE JoinWorker \/ JoinNothing
  <2>1. /\ UNCHANGED <<threads, wpc, num_threads>> /\ mpc = "join" /\ i \in Slots \ {0}
        /\ mpc' \in {"join", "crashed"}
        /\ threads[i] = None \/ wpc[threads[i]] = "ended"
        /\ i' = i \/ i' = i + 1
    BY <1>0, <1>6 DEF JoinWorker, JoinNothing, Joined, Slots
  <2>2. \A k \in Slots \ {0} : Held(k) => Held(k)' \/ k = i
    BY <1>0, <2>1 DEF Held, Slots
  <2>3. QED
    BY <1>3, <2>1, <2>2
<1>7. CASE CloseEnd
  <2>1. /\ UNCHANGED <<threads, wpc, num_threads>> /\ mpc = "join" /\ mpc' = "out"
        /\ i = num_threads
    BY <1>7 DEF CloseEnd
  <2>2. \A k \in Slots \ {0} : ~Held(k)
    BY <1>0, <2>1 DEF Held, Slots
  <2>3. QED
    BY <1>3, <2>1, <2>2
<1>8. ASSUME NEW o \in Object, WorkerStep(o)
      PROVE  Running'
  <2>1. UNCHANGED <<threads, num_threads, mpc, i, is_run>>
    BY <1>8 DEF WorkerStep, PassGate, TestClose, WorkerTake, WorkerExecute
  <2>2. Slots' = Slots /\ \A k \in Slots : Held(k)' <=> Held(k)
    BY <2>1 DEF Slots, Held
  <2>3. Runs(o) /\ mpc # "create" /\ \A p \in Object : p # o => wpc'[p] = wpc[p]
    <3>1. wpc[o] = "gate" => is_run
      BY <1>8 DEF WorkerStep, PassGate, TestClose, WorkerTake, WorkerExecute
    <3>2. Runs(o)
      BY <1>8 DEF WorkerStep, PassGate, TestClose, WorkerTake, WorkerExecute
    <3>3. \A p \in Object : p # o => wpc'[p] = wpc[p]
      BY <1>8 DEF WorkerStep, PassGate, TestClose, WorkerTake, WorkerExecute, Goto
    <3>4. QED
      BY <3>1, <3>2, <3>3 DEF Running
  <2>4. QED
    BY <2>1, <2>2, <2>3 DEF Running
<1>9. CASE MainTake \/ MainExecute \/ UNCHANGED vars
  <2>1. UNCHANGED <<threads, wpc, num_threads, mpc, i, is_run>>
    BY <1>9 DEF MainTake, MainExecute, vars
  <2>2. Slots' = Slots /\ \A k \in Slots : Held(k)' <=> Held(k)
    BY <2>1 DEF Slots, Held
  <2>3. QED
    BY <2>1, <2>2 DEF Running
<1>10. QED
  BY <1>1, <1>2, <1>4, <1>5, <1>6, <1>7, <1>8, <1>9 DEF Next, MainStep

\* Releasing a task ends it and makes the next one active: nobody has it yet.
LEMMA ReleasedActive ==
  ASSUME LifeInv, NEW t \in Task, Active(t), Release(t)
  PROVE  /\ left' = left - 1
         /\ After[t] # NoTask => After[t] \in Task /\ ~Active(After[t])
         /\ \A o \in Object : \/ queue'[o] = queue[o]
                              \/ (After[t] # NoTask /\ queue'[o] = queue[o] \cup {After[t]})
         /\ \A o, p \in Object : o # p => queue'[o] = queue[o] \/ queue'[p] = queue[p]
<1> USE DEF LifeInv, TypeOK
<1>1. After[t] # NoTask => After[t] \in Task /\ ~Active(After[t])
  <2>1. PICK S \in SUBSET Task : Unended(S)
    BY DEF Rounds
  <2>2. t \in S
    BY <2>1 DEF Unended
  <2>3. QED
    BY <2>1, <2>2, ReleaseType DEF Unended
<1>2. CASE After[t] = NoTask
  BY <1>1, <1>2 DEF Release
<1>3. CASE After[t] # NoTask
  BY <1>1, <1>3, ReleaseType DEF Release
<1>4. QED
  BY <1>2, <1>3

\* A task moves from one place to another.
LEMMA OnePlaceStep ==
  ASSUME LifeInv, [Next]_vars
  PROVE  OnePlace'
<1> USE AfterAssumption, BoundsAssumption DEF LifeInv, TypeOK, work
<1>1. ASSUME UNCHANGED <<queue, wcur, mcur>>, 
             \A o \in Object : wpc'[o] = "execute" <=> wpc[o] = "execute"
      PROVE  OnePlace'
  BY <1>1 DEF OnePlace
<1>2. ASSUME NEW n \in ThreadNums, Start(n)
      PROVE  OnePlace'
  BY <1>1, <1>2 DEF Start
<1>3. CASE CreateWorker
  <2>1. index \in Object /\ wpc[index] # "execute"
    <3>1. mpc = "create" /\ inits > 0
      BY <1>3 DEF CreateWorker, Table
    <3>2. QED
      BY <1>3, <3>1, NextNumber, RoundFacts DEF OnePlace
  <2>2. wpc' = wpc \/ wpc' = [wpc EXCEPT ![index] = "gate"]
    BY <1>3 DEF CreateWorker
  <2>3. UNCHANGED <<queue, wcur, mcur>>
    BY <1>3 DEF CreateWorker
  <2>4. \A o \in Object : wpc'[o] = "execute" <=> wpc[o] = "execute"
    BY <2>1, <2>2
  <2>5. QED
    BY <1>1, <2>3, <2>4
<1>4. CASE OpenGate \/ MainReturn \/ CloseAll \/ JoinWorker \/ JoinNothing \/ CloseEnd
           \/ UNCHANGED vars
  <2>1. UNCHANGED <<queue, wcur, mcur, wpc>>
    BY <1>4 DEF OpenGate, MainReturn, CloseAll, JoinWorker, JoinNothing, CloseEnd, vars
  <2>2. QED
    BY <1>1, <2>1
<1>5. ASSUME NEW p \in [Task -> Slots], SpawnAndWait(p)
      PROVE  OnePlace'
  <2>1. /\ mpc = "ready" /\ UNCHANGED <<wpc, wcur, mcur>>
        /\ queue' = [o \in Object |-> queue[o] \cup {t \in Roots : schedulers[p[t]] = o}]
    BY <1>5 DEF SpawnAndWait
  <2>2. \A o \in Object : queue[o] = {} /\ wcur[o] = NoTask
    BY <2>1, RoundFacts
  <2>3. mcur = NoTask
    BY <2>1 DEF Rounds
  <2>4. \A o \in Object : queue'[o] = {t \in Roots : schedulers[p[t]] = o}
    BY <2>1, <2>2
  <2>5. NoTask \notin Roots
    BY DEF Roots
  <2>6. QED
    BY <2>1, <2>2, <2>3, <2>4, <2>5 DEF OnePlace
<1>6. CASE MainTake
  <2>1. PICK t \in queue[schedulers[0]] :
          mcur' = t /\ queue' = [queue EXCEPT ![schedulers[0]] = @ \ {t}]
    BY <1>6 DEF MainTake
  <2>2. mpc = "wait" /\ mcur = NoTask /\ wpc' = wpc /\ wcur' = wcur
    BY <1>6 DEF MainTake
  <2>3. schedulers[0] \in Object
    BY <2>2 DEF Table
  <2>4. \A o \in Object : queue'[o] = IF o = schedulers[0] THEN queue[o] \ {t} ELSE queue[o]
    BY <2>1, <2>3
  <2>5. t \in Task /\ t # NoTask /\ \A o \in Object : t # wcur[o] /\ t \notin queue'[o]
    BY <2>1, <2>3, <2>4 DEF OnePlace
  <2>6. QED
    BY <2>1, <2>2, <2>4, <2>5 DEF OnePlace
<1>7. CASE MainExecute
  <2>1. /\ mcur \in Task /\ Active(mcur) /\ Release(mcur) /\ mcur' = NoTask
        /\ wpc' = wpc /\ wcur' = wcur
    BY <1>7 DEF MainExecute, Active
  <2>2. queue' \in [Object -> SUBSET Task]
    BY <2>1, ReleaseType
  <2>3. \A o \in Object : \A u \in queue'[o] :
          u \in queue[o] \/ (u = After[mcur] /\ u # NoTask)
    BY <2>1, ReleasedActive
  <2>4. After[mcur] # NoTask => ~Active(After[mcur])
    BY <2>1, ReleasedActive
  <2>5. \A o, p \in Object : o # p => queue'[o] \cap queue'[p] = {}
    <3>1. ASSUME NEW o \in Object, NEW p \in Object, o # p
          PROVE  queue'[o] \cap queue'[p] = {}
      <4>1. queue[o] \cap queue[p] = {}
        BY <3>1 DEF OnePlace
      <4>2. queue'[o] = queue[o] \/ queue'[p] = queue[p]
        BY <2>1, <3>1, ReleasedActive
      <4>3. After[mcur] # NoTask => After[mcur] \notin queue[o] /\ After[mcur] \notin queue[p]
        BY <2>4 DEF Active
      <4>4. QED
        BY <2>3, <4>1, <4>2, <4>3
    <3>2. QED
      BY <3>1
  <2>6. \A o, p \in Object : wcur[o] # NoTask => wcur[o] \notin queue'[p]
    BY <2>3, <2>4 DEF OnePlace, Active
  <2>7. QED
    BY <2>1, <2>2, <2>5, <2>6 DEF OnePlace
<1>8. ASSUME NEW o \in Object, PassGate(o) \/ TestClose(o)
      PROVE  OnePlace'
  BY <1>1, <1>8 DEF PassGate, TestClose, Goto
<1>9. ASSUME NEW o \in Object, WorkerTake(o)
      PROVE  OnePlace'
  <2>1. CASE queue[o] = {}
    BY <1>1, <1>9, <2>1 DEF WorkerTake, Goto
  <2>2. CASE queue[o] # {}
    <3>1. PICK t \in queue[o] :
            /\ queue' = [queue EXCEPT ![o] = @ \ {t}]
            /\ wcur' = [wcur EXCEPT ![o] = t]
            /\ wpc' = [wpc EXCEPT ![o] = "execute"]
      BY <1>9, <2>2 DEF WorkerTake, Goto
    <3>2. mcur' = mcur /\ wcur[o] = NoTask
      BY <1>9 DEF WorkerTake, OnePlace
    <3>3. \A p \in Object : /\ queue'[p] = IF p = o THEN queue[p] \ {t} ELSE queue[p]
                            /\ wcur'[p] = IF p = o THEN t ELSE wcur[p]
                            /\ wpc'[p] = IF p = o THEN "execute" ELSE wpc[p]
      BY <3>1
    <3>4. t \in Task /\ t # NoTask /\ t # mcur
          /\ \A p \in Object : t # wcur[p] /\ t \notin queue'[p]
      BY <3>1, <3>3 DEF OnePlace
    <3>5. \A p \in Object : wpc'[p] = "execute" <=> wcur'[p] # NoTask
      BY <3>3, <3>4 DEF OnePlace
    <3>6. \A p, q \in Object : wcur'[p] # NoTask =>
            wcur'[p] \notin queue'[q] /\ (wcur'[p] = wcur'[q] => p = q)
      <4>1. ASSUME NEW p \in Object, NEW q \in Object, p # o, wcur[p] # NoTask
            PROVE  wcur[p] \notin queue'[q] /\ (wcur[p] = wcur'[q] => p = q)
        BY <3>3, <3>4, <4>1 DEF OnePlace
      <4>2. \A q \in Object : t \notin queue'[q] /\ (t = wcur'[q] => o = q)
        BY <3>3, <3>4
      <4>3. QED
        BY <3>3, <4>1, <4>2
    <3>7. \A p \in Object : mcur \notin queue'[p] /\ (mcur # NoTask => mcur # wcur'[p])
      BY <3>3, <3>4 DEF OnePlace
    <3>8. \A p, q \in Object : p # q => queue'[p] \cap queue'[q] = {}
      BY <3>3 DEF OnePlace
    <3>9. QED
      BY <3>2, <3>5, <3>6, <3>7, <3>8 DEF OnePlace
  <2>3. QED
    BY <2>1, <2>2
<1>10. ASSUME NEW o \in Object, WorkerExecute(o)
       PROVE  OnePlace'
  <2>1. /\ wcur[o] \in Task /\ Active(wcur[o]) /\ Release(wcur[o]) /\ mcur' = mcur
        /\ \A p \in Object : /\ wpc'[p] = IF p = o THEN "test" ELSE wpc[p]
                             /\ wcur'[p] = IF p = o THEN NoTask ELSE wcur[p]
    BY <1>10 DEF WorkerExecute, Active, OnePlace, Goto
  <2>2. queue' \in [Object -> SUBSET Task]
    BY <2>1, ReleaseType
  <2>3. \A p \in Object : \A u \in queue'[p] :
          u \in queue[p] \/ (u = After[wcur[o]] /\ u # NoTask)
    BY <2>1, ReleasedActive
  <2>4. After[wcur[o]] # NoTask => ~Active(After[wcur[o]])
    BY <2>1, ReleasedActive
  <2>5. \A q, p \in Object : q # p => queue'[q] \cap queue'[p] = {}
    <3>1. ASSUME NEW q \in Object, NEW p \in Object, q # p
          PROVE  queue'[q] \cap queue'[p] = {}
      <4>1. queue[q] \cap queue[p] = {}
        BY <3>1 DEF OnePlace
      <4>2. queue'[q] = queue[q] \/ queue'[p] = queue[p]
        BY <2>1, <3>1, ReleasedActive
      <4>3. After[wcur[o]] # NoTask =>
              After[wcur[o]] \notin queue[q] /\ After[wcur[o]] \notin queue[p]
        BY <2>4 DEF Active
      <4>4. QED
        BY <2>3, <4>1, <4>2, <4>3
    <3>2. QED
      BY <3>1
  <2>6. \A q, p \in Object : wcur[q] # NoTask => wcur[q] \notin queue'[p]
    BY <2>3, <2>4 DEF OnePlace, Active
  <2>7. \A p \in Object : mcur \notin queue'[p]
    BY <2>2, <2>3, <2>4 DEF OnePlace, Active
  <2>8. QED
    BY <2>1, <2>2, <2>5, <2>6, <2>7 DEF OnePlace
<1>11. QED
  BY <1>2, <1>3, <1>4, <1>5, <1>6, <1>7, <1>8, <1>9, <1>10 DEF Next, MainStep, WorkerStep

\* The tasks that have not ended, when one of them ends.
LEMMA ReleasedUnended ==
  ASSUME LifeInv, NEW t \in Task, Active(t), Release(t),
         \A u \in Task : Active(u)' => (Active(u) /\ u # t) \/ u = After[t]
  PROVE  \E S \in SUBSET Task : Unended(S)'
<1> USE AfterAssumption DEF LifeInv
<1>1. PICK S \in SUBSET Task : Unended(S)
  BY DEF Rounds
<1>2. t \in S /\ After[t] # t /\ After[t] \in S \cup {NoTask} /\ \A u \in S : After[u] # t
  BY <1>1 DEF Unended
<1>3. left' = Cardinality(S \ {t})
  <2>1. IsFiniteSet(S)
    BY FS_Subset
  <2>2. Cardinality(S \ {t}) = Cardinality(S) - 1
    BY <1>2, <2>1, FS_RemoveElement
  <2>3. QED
    BY <1>1, <2>2, ReleasedActive DEF Unended
<1>4. \A u \in S \ {t} : After[u] \in (S \ {t}) \cup {NoTask}
  BY <1>1, <1>2 DEF Unended
<1>5. ASSUME NEW u \in Task, Active(u)'
      PROVE  u \in S \ {t} /\ \A v \in S \ {t} : After[v] # u
  <2>1. CASE Active(u) /\ u # t
    BY <1>1, <2>1 DEF Unended
  <2>2. CASE u = After[t]
    <3>1. u \in S \ {t}
      BY <1>2, <2>2
    <3>2. \A v \in S \ {t} : After[v] # u
      BY <2>2
    <3>3. QED
      BY <3>1, <3>2
  <2>3. QED
    BY <1>5, <2>1, <2>2
<1>6. Unended(S \ {t})'
  BY <1>3, <1>4, <1>5 DEF Unended
<1>7. QED
  BY <1>6

\* A round ends when its last task has ended, and none begins before.
LEMMA RoundsStep ==
  ASSUME LifeInv, [Next]_vars
  PROVE  Rounds'
<1> USE AfterAssumption, BoundsAssumption DEF LifeInv, TypeOK, work
<1>1. ASSUME left' = left, \A t \in Task : Active(t)' => Active(t)
      PROVE  \E S \in SUBSET Task : Unended(S)'
  <2>1. PICK S \in SUBSET Task : Unended(S)
    BY DEF Rounds
  <2>2. Unended(S)'
    BY <1>1, <2>1 DEF Unended
  <2>3. QED
    BY <2>2
<1>2. ASSUME UNCHANGED <<left, mcur, queue, wcur, place>>, mpc # "wait", mpc' # "wait"
      PROVE  Rounds'
  <2>1. \A t \in Task : Active(t)' => Active(t)
    BY <1>2 DEF Active
  <2>2. QED
    BY <1>1, <1>2, <2>1 DEF Rounds
<1>3. ASSUME NEW n \in ThreadNums, Start(n)
      PROVE  Rounds'
  BY <1>2, <1>3 DEF Start
<1>4. CASE CreateWorker
  BY <1>2, <1>4 DEF CreateWorker
<1>5. CASE OpenGate \/ CloseAll \/ CloseEnd
  BY <1>2, <1>5 DEF OpenGate, CloseAll, CloseEnd
<1>6. CASE JoinWorker \/ JoinNothing
  <2>1. mpc = "join" /\ mpc' \in {"join", "crashed"}
        /\ UNCHANGED <<left, mcur, queue, wcur, place>>
    BY <1>6 DEF JoinWorker, JoinNothing
  <2>2. QED
    BY <1>2, <2>1
<1>7. ASSUME NEW p \in [Task -> Slots], SpawnAndWait(p)
      PROVE  Rounds'
  <2>1. /\ mpc = "ready" /\ mpc' = "wait" /\ UNCHANGED <<num_threads, wcur, mcur>>
        /\ left' = Cardinality(Task) /\ place' = p
        /\ queue' = [o \in Object |-> queue[o] \cup {t \in Roots : schedulers[p[t]] = o}]
    BY <1>7 DEF SpawnAndWait, statics
  <2>2. mcur = NoTask /\ \A o \in Object : queue[o] = {} /\ wcur[o] = NoTask
    BY <2>1, RoundFacts DEF Rounds
  <2>3. \A t \in Task : Active(t)' => t \in Roots
    BY <2>1, <2>2 DEF Active
  <2>4. Unended(Task)'
    BY <2>1, <2>3 DEF Unended, Roots
  <2>5. Slots' = Slots
    BY <2>1 DEF Slots
  <2>6. QED
    BY <2>1, <2>4, <2>5 DEF Rounds
<1>8. ASSUME \E S \in SUBSET Task : Unended(S)', UNCHANGED <<num_threads, place, mpc>>, mpc = "wait"
      PROVE  Rounds'
  BY <1>8 DEF Rounds, Slots
<1>9. CASE MainTake
  <2>1. PICK t \in queue[schedulers[0]] :
          mcur' = t /\ queue' = [queue EXCEPT ![schedulers[0]] = @ \ {t}]
    BY <1>9 DEF MainTake
  <2>2. UNCHANGED <<wcur, left, num_threads, place, mpc>> /\ mpc = "wait"
    BY <1>9 DEF MainTake, statics
  <2>3. schedulers[0] \in Object
    BY <2>2 DEF Table
  <2>4. \A u \in Task : Active(u)' => Active(u)
    BY <2>1, <2>2, <2>3 DEF Active
  <2>5. QED
    BY <1>1, <1>8, <2>2, <2>4
<1>10. CASE MainExecute
  <2>1. /\ mcur \in Task /\ Active(mcur) /\ Release(mcur) /\ mcur' = NoTask /\ wcur' = wcur
        /\ UNCHANGED <<num_threads, place, mpc>> /\ mpc = "wait"
    BY <1>10 DEF MainExecute, Active, statics
  <2>2. ASSUME NEW u \in Task, Active(u)'
        PROVE  (Active(u) /\ u # mcur) \/ u = After[mcur]
    <3>1. PICK o \in Object : u \in queue'[o] \/ wcur[o] = u
      BY <2>1, <2>2 DEF Active
    <3>2. u \in queue[o] \/ u = After[mcur] \/ wcur[o] = u
      BY <2>1, <3>1, ReleasedActive
    <3>3. QED
      BY <2>1, <3>2 DEF Active, OnePlace
  <2>3. QED
    BY <1>8, <2>1, <2>2, ReleasedUnended
<1>11. CASE MainReturn
  <2>1. /\ left = 0 /\ mcur = NoTask /\ mpc' = "ready"
        /\ UNCHANGED <<left, mcur, queue, wcur, place>>
    BY <1>11 DEF MainReturn
  <2>2. \A t \in Task : Active(t)' => Active(t)
    BY <2>1 DEF Active
  <2>3. QED
    BY <1>1, <2>1, <2>2 DEF Rounds
<1>12. ASSUME NEW o \in Object, PassGate(o) \/ TestClose(o)
       PROVE  Rounds'
  <2>1. UNCHANGED <<num_threads, left, mcur, queue, wcur, place, mpc>>
    BY <1>12 DEF PassGate, TestClose, statics
  <2>2. \A t \in Task : Active(t)' => Active(t)
    BY <2>1 DEF Active
  <2>3. QED
    BY <1>1, <2>1, <2>2 DEF Rounds, Slots
<1>13. ASSUME NEW o \in Object, WorkerTake(o)
       PROVE  Rounds'
  <2>1. UNCHANGED <<num_threads, left, mcur, place, mpc>>
    BY <1>13 DEF WorkerTake, statics
  <2>2. \A t \in Task : Active(t)' => Active(t)
    <3>1. CASE queue[o] = {}
      BY <1>13, <3>1 DEF WorkerTake, Active
    <3>2. CASE queue[o] # {}
      <4>1. PICK t \in queue[o] :
              queue' = [queue EXCEPT ![o] = @ \ {t}] /\ wcur' = [wcur EXCEPT ![o] = t]
        BY <1>13, <3>2 DEF WorkerTake
      <4>2. QED
        BY <2>1, <4>1 DEF Active
    <3>3. QED
      BY <3>1, <3>2
  <2>3. QED
    BY <1>1, <2>1, <2>2 DEF Rounds, Slots
<1>14. ASSUME NEW o \in Object, WorkerExecute(o)
       PROVE  Rounds'
  <2>1. /\ wcur[o] \in Task /\ Active(wcur[o]) /\ Release(wcur[o]) /\ mcur' = mcur
        /\ wcur' = [wcur EXCEPT ![o] = NoTask] /\ UNCHANGED <<num_threads, place, mpc>>
    BY <1>14 DEF WorkerExecute, Active, OnePlace, statics
  <2>2. ASSUME NEW u \in Task, Active(u)'
        PROVE  (Active(u) /\ u # wcur[o]) \/ u = After[wcur[o]]
    <3>1. mcur = u \/ \E p \in Object : u \in queue'[p] \/ (p # o /\ wcur[p] = u)
      BY <2>1, <2>2 DEF Active
    <3>2. \A p \in Object : u \in queue'[p] => u \in queue[p] \/ u = After[wcur[o]]
      BY <2>1, ReleasedActive
    <3>3. QED
      BY <2>1, <3>1, <3>2 DEF Active, OnePlace
  <2>3. mpc = "wait"
    BY <2>1, RoundFacts
  <2>4. QED
    BY <1>8, <2>1, <2>2, <2>3, ReleasedUnended
<1>15. CASE UNCHANGED vars
  <2>1. UNCHANGED <<num_threads, left, mcur, queue, wcur, place, mpc>>
    BY <1>15 DEF vars, statics
  <2>2. \A t \in Task : Active(t)' => Active(t)
    BY <2>1 DEF Active
  <2>3. QED
    BY <1>1, <2>1, <2>2 DEF Rounds, Slots
<1>16. QED
  BY <1>3, <1>4, <1>5, <1>6, <1>7, <1>9, <1>10, <1>11, <1>12, <1>13, <1>14, <1>15
     DEF Next, MainStep, WorkerStep

\* LifeInv holds of every behaviour of the runtime: threads, tables and tasks stay
\* consistent whatever is created, executed and closed in between.
THEOREM LifeIsInvariant == Spec => []LifeInv
<1>1. LifeInv /\ [Next]_vars => LifeInv'
  BY TypeStep, TableStep, NumberedStep, RunningStep, OnePlaceStep, RoundsStep DEF LifeInv
<1>2. QED
  BY InitInv, <1>1, PTL DEF Spec

\* A thread that has not ended has its scheduler; no scheduler is deleted while a
\* thread executes a task that may push to it.
THEOREM SchedulersStayAlive == Spec => []SchedulersAlive
<1>1. LifeInv => SchedulersAlive
  <2> SUFFICES ASSUME LifeInv, NEW o \in Object
               PROVE  /\ wpc[o] \notin {"none", "ended"} => o \in alive
                      /\ wpc[o] = "execute" => \A k \in Slots : schedulers[k] \in alive
    BY DEF SchedulersAlive
  <2> USE BoundsAssumption DEF LifeInv
  <2>1. ASSUME wpc[o] \notin {"none", "ended"}
        PROVE  o \in alive
    <3>1. PICK k \in Slots \ {0} : Held(k) /\ threads[k] = o
      BY <2>1 DEF Running
    <3>2. inits > 0
      BY <3>1 DEF Table, Held, TypeOK
    <3>3. schedulers[k] = o
      BY <3>1, <3>2 DEF Table
    <3>4. QED
      BY <3>1, <3>2, <3>3 DEF Table
  <2>2. ASSUME wpc[o] = "execute"
        PROVE  \A k \in Slots : schedulers[k] \in alive
    <3>1. Active(wcur[o]) /\ wcur[o] \in Task
      BY <2>2 DEF OnePlace, Active, TypeOK
    <3>2. mpc = "wait" /\ inits > 0
      BY <3>1, RoundFacts DEF Table, TypeOK
    <3>3. QED
      BY <3>2 DEF Table, Held
  <2>3. QED
    BY <2>1, <2>2
<1>2. QED
  BY LifeIsInvariant, <1>1, PTL
-----------------------------------------------------------------------------
(***************************************************************************)
(* The programs that use the runtime: if they declare what they access     *)
(* (DeclaredAccesses), tasks that may run together touch nothing in        *)
(* common, and every order of them leaves what the loops compute in turn.  *)
(* And the tracer: what it reports, and what it misses.                    *)
(***************************************************************************)

\* Loops that are executed together are those between two places of the text, in its
\* order, with no wait between them.
Segment(loops) ==
  /\ loops \in Seq({k \in DOMAIN text : text[k].op = "loop"})
  /\ \A j, k \in DOMAIN loops : j < k => loops[j] < loops[k]
  /\ \A j, k \in DOMAIN loops : \A x \in loops[j] .. loops[k] :
       text[x].op # "wait" /\ (text[x].op = "loop" => \E h \in DOMAIN loops : loops[h] = x)

\* Where the program is in its text; graph holds all loops since its first.
Placed ==
  /\ prog \in DOMAIN Texts /\ text = Texts[prog].text
  /\ pc \in 1 .. Len(text) + 1
  /\ Segment(graph)
  /\ ~At("wait") =>
       \A j \in DOMAIN graph : \A x \in graph[j] .. pc - 1 :
         text[x].op # "wait" /\ (text[x].op = "loop" => \E h \in DOMAIN graph : graph[h] = x)
  /\ ~At("wait") => \A j \in DOMAIN graph : graph[j] < pc
  /\ running # <<>> => At("wait") /\ graph = <<>>

Kept ==
  /\ Segment(running)
  /\ \A n \in DOMAIN stored : Segment(stored[n].loops)
  /\ asked.hit => asked.no \in DOMAIN stored

\* Tasks have run in an order the graph allows: those that one of them depends on have run.
Ordered ==
  /\ done \subseteq All
  /\ \A u \in done, t \in All :
       t[1] < u[1] /\ Conflict(TaskOf(t), TaskOf(u)) => t \in done

ProgramInv == Placed /\ Kept /\ Ordered

LEMMA ConflictSymmetric ==
  ASSUME NEW t, NEW u
  PROVE  Conflict(t, u) <=> Conflict(u, t)
BY DEF Conflict

\* What TextsAssumption says of the text that is executed.
LEMMA TextType ==
  ASSUME Placed
  PROVE  /\ text \in Seq(ToSet(text)) /\ Len(text) \in Nat /\ DOMAIN text = 1 .. Len(text)
         /\ \A k \in DOMAIN text :
              /\ text[k].op \in {"loop", "start", "wait"}
              /\ text[k].op = "start" => \E j \in k .. Len(text) : text[j].op = "wait"
<1>1. text = Texts[prog].text /\ prog \in DOMAIN Texts
  BY DEF Placed
<1>2. text \in Seq(ToSet(text))
  BY <1>1, TextsAssumption
<1>3. Len(text) \in Nat /\ DOMAIN text = 1 .. Len(text)
  BY <1>2
<1>4. \A k \in DOMAIN text :
        /\ text[k].op \in {"loop", "start", "wait"}
        /\ text[k].op = "start" => \E j \in k .. Len(text) : text[j].op = "wait"
  BY <1>1, TextsAssumption
<1>5. QED
  BY <1>2, <1>3, <1>4

LEMMA SegmentEmpty ==
  ASSUME NEW loops, loops = <<>>
  PROVE  Segment(loops)
BY DEF Segment

LEMMA SegmentKept ==
  ASSUME NEW loops, Segment(loops), UNCHANGED text
  PROVE  Segment(loops)'
BY DEF Segment

LEMMA AllEmpty ==
  ASSUME running = <<>>
  PROVE  All = {}
BY DEF All

LEMMA AllKept ==
  ASSUME UNCHANGED <<text, running>>
  PROVE  All' = All /\ \A t : TaskOf(t)' = TaskOf(t)
BY DEF All, TaskOf, Tasks

\* The next wait of the text.
LEMMA NextWaitIs ==
  ASSUME Placed, At("start")
  PROVE  NextWait \in pc .. Len(text) /\ text[NextWait].op = "wait"
<1>1. /\ pc \in DOMAIN text /\ pc \in Nat /\ Len(text) \in Nat
      /\ \E j \in pc .. Len(text) : text[j].op = "wait"
  BY TextType DEF Placed, At
<1> DEFINE W == {j \in pc .. Len(text) : text[j].op = "wait"}
<1>2. W \subseteq Nat /\ W # {}
  BY <1>1
<1>3. PICK k \in W : \A y \in W : ~ (<<y, k>> \in OpToRel(<, Nat))
  BY <1>2, NatLessThanWellFounded, WFMin
<1>4. ASSUME NEW y \in W PROVE ~ (y < k)
  <2>1. y \in Nat /\ k \in Nat
    BY <1>2
  <2>2. QED
    BY <1>3, <2>1 DEF OpToRel
<1>5. k \in pc .. Len(text) /\ text[k].op = "wait" /\ \A j \in pc .. k - 1 : text[j].op # "wait"
  <2>1. \A j \in pc .. k - 1 : j < k /\ j \in pc .. Len(text)
    BY <1>1
  <2>2. QED
    BY <1>4, <2>1
<1>6. QED
  BY <1>5 DEF NextWait

LEMMA PlacedStep ==
  ASSUME ProgramInv, [ProgramNext]_programVars
  PROVE  Placed'
<1> USE DEF ProgramInv
<1>1. /\ Placed /\ DOMAIN text = 1 .. Len(text) /\ Len(text) \in Nat
  BY TextType
<1>2. CASE DagStart
  <2>1. UNCHANGED <<prog, text, graph, running>> /\ At("start")
    BY <1>2 DEF DagStart
  <2>2. running = <<>>
    BY <1>1, <2>1 DEF Placed, At
  <2>3. Segment(graph)'
    BY <1>1, <2>1, SegmentKept DEF Placed
  <2>4. CASE pc' = NextWait
    <3>1. pc' \in 1 .. Len(text) /\ text[pc'].op = "wait"
      BY <1>1, <2>1, <2>4, NextWaitIs DEF Placed, At
    <3>2. At("wait")' /\ pc' \in 1 .. Len(text) + 1
      BY <1>1, <2>1, <3>1 DEF At
    <3>3. QED
      BY <1>1, <2>1, <2>2, <2>3, <3>2 DEF Placed
  <2>5. CASE pc' = pc + 1
    <3>1. pc' \in 1 .. Len(text) + 1 /\ text[pc].op = "start" /\ pc \in 1 .. Len(text) /\ ~At("wait")
      BY <1>1, <2>1, <2>5 DEF Placed, At
    <3>2. ASSUME NEW j \in DOMAIN graph
          PROVE  /\ graph[j] < pc'
                 /\ \A x \in graph[j] .. pc' - 1 :
                      /\ text[x].op # "wait"
                      /\ text[x].op = "loop" => \E h \in DOMAIN graph : graph[h] = x
      <4>1. graph[j] \in Int /\ graph[j] < pc
        BY <1>1, <3>1 DEF Placed, Segment
      <4>2. \A x \in graph[j] .. pc' - 1 : x \in graph[j] .. pc - 1 \/ x = pc
        BY <2>5, <3>1, <4>1
      <4>3. \A x \in graph[j] .. pc - 1 :
              text[x].op # "wait" /\ (text[x].op = "loop" => \E h \in DOMAIN graph : graph[h] = x)
        BY <1>1, <3>1 DEF Placed
      <4>4. QED
        BY <2>5, <3>1, <4>1, <4>2, <4>3
    <3>3. QED
      BY <1>1, <2>1, <2>2, <2>3, <3>1, <3>2 DEF Placed
  <2>6. QED
    BY <1>2, <2>4, <2>5 DEF DagStart
<1>3. CASE Register
  <2>1. /\ UNCHANGED <<prog, text, running>> /\ At("loop") /\ graph' = Append(graph, pc)
        /\ pc' = pc + 1
    BY <1>3 DEF Register
  <2>2. /\ running = <<>> /\ ~At("wait") /\ pc \in DOMAIN text /\ text[pc].op = "loop"
        /\ pc' \in 1 .. Len(text) + 1 /\ pc \in Int
    BY <1>1, <2>1 DEF Placed, At
  <2> DEFINE L == {k \in DOMAIN text : text[k].op = "loop"}
             n == Len(graph)
  <2>3. graph \in Seq(L) /\ n \in Nat /\ DOMAIN graph = 1 .. n
    <3>1. graph \in Seq(L)
      BY <1>1 DEF Placed, Segment
    <3>2. QED
      BY <3>1
  <2>4. graph' \in Seq(L) /\ DOMAIN graph' = 1 .. n + 1 /\ graph'[n + 1] = pc
        /\ \A j \in 1 .. n : graph'[j] = graph[j]
    <3>1. pc \in L
      BY <2>2
    <3> HIDE DEF L
    <3>2. QED
      BY <2>1, <2>3, <3>1
  <2>5. \A j \in 1 .. n + 1 : j \in 1 .. n \/ j = n + 1
    BY <2>3
  <2>6. \A j \in 1 .. n : /\ graph[j] < pc /\ graph[j] \in Int /\ graph[j] \in L
                          /\ \A k \in 1 .. n : j < k => graph[j] < graph[k]
    BY <1>1, <2>2, <2>3 DEF Placed, Segment
  <2>7. \A j \in 1 .. n + 1 : \A x \in graph'[j] .. pc :
          text[x].op # "wait" /\ (text[x].op = "loop" => \E h \in 1 .. n + 1 : graph'[h] = x)
    <3>1. SUFFICES ASSUME NEW j \in 1 .. n + 1, NEW x \in graph'[j] .. pc
                   PROVE  /\ text[x].op # "wait"
                          /\ text[x].op = "loop" => \E h \in 1 .. n + 1 : graph'[h] = x
      OBVIOUS
    <3>2. CASE x = pc
      BY <2>2, <2>3, <2>4, <3>2
    <3>3. CASE x # pc
      <4>1. j \in 1 .. n
        BY <2>2, <2>4, <2>5, <3>3
      <4>2. x \in graph[j] .. pc - 1
        BY <2>2, <2>4, <2>6, <3>3, <4>1
      <4>3. text[x].op # "wait" /\ (text[x].op = "loop" => \E h \in DOMAIN graph : graph[h] = x)
        BY <1>1, <2>2, <2>3, <4>1, <4>2 DEF Placed
      <4>4. \A h \in 1 .. n : h \in 1 .. n + 1 /\ graph'[h] = graph[h]
        BY <2>3, <2>4
      <4>5. QED
        BY <2>3, <4>3, <4>4
    <3>4. QED
      BY <3>2, <3>3
  <2>8. \A j, k \in 1 .. n + 1 : j < k => graph'[j] < graph'[k]
    <3>1. SUFFICES ASSUME NEW j \in 1 .. n + 1, NEW k \in 1 .. n + 1, j < k
                   PROVE  graph'[j] < graph'[k]
      OBVIOUS
    <3>2. j \in 1 .. n
      BY <2>3, <3>1
    <3>3. QED
      BY <2>4, <2>5, <2>6, <3>1, <3>2
  <2>9. Segment(graph)'
    <3>1. \A k \in 1 .. n + 1 : graph'[k] \in Int /\ graph'[k] <= pc
      BY <2>2, <2>4, <2>5, <2>6
    <3>2. \A j, k \in 1 .. n + 1 : \A x \in graph'[j] .. graph'[k] : x \in graph'[j] .. pc
      BY <2>2, <3>1
    <3>3. \A j, k \in 1 .. n + 1 : \A x \in graph'[j] .. graph'[k] :
            text[x].op # "wait" /\ (text[x].op = "loop" => \E h \in 1 .. n + 1 : graph'[h] = x)
      BY <2>7, <3>2
    <3>4. QED
      BY <2>1, <2>4, <2>8, <3>3 DEF Segment
  <2>10. pc' - 1 = pc /\ \A j \in DOMAIN graph' : graph'[j] < pc'
    <3>1. pc' = pc + 1 /\ pc \in Int
      BY <2>1, <2>2
    <3>2. \A j \in 1 .. n + 1 : graph'[j] \in Int /\ graph'[j] <= pc
      BY <2>2, <2>4, <2>5, <2>6
    <3>3. QED
      BY <2>4, <3>1, <3>2
  <2>11. \A j \in DOMAIN graph' : \A x \in graph'[j] .. pc' - 1 :
           text'[x].op # "wait" /\ (text'[x].op = "loop" => \E h \in DOMAIN graph' : graph'[h] = x)
    <3>1. text' = text /\ pc' - 1 = pc /\ DOMAIN graph' = 1 .. n + 1
      BY <2>1, <2>4, <2>10
    <3>2. QED
      BY <2>7, <3>1
  <2>12. /\ prog' \in DOMAIN Texts /\ text' = Texts[prog'].text /\ pc' \in 1 .. Len(text') + 1
         /\ running' = <<>>
    BY <1>1, <2>1, <2>2 DEF Placed
  <2>13. QED
    BY <2>9, <2>10, <2>11, <2>12 DEF Placed
<1>4. CASE Spawn
  <2>1. UNCHANGED <<prog, text, pc>> /\ graph' = <<>> /\ At("wait")
    BY <1>4 DEF Spawn
  <2>2. At("wait")' /\ Segment(graph)'
    BY <2>1, SegmentEmpty DEF At, Segment
  <2>3. QED
    BY <1>1, <2>1, <2>2 DEF Placed
<1>5. CASE Waited
  <2>1. /\ UNCHANGED <<prog, text, graph>> /\ running # <<>> /\ running' = <<>> /\ pc' = pc + 1
    BY <1>5 DEF Waited
  <2>2. graph = <<>> /\ pc' \in 1 .. Len(text) + 1
    BY <1>1, <2>1 DEF Placed, At
  <2>3. Segment(graph)' /\ DOMAIN graph' = {}
    BY <2>1, <2>2 DEF Segment
  <2>4. QED
    BY <1>1, <2>1, <2>2, <2>3 DEF Placed
<1>6. CASE UNCHANGED <<prog, text, pc, graph, running>>
  BY <1>1, <1>6 DEF Placed, Segment, At
<1>7. ASSUME NEW t \in All, Run(t) PROVE Placed'
  BY <1>6, <1>7 DEF Run
<1>8. QED
  BY <1>2, <1>3, <1>4, <1>5, <1>6, <1>7 DEF ProgramNext, programVars

LEMMA KeptStep ==
  ASSUME ProgramInv, [ProgramNext]_programVars
  PROVE  Kept'
<1> USE DEF ProgramInv
<1>1. Kept /\ Placed
  OBVIOUS
<1>2. ASSUME UNCHANGED <<text, running, stored>>, asked'.hit => asked'.no \in DOMAIN stored
      PROVE  Kept'
  BY <1>1, <1>2 DEF Kept, Segment
<1>3. CASE DagStart
  <2>1. asked'.hit => asked'.no \in DOMAIN stored
    BY <1>3 DEF DagStart
  <2>2. QED
    BY <1>2, <1>3, <2>1 DEF DagStart
<1>4. CASE Spawn
  <2>1. UNCHANGED <<text, asked>> /\ Segment(graph)
    BY <1>1, <1>4 DEF Spawn, Placed
  <2>2. running' = graph \/ (asked.hit /\ running' = stored[asked.no].loops)
    BY <1>4 DEF Spawn
  <2>3. Segment(running)'
    BY <1>1, <2>1, <2>2 DEF Kept, Segment
  <2>4. CASE asked.no = 0
    <3>1. stored' = stored
      BY <1>4, <2>4 DEF Spawn
    <3>2. QED
      BY <1>1, <2>1, <2>3, <3>1 DEF Kept, Segment
  <2>5. CASE asked.no # 0
    <3>1. stored' = [n \in DOMAIN stored \cup {asked.no} |->
                       IF n \in DOMAIN stored THEN stored[n]
                       ELSE [par |-> asked.par, loops |-> graph]]
      BY <1>4, <2>5 DEF Spawn
    <3>2. DOMAIN stored' = DOMAIN stored \cup {asked.no}
      BY <3>1
    <3>3. ASSUME NEW n \in DOMAIN stored' PROVE Segment(stored[n].loops)'
      <4>1. stored'[n].loops = graph \/ (n \in DOMAIN stored /\ stored'[n].loops = stored[n].loops)
        BY <3>1
      <4>2. QED
        BY <1>1, <2>1, <4>1 DEF Kept, Segment
    <3>4. QED
      BY <1>1, <2>1, <2>3, <3>2, <3>3 DEF Kept
  <2>6. QED
    BY <2>4, <2>5
<1>5. CASE Waited
  <2>1. running' = <<>> /\ UNCHANGED <<text, stored, asked>>
    BY <1>5 DEF Waited
  <2>2. Segment(running)'
    BY <2>1 DEF Segment
  <2>3. QED
    BY <1>1, <2>1, <2>2 DEF Kept, Segment
<1>6. CASE Register \/ UNCHANGED programVars
  BY <1>1, <1>2, <1>6 DEF Register, programVars, Kept
<1>7. ASSUME NEW t \in All, Run(t) PROVE Kept'
  BY <1>1, <1>2, <1>7 DEF Run, Kept
<1>8. QED
  BY <1>3, <1>4, <1>5, <1>6, <1>7 DEF ProgramNext

LEMMA OrderedStep ==
  ASSUME ProgramInv, [ProgramNext]_programVars
  PROVE  Ordered'
<1> USE DEF ProgramInv
<1>1. Ordered
  OBVIOUS
<1>2. CASE UNCHANGED <<text, running, done>>
  BY <1>1, <1>2, AllKept DEF Ordered
<1>3. CASE Spawn
  <2>1. done' = {}
    BY <1>1, <1>3, AllEmpty DEF Spawn, Ordered
  <2>2. QED
    BY <2>1 DEF Ordered
<1>4. CASE Waited
  BY <1>4 DEF Waited, Ordered
<1>5. ASSUME NEW t \in All, Run(t) PROVE Ordered'
  <2>1. UNCHANGED <<text, running>> /\ done' = done \cup {t} /\ Ready(t)
    BY <1>5 DEF Run
  <2>2. All' = All /\ \A u : TaskOf(u)' = TaskOf(u)
    BY <2>1, AllKept
  <2>3. \A u \in All : u[1] < t[1] /\ Conflict(TaskOf(u), TaskOf(t)) => u \in done
    BY <2>1, ConflictSymmetric DEF Ready
  <2>4. QED
    BY <1>1, <2>1, <2>2, <2>3 DEF Ordered
<1>6. CASE DagStart \/ Register \/ UNCHANGED programVars
  BY <1>2, <1>6 DEF DagStart, Register, programVars
<1>7. QED
  BY <1>3, <1>4, <1>5, <1>6 DEF ProgramNext

LEMMA ProgramBegins ==
  ASSUME ProgramInit
  PROVE  ProgramInv
<1>2. /\ prog \in DOMAIN Texts /\ text = Texts[prog].text /\ pc = 1 /\ graph = <<>>
      /\ running = <<>> /\ stored = <<>> /\ done = {} /\ ~asked.hit
  BY DEF ProgramInit
<1>3. Len(text) \in Nat
  <2>1. text \in Seq(ToSet(text))
    BY <1>2, TextsAssumption
  <2>2. QED
    BY <2>1
<1>4. Segment(graph) /\ Segment(running) /\ DOMAIN graph = {} /\ DOMAIN stored = {}
  BY <1>2, SegmentEmpty
<1>5. pc \in 1 .. Len(text) + 1
  BY <1>2, <1>3
<1>6. Placed
  BY <1>2, <1>4, <1>5 DEF Placed
<1>7. Kept /\ Ordered
  BY <1>2, <1>4 DEF Kept, Ordered
<1>8. QED
  BY <1>6, <1>7 DEF ProgramInv

LEMMA ProgramStep ==
  ASSUME ProgramInv, [ProgramNext]_programVars
  PROVE  ProgramInv'
BY PlacedStep, KeptStep, OrderedStep DEF ProgramInv

LEMMA ProgramIsInvariant == ProgramSpec => []ProgramInv
<1>1. ProgramInit => ProgramInv
  BY ProgramBegins
<1>2. ProgramInv /\ [ProgramNext]_programVars => ProgramInv'
  BY ProgramStep
<1>3. QED
  BY <1>1, <1>2, PTL DEF ProgramSpec

-----------------------------------------------------------------------------
\* Induction, for the set of the numbers that have a property; and for those up to a bound.
LEMMA Induction ==
  ASSUME NEW T, 0 \in T, \A k \in Nat : k \in T => k + 1 \in T
  PROVE  \A k \in Nat : k \in T
<1>1. SUFFICES ASSUME Nat \ T # {} PROVE FALSE
  OBVIOUS
<1>2. PICK k \in Nat \ T : \A y \in Nat \ T : ~ (<<y, k>> \in OpToRel(<, Nat))
  BY <1>1, NatLessThanWellFounded, WFMin
<1>3. \A y \in Nat : y < k => y \in T
  BY <1>2 DEF OpToRel
<1>4. k \in Nat /\ k \notin T /\ k # 0
  BY <1>2
<1>5. k - 1 \in Nat /\ k - 1 < k /\ (k - 1) + 1 = k
  BY <1>4
<1>6. (k - 1) + 1 \in T
  BY <1>3, <1>5
<1>7. QED
  BY <1>4, <1>5, <1>6

LEMMA InductionUpTo ==
  ASSUME NEW n \in Nat, NEW T, 0 \in T, \A k \in 1 .. n : k - 1 \in T => k \in T
  PROVE  \A k \in 0 .. n : k \in T
<1> DEFINE U == {k \in Nat : k <= n => k \in T}
<1>1. 0 \in U
  OBVIOUS
<1>2. ASSUME NEW k \in Nat, k \in U PROVE k + 1 \in U
  <2>1. k + 1 <= n => k + 1 \in 1 .. n /\ (k + 1) - 1 = k /\ k <= n
    OBVIOUS
  <2>2. QED
    BY <1>2, <2>1
<1> HIDE DEF U
<1>3. \A k \in Nat : k \in U
  BY <1>1, <1>2, Induction
<1>4. QED
  BY <1>3 DEF U

\* What is computed step by step from a first value is defined.
LEMMA Steps ==
  ASSUME NEW S, NEW first \in S, NEW n \in Nat, NEW Step \in [1 .. n -> [S -> S]]
  PROVE  \E f \in [0 .. n -> S] : f[0] = first /\ \A k \in 1 .. n : f[k] = Step[k][f[k - 1]]
<1> DEFINE Right(f, j) == f[0] = first /\ \A k \in 1 .. j : f[k] = Step[k][f[k - 1]]
           T == {j \in 0 .. n : \E f \in [0 .. n -> S] : Right(f, j)}
<1>1. 0 \in T
  <2> DEFINE f == [k \in 0 .. n |-> first]
  <2>1. f \in [0 .. n -> S] /\ f[0] = first /\ \A k \in 1 .. 0 : FALSE
    OBVIOUS
  <2> HIDE DEF f
  <2>2. QED
    BY <2>1
<1>2. ASSUME NEW j \in 1 .. n, j - 1 \in T PROVE j \in T
  <2>1. PICK f \in [0 .. n -> S] : Right(f, j - 1)
    BY <1>2
  <2> DEFINE g == [f EXCEPT ![j] = Step[j][f[j - 1]]]
  <2>2. j - 1 \in 0 .. n /\ j \in 0 .. n /\ f[j - 1] \in S /\ Step[j][f[j - 1]] \in S
    <3>1. j - 1 \in 0 .. n /\ j \in 0 .. n
      OBVIOUS
    <3>2. f[j - 1] \in S
      BY <2>1, <3>1
    <3>3. QED
      BY <3>1, <3>2
  <2>3. /\ g \in [0 .. n -> S] /\ g[j] = Step[j][f[j - 1]]
        /\ \A k \in 0 .. n : k # j => g[k] = f[k]
    BY <2>1, <2>2
  <2> HIDE DEF g
  <2>4. g[0] = first
    BY <2>1, <2>3
  <2>5. ASSUME NEW k \in 1 .. j PROVE g[k] = Step[k][g[k - 1]]
    <3>1. k - 1 \in 0 .. n /\ k - 1 # j /\ k \in 0 .. n
      OBVIOUS
    <3>2. CASE k = j
      BY <2>3, <3>1, <3>2
    <3>3. CASE k # j
      <4>1. k \in 1 .. j - 1
        BY <3>3
      <4>2. QED
        BY <2>1, <2>3, <3>1, <3>3, <4>1
    <3>4. QED
      BY <3>2, <3>3
  <2>6. QED
    BY <2>2, <2>3, <2>4, <2>5
<1>3. n \in T
  <2> HIDE DEF T
  <2>1. n \in 0 .. n
    OBVIOUS
  <2>2. QED
    BY <1>1, <1>2, <2>1, InductionUpTo
<1>4. QED
  BY <1>3

\* Where the loops that are executed are in the text.
LEMMA RunningIs ==
  ASSUME ProgramInv
  PROVE  /\ Len(running) \in Nat /\ DOMAIN running = 1 .. Len(running)
         /\ DOMAIN text = 1 .. Len(text) /\ Len(text) \in Nat
         /\ \A k \in DOMAIN running :
              running[k] \in 1 .. Len(text) /\ text[running[k]].op = "loop"
         /\ \A j, k \in DOMAIN running : (j < k <=> running[j] < running[k])
<1>1. Segment(running)
  BY DEF ProgramInv, Kept
<1>2. running \in Seq({x \in DOMAIN text : text[x].op = "loop"})
  BY <1>1 DEF Segment
<1>3. Len(running) \in Nat /\ DOMAIN running = 1 .. Len(running)
  BY <1>2
<1>4. \A k \in DOMAIN running : running[k] \in DOMAIN text /\ text[running[k]].op = "loop"
  BY <1>2, <1>3
<1>5. DOMAIN text = 1 .. Len(text) /\ Len(text) \in Nat
  BY TextType DEF ProgramInv
<1>6. \A j, k \in DOMAIN running : j < k => running[j] < running[k]
  BY <1>1 DEF Segment
<1>7. ASSUME NEW j \in DOMAIN running, NEW k \in DOMAIN running
      PROVE  j < k <=> running[j] < running[k]
  <2>1. running[j] \in Int /\ running[k] \in Int /\ j \in Int /\ k \in Int
    BY <1>3, <1>4, <1>5
  <2>2. j < k \/ j = k \/ k < j
    BY <2>1
  <2>3. QED
    BY <1>6, <2>1, <2>2
<1>8. QED
  BY <1>3, <1>4, <1>5, <1>7

LEMMA TaskIs ==
  ASSUME ProgramInv, NEW t \in All
  PROVE  /\ t = <<t[1], t[2]>> /\ t[1] \in 1 .. Len(running) /\ t[2] \in DOMAIN Tasks(t[1])
         /\ running[t[1]] \in 1 .. Len(text) /\ text[running[t[1]]].op = "loop"
         /\ TaskOf(t) = text[running[t[1]]].tasks[t[2]]
<1>1. PICK k \in DOMAIN running : t \in {k} \X DOMAIN Tasks(k)
  BY DEF All
<1>2. t = <<t[1], t[2]>> /\ t[1] = k /\ t[2] \in DOMAIN Tasks(k)
  BY <1>1
<1>3. QED
  BY <1>2, RunningIs DEF TaskOf, Tasks

LEMMA IsInAll ==
  ASSUME ProgramInv, NEW k \in DOMAIN running, NEW h \in DOMAIN text[running[k]].tasks
  PROVE  <<k, h>> \in All
<1>1. <<k, h>> \in {k} \X DOMAIN Tasks(k)
  BY DEF Tasks
<1>2. QED
  BY <1>1 DEF All

\* What a task depends on, of the loops that are executed, is in every set that holds it
\* and, of all tasks, those that a member depends on.
LEMMA AboveWithin ==
  ASSUME ProgramInv, NEW u \in All, NEW S, u \in S, S \subseteq All,
         \A v \in S, z \in All :
           z[1] < v[1] /\ Conflict(TaskOf(z), TaskOf(v)) => z \in S
  PROVE  \A x \in Above(text, <<running[u[1]], u[2]>>) :
           x[1] >= running[1] =>
             \E v \in S : x = <<running[v[1]], v[2]>> /\ (v[1] = u[1] => v = u)
<1> DEFINE w == <<running[u[1]], u[2]>>
           H == {u[2]} \cup UNION {DOMAIN text[k].tasks : k \in DOMAIN text}
           X == Nat \X H
           more(n, below) ==
             {<<w[1] - n, h>> : h \in {h \in IF text[w[1] - n].op = "loop"
                                             THEN DOMAIN text[w[1] - n].tasks ELSE {} :
                \E v \in below : Conflict(text[w[1] - n].tasks[h], text[v[1]].tasks[v[2]])}}
           next(n, below) == below \cup more(n, below)
           Step == [n \in 1 .. w[1] - 1 |-> [below \in SUBSET X |-> next(n, below)]]
           Rule(g) == [n \in 0 .. w[1] - 1 |-> IF n = 0 THEN {w} ELSE next(n, g[n - 1])]
           A == CHOOSE g : g = Rule(g)
<1>1. /\ w[1] = running[u[1]] /\ w[2] = u[2] /\ w = <<w[1], w[2]>> /\ w[1] \in 1 .. Len(text)
      /\ DOMAIN text = 1 .. Len(text) /\ Len(text) \in Nat
      /\ u[1] \in 1 .. Len(running) /\ Len(running) \in Nat
  BY TaskIs, RunningIs
<1>2. Above(text, w) = A[w[1] - 1]
  BY DEF Above
<1> HIDE DEF w
<1>3. ASSUME NEW n \in 1 .. w[1] - 1, NEW below \in SUBSET X PROVE next(n, below) \in SUBSET X
  <2>1. w[1] - n \in Nat /\ w[1] - n \in DOMAIN text
    BY <1>1
  <2>2. DOMAIN text[w[1] - n].tasks \subseteq H
    BY <2>1
  <2> HIDE DEF H
  <2>3. more(n, below) \subseteq X
    BY <2>1, <2>2
  <2>4. QED
    BY <2>3
<1>4. \E f : f = Rule(f)
  <2>1. {w} \in SUBSET X
    <3>1. w[1] \in Nat /\ w[2] \in H
      BY <1>1
    <3> HIDE DEF H
    <3>2. QED
      BY <1>1, <3>1
  <2>2. w[1] - 1 \in Nat
    BY <1>1
  <2> HIDE DEF X, next
  <2>3. Step \in [1 .. w[1] - 1 -> [SUBSET X -> SUBSET X]]
    BY <1>3
  <2>4. PICK f \in [0 .. w[1] - 1 -> SUBSET X] :
          f[0] = {w} /\ \A k \in 1 .. w[1] - 1 : f[k] = Step[k][f[k - 1]]
    <3> DEFINE P == SUBSET X
               first == {w}
               n == w[1] - 1
    <3>1. first \in P /\ n \in Nat /\ Step \in [1 .. n -> [P -> P]]
      BY <2>1, <2>2, <2>3
    <3> HIDE DEF Step, P, first, n
    <3>2. \E f \in [0 .. n -> P] : f[0] = first /\ \A k \in 1 .. n : f[k] = Step[k][f[k - 1]]
      BY <3>1, Steps
    <3>3. QED
      BY <3>2 DEF P, first, n
  <2>5. ASSUME NEW k \in 1 .. w[1] - 1 PROVE f[k] = next(k, f[k - 1])
    <3>1. k - 1 \in 0 .. w[1] - 1
      BY <2>2
    <3>2. f[k - 1] \in SUBSET X
      BY <2>4, <3>1
    <3>3. QED
      BY <2>4, <3>2
  <2>6. \A k \in 0 .. w[1] - 1 : k = 0 \/ k \in 1 .. w[1] - 1
    BY <2>2
  <2> HIDE DEF Step
  <2>7. \A k \in 0 .. w[1] - 1 : f[k] = IF k = 0 THEN {w} ELSE next(k, f[k - 1])
    BY <2>4, <2>5, <2>6
  <2>8. f = [k \in 0 .. w[1] - 1 |-> f[k]]
    BY <2>4
  <2>9. f = Rule(f)
    BY <2>7, <2>8
  <2>10. QED
    BY <2>9
<1> HIDE DEF Step, X
<1>5. A = Rule(A)
  BY <1>4
<1> HIDE DEF A
<1>6. A[0] = {w} /\ \A n \in 1 .. w[1] - 1 : A[n] = A[n - 1] \cup more(n, A[n - 1])
  <2> HIDE DEF more
  <2>1. 0 \in 0 .. w[1] - 1 /\ \A n \in 1 .. w[1] - 1 : n \in 0 .. w[1] - 1 /\ n # 0
    BY <1>1
  <2>2. \A n \in 0 .. w[1] - 1 : A[n] = IF n = 0 THEN {w} ELSE next(n, A[n - 1])
    BY <1>5
  <2>3. QED
    BY <2>1, <2>2
<1> DEFINE Within(x) == x[1] >= running[1] =>
                          \E v \in S : x = <<running[v[1]], v[2]>> /\ (v[1] = u[1] => v = u)
           T == {n \in 0 .. w[1] - 1 : \A x \in A[n] : x[1] \in w[1] - n .. w[1] /\ Within(x)}
<1>7. 0 \in T
  BY <1>1, <1>6
<1>8. ASSUME NEW n \in 1 .. w[1] - 1, n - 1 \in T PROVE n \in T
  <2> DEFINE k == w[1] - n
  <2>1. k \in DOMAIN text /\ k \in Nat /\ k < w[1] /\ n \in Nat
    BY <1>1
  <2>2. ASSUME NEW x \in A[n - 1] PROVE x[1] \in k .. w[1] /\ k < x[1] /\ Within(x)
    <3>1. x[1] \in w[1] - (n - 1) .. w[1] /\ Within(x)
      BY <1>8
    <3>2. QED
      BY <1>1, <3>1
  <2>3. ASSUME NEW x \in more(n, A[n - 1]) PROVE x[1] \in k .. w[1] /\ Within(x)
    <3>1. PICK h \in DOMAIN text[k].tasks :
            /\ x = <<k, h>> /\ text[k].op = "loop"
            /\ \E v \in A[n - 1] : Conflict(text[k].tasks[h], text[v[1]].tasks[v[2]])
      BY <2>3
    <3>2. PICK y \in A[n - 1] : Conflict(text[k].tasks[h], text[y[1]].tasks[y[2]])
      BY <3>1
    <3>3. x[1] = k /\ x[1] \in k .. w[1]
      BY <1>1, <2>1, <3>1
    <3>4. SUFFICES ASSUME k >= running[1]
                   PROVE  \E v \in S : x = <<running[v[1]], v[2]>> /\ (v[1] = u[1] => v = u)
      BY <3>3
    <3>5. /\ running[1] \in Nat /\ 1 \in DOMAIN running /\ DOMAIN running = 1 .. Len(running)
          /\ u[1] \in DOMAIN running
      <4>1. DOMAIN running = 1 .. Len(running)
        BY RunningIs
      <4>2. 1 \in DOMAIN running /\ u[1] \in DOMAIN running
        BY <1>1, <4>1
      <4>3. running[1] \in 1 .. Len(text)
        BY <4>2, RunningIs
      <4>4. QED
        BY <1>1, <4>1, <4>2, <4>3
    <3>6. y[1] >= running[1]
      BY <1>1, <2>1, <2>2, <3>4, <3>5
    <3>7. PICK v \in S : y = <<running[v[1]], v[2]>>
      BY <2>2, <3>6
    <3>8. PICK g \in DOMAIN running : running[g] = k
      <4>1. k \in running[1] .. running[u[1]]
        BY <1>1, <2>1, <3>4, <3>5
      <4>2. Segment(running)
        BY DEF ProgramInv, Kept
      <4>3. QED
        BY <3>1, <3>5, <4>1, <4>2 DEF Segment
    <3> DEFINE z == <<g, h>>
    <3>9. z \in All /\ z[1] = g /\ z[2] = h
      BY <3>1, <3>8, IsInAll
    <3>10. TaskOf(z) = text[k].tasks[h] /\ v \in All /\ TaskOf(v) = text[y[1]].tasks[y[2]]
      <4>1. TaskOf(z) = text[k].tasks[h]
        BY <3>8, <3>9, TaskIs
      <4>2. v \in All
        BY <3>7
      <4>3. TaskOf(v) = text[running[v[1]]].tasks[v[2]]
        BY <4>2, TaskIs
      <4>4. y[1] = running[v[1]] /\ y[2] = v[2]
        BY <3>7
      <4>5. QED
        BY <4>1, <4>2, <4>3, <4>4
    <3>11. g < v[1] /\ g < u[1]
      <4>1. running[g] < running[v[1]] /\ running[g] < running[u[1]]
        <5>1. y[1] = running[v[1]] /\ k < y[1] /\ k < w[1]
          BY <2>1, <2>2, <3>7
        <5>2. QED
          BY <1>1, <3>8, <5>1
      <4>2. v[1] \in DOMAIN running
        BY <3>5, <3>10, TaskIs
      <4>3. QED
        BY <3>5, <3>8, <4>1, <4>2, RunningIs
    <3>12. z \in S
      BY <3>2, <3>9, <3>10, <3>11
    <3>13. z[1] # u[1] /\ x = <<running[z[1]], z[2]>>
      BY <1>1, <3>1, <3>5, <3>8, <3>9, <3>11
    <3>14. QED
      BY <3>12, <3>13
  <2>4. A[n] = A[n - 1] \cup more(n, A[n - 1])
    BY <1>6
  <2> HIDE DEF more, Within
  <2>5. QED
    BY <1>1, <2>2, <2>3, <2>4
<1>9. w[1] - 1 \in T
  <2> HIDE DEF T
  <2>1. w[1] - 1 \in Nat /\ w[1] - 1 \in 0 .. w[1] - 1
    BY <1>1
  <2>2. QED
    BY <1>7, <1>8, <2>1, InductionUpTo
<1>10. \A x \in Above(text, w) : Within(x)
  BY <1>2, <1>9
<1>11. QED
  BY <1>10 DEF w

LEMMA TouchSymmetric ==
  ASSUME NEW t, NEW u
  PROVE  Touch(t, u) <=> Touch(u, t)
BY DEF Touch

\* A task that touches what one of an earlier loop, or of its own, touches depends on it:
\* the declarations of the text, as they apply to the loops that are executed.
LEMMA TouchesAbove ==
  ASSUME ProgramInv, NEW t \in All, NEW u \in All, t[1] <= u[1], Touch(TaskOf(t), TaskOf(u))
  PROVE  <<running[t[1]], t[2]>> \in Above(text, <<running[u[1]], u[2]>>)
<1> DEFINE j == running[t[1]]
           k == running[u[1]]
<1>1. /\ t[1] \in DOMAIN running /\ u[1] \in DOMAIN running /\ DOMAIN running = 1 .. Len(running)
      /\ Len(running) \in Nat
      /\ j \in DOMAIN text /\ k \in DOMAIN text /\ text[j].op = "loop" /\ text[k].op = "loop"
      /\ t[2] \in DOMAIN text[j].tasks /\ u[2] \in DOMAIN text[k].tasks
      /\ TaskOf(t) = text[j].tasks[t[2]] /\ TaskOf(u) = text[k].tasks[u[2]]
  BY TaskIs, RunningIs DEF Tasks
<1>2. j <= k
  <2>1. t[1] < u[1] \/ t[1] = u[1]
    BY <1>1
  <2>2. t[1] < u[1] => j < k
    BY <1>1, RunningIs
  <2>3. j \in Int /\ k \in Int
    BY <1>1, RunningIs
  <2>4. QED
    BY <2>1, <2>2, <2>3
<1>3. \A x \in j .. k : text[x].op # "wait"
  <2>1. Segment(running)
    BY DEF ProgramInv, Kept
  <2>2. QED
    BY <1>1, <2>1 DEF Segment
<1>4. prog \in DOMAIN Texts /\ text = Texts[prog].text
  BY DEF ProgramInv, Placed
<1> HIDE DEF j, k
<1>5. <<j, t[2]>> \in Above(text, <<k, u[2]>>)
  BY <1>1, <1>2, <1>3, <1>4, DeclaredAccesses
<1>6. QED
  BY <1>5 DEF j, k

\* So all of that, of the loops that are executed, has run; of the loop of a task itself,
\* it depends on no other.
LEMMA AboveReached ==
  ASSUME ProgramInv, NEW t \in All, NEW u \in All,
         <<running[t[1]], t[2]>> \in Above(text, <<running[u[1]], u[2]>>),
         NEW S, u \in S, S \subseteq All,
         \A v \in S, z \in All :
           z[1] < v[1] /\ Conflict(TaskOf(z), TaskOf(v)) => z \in S
  PROVE  t \in S /\ (t[1] = u[1] => t = u)
<1> DEFINE x == <<running[t[1]], t[2]>>
<1>1. /\ t[1] \in DOMAIN running /\ 1 \in DOMAIN running /\ 1 <= t[1]
      /\ x[1] = running[t[1]] /\ t = <<t[1], t[2]>>
  BY TaskIs, RunningIs
<1>2. x[1] >= running[1]
  <2>1. running[1] \in Nat /\ running[t[1]] \in Nat /\ t[1] \in Nat
    <3>1. running[1] \in 1 .. Len(text) /\ running[t[1]] \in 1 .. Len(text) /\ Len(text) \in Nat
      BY <1>1, RunningIs
    <3>2. t[1] \in 1 .. Len(running) /\ Len(running) \in Nat
      BY <1>1, RunningIs
    <3>3. QED
      BY <3>1, <3>2
  <2>2. 1 < t[1] \/ 1 = t[1]
    BY <1>1, <2>1
  <2>3. 1 < t[1] => running[1] < running[t[1]]
    BY <1>1, RunningIs
  <2>4. QED
    BY <1>1, <2>1, <2>2, <2>3
<1>3. x \in Above(text, <<running[u[1]], u[2]>>)
  OBVIOUS
<1>4. PICK v \in S : x = <<running[v[1]], v[2]>> /\ (v[1] = u[1] => v = u)
  BY <1>2, <1>3, AboveWithin
<1>5. v \in All /\ running[v[1]] = running[t[1]] /\ v[2] = t[2]
  BY <1>4
<1>6. v[1] = t[1] /\ v = <<v[1], v[2]>>
  <2>1. v[1] \in DOMAIN running /\ v = <<v[1], v[2]>>
    BY <1>5, TaskIs, RunningIs
  <2>2. v[1] \in Int /\ t[1] \in Int /\ running[t[1]] \in Int
    BY <1>1, <2>1, RunningIs
  <2>3. ~ (v[1] < t[1]) /\ ~ (t[1] < v[1])
    BY <1>1, <1>5, <2>1, <2>2, RunningIs
  <2>4. QED
    BY <2>1, <2>2, <2>3
<1>7. v = t
  BY <1>1, <1>5, <1>6
<1>8. QED
  BY <1>4, <1>7

\* What a task touches has run, with all else that it depends on; and tasks of one loop
\* touch nothing in common.
LEMMA Reached ==
  ASSUME ProgramInv, NEW t \in All, NEW u \in All, t[1] <= u[1], Touch(TaskOf(t), TaskOf(u)),
         NEW S, u \in S, S \subseteq All,
         \A v \in S, z \in All :
           z[1] < v[1] /\ Conflict(TaskOf(z), TaskOf(v)) => z \in S
  PROVE  t \in S /\ (t[1] = u[1] => t = u)
BY TouchesAbove, AboveReached

\* A task may run when all that it depends on, directly or not, has run.
LEMMA ReadyClosed ==
  ASSUME ProgramInv, NEW u \in All, Ready(u)
  PROVE  /\ done \cup {u} \subseteq All
         /\ \A v \in done \cup {u}, z \in All :
              z[1] < v[1] /\ Conflict(TaskOf(z), TaskOf(v)) => z \in done \cup {u}
BY ConflictSymmetric DEF ProgramInv, Ordered, Ready

LEMMA DoneClosed ==
  ASSUME ProgramInv
  PROVE  /\ done \subseteq All
         /\ \A v \in done, z \in All :
              z[1] < v[1] /\ Conflict(TaskOf(z), TaskOf(v)) => z \in done
BY ConflictSymmetric DEF ProgramInv, Ordered

\* Tasks that may run at the same time touch nothing in common (NoRace of Programs), for
\* every program that declares what it accesses.
THEOREM NoRaces == ProgramSpec => []NoRace
<1>1. ASSUME ProgramInv, NEW t \in All, NEW u \in All, Ready(t), Ready(u), t # u,
             t[1] <= u[1]
      PROVE  ~Touch(TaskOf(t), TaskOf(u))
  <2> DEFINE S == done \cup {u}
  <2>1. t \notin S /\ u \in S
    BY <1>1 DEF Ready
  <2>2. S \subseteq All /\ \A v \in S, z \in All :
          z[1] < v[1] /\ Conflict(TaskOf(z), TaskOf(v)) => z \in S
    BY <1>1, ReadyClosed
  <2> HIDE DEF S
  <2>3. QED
    BY <1>1, <2>1, <2>2, Reached
<1>2. ProgramInv => NoRace
  <2>1. SUFFICES ASSUME ProgramInv, NEW t \in All, NEW u \in All, Ready(t), Ready(u), t # u
                 PROVE  ~Touch(TaskOf(t), TaskOf(u))
    BY DEF NoRace
  <2>2. t[1] <= u[1] \/ u[1] <= t[1]
    <3>1. t[1] \in Int /\ u[1] \in Int
      BY <2>1, TaskIs
    <3>2. QED
      BY <3>1
  <2>3. QED
    BY <1>1, <2>1, <2>2, TouchSymmetric
<1>3. QED
  BY <1>2, ProgramIsInvariant, PTL

-----------------------------------------------------------------------------
(***************************************************************************)
(* The tracer of RaceTrace.  A record that has lost no update is the       *)
(* greatest number, and no thread is about to take that back; every record *)
(* is the number of an access; and the numbers of the tasks follow the     *)
(* order in which they were registered.                                    *)
(***************************************************************************)

\* A call that has found its task and its address.
InCall(th) == tpc[th] \in {"checkRead", "checkWrite", "compare", "reread", "store"}

\* A record is the number of a task that has accessed the address.
IsAccess(a, kind, n) == \E r \in accessed : r.on = a /\ r.kind = kind /\ r.id = n

TablesInv ==
  /\ GlobalTaskId \in Nat
  /\ \A p \in DOMAIN TaskPtr2Id : TaskPtr2Id[p] \in Nat
  /\ \A a \in DOMAIN DataObjStateMap : DataObjStateMap[a] \in [read : Nat, write : Nat]
  /\ \A r \in accessed :
       r.on \in DOMAIN DataObjStateMap /\ r.kind \in {"read", "write"} /\ r.id \in Nat
  /\ \A a \in DOMAIN DataObjStateMap : \A kind \in {"read", "write"} :
       DataObjStateMap[a][kind] = 0 \/ IsAccess(a, kind, DataObjStateMap[a][kind])

\* A record that has lost no update is the greatest number.
RecordsGreatest ==
  \A r \in accessed : <<r.on, r.kind>> \notin lost => r.id <= DataObjStateMap[r.on][r.kind]

ThreadsType ==
  /\ DOMAIN LocalTask = Thread /\ DOMAIN tpc = Thread /\ DOMAIN callNo = Thread
  /\ DOMAIN taken = Thread /\ DOMAIN earlier = Thread

\* A thread is in a task that has not run to its end, and alone.
InTask(th) == tpc[th] # "out" => prog \in Traced /\ LocalTask[th] \in All \ done

Alone ==
  \A th, o \in Thread :
    tpc[th] # "out" /\ tpc[o] # "out" /\ th # o => LocalTask[th] # LocalTask[o]

\* What a call has found, it keeps.
CallFound(th) ==
  InCall(th) =>
    /\ Pointer(LocalTask[th]) \in DOMAIN TaskPtr2Id
    /\ Address(th) \in DOMAIN DataObjStateMap
    /\ earlier[th] \subseteq accessed
    /\ tpc[th] = "checkRead" => Op(th) = "Write"
    /\ tpc[th] = "checkWrite" => Op(th) \in {"Read", "Write"}

\* The number to be stored is its own or an access's, and as great as the record, unless
\* that has lost an update.
TakenReal(th) ==
  tpc[th] = "store" =>
    /\ taken[th] \in Nat
    /\ taken[th] \in {0, TaskId(th)} \/ IsAccess(Address(th), Kind(Op(th)), taken[th])

TakenGreatest(th) ==
  InCall(th) /\ <<Address(th), Kind(Op(th))>> \notin lost =>
    /\ tpc[th] = "store" => Record(th) <= taken[th] /\ TaskId(th) <= taken[th]
    /\ tpc[th] = "reread" => TaskId(th) <= Record(th)

\* A write that has been compared with the last read.
ReadsChecked(th) ==
  tpc[th] = "checkWrite" /\ Op(th) = "Write" =>
    \A r \in earlier[th] : Breaks(r, th) /\ r.kind = "read" => <<r.on, r.kind>> \in lost

ThreadInv(th) ==
  /\ InTask(th) /\ CallFound(th) /\ TakenReal(th) /\ TakenGreatest(th) /\ ReadsChecked(th)
  /\ Justified(th) /\ NotMissed(th)

TraceInv ==
  /\ TablesInv /\ RecordsGreatest /\ ThreadsType /\ Alone
  /\ \A th \in Thread : ThreadInv(th)

\* The numbers follow the order of registration.
IdsInOrder ==
  /\ \A p \in DOMAIN TaskPtr2Id :
       p[1] \in Nat /\ p[2] \in Nat /\ p[1] < pc /\ TaskPtr2Id[p] < GlobalTaskId
  /\ \A p, q \in DOMAIN TaskPtr2Id :
       p[1] < q[1] \/ (p[1] = q[1] /\ p[2] < q[2]) => TaskPtr2Id[p] < TaskPtr2Id[q]

\* An access is by a call of a task that has begun.
Begun(u) == u \in done \/ \E o \in Thread : tpc[o] # "out" /\ LocalTask[o] = u

IsBy(r, u) ==
  /\ Begun(u) /\ Pointer(u) \in DOMAIN TaskPtr2Id /\ r.id = TaskPtr2Id[Pointer(u)]
  /\ \E d \in ToSet(TaskOf(u).calls) : d[2] = r.on /\ Kind(d[1]) = r.kind

Performed == \A r \in accessed : \E u \in All : IsBy(r, u)

\* A task that has begun was ready, and what it calls is its own.
Comes(th) ==
  /\ tpc[th] # "out" => Ready(LocalTask[th]) /\ callNo[th] \in Nat \ {0}
  /\ InCall(th) \/ tpc[th] = "accused" =>
       /\ callNo[th] \in DOMAIN TaskOf(LocalTask[th]).calls
       /\ Pointer(LocalTask[th]) \in DOMAIN TaskPtr2Id
  /\ tpc[th] = "accused" => Op(th) \in {"Read", "Write"}

OrderInv ==
  /\ IdsInOrder /\ Performed
  /\ prog \notin Traced => accessed = {} /\ DOMAIN TaskPtr2Id = {}
  /\ \A th \in Thread : Comes(th)

\* A loop to be registered.
LEMMA LoopType ==
  ASSUME ProgramInv, At("loop")
  PROVE  Len(text[pc].tasks) \in Nat /\ DOMAIN text[pc].tasks = 1 .. Len(text[pc].tasks)
<1>1. /\ text[pc].op = "loop" /\ pc \in DOMAIN text /\ prog \in DOMAIN Texts
      /\ text = Texts[prog].text
  <2>1. pc \in 1 .. Len(text)
    BY TextType DEF ProgramInv, Placed, At
  <2>2. QED
    BY <2>1, TextType DEF ProgramInv, Placed, At
<1> DEFINE tasks == text[pc].tasks
<1>2. tasks \in Seq(ToSet(tasks))
  BY <1>1, TextsAssumption
<1> HIDE DEF tasks
<1>3. Len(tasks) \in Nat /\ DOMAIN tasks = 1 .. Len(tasks)
  BY <1>2
<1>4. QED
  BY <1>3 DEF tasks

\* Whether it is in a call, or what it is, a thread knows from its own variables.
LEMMA CallKept ==
  ASSUME NEW th, UNCHANGED <<text, running>>, LocalTask'[th] = LocalTask[th],
         callNo'[th] = callNo[th]
  PROVE  /\ Op(th)' = Op(th) /\ Address(th)' = Address(th) /\ Kind(Op(th))' = Kind(Op(th))
         /\ Pointer(LocalTask[th])' = Pointer(LocalTask[th])
         /\ TaskPtr2Id' = TaskPtr2Id => TaskId(th)' = TaskId(th)
         /\ DataObjStateMap' = DataObjStateMap => Record(th)' = Record(th)
<1>1. TaskOf(LocalTask[th])' = TaskOf(LocalTask[th])
  BY AllKept DEF TaskOf, Tasks
<1>2. Op(th)' = Op(th) /\ Address(th)' = Address(th)
  BY <1>1 DEF Op, Address
<1>3. Kind(Op(th))' = Kind(Op(th))
  BY <1>2 DEF Kind
<1>4. Pointer(LocalTask[th])' = Pointer(LocalTask[th])
  BY DEF Pointer
<1>5. QED
  BY <1>2, <1>3, <1>4 DEF TaskId, Record

\* What the tables hold, and what breaks the order, stays.
LEMMA BreaksKept ==
  ASSUME NEW th, NEW r, UNCHANGED <<text, running, TaskPtr2Id>>, LocalTask'[th] = LocalTask[th],
         callNo'[th] = callNo[th]
  PROVE  Breaks(r, th)' <=> Breaks(r, th)
BY CallKept DEF Breaks

LEMMA IsAccessKept ==
  ASSUME NEW a, NEW kind, NEW n, IsAccess(a, kind, n), accessed \subseteq accessed'
  PROVE  IsAccess(a, kind, n)'
BY DEF IsAccess

\* When all threads are out, only the tables matter.
LEMMA AllOut ==
  ASSUME ThreadsType', TablesInv', RecordsGreatest', \A th \in Thread : tpc'[th] = "out"
  PROVE  TraceInv'
<1>1. ASSUME NEW th \in Thread PROVE ThreadInv(th)'
  BY <1>1 DEF ThreadInv, InTask, CallFound, InCall, TakenReal, TakenGreatest, ReadsChecked,
              Justified, NotMissed
<1>2. Alone'
  BY DEF Alone
<1>3. QED
  BY <1>1, <1>2 DEF TraceInv

\* No thread is in a task where the program is not traced, nor between two waits.
LEMMA Outside ==
  ASSUME TraceInv, prog \notin Traced \/ running = <<>> \/ done = All, NEW th \in Thread
  PROVE  tpc[th] = "out"
BY AllEmpty DEF TraceInv, ThreadInv, InTask

LEMMA TraceBegins ==
  ASSUME TraceInit
  PROVE  TraceInv
<1>1. /\ GlobalTaskId = 0 /\ DOMAIN TaskPtr2Id = {} /\ DOMAIN DataObjStateMap = {}
      /\ accessed = {} /\ \A th \in Thread : tpc[th] = "out"
  BY DEF TraceInit
<1>2. TablesInv /\ RecordsGreatest
  BY <1>1 DEF TablesInv, RecordsGreatest
<1>3. ThreadsType
  BY DEF TraceInit, ThreadsType
<1>4. ASSUME NEW th \in Thread PROVE ThreadInv(th)
  BY <1>1 DEF ThreadInv, InTask, CallFound, InCall, TakenReal, TakenGreatest, ReadsChecked,
              Justified, NotMissed
<1>5. Alone
  BY <1>1 DEF Alone
<1>6. QED
  BY <1>2, <1>3, <1>4, <1>5 DEF TraceInv

LEMMA TablesKept ==
  ASSUME TraceInv, UNCHANGED <<GlobalTaskId, TaskPtr2Id, DataObjStateMap, roundState>>
  PROVE  TablesInv' /\ RecordsGreatest'
BY DEF TraceInv, TablesInv, RecordsGreatest, IsAccess, roundState

\* The steps of the main thread: a program without tracing, a loop, a wait begun and ended.
MainTraced == Untraced \/ DagStartTraced \/ RegisterTraced \/ SpawnTraced \/ WaitedTraced

LEMMA MainOut ==
  ASSUME ProgramInv, TraceInv, MainTraced
  PROVE  /\ \A th \in Thread : tpc[th] = "out" /\ tpc'[th] = "out"
         /\ UNCHANGED threadState
         /\ prog \notin Traced \/ WaitedTraced \/ running = <<>>
<1>1. CASE Untraced
  BY <1>1, Outside DEF Untraced, traceVars, threadState
<1>2. CASE DagStartTraced \/ RegisterTraced
  <2>1. text[pc].op # "wait" /\ UNCHANGED threadState
    BY <1>2 DEF DagStartTraced, RegisterTraced, DagStart, Register, At, traceVars
  <2>2. running = <<>>
    BY <2>1 DEF ProgramInv, Placed, At
  <2>3. QED
    BY <2>1, <2>2, Outside DEF threadState
<1>3. CASE SpawnTraced
  BY <1>3, Outside DEF SpawnTraced, Spawn, traceVars, threadState
<1>4. CASE WaitedTraced
  BY <1>4, Outside DEF WaitedTraced, Waited, threadState
<1>5. QED
  BY <1>1, <1>2, <1>3, <1>4 DEF MainTraced

LEMMA MainTracedStep ==
  ASSUME ProgramInv, TraceInv, MainTraced
  PROVE  TraceInv'
<1>1. \A th \in Thread : tpc[th] = "out" /\ tpc'[th] = "out"
  BY MainOut
<1>2. UNCHANGED threadState
  BY MainOut
<1>3. ThreadsType' /\ \A th \in Thread : tpc'[th] = "out"
  BY <1>1, <1>2 DEF TraceInv, ThreadsType, threadState
<1>4. CASE UNCHANGED traceVars
  BY <1>3, <1>4, AllOut, TablesKept DEF traceVars
<1>5. CASE RegisterTraced
  <2> DEFINE tasks == text[pc].tasks
             new == {pc} \X DOMAIN tasks
             data == UNION {tasks[h].reads \cup tasks[h].writes : h \in DOMAIN tasks}
  <2>1. /\ TaskPtr2Id' = [p \in DOMAIN TaskPtr2Id \cup new |->
                            IF p \in new THEN GlobalTaskId + p[2] - 1 ELSE TaskPtr2Id[p]]
        /\ GlobalTaskId' = GlobalTaskId + Len(tasks)
        /\ DataObjStateMap' = [a \in DOMAIN DataObjStateMap \cup data |->
                                 IF a \in DOMAIN DataObjStateMap THEN DataObjStateMap[a]
                                 ELSE [read |-> 0, write |-> 0]]
        /\ UNCHANGED <<accessed, lost>>
    BY <1>5 DEF RegisterTraced, roundState
  <2>2. Len(tasks) \in Nat /\ DOMAIN tasks = 1 .. Len(tasks)
    BY <1>5, LoopType DEF RegisterTraced, Register
  <2> HIDE DEF tasks, data
  <2>3. GlobalTaskId' \in Nat /\ \A p \in DOMAIN TaskPtr2Id' : TaskPtr2Id'[p] \in Nat
    <3>1. \A p \in new : p[2] \in 1 .. Len(tasks)
      BY <2>2
    <3> HIDE DEF new
    <3>2. GlobalTaskId \in Nat /\ \A p \in DOMAIN TaskPtr2Id : TaskPtr2Id[p] \in Nat
      BY DEF TraceInv, TablesInv
    <3>3. QED
      BY <2>1, <2>2, <3>1, <3>2
  <2>4. /\ DOMAIN DataObjStateMap' = DOMAIN DataObjStateMap \cup data
        /\ \A a \in DOMAIN DataObjStateMap : DataObjStateMap'[a] = DataObjStateMap[a]
        /\ \A a \in DOMAIN DataObjStateMap' \ DOMAIN DataObjStateMap :
             DataObjStateMap'[a] = [read |-> 0, write |-> 0]
    BY <2>1
  <2>5. TablesInv'
    <3>1. \A a \in DOMAIN DataObjStateMap' : DataObjStateMap'[a] \in [read : Nat, write : Nat]
      <4>1. [read |-> 0, write |-> 0] \in [read : Nat, write : Nat]
        OBVIOUS
      <4>2. QED
        BY <2>4, <4>1 DEF TraceInv, TablesInv
    <3>2. \A r \in accessed' : r.on \in DOMAIN DataObjStateMap' /\ r.kind \in {"read", "write"}
                               /\ r.id \in Nat
      BY <2>1, <2>4 DEF TraceInv, TablesInv
    <3>3. ASSUME NEW a \in DOMAIN DataObjStateMap', NEW kind \in {"read", "write"}
          PROVE  DataObjStateMap'[a][kind] = 0 \/ IsAccess(a, kind, DataObjStateMap[a][kind])'
      <4>1. CASE a \in DOMAIN DataObjStateMap
        BY <2>1, <2>4, <4>1 DEF TraceInv, TablesInv, IsAccess
      <4>2. CASE a \notin DOMAIN DataObjStateMap
        BY <2>4, <4>2
      <4>3. QED
        BY <4>1, <4>2
    <3>4. QED
      BY <2>3, <3>1, <3>2, <3>3 DEF TablesInv
  <2>6. RecordsGreatest'
    BY <2>1, <2>4 DEF TraceInv, TablesInv, RecordsGreatest
  <2>7. QED
    BY <1>3, <2>5, <2>6, AllOut
<1>6. CASE WaitedTraced
  <2>1. /\ DOMAIN TaskPtr2Id' = {} /\ DOMAIN DataObjStateMap' = {} /\ accessed' = {}
        /\ GlobalTaskId' = GlobalTaskId
    BY <1>6 DEF WaitedTraced
  <2>2. TablesInv' /\ RecordsGreatest'
    BY <2>1 DEF TraceInv, TablesInv, RecordsGreatest
  <2>3. QED
    BY <1>3, <2>2, AllOut
<1>7. QED
  BY <1>4, <1>5, <1>6 DEF MainTraced, Untraced, DagStartTraced, SpawnTraced

\* A thread that does nothing keeps its part of the invariant while another one takes a step;
\* but what it has taken, only if the records stay.
LEMMA OtherThread ==
  ASSUME TraceInv, NEW o \in Thread,
         UNCHANGED <<prog, text, running, TaskPtr2Id>>, DOMAIN DataObjStateMap' = DOMAIN DataObjStateMap,
         accessed \subseteq accessed', lost \subseteq lost',
         tpc'[o] = tpc[o], LocalTask'[o] = LocalTask[o], callNo'[o] = callNo[o],
         taken'[o] = taken[o], earlier'[o] = earlier[o],
         tpc[o] # "out" => LocalTask[o] \notin done'
  PROVE  /\ InTask(o)' /\ CallFound(o)' /\ TakenReal(o)' /\ ReadsChecked(o)' /\ Justified(o)'
         /\ NotMissed(o)'
         /\ DataObjStateMap' = DataObjStateMap /\ lost' = lost => TakenGreatest(o)'
<1>1. ThreadInv(o)
  BY DEF TraceInv
<1>2. /\ Op(o)' = Op(o) /\ Address(o)' = Address(o) /\ Kind(Op(o))' = Kind(Op(o))
      /\ Pointer(LocalTask[o])' = Pointer(LocalTask[o]) /\ TaskId(o)' = TaskId(o)
      /\ DataObjStateMap' = DataObjStateMap => Record(o)' = Record(o)
  BY CallKept
<1>3. InCall(o)' <=> InCall(o)
  BY DEF InCall
<1>4. InTask(o)'
  BY <1>1, AllKept DEF ThreadInv, InTask
<1>5. CallFound(o)'
  BY <1>1, <1>2, <1>3 DEF ThreadInv, CallFound
<1>6. TakenReal(o)'
  BY <1>1, <1>2, IsAccessKept DEF ThreadInv, TakenReal
<1>7. ReadsChecked(o)'
  BY <1>1, <1>2, BreaksKept DEF ThreadInv, ReadsChecked
<1>8. Justified(o)'
  BY <1>1, BreaksKept DEF ThreadInv, Justified
<1>9. NotMissed(o)'
  BY <1>1, <1>2, BreaksKept DEF ThreadInv, NotMissed
<1>10. DataObjStateMap' = DataObjStateMap /\ lost' = lost => TakenGreatest(o)'
  BY <1>1, <1>2, <1>3 DEF ThreadInv, TakenGreatest
<1>11. QED
  BY <1>4, <1>5, <1>6, <1>7, <1>8, <1>9, <1>10

\* A step of one thread that leaves the tables alone.
LEMMA LocalStep ==
  ASSUME TraceInv, NEW th \in Thread,
         UNCHANGED <<programVars, GlobalTaskId, TaskPtr2Id, DataObjStateMap, LocalTask, callNo,
                     roundState>>,
         ThreadsType', tpc[th] # "out",
         \A o \in Thread \ {th} : /\ tpc'[o] = tpc[o] /\ taken'[o] = taken[o]
                                  /\ earlier'[o] = earlier[o],
         ThreadInv(th)'
  PROVE  TraceInv'
<1>1. UNCHANGED <<prog, text, running, done, accessed, lost>>
  BY DEF programVars, roundState
<1>2. ASSUME NEW o \in Thread \ {th} PROVE ThreadInv(o)'
  <2>1. tpc[o] # "out" => LocalTask[o] \notin done'
    BY <1>1 DEF TraceInv, ThreadInv, InTask
  <2>2. QED
    BY <1>1, <1>2, <2>1, OtherThread DEF ThreadInv
<1>3. TablesInv' /\ RecordsGreatest'
  BY TablesKept
<1>4. Alone'
  BY DEF TraceInv, Alone
<1>5. QED
  BY <1>2, <1>3, <1>4 DEF TraceInv

\* Where a thread in a call goes, nobody else goes.
LEMMA ProceedTo ==
  ASSUME TraceInv, NEW th \in Thread, NEW label, Proceed(th, label)
  PROVE  /\ tpc'[th] = label /\ DOMAIN tpc' = Thread
         /\ \A o \in Thread \ {th} : tpc'[o] = tpc[o]
BY DEF Proceed, TraceInv, ThreadsType

\* The numbers a call compares.
LEMMA CallType ==
  ASSUME TraceInv, NEW th \in Thread, InCall(th)
  PROVE  /\ TaskId(th) \in Nat /\ Record(th) \in Nat
         /\ DataObjStateMap[Address(th)].read \in Nat /\ DataObjStateMap[Address(th)].write \in Nat
         /\ Kind(Op(th)) \in {"read", "write"}
         /\ Address(th) \in DOMAIN DataObjStateMap
         /\ Op(th) = "Write" => Kind(Op(th)) = "write"
<1>1. Pointer(LocalTask[th]) \in DOMAIN TaskPtr2Id /\ Address(th) \in DOMAIN DataObjStateMap
  BY DEF TraceInv, ThreadInv, CallFound
<1>2. TaskId(th) \in Nat
  BY <1>1 DEF TraceInv, TablesInv, TaskId
<1>3. DataObjStateMap[Address(th)] \in [read : Nat, write : Nat]
  BY <1>1 DEF TraceInv, TablesInv
<1>4. Kind(Op(th)) = "read" \/ Kind(Op(th)) = "write"
  BY DEF Kind
<1>5. Record(th) \in Nat
  BY <1>3, <1>4 DEF Record
<1>6. Op(th) = "Write" => Kind(Op(th)) = "write"
  BY DEF Kind
<1>7. QED
  BY <1>1, <1>2, <1>3, <1>4, <1>5, <1>6

\* An access with a greater number than the record means that this has lost an update.
LEMMA GreaterIsLost ==
  ASSUME TraceInv, NEW th \in Thread, InCall(th), NEW r \in earlier[th],
         r.on = Address(th), r.id > TaskId(th),
         DataObjStateMap[Address(th)][r.kind] <= TaskId(th)
  PROVE  <<r.on, r.kind>> \in lost
<1>1. r \in accessed
  BY DEF TraceInv, ThreadInv, CallFound
<1>2. r.id \in Nat /\ r.kind \in {"read", "write"}
  BY <1>1 DEF TraceInv, TablesInv
<1>3. TaskId(th) \in Nat /\ DataObjStateMap[Address(th)][r.kind] \in Nat
  BY <1>2, CallType
<1>4. <<r.on, r.kind>> \notin lost => r.id <= DataObjStateMap[r.on][r.kind]
  BY <1>1 DEF TraceInv, RecordsGreatest
<1>5. QED
  BY <1>2, <1>3, <1>4

LEMMA CallStep ==
  ASSUME TraceInv, NEW th \in Thread, Call(th)
  PROVE  TraceInv'
<1>1. /\ tpc[th] = "call"
      /\ UNCHANGED <<programVars, GlobalTaskId, TaskPtr2Id, DataObjStateMap, LocalTask, callNo, taken,
                     roundState>>
      /\ UNCHANGED <<prog, text, running, done, accessed, lost>>
  BY DEF Call, programVars, roundState
<1> DEFINE found == Pointer(LocalTask[th]) \in DOMAIN TaskPtr2Id
                    /\ Address(th) \in DOMAIN DataObjStateMap
<1>2. /\ tpc'[th] = (IF found THEN FirstCheck(Op(th)) ELSE "unknown") /\ DOMAIN tpc' = Thread
      /\ \A o \in Thread \ {th} : tpc'[o] = tpc[o]
  BY ProceedTo DEF Call
<1>3. earlier'[th] = accessed /\ DOMAIN earlier' = Thread
      /\ \A o \in Thread \ {th} : earlier'[o] = earlier[o]
  BY DEF Call, TraceInv, ThreadsType
<1>4. /\ Op(th)' = Op(th) /\ Address(th)' = Address(th)
      /\ Pointer(LocalTask[th])' = Pointer(LocalTask[th])
  BY <1>1, CallKept
<1>5. /\ tpc'[th] \in {"checkRead", "checkWrite", "compare", "unknown"}
      /\ tpc'[th] # "unknown" => found
      /\ tpc'[th] = "checkRead" => Op(th) = "Write"
      /\ tpc'[th] = "checkWrite" => Op(th) = "Read"
      /\ tpc'[th] = "compare" => Op(th) \notin {"Read", "Write"}
  <2> HIDE DEF found
  <2>1. QED
    BY <1>2 DEF FirstCheck
<1>6. InTask(th)'
  BY <1>1, AllKept DEF TraceInv, ThreadInv, InTask
<1>7. CallFound(th)'
  BY <1>1, <1>3, <1>4, <1>5 DEF CallFound, InCall
<1>8. TakenReal(th)' /\ TakenGreatest(th)' /\ ReadsChecked(th)' /\ Justified(th)' /\ NotMissed(th)'
  BY <1>4, <1>5 DEF TakenReal, TakenGreatest, ReadsChecked, Justified, NotMissed
<1>9. ThreadsType'
  BY <1>1, <1>2, <1>3 DEF TraceInv, ThreadsType
<1>10. QED
  BY <1>1, <1>2, <1>3, <1>6, <1>7, <1>8, <1>9, LocalStep DEF ThreadInv

\* A step within a call, which reads records and writes none.
LEMMA WithinCall ==
  ASSUME TraceInv, NEW th \in Thread, InCall(th),
         UNCHANGED <<programVars, GlobalTaskId, TaskPtr2Id, DataObjStateMap, LocalTask, callNo, earlier,
                     roundState>>,
         DOMAIN taken' = Thread, \A o \in Thread \ {th} : taken'[o] = taken[o],
         NEW label \in {"accused", "checkWrite", "compare", "reread", "store"}, Proceed(th, label),
         label = "checkWrite" => Op(th) = "Write",
         TakenReal(th)', TakenGreatest(th)', ReadsChecked(th)', Justified(th)', NotMissed(th)'
  PROVE  TraceInv'
<1>1. UNCHANGED <<prog, text, running, done, accessed, lost>>
  BY DEF programVars, roundState
<1>2. /\ tpc'[th] = label /\ DOMAIN tpc' = Thread /\ \A o \in Thread \ {th} : tpc'[o] = tpc[o]
  BY ProceedTo
<1>3. Op(th)' = Op(th) /\ Address(th)' = Address(th) /\ Pointer(LocalTask[th])' = Pointer(LocalTask[th])
  BY <1>1, CallKept
<1>4. tpc[th] # "out"
  BY DEF InCall
<1>5. InTask(th)'
  BY <1>1, <1>4, AllKept DEF TraceInv, ThreadInv, InTask
<1>6. CallFound(th)'
  BY <1>1, <1>2, <1>3 DEF TraceInv, ThreadInv, CallFound
<1>7. ThreadsType'
  BY <1>2 DEF TraceInv, ThreadsType
<1>8. QED
  BY <1>1, <1>2, <1>4, <1>5, <1>6, <1>7, LocalStep DEF ThreadInv

LEMMA CheckReadStep ==
  ASSUME TraceInv, NEW th \in Thread, CheckRead(th)
  PROVE  TraceInv'
<1> DEFINE later == DataObjStateMap[Address(th)].read > TaskId(th)
<1>1. /\ tpc[th] = "checkRead" /\ InCall(th) /\ Op(th) = "Write"
      /\ UNCHANGED <<programVars, GlobalTaskId, TaskPtr2Id, DataObjStateMap, LocalTask, callNo, taken,
                     earlier, roundState>>
      /\ UNCHANGED <<text, running, accessed, lost>>
  BY DEF CheckRead, InCall, programVars, roundState, TraceInv, ThreadInv, CallFound
<1>2. Proceed(th, IF later THEN "accused" ELSE "checkWrite")
  BY DEF CheckRead
<1>3. tpc'[th] = IF later THEN "accused" ELSE "checkWrite"
  BY <1>2, ProceedTo
<1>4. Op(th)' = Op(th) /\ \A r : Breaks(r, th)' <=> Breaks(r, th)
  BY <1>1, CallKept, BreaksKept
<1>5. Justified(th)'
  <2>1. SUFFICES ASSUME later PROVE \E r \in accessed : Breaks(r, th)
    BY <1>1, <1>3, <1>4 DEF Justified
  <2> DEFINE n == DataObjStateMap[Address(th)].read
  <2>2. n \in Nat /\ n > TaskId(th) /\ TaskId(th) \in Nat /\ Address(th) \in DOMAIN DataObjStateMap
    BY <1>1, <2>1, CallType
  <2>3. IsAccess(Address(th), "read", n)
    BY <2>2 DEF TraceInv, TablesInv
  <2>4. QED
    BY <1>1, <2>2, <2>3 DEF IsAccess, Breaks
<1>6. ReadsChecked(th)'
  <2>1. SUFFICES ASSUME ~later, NEW r \in earlier[th], Breaks(r, th), r.kind = "read"
                 PROVE  <<r.on, r.kind>> \in lost
    BY <1>1, <1>3, <1>4 DEF ReadsChecked
  <2>2. DataObjStateMap[Address(th)].read <= TaskId(th)
    BY <1>1, <2>1, CallType
  <2>3. QED
    BY <1>1, <2>1, <2>2, GreaterIsLost DEF Breaks
<1>7. TakenReal(th)' /\ TakenGreatest(th)' /\ NotMissed(th)'
  BY <1>3 DEF TakenReal, TakenGreatest, NotMissed
<1>8. DOMAIN taken' = Thread /\ \A o \in Thread \ {th} : taken'[o] = taken[o]
  BY <1>1 DEF TraceInv, ThreadsType
<1> HIDE DEF later
<1>9. CASE later
  BY <1>1, <1>2, <1>5, <1>6, <1>7, <1>8, <1>9, WithinCall
<1>10. CASE ~later
  BY <1>1, <1>2, <1>5, <1>6, <1>7, <1>8, <1>10, WithinCall
<1>11. QED
  BY <1>9, <1>10

LEMMA CheckWriteStep ==
  ASSUME TraceInv, NEW th \in Thread, CheckWrite(th)
  PROVE  TraceInv'
<1> DEFINE later == DataObjStateMap[Address(th)].write > TaskId(th)
<1>1. /\ tpc[th] = "checkWrite" /\ InCall(th) /\ Op(th) \in {"Read", "Write"}
      /\ UNCHANGED <<programVars, GlobalTaskId, TaskPtr2Id, DataObjStateMap, LocalTask, callNo, taken,
                     earlier, roundState>>
      /\ UNCHANGED <<text, running, accessed, lost>>
  BY DEF CheckWrite, InCall, programVars, roundState, TraceInv, ThreadInv, CallFound
<1>2. Proceed(th, IF later THEN "accused" ELSE "compare")
  BY DEF CheckWrite
<1>3. tpc'[th] = IF later THEN "accused" ELSE "compare"
  BY <1>2, ProceedTo
<1>4. Op(th)' = Op(th) /\ \A r : Breaks(r, th)' <=> Breaks(r, th)
  BY <1>1, CallKept, BreaksKept
<1>5. Justified(th)'
  <2>1. SUFFICES ASSUME later PROVE \E r \in accessed : Breaks(r, th)
    BY <1>1, <1>3, <1>4 DEF Justified
  <2> DEFINE n == DataObjStateMap[Address(th)].write
  <2>2. n \in Nat /\ n > TaskId(th) /\ TaskId(th) \in Nat /\ Address(th) \in DOMAIN DataObjStateMap
    BY <1>1, <2>1, CallType
  <2>3. IsAccess(Address(th), "write", n)
    BY <2>2 DEF TraceInv, TablesInv
  <2>4. QED
    BY <2>2, <2>3 DEF IsAccess, Breaks
<1>6. NotMissed(th)'
  <2>1. SUFFICES ASSUME ~later, NEW r \in earlier[th], Breaks(r, th)
                 PROVE  <<r.on, r.kind>> \in lost
    BY <1>1, <1>3, <1>4 DEF NotMissed
  <2>2. DataObjStateMap[Address(th)].write <= TaskId(th)
    BY <1>1, <2>1, CallType
  <2>3. CASE r.kind = "write"
    BY <1>1, <2>1, <2>2, <2>3, GreaterIsLost DEF Breaks
  <2>4. CASE r.kind # "write"
    <3>1. Op(th) = "Write" /\ r.kind = "read"
      <4>1. r \in accessed
        BY <1>1 DEF TraceInv, ThreadInv, CallFound
      <4>2. QED
        BY <2>1, <2>4, <4>1 DEF Breaks, TraceInv, TablesInv
    <3>2. QED
      BY <1>1, <2>1, <3>1 DEF TraceInv, ThreadInv, ReadsChecked
  <2>5. QED
    BY <2>3, <2>4
<1>7. TakenReal(th)' /\ TakenGreatest(th)' /\ ReadsChecked(th)'
  BY <1>3 DEF TakenReal, TakenGreatest, ReadsChecked
<1>8. DOMAIN taken' = Thread /\ \A o \in Thread \ {th} : taken'[o] = taken[o]
  BY <1>1 DEF TraceInv, ThreadsType
<1> HIDE DEF later
<1>9. CASE later
  BY <1>1, <1>2, <1>5, <1>6, <1>7, <1>8, <1>9, WithinCall
<1>10. CASE ~later
  BY <1>1, <1>2, <1>5, <1>6, <1>7, <1>8, <1>10, WithinCall
<1>11. QED
  BY <1>9, <1>10

\* The update: NotMissed is settled by the checks, and what is taken comes from the record
\* or is the task's own number.
LEMMA CompareStep ==
  ASSUME TraceInv, NEW th \in Thread, Compare(th)
  PROVE  TraceInv'
<1>1. /\ tpc[th] = "compare" /\ InCall(th)
      /\ UNCHANGED <<programVars, GlobalTaskId, TaskPtr2Id, DataObjStateMap, LocalTask, callNo,
                     earlier, roundState>>
      /\ UNCHANGED <<text, running, accessed, lost>>
  BY DEF Compare, InCall, programVars, roundState
<1>2. /\ Op(th)' = Op(th) /\ Address(th)' = Address(th) /\ Kind(Op(th))' = Kind(Op(th))
      /\ TaskId(th)' = TaskId(th) /\ Record(th)' = Record(th)
      /\ \A r : Breaks(r, th)' <=> Breaks(r, th)
  BY <1>1, CallKept, BreaksKept
<1>3. TaskId(th) \in Nat /\ Record(th) \in Nat
  BY <1>1, CallType
<1>4. CASE TaskId(th) > Record(th)
  <2>1. Proceed(th, "store") /\ taken' = [taken EXCEPT ![th] = TaskId(th)]
    BY <1>4 DEF Compare
  <2>2. tpc'[th] = "store"
    BY <2>1, ProceedTo
  <2>3. taken'[th] = TaskId(th) /\ DOMAIN taken' = Thread
        /\ \A o \in Thread \ {th} : taken'[o] = taken[o]
    BY <2>1 DEF TraceInv, ThreadsType
  <2>4. TakenReal(th)' /\ TakenGreatest(th)'
    BY <1>2, <1>3, <1>4, <2>2, <2>3 DEF TakenReal, TakenGreatest
  <2>5. NotMissed(th)'
    BY <1>1, <1>2, <2>2 DEF TraceInv, ThreadInv, NotMissed
  <2>6. ReadsChecked(th)' /\ Justified(th)'
    BY <2>2 DEF ReadsChecked, Justified
  <2>7. QED
    BY <1>1, <2>1, <2>3, <2>4, <2>5, <2>6, WithinCall
<1>5. CASE ~(TaskId(th) > Record(th))
  <2>1. Proceed(th, "reread") /\ UNCHANGED taken
    BY <1>5 DEF Compare
  <2>2. tpc'[th] = "reread"
    BY <2>1, ProceedTo
  <2>3. DOMAIN taken' = Thread /\ \A o \in Thread \ {th} : taken'[o] = taken[o]
    BY <2>1 DEF TraceInv, ThreadsType
  <2>4. TakenReal(th)' /\ TakenGreatest(th)'
    BY <1>2, <1>3, <1>5, <2>2, <2>3 DEF TakenReal, TakenGreatest
  <2>5. NotMissed(th)'
    BY <1>1, <1>2, <2>2 DEF TraceInv, ThreadInv, NotMissed
  <2>6. ReadsChecked(th)' /\ Justified(th)'
    BY <2>2 DEF ReadsChecked, Justified
  <2>7. QED
    BY <1>1, <2>1, <2>3, <2>4, <2>5, <2>6, WithinCall
<1>6. QED
  BY <1>4, <1>5

LEMMA RereadStep ==
  ASSUME TraceInv, NEW th \in Thread, Reread(th)
  PROVE  TraceInv'
<1>1. /\ tpc[th] = "reread" /\ InCall(th) /\ Proceed(th, "store")
      /\ taken' = [taken EXCEPT ![th] = Record(th)]
      /\ UNCHANGED <<programVars, GlobalTaskId, TaskPtr2Id, DataObjStateMap, LocalTask, callNo,
                     earlier, roundState>>
      /\ UNCHANGED <<text, running, accessed, lost>>
  BY DEF Reread, InCall, programVars, roundState
<1>2. /\ Op(th)' = Op(th) /\ Address(th)' = Address(th) /\ Kind(Op(th))' = Kind(Op(th))
      /\ TaskId(th)' = TaskId(th) /\ Record(th)' = Record(th)
      /\ \A r : Breaks(r, th)' <=> Breaks(r, th)
  BY <1>1, CallKept, BreaksKept
<1>3. /\ TaskId(th) \in Nat /\ Record(th) \in Nat /\ Kind(Op(th)) \in {"read", "write"}
      /\ Address(th) \in DOMAIN DataObjStateMap
  BY <1>1, CallType
<1>4. tpc'[th] = "store"
  BY <1>1, ProceedTo
<1>5. taken'[th] = Record(th) /\ DOMAIN taken' = Thread
      /\ \A o \in Thread \ {th} : taken'[o] = taken[o]
  BY <1>1 DEF TraceInv, ThreadsType
<1>6. TakenReal(th)'
  <2>1. Record(th) = 0 \/ IsAccess(Address(th), Kind(Op(th)), Record(th))
    BY <1>3 DEF TraceInv, TablesInv, Record
  <2>2. IsAccess(Address(th), Kind(Op(th)), Record(th))
          => IsAccess(Address(th), Kind(Op(th)), taken[th])'
    BY <1>1, <1>2, <1>5 DEF IsAccess
  <2>3. QED
    BY <1>3, <1>5, <2>1, <2>2 DEF TakenReal
<1>7. TakenGreatest(th)'
  <2>1. <<Address(th), Kind(Op(th))>> \notin lost => TaskId(th) <= Record(th)
    BY <1>1 DEF TraceInv, ThreadInv, TakenGreatest
  <2>2. QED
    BY <1>1, <1>2, <1>3, <1>4, <1>5, <2>1 DEF TakenGreatest
<1>8. NotMissed(th)'
  BY <1>1, <1>2, <1>4 DEF TraceInv, ThreadInv, NotMissed
<1>9. ReadsChecked(th)' /\ Justified(th)'
  BY <1>4 DEF ReadsChecked, Justified
<1>10. QED
  BY <1>1, <1>5, <1>6, <1>7, <1>8, <1>9, WithinCall

\* A task begins: nobody else has it.
LEMMA EnterStep ==
  ASSUME TraceInv, NEW th \in Thread, NEW t \in All, Enter(th, t)
  PROVE  TraceInv'
<1>1. /\ UNCHANGED <<programVars, GlobalTaskId, TaskPtr2Id, DataObjStateMap, taken, earlier, roundState>>
      /\ UNCHANGED <<prog, text, running, done, accessed, lost>>
      /\ prog \in Traced /\ t \notin done
  BY DEF Enter, programVars, roundState, Tracing, Ready
<1>2. /\ tpc'[th] = "call" /\ DOMAIN tpc' = Thread
      /\ \A o \in Thread \ {th} : tpc'[o] = tpc[o]
  BY ProceedTo DEF Enter
<1>3. /\ LocalTask'[th] = t /\ DOMAIN LocalTask' = Thread
      /\ \A o \in Thread \ {th} : LocalTask'[o] = LocalTask[o] /\ LocalTask'[o] # t
      /\ DOMAIN callNo' = Thread /\ \A o \in Thread \ {th} : callNo'[o] = callNo[o]
  BY DEF Enter, TraceInv, ThreadsType
<1>4. ThreadsType'
  BY <1>1, <1>2, <1>3 DEF TraceInv, ThreadsType
<1>5. ThreadInv(th)'
  <2>1. InTask(th)'
    BY <1>1, <1>3, AllKept DEF InTask
  <2>2. QED
    BY <1>2, <2>1 DEF ThreadInv, CallFound, InCall, TakenReal, TakenGreatest, ReadsChecked,
                      Justified, NotMissed
<1>6. ASSUME NEW o \in Thread \ {th} PROVE ThreadInv(o)'
  <2>1. tpc[o] # "out" => LocalTask[o] \notin done'
    BY <1>1 DEF TraceInv, ThreadInv, InTask
  <2>2. QED
    BY <1>1, <1>2, <1>3, <2>1, OtherThread DEF ThreadInv
<1>7. Alone'
  BY <1>2, <1>3 DEF TraceInv, Alone
<1>8. QED
  BY <1>1, <1>4, <1>5, <1>6, <1>7, TablesKept DEF TraceInv

\* A task ends.
LEMMA LeaveStep ==
  ASSUME TraceInv, NEW th \in Thread, Leave(th)
  PROVE  TraceInv'
<1>1. /\ UNCHANGED <<GlobalTaskId, TaskPtr2Id, DataObjStateMap, callNo, taken, earlier, roundState>>
      /\ UNCHANGED <<prog, text, running, accessed, lost>>
      /\ tpc[th] = "call" /\ done' = done \cup {LocalTask[th]}
  BY DEF Leave, Run, roundState
<1>2. /\ tpc'[th] = "out" /\ DOMAIN tpc' = Thread
      /\ \A o \in Thread \ {th} : tpc'[o] = tpc[o]
  BY ProceedTo DEF Leave
<1>3. DOMAIN LocalTask' = Thread /\ \A o \in Thread \ {th} : LocalTask'[o] = LocalTask[o]
  BY DEF Leave, TraceInv, ThreadsType
<1>4. ThreadsType'
  BY <1>1, <1>2, <1>3 DEF TraceInv, ThreadsType
<1>5. ThreadInv(th)'
  BY <1>2 DEF ThreadInv, InTask, CallFound, InCall, TakenReal, TakenGreatest, ReadsChecked,
              Justified, NotMissed
<1>6. ASSUME NEW o \in Thread \ {th} PROVE ThreadInv(o)'
  <2>1. tpc[o] # "out" => LocalTask[o] \notin done'
    BY <1>1 DEF TraceInv, ThreadInv, InTask, Alone
  <2>2. QED
    BY <1>1, <1>2, <1>3, <2>1, OtherThread DEF ThreadInv
<1>7. Alone'
  BY <1>2, <1>3 DEF TraceInv, Alone
<1>8. QED
  BY <1>1, <1>4, <1>5, <1>6, <1>7, TablesKept DEF TraceInv

\* The store: a record gets the number of an access, or loses an update.
LEMMA StoreStep ==
  ASSUME TraceInv, NEW th \in Thread, Store(th)
  PROVE  TraceInv'
<1> DEFINE a == Address(th)
           kind == Kind(Op(th))
           own == [on |-> a, kind |-> kind, id |-> TaskId(th)]
<1>1. /\ tpc[th] = "store" /\ InCall(th) /\ Proceed(th, "call")
      /\ DataObjStateMap' = [DataObjStateMap EXCEPT ![a][kind] = taken[th]]
      /\ accessed' = accessed \cup {own}
      /\ lost' = IF Undone(th) THEN lost \cup {<<a, kind>>} ELSE lost
      /\ callNo' = [callNo EXCEPT ![th] = @ + 1]
      /\ UNCHANGED <<GlobalTaskId, TaskPtr2Id, LocalTask, taken, earlier>>
      /\ UNCHANGED <<prog, text, running, done>>
  BY DEF Store, InCall, programVars
<1>2. /\ TaskId(th) \in Nat /\ Record(th) \in Nat /\ kind \in {"read", "write"}
      /\ a \in DOMAIN DataObjStateMap /\ taken[th] \in Nat
      /\ taken[th] \in {0, TaskId(th)} \/ IsAccess(a, kind, taken[th])
      /\ <<a, kind>> \notin lost => Record(th) <= taken[th] /\ TaskId(th) <= taken[th]
  BY <1>1, CallType DEF TraceInv, ThreadInv, TakenReal, TakenGreatest
<1> HIDE DEF a, kind
<1>3. /\ DOMAIN DataObjStateMap' = DOMAIN DataObjStateMap
      /\ \A x \in DOMAIN DataObjStateMap : x # a => DataObjStateMap'[x] = DataObjStateMap[x]
      /\ DataObjStateMap'[a] = [DataObjStateMap[a] EXCEPT ![kind] = taken[th]]
  BY <1>1, <1>2
<1>4. /\ DataObjStateMap[a] \in [read : Nat, write : Nat]
      /\ DataObjStateMap'[a] \in [read : Nat, write : Nat]
      /\ DataObjStateMap'[a][kind] = taken[th]
      /\ \A k \in {"read", "write"} : k # kind => DataObjStateMap'[a][k] = DataObjStateMap[a][k]
  <2>1. DataObjStateMap[a] \in [read : Nat, write : Nat]
    BY <1>2 DEF TraceInv, TablesInv
  <2>2. QED
    BY <1>2, <1>3, <2>1
<1>5. /\ tpc'[th] = "call" /\ DOMAIN tpc' = Thread
      /\ \A o \in Thread \ {th} : tpc'[o] = tpc[o]
  BY <1>1, ProceedTo
<1>6. DOMAIN callNo' = Thread /\ \A o \in Thread \ {th} : callNo'[o] = callNo[o]
  BY <1>1 DEF TraceInv, ThreadsType
<1>7. accessed \subseteq accessed' /\ lost \subseteq lost' /\ own \in accessed'
  BY <1>1
<1>8. TablesInv'
  <2>1. \A x \in DOMAIN DataObjStateMap' : DataObjStateMap'[x] \in [read : Nat, write : Nat]
    BY <1>3, <1>4 DEF TraceInv, TablesInv
  <2>2. \A r \in accessed' : r.on \in DOMAIN DataObjStateMap' /\ r.kind \in {"read", "write"}
                             /\ r.id \in Nat
    BY <1>1, <1>2, <1>3 DEF TraceInv, TablesInv
  <2>3. ASSUME NEW x \in DOMAIN DataObjStateMap', NEW k \in {"read", "write"}
        PROVE  DataObjStateMap'[x][k] = 0 \/ IsAccess(x, k, DataObjStateMap[x][k])'
    <3>1. CASE x = a /\ k = kind
      <4>1. CASE taken[th] = TaskId(th)
        BY <1>4, <1>7, <3>1, <4>1 DEF IsAccess
      <4>2. CASE taken[th] = 0
        BY <1>4, <3>1, <4>2
      <4>3. CASE IsAccess(a, kind, taken[th])
        BY <1>4, <1>7, <3>1, <4>3 DEF IsAccess
      <4>4. QED
        BY <1>2, <4>1, <4>2, <4>3
    <3>2. CASE ~(x = a /\ k = kind)
      <4>1. DataObjStateMap'[x][k] = DataObjStateMap[x][k] /\ x \in DOMAIN DataObjStateMap
        BY <1>3, <1>4, <3>2
      <4>2. QED
        BY <1>7, <4>1 DEF TraceInv, TablesInv, IsAccess
    <3>3. QED
      BY <3>1, <3>2
  <2>4. QED
    BY <1>1, <2>1, <2>2, <2>3 DEF TraceInv, TablesInv
<1>9. RecordsGreatest'
  <2>1. SUFFICES ASSUME NEW r \in accessed', <<r.on, r.kind>> \notin lost'
                 PROVE  r.id <= DataObjStateMap'[r.on][r.kind]
    BY DEF RecordsGreatest
  <2>2. <<r.on, r.kind>> \notin lost
    BY <1>7, <2>1
  <2>3. CASE r = own
    BY <1>2, <1>4, <2>2, <2>3
  <2>4. CASE r \in accessed
    <3>1. /\ r.id <= DataObjStateMap[r.on][r.kind] /\ r.on \in DOMAIN DataObjStateMap
          /\ r.kind \in {"read", "write"} /\ r.id \in Nat
      BY <2>2, <2>4 DEF TraceInv, TablesInv, RecordsGreatest
    <3>2. CASE r.on = a /\ r.kind = kind
      <4>1. Record(th) = DataObjStateMap[a][kind]
        BY DEF Record, a, kind
      <4>2. QED
        BY <1>2, <1>4, <2>2, <3>1, <3>2, <4>1
    <3>3. CASE ~(r.on = a /\ r.kind = kind)
      BY <1>3, <1>4, <3>1, <3>3
    <3>4. QED
      BY <3>2, <3>3
  <2>5. QED
    BY <1>1, <2>1, <2>3, <2>4
<1>10. ThreadInv(th)'
  <2>1. InTask(th)'
    BY <1>1, AllKept DEF TraceInv, ThreadInv, InTask
  <2>2. QED
    BY <1>5, <2>1 DEF ThreadInv, CallFound, InCall, TakenReal, TakenGreatest, ReadsChecked,
                      Justified, NotMissed
<1>11. ASSUME NEW o \in Thread \ {th} PROVE ThreadInv(o)'
  <2>1. tpc[o] # "out" => LocalTask[o] \notin done'
    BY <1>1 DEF TraceInv, ThreadInv, InTask
  <2>2. TakenGreatest(o)'
    <3>1. /\ Op(o)' = Op(o) /\ Address(o)' = Address(o) /\ Kind(Op(o))' = Kind(Op(o))
          /\ TaskId(o)' = TaskId(o)
      BY <1>1, <1>6, CallKept
    <3>2. SUFFICES ASSUME InCall(o), <<Address(o), Kind(Op(o))>> \notin lost'
                   PROVE  /\ tpc[o] = "store" => Record(o)' <= taken[o] /\ TaskId(o) <= taken[o]
                          /\ tpc[o] = "reread" => TaskId(o) <= Record(o)'
      BY <1>1, <1>5, <3>1 DEF TakenGreatest, InCall
    <3>3. /\ tpc[o] = "store" => Record(o) <= taken[o] /\ TaskId(o) <= taken[o] /\ taken[o] \in Nat
          /\ tpc[o] = "reread" => TaskId(o) <= Record(o)
      BY <1>7, <3>2 DEF TraceInv, ThreadInv, TakenGreatest, TakenReal
    <3>4. /\ TaskId(o) \in Nat /\ Record(o) \in Nat /\ Kind(Op(o)) \in {"read", "write"}
          /\ Address(o) \in DOMAIN DataObjStateMap
      BY <3>2, CallType
    <3>5. Record(o)' = DataObjStateMap'[Address(o)][Kind(Op(o))]
      BY <3>1 DEF Record
    <3>6. CASE Address(o) = a /\ Kind(Op(o)) = kind
      <4>1. Record(o)' = taken[th]
        BY <1>4, <3>5, <3>6
      <4>2. Record(o) = Record(th)
        BY <3>6 DEF Record, a, kind
      <4>3. <<a, kind>> \notin lost /\ Record(th) <= taken[th]
        BY <1>2, <1>7, <3>2, <3>6
      <4>4. tpc[o] = "store" => taken[th] <= taken[o]
        <5>1. ~Undone(th)
          BY <1>1, <3>2, <3>6
        <5>2. tpc[o] = "store" => ~(taken[o] < taken[th])
          BY <1>11, <3>6, <5>1 DEF Undone, a, kind
        <5>3. QED
          BY <1>2, <3>3, <5>2
      <4>5. QED
        BY <1>2, <3>3, <3>4, <4>1, <4>2, <4>3, <4>4
    <3>7. CASE ~(Address(o) = a /\ Kind(Op(o)) = kind)
      <4>1. Record(o)' = Record(o)
        BY <1>3, <1>4, <3>4, <3>5, <3>7 DEF Record
      <4>2. QED
        BY <3>3, <4>1
    <3>8. QED
      BY <3>6, <3>7
  <2>3. QED
    BY <1>1, <1>3, <1>5, <1>6, <1>7, <2>1, <2>2, OtherThread DEF ThreadInv
<1>12. ThreadsType'
  BY <1>1, <1>5, <1>6 DEF TraceInv, ThreadsType
<1>13. Alone'
  BY <1>1, <1>5 DEF TraceInv, Alone
<1>14. QED
  BY <1>8, <1>9, <1>10, <1>11, <1>12, <1>13 DEF TraceInv

LEMMA TraceStays ==
  ASSUME TraceInv, UNCHANGED <<programVars, traceVars>>
  PROVE  TraceInv'
<1>1. UNCHANGED <<GlobalTaskId, TaskPtr2Id, DataObjStateMap, LocalTask, tpc, callNo, taken, earlier,
                  accessed, lost, prog, text, running, done>>
  BY DEF programVars, traceVars, threadState, roundState
<1>2. ASSUME NEW o \in Thread PROVE ThreadInv(o)'
  <2>1. tpc[o] # "out" => LocalTask[o] \notin done'
    BY <1>1 DEF TraceInv, ThreadInv, InTask
  <2>2. QED
    BY <1>1, <2>1, OtherThread DEF ThreadInv
<1>3. TablesInv' /\ RecordsGreatest'
  BY <1>1, TablesKept DEF roundState
<1>4. ThreadsType' /\ Alone'
  BY <1>1 DEF TraceInv, ThreadsType, Alone
<1>5. QED
  BY <1>2, <1>3, <1>4 DEF TraceInv

LEMMA TraceInvStep ==
  ASSUME ProgramInv, TraceInv, [TraceNext]_<<programVars, traceVars>>
  PROVE  TraceInv'
<1>1. CASE MainTraced
  BY <1>1, MainTracedStep
<1>2. ASSUME NEW th \in Thread, TraceStep(th) PROVE TraceInv'
  BY <1>2, EnterStep, CallStep, CheckReadStep, CheckWriteStep, CompareStep, RereadStep, StoreStep,
     LeaveStep DEF TraceStep
<1>3. CASE UNCHANGED <<programVars, traceVars>>
  BY <1>3, TraceStays
<1>4. QED
  BY <1>1, <1>2, <1>3 DEF TraceNext, MainTraced

\* A step of the traced program is one of the program: the end of a task, or nothing.
LEMMA TraceIsProgramStep ==
  ASSUME TraceInv, [TraceNext]_<<programVars, traceVars>>
  PROVE  [ProgramNext]_programVars
<1>1. CASE MainTraced
  BY <1>1 DEF MainTraced, Untraced, DagStartTraced, RegisterTraced, SpawnTraced, WaitedTraced, ProgramNext
<1>2. ASSUME NEW th \in Thread, TraceStep(th) PROVE [ProgramNext]_programVars
  <2>1. CASE Leave(th)
    <3>1. LocalTask[th] \in All /\ Run(LocalTask[th])
      BY <2>1 DEF Leave, TraceInv, ThreadInv, InTask
    <3>2. QED
      BY <3>1 DEF ProgramNext
  <2>2. CASE ~Leave(th)
    <3>1. UNCHANGED programVars
      BY <1>2, <2>2 DEF TraceStep, Enter, Call, CheckRead, CheckWrite, Compare, Reread, Store
    <3>2. QED
      BY <3>1
  <2>3. QED
    BY <2>1, <2>2
<1>3. CASE UNCHANGED <<programVars, traceVars>>
  BY <1>3
<1>4. QED
  BY <1>1, <1>2, <1>3 DEF TraceNext, MainTraced

\* Tasks are pairs of numbers, so no thread is in NoLocalTask; and their calls are a sequence.
LEMMA TasksNumbered ==
  ASSUME ProgramInv, NEW t \in All
  PROVE  /\ t \in Nat \X Nat /\ t # NoLocalTask
         /\ Pointer(t)[1] = running[t[1]] /\ Pointer(t)[2] = t[2] /\ Pointer(t)[1] \in Nat
         /\ prog \in Traced => TaskOf(t).calls \in Seq(ToSet(TaskOf(t).calls))
<1> DEFINE s == text[running[t[1]]]
<1>1. /\ t = <<t[1], t[2]>> /\ t[1] \in 1 .. Len(running) /\ t[2] \in DOMAIN s.tasks
      /\ running[t[1]] \in 1 .. Len(text) /\ s.op = "loop" /\ TaskOf(t) = s.tasks[t[2]]
      /\ DOMAIN text = 1 .. Len(text) /\ Len(text) \in Nat /\ Len(running) \in Nat
  BY TaskIs, RunningIs DEF Tasks
<1>2. s \in ToSet(text) /\ prog \in DOMAIN Texts /\ text = Texts[prog].text
      /\ running[t[1]] \in DOMAIN text
  BY <1>1 DEF ToSet, ProgramInv, Placed
<1>3. s.tasks \in Seq(ToSet(s.tasks))
  BY <1>1, <1>2, TextsAssumption
<1> HIDE DEF s
<1>4. DOMAIN s.tasks = 1 .. Len(s.tasks) /\ Len(s.tasks) \in Nat
  BY <1>3
<1>5. t \in Nat \X Nat
  BY <1>1, <1>4
<1>6. s.tasks[t[2]] \in ToSet(s.tasks)
  BY <1>1 DEF ToSet
<1>7. prog \in Traced => TaskOf(t).calls \in Seq(ToSet(TaskOf(t).calls))
  BY <1>1, <1>2, <1>6, TracedAssumption
<1>8. QED
  BY <1>1, <1>5, <1>7, TracedAssumption DEF Pointer

\* The step of a thread, seen by the others; and what no step of a thread changes.
LEMMA ThreadStep ==
  ASSUME ProgramInv, TraceInv, NEW th \in Thread, TraceStep(th)
  PROVE  /\ UNCHANGED <<prog, text, pc, running, GlobalTaskId, TaskPtr2Id>> /\ prog \in Traced
         /\ \A o \in Thread \ {th} :
              tpc'[o] = tpc[o] /\ LocalTask'[o] = LocalTask[o] /\ callNo'[o] = callNo[o]
         /\ ~Leave(th) => /\ UNCHANGED done /\ tpc'[th] # "out"
                          /\ tpc[th] # "out" => LocalTask'[th] = LocalTask[th]
         /\ Leave(th) => tpc[th] = "call" /\ done' = done \cup {LocalTask[th]} /\ tpc'[th] = "out"
<1>1. /\ DOMAIN LocalTask = Thread /\ DOMAIN callNo = Thread
      /\ \A label : Proceed(th, label) =>
           tpc'[th] = label /\ \A o \in Thread \ {th} : tpc'[o] = tpc[o]
  BY ProceedTo DEF TraceInv, ThreadsType
<1>2. ASSUME NEW t \in All, Enter(th, t)
      PROVE  /\ UNCHANGED <<prog, text, pc, running, GlobalTaskId, TaskPtr2Id, done>>
             /\ prog \in Traced /\ tpc'[th] = "call" /\ tpc[th] = "out"
             /\ \A o \in Thread \ {th} :
                  tpc'[o] = tpc[o] /\ LocalTask'[o] = LocalTask[o] /\ callNo'[o] = callNo[o]
  <2>1. tpc[th] = "out"
    BY <1>2, TasksNumbered DEF Enter, TraceInv, ThreadInv, InTask
  <2>2. tpc'[th] = "call" /\ \A o \in Thread \ {th} : tpc'[o] = tpc[o]
    BY <1>1, <1>2 DEF Enter
  <2>3. QED
    BY <1>1, <1>2, <2>1, <2>2 DEF Enter, programVars, Tracing
<1>3. ASSUME Call(th) \/ CheckRead(th) \/ CheckWrite(th) \/ Compare(th) \/ Reread(th)
      PROVE  /\ UNCHANGED <<prog, text, pc, running, GlobalTaskId, TaskPtr2Id, done, LocalTask, callNo>>
             /\ prog \in Traced
             /\ \E label \in {"checkRead", "checkWrite", "compare", "reread", "store", "unknown", "accused"} :
                  Proceed(th, label)
  <2>1. /\ UNCHANGED <<prog, text, pc, running, GlobalTaskId, TaskPtr2Id, done, LocalTask, callNo>>
        /\ prog \in Traced
    BY <1>3 DEF Call, CheckRead, CheckWrite, Compare, Reread, programVars, Tracing
  <2>2. CASE Call(th)
    <3>1. PICK label : Proceed(th, label) /\ (label = FirstCheck(Op(th)) \/ label = "unknown")
      BY <2>2 DEF Call
    <3>2. FirstCheck(Op(th)) \in {"checkRead", "checkWrite", "compare"}
      BY DEF FirstCheck
    <3>3. QED
      BY <2>1, <3>1, <3>2
  <2>3. CASE CheckRead(th) \/ CheckWrite(th)
    BY <2>1, <2>3 DEF CheckRead, CheckWrite
  <2>4. CASE Compare(th) \/ Reread(th)
    BY <2>1, <2>4 DEF Compare, Reread
  <2>5. QED
    BY <1>3, <2>2, <2>3, <2>4
<1>4. ASSUME Store(th)
      PROVE  /\ UNCHANGED <<prog, text, pc, running, GlobalTaskId, TaskPtr2Id, done, LocalTask>>
             /\ prog \in Traced /\ Proceed(th, "call")
             /\ \A o \in Thread \ {th} : callNo'[o] = callNo[o]
  BY <1>1, <1>4 DEF Store, programVars, Tracing
<1>5. ASSUME Leave(th)
      PROVE  /\ UNCHANGED <<prog, text, pc, running, GlobalTaskId, TaskPtr2Id, callNo>>
             /\ prog \in Traced /\ Proceed(th, "out") /\ tpc[th] = "call"
             /\ done' = done \cup {LocalTask[th]}
             /\ \A o \in Thread \ {th} : LocalTask'[o] = LocalTask[o]
  BY <1>1, <1>5 DEF Leave, Run, Tracing
<1>6. CASE Leave(th)
  BY <1>1, <1>5, <1>6
<1>7. CASE ~Leave(th)
  <2>1. CASE \E t \in All : Enter(th, t)
    BY <1>2, <1>7, <2>1
  <2>2. CASE Call(th) \/ CheckRead(th) \/ CheckWrite(th) \/ Compare(th) \/ Reread(th)
    BY <1>1, <1>3, <1>7, <2>2
  <2>3. CASE Store(th)
    BY <1>1, <1>4, <1>7, <2>3
  <2>4. QED
    BY <1>7, <2>1, <2>2, <2>3 DEF TraceStep
<1>8. QED
  BY <1>6, <1>7

\* A task that has begun stays so until the wait.
LEMMA BegunKept ==
  ASSUME ProgramInv, TraceInv, NEW th \in Thread, TraceStep(th), NEW r, NEW u \in All, IsBy(r, u)
  PROVE  IsBy(r, u)'
<1>1. Begun(u)'
  <2>1. CASE u \in done
    BY <2>1, ThreadStep DEF Begun
  <2>2. ASSUME NEW o \in Thread, tpc[o] # "out", LocalTask[o] = u PROVE Begun(u)'
    BY <2>2, ThreadStep DEF Begun
  <2>3. QED
    BY <2>1, <2>2 DEF IsBy, Begun
<1>2. Pointer(u)' = Pointer(u) /\ TaskOf(u)' = TaskOf(u) /\ TaskPtr2Id' = TaskPtr2Id
  BY ThreadStep, AllKept DEF Pointer
<1>3. QED
  BY <1>1, <1>2 DEF IsBy

LEMMA ReadyKept ==
  ASSUME NEW t, Ready(t), UNCHANGED <<text, running>>, done \subseteq done', t \notin done'
  PROVE  Ready(t)'
BY AllKept DEF Ready

\* A thread comes to its calls in order, and another one waits while it does.
LEMMA ComesStep ==
  ASSUME ProgramInv, TraceInv, OrderInv, NEW th \in Thread, TraceStep(th)
  PROVE  \A o \in Thread : Comes(o)'
<1>1. /\ UNCHANGED <<prog, text, running, TaskPtr2Id>> /\ prog \in Traced
      /\ done \subseteq done' /\ (~Leave(th) => done' = done)
      /\ \A o \in Thread \ {th} :
           tpc'[o] = tpc[o] /\ LocalTask'[o] = LocalTask[o] /\ callNo'[o] = callNo[o]
  BY ThreadStep
<1>2. ASSUME NEW o \in Thread \ {th} PROVE Comes(o)'
  <2>1. Comes(o)
    BY DEF OrderInv
  <2>2. tpc[o] # "out" => LocalTask[o] \notin done'
    <3>1. CASE Leave(th)
      BY <3>1, ThreadStep DEF TraceInv, ThreadInv, InTask, Alone
    <3>2. CASE ~Leave(th)
      BY <1>1, <3>2 DEF TraceInv, ThreadInv, InTask
    <3>3. QED
      BY <3>1, <3>2
  <2>3. /\ InCall(o)' <=> InCall(o)
        /\ Op(o)' = Op(o) /\ Pointer(LocalTask[o])' = Pointer(LocalTask[o])
        /\ TaskOf(LocalTask[o])' = TaskOf(LocalTask[o])
    BY <1>1, CallKept, AllKept DEF InCall, TaskOf, Tasks
  <2>4. QED
    BY <1>1, <2>1, <2>2, <2>3, ReadyKept DEF Comes
<1>3. ASSUME ~Leave(th), UNCHANGED <<LocalTask, callNo>>, tpc[th] # "out",
             InCall(th)' \/ tpc'[th] = "accused" =>
               /\ callNo[th] \in DOMAIN TaskOf(LocalTask[th]).calls
               /\ Pointer(LocalTask[th]) \in DOMAIN TaskPtr2Id,
             tpc'[th] = "accused" => Op(th) \in {"Read", "Write"}
      PROVE  Comes(th)'
  <2>1. Comes(th) /\ LocalTask[th] \notin done
    BY <1>3 DEF OrderInv, TraceInv, ThreadInv, InTask
  <2>2. /\ Op(th)' = Op(th) /\ Pointer(LocalTask[th])' = Pointer(LocalTask[th])
        /\ TaskOf(LocalTask[th])' = TaskOf(LocalTask[th])
    BY <1>1, <1>3, CallKept, AllKept DEF TaskOf, Tasks
  <2>3. Ready(LocalTask[th])'
    BY <1>1, <1>3, <2>1, ReadyKept DEF Comes
  <2>4. QED
    BY <1>1, <1>3, <2>1, <2>2, <2>3 DEF Comes
<1>4. ASSUME NEW t \in All, Enter(th, t) PROVE Comes(th)'
  <2>1. /\ tpc'[th] = "call" /\ LocalTask'[th] = t /\ callNo'[th] = 1 /\ Ready(t) /\ done' = done
    BY <1>4, ProceedTo DEF Enter, TraceInv, ThreadsType, programVars
  <2>2. t \notin done
    BY <2>1 DEF Ready
  <2>3. Ready(LocalTask[th])'
    BY <1>1, <2>1, <2>2, ReadyKept DEF Ready
  <2>4. QED
    BY <2>1, <2>3 DEF Comes, InCall
<1>5. ASSUME Call(th) PROVE Comes(th)'
  <2> DEFINE found == Pointer(LocalTask[th]) \in DOMAIN TaskPtr2Id
                      /\ Address(th) \in DOMAIN DataObjStateMap
             label == IF found THEN FirstCheck(Op(th)) ELSE "unknown"
  <2>1. /\ tpc[th] = "call" /\ UNCHANGED <<LocalTask, callNo>>
        /\ callNo[th] <= Len(TaskOf(LocalTask[th]).calls) /\ Proceed(th, label)
    BY <1>5 DEF Call
  <2>2. /\ tpc'[th] = label /\ label # "accused" /\ label # "out"
        /\ label # "unknown" => Pointer(LocalTask[th]) \in DOMAIN TaskPtr2Id
    <3>1. FirstCheck(Op(th)) \in {"checkRead", "checkWrite", "compare"}
      BY DEF FirstCheck
    <3> HIDE DEF found
    <3>2. tpc'[th] = label
      <4> HIDE DEF label
      <4>1. QED
        BY <2>1, ProceedTo
    <3>3. found => Pointer(LocalTask[th]) \in DOMAIN TaskPtr2Id
      BY DEF found
    <3>4. QED
      BY <3>1, <3>2, <3>3
  <2>3. callNo[th] \in DOMAIN TaskOf(LocalTask[th]).calls
    <3>1. callNo[th] \in Nat \ {0} /\ LocalTask[th] \in All
      BY <2>1 DEF OrderInv, Comes, TraceInv, ThreadInv, InTask
    <3>2. TaskOf(LocalTask[th]).calls \in Seq(ToSet(TaskOf(LocalTask[th]).calls))
      BY <1>1, <3>1, TasksNumbered
    <3>3. QED
      BY <2>1, <3>1, <3>2
  <2> HIDE DEF label
  <2>4. ~Leave(th)
    BY <2>2, ThreadStep
  <2>5. InCall(th)' => Pointer(LocalTask[th]) \in DOMAIN TaskPtr2Id
    BY <2>2 DEF InCall
  <2>6. tpc[th] # "out" /\ tpc'[th] # "accused"
    BY <2>1, <2>2
  <2>7. QED
    BY <1>3, <2>1, <2>3, <2>4, <2>5, <2>6
<1>6. ASSUME CheckRead(th) \/ CheckWrite(th) \/ Compare(th) \/ Reread(th) PROVE Comes(th)'
  <2>1. /\ InCall(th) /\ tpc[th] # "out" /\ UNCHANGED <<LocalTask, callNo>> /\ ~Leave(th)
    BY <1>6 DEF CheckRead, CheckWrite, Compare, Reread, InCall, Leave
  <2>2. tpc'[th] = "accused" => Op(th) \in {"Read", "Write"}
    <3>1. CASE CheckRead(th)
      BY <2>1, <3>1 DEF CheckRead, TraceInv, ThreadInv, CallFound
    <3>2. CASE CheckWrite(th)
      BY <2>1, <3>2 DEF CheckWrite, TraceInv, ThreadInv, CallFound
    <3>3. CASE Compare(th) \/ Reread(th)
      BY <3>3, ProceedTo DEF Compare, Reread
    <3>4. QED
      BY <1>6, <3>1, <3>2, <3>3
  <2>3. Comes(th)
    BY DEF OrderInv
  <2>4. /\ callNo[th] \in DOMAIN TaskOf(LocalTask[th]).calls
        /\ Pointer(LocalTask[th]) \in DOMAIN TaskPtr2Id
    BY <2>1, <2>3 DEF Comes
  <2>5. QED
    BY <1>3, <2>1, <2>2, <2>4
<1>7. ASSUME Store(th) PROVE Comes(th)'
  <2>1. /\ tpc[th] = "store" /\ tpc'[th] = "call" /\ UNCHANGED LocalTask /\ ~Leave(th)
        /\ callNo'[th] = callNo[th] + 1
    BY <1>7, ProceedTo DEF Store, Leave, TraceInv, ThreadsType
  <2>2. Comes(th) /\ LocalTask[th] \notin done
    BY <2>1 DEF OrderInv, TraceInv, ThreadInv, InTask
  <2>3. Ready(LocalTask[th])'
    BY <1>1, <2>1, <2>2, ReadyKept DEF Comes
  <2>4. callNo'[th] \in Nat \ {0}
    BY <2>1, <2>2 DEF Comes
  <2>5. ~InCall(th)' /\ tpc'[th] # "accused"
    BY <2>1 DEF InCall
  <2>6. QED
    BY <2>3, <2>4, <2>5 DEF Comes
<1>8. ASSUME Leave(th) PROVE Comes(th)'
  <2>1. tpc'[th] = "out"
    BY <1>8, ThreadStep
  <2>2. ~InCall(th)' /\ tpc'[th] # "accused"
    BY <2>1 DEF InCall
  <2>3. QED
    BY <2>1, <2>2 DEF Comes
<1>9. Comes(th)'
  BY <1>4, <1>5, <1>6, <1>7, <1>8 DEF TraceStep
<1>10. QED
  BY <1>2, <1>9

\* What a call has stored is the access of its task.
LEMMA PerformedStep ==
  ASSUME ProgramInv, TraceInv, OrderInv, NEW th \in Thread, TraceStep(th)
  PROVE  Performed'
<1>1. All' = All
  BY ThreadStep, AllKept
<1>2. ASSUME NEW r \in accessed PROVE \E u \in All : IsBy(r, u)'
  BY <1>2, BegunKept DEF OrderInv, Performed
<1>3. CASE Store(th)
  <2> DEFINE own == [on |-> Address(th), kind |-> Kind(Op(th)), id |-> TaskId(th)]
             u == LocalTask[th]
  <2>1. accessed' = accessed \cup {own} /\ InCall(th) /\ tpc[th] = "store"
    BY <1>3 DEF Store, InCall
  <2>2. u \in All /\ callNo[th] \in DOMAIN TaskOf(u).calls /\ Pointer(u) \in DOMAIN TaskPtr2Id
    BY <2>1 DEF TraceInv, ThreadInv, InTask, OrderInv, Comes
  <2>3. IsBy(own, u)
    <3>1. Begun(u)
      BY <2>1 DEF Begun
    <3>2. own.id = TaskPtr2Id[Pointer(u)]
      BY DEF TaskId
    <3>3. TaskOf(u).calls[callNo[th]] \in ToSet(TaskOf(u).calls)
      BY <2>2 DEF ToSet
    <3>4. QED
      BY <2>2, <3>1, <3>2, <3>3 DEF IsBy, Op, Address
  <2> HIDE DEF own, u
  <2>4. \E r : r = own /\ \E v \in All : IsBy(r, v)'
    <3>1. PICK r : r = own
      OBVIOUS
    <3>2. PICK v \in All : v = u
      BY <2>2
    <3>3. IsBy(r, v)'
      BY <2>3, <3>1, <3>2, BegunKept
    <3>4. QED
      BY <3>1, <3>3
  <2>5. \A r \in accessed' : \E v \in All : IsBy(r, v)'
    BY <1>2, <2>1, <2>4
  <2>6. QED
    BY <1>1, <2>5 DEF Performed
<1>4. CASE ~Store(th)
  <2>1. accessed' = accessed
    BY <1>4 DEF TraceStep, Enter, Call, CheckRead, CheckWrite, Compare, Reread, Leave, roundState
  <2>2. QED
    BY <1>1, <1>2, <2>1 DEF Performed
<1>5. QED
  BY <1>3, <1>4

\* The numbers of the tasks of a loop are greater than all before, which are of loops
\* registered earlier.
LEMMA IdsInOrderStep ==
  ASSUME ProgramInv, TraceInv, OrderInv, MainTraced, prog \in Traced
  PROVE  IdsInOrder'
<1>1. pc \in Nat /\ GlobalTaskId \in Nat /\ IdsInOrder /\ \A p \in DOMAIN TaskPtr2Id : TaskPtr2Id[p] \in Nat
  <2>1. pc \in 1 .. Len(text) + 1 /\ Len(text) \in Nat
    BY TextType DEF ProgramInv, Placed
  <2>2. QED
    BY <2>1 DEF TraceInv, TablesInv, OrderInv
<1>2. ASSUME UNCHANGED traceVars, pc' \in Nat, pc' >= pc PROVE IdsInOrder'
  BY <1>1, <1>2 DEF IdsInOrder, traceVars
<1>3. CASE DagStartTraced
  <2>1. UNCHANGED traceVars /\ At("start") /\ (pc' = NextWait \/ pc' = pc + 1)
    BY <1>3 DEF DagStartTraced, DagStart
  <2>2. NextWait \in pc .. Len(text) /\ Len(text) \in Nat
    BY <2>1, NextWaitIs, TextType DEF ProgramInv
  <2>3. QED
    BY <1>1, <1>2, <2>1, <2>2
<1>4. CASE SpawnTraced
  BY <1>1, <1>2, <1>4 DEF SpawnTraced, Spawn
<1>5. CASE WaitedTraced
  BY <1>5 DEF WaitedTraced, IdsInOrder
<1>6. CASE RegisterTraced
  <2> DEFINE tasks == text[pc].tasks
             new == {pc} \X DOMAIN tasks
  <2>1. /\ TaskPtr2Id' = [p \in DOMAIN TaskPtr2Id \cup new |->
                            IF p \in new THEN GlobalTaskId + p[2] - 1 ELSE TaskPtr2Id[p]]
        /\ GlobalTaskId' = GlobalTaskId + Len(tasks) /\ pc' = pc + 1
    BY <1>6 DEF RegisterTraced, Register
  <2>2. Len(tasks) \in Nat /\ DOMAIN tasks = 1 .. Len(tasks)
    BY <1>6, LoopType DEF RegisterTraced, Register
  <2> HIDE DEF tasks
  <2>3. \A p \in new : p[1] = pc /\ p[2] \in Nat /\ 1 <= p[2] /\ p[2] <= Len(tasks)
    BY <2>2
  <2>4. \A p \in DOMAIN TaskPtr2Id : /\ p[1] \in Nat /\ p[2] \in Nat /\ p[1] < pc
                                     /\ TaskPtr2Id[p] < GlobalTaskId /\ TaskPtr2Id[p] \in Nat
    BY <1>1 DEF IdsInOrder
  <2>5. \A p \in DOMAIN TaskPtr2Id : p \notin new
    BY <1>1, <2>3, <2>4
  <2> HIDE DEF new
  <2>6. /\ DOMAIN TaskPtr2Id' = DOMAIN TaskPtr2Id \cup new
        /\ \A p \in new : TaskPtr2Id'[p] = GlobalTaskId + p[2] - 1
        /\ \A p \in DOMAIN TaskPtr2Id : TaskPtr2Id'[p] = TaskPtr2Id[p]
    BY <2>1, <2>5
  <2>7. \A p \in DOMAIN TaskPtr2Id' :
          /\ p[1] \in Nat /\ p[2] \in Nat /\ p[1] < pc' /\ TaskPtr2Id'[p] < GlobalTaskId'
    BY <1>1, <2>1, <2>2, <2>3, <2>4, <2>6
  <2>8. ASSUME NEW p \in DOMAIN TaskPtr2Id', NEW q \in DOMAIN TaskPtr2Id',
               p[1] < q[1] \/ (p[1] = q[1] /\ p[2] < q[2])
        PROVE  TaskPtr2Id'[p] < TaskPtr2Id'[q]
    <3>1. CASE p \in DOMAIN TaskPtr2Id /\ q \in DOMAIN TaskPtr2Id
      BY <1>1, <2>6, <2>8, <3>1 DEF IdsInOrder
    <3>2. CASE p \in DOMAIN TaskPtr2Id /\ q \in new
      BY <1>1, <2>3, <2>4, <2>6, <3>2
    <3>3. CASE p \in new /\ q \in new
      BY <1>1, <2>3, <2>6, <2>8, <3>3
    <3>4. CASE p \in new /\ q \in DOMAIN TaskPtr2Id
      BY <1>1, <2>3, <2>4, <2>8, <3>4
    <3>5. QED
      BY <2>6, <3>1, <3>2, <3>3, <3>4
  <2>9. QED
    BY <2>7, <2>8 DEF IdsInOrder
<1>7. QED
  BY <1>3, <1>4, <1>5, <1>6 DEF MainTraced, Untraced

LEMMA OrderStep ==
  ASSUME ProgramInv, TraceInv, OrderInv, [TraceNext]_<<programVars, traceVars>>
  PROVE  OrderInv'
<1>1. CASE MainTraced
  <2>1. /\ \A th \in Thread : tpc'[th] = "out"
        /\ prog \notin Traced \/ WaitedTraced \/ running = <<>>
    BY <1>1, MainOut
  <2>2. UNCHANGED prog
    BY <1>1 DEF MainTraced, Untraced, DagStartTraced, RegisterTraced, SpawnTraced, WaitedTraced,
                ProgramNext, DagStart, Register, Spawn, Waited, Run, programVars
  <2>3. accessed' = {}
    <3>1. CASE prog \notin Traced
      BY <1>1, <3>1 DEF OrderInv, MainTraced, Untraced, DagStartTraced, RegisterTraced, SpawnTraced,
                        WaitedTraced, Tracing, traceVars, roundState
    <3>2. CASE WaitedTraced
      BY <3>2 DEF WaitedTraced
    <3>3. CASE running = <<>>
      <4>1. accessed = {}
        BY <3>3, AllEmpty DEF OrderInv, Performed
      <4>2. QED
        BY <1>1, <4>1 DEF MainTraced, Untraced, DagStartTraced, RegisterTraced, SpawnTraced,
                          WaitedTraced, traceVars, roundState
    <3>4. QED
      BY <2>1, <3>1, <3>2, <3>3
  <2>4. Performed' /\ \A th \in Thread : Comes(th)'
    BY <2>1, <2>3 DEF Performed, Comes, InCall
  <2>5. CASE prog \in Traced
    BY <1>1, <2>2, <2>3, <2>4, <2>5, IdsInOrderStep DEF OrderInv
  <2>6. CASE prog \notin Traced
    <3>1. UNCHANGED TaskPtr2Id /\ DOMAIN TaskPtr2Id = {}
      BY <1>1, <2>6 DEF OrderInv, MainTraced, Untraced, DagStartTraced, RegisterTraced, SpawnTraced,
                        WaitedTraced, Tracing, traceVars
    <3>2. QED
      BY <2>2, <2>3, <2>4, <2>6, <3>1 DEF OrderInv, IdsInOrder
  <2>7. QED
    BY <2>5, <2>6
<1>2. ASSUME NEW th \in Thread, TraceStep(th) PROVE OrderInv'
  <2>1. Performed' /\ \A o \in Thread : Comes(o)'
    BY <1>2, ComesStep, PerformedStep
  <2>2. UNCHANGED <<prog, pc, GlobalTaskId, TaskPtr2Id>> /\ prog \in Traced
    BY <1>2, ThreadStep
  <2>3. IdsInOrder'
    BY <2>2 DEF OrderInv, IdsInOrder
  <2>4. QED
    BY <2>1, <2>2, <2>3 DEF OrderInv
<1>3. CASE UNCHANGED <<programVars, traceVars>>
  <2>1. UNCHANGED <<GlobalTaskId, TaskPtr2Id, LocalTask, tpc, callNo, accessed, prog, text, pc,
                    running, done>>
    BY <1>3 DEF programVars, traceVars, threadState, roundState
  <2>2. All' = All /\ \A u : TaskOf(u)' = TaskOf(u)
    BY <2>1, AllKept
  <2>3. IdsInOrder'
    BY <2>1 DEF OrderInv, IdsInOrder
  <2>4. Performed'
    BY <2>1, <2>2 DEF OrderInv, Performed, IsBy, Begun, Pointer
  <2>5. ASSUME NEW th \in Thread PROVE Comes(th)'
    BY <2>1, <2>2, CallKept DEF OrderInv, Comes, Ready, InCall, Pointer
  <2>6. QED
    BY <2>1, <2>3, <2>4, <2>5 DEF OrderInv
<1>4. QED
  BY <1>1, <1>2, <1>3 DEF TraceNext, MainTraced

\* Whatever a task finds, of one registered later, the program does not declare: else that
\* task has waited for this one.
LEMMA Unfounded ==
  ASSUME ProgramInv, TraceInv, OrderInv, NEW th \in Thread
  PROVE  NoFalseAlarm(th)
<1>1. SUFFICES ASSUME tpc[th] = "accused", Declares(text) PROVE FALSE
  BY DEF NoFalseAlarm
<1> DEFINE t == LocalTask[th]
<1>2. PICK r \in accessed : Breaks(r, th)
  BY <1>1 DEF TraceInv, ThreadInv, Justified
<1>3. PICK u \in All : IsBy(r, u)
  BY DEF OrderInv, Performed
<1>4. /\ t \in All /\ t \notin done /\ prog \in Traced
      /\ callNo[th] \in DOMAIN TaskOf(t).calls
      /\ Pointer(t) \in DOMAIN TaskPtr2Id /\ Op(th) \in {"Read", "Write"}
  BY <1>1 DEF TraceInv, ThreadInv, InTask, OrderInv, Comes
<1>5. TaskPtr2Id[Pointer(t)] < TaskPtr2Id[Pointer(u)] /\ Pointer(u) \in DOMAIN TaskPtr2Id
  <2>1. r.id > TaskId(th) /\ r.id = TaskPtr2Id[Pointer(u)] /\ Pointer(u) \in DOMAIN TaskPtr2Id
    BY <1>2, <1>3 DEF Breaks, IsBy
  <2>2. TaskPtr2Id[Pointer(u)] \in Nat /\ TaskPtr2Id[Pointer(t)] \in Nat
    BY <1>4, <2>1 DEF TraceInv, TablesInv
  <2>3. QED
    BY <2>1, <2>2 DEF TaskId
<1>6. Finds(TaskOf(t), TaskOf(u))
  <2> DEFINE c == TaskOf(t).calls[callNo[th]]
  <2>1. c \in ToSet(TaskOf(t).calls) /\ c[1] = Op(th) /\ c[2] = Address(th)
    BY <1>4 DEF ToSet, Op, Address
  <2>2. PICK d \in ToSet(TaskOf(u).calls) : d[2] = r.on /\ Kind(d[1]) = r.kind
    BY <1>3 DEF IsBy
  <2>3. r.on = Address(th) /\ (r.kind = "write" \/ Op(th) = "Write")
    BY <1>2 DEF Breaks
  <2> HIDE DEF c
  <2>4. QED
    BY <1>4, <2>1, <2>2, <2>3 DEF Finds
<1> HIDE DEF t
<1> DEFINE j == running[t[1]]
           k == running[u[1]]
<1>7. /\ t[1] \in DOMAIN running /\ u[1] \in DOMAIN running /\ DOMAIN running = 1 .. Len(running)
      /\ Len(running) \in Nat
      /\ j \in DOMAIN text /\ k \in DOMAIN text /\ text[j].op = "loop" /\ text[k].op = "loop"
      /\ t[2] \in DOMAIN text[j].tasks /\ u[2] \in DOMAIN text[k].tasks
      /\ TaskOf(t) = text[j].tasks[t[2]] /\ TaskOf(u) = text[k].tasks[u[2]]
      /\ j \in Nat /\ k \in Nat /\ t[2] \in Nat /\ u[2] \in Nat
  <2>1. t \in Nat \X Nat /\ u \in Nat \X Nat
    BY <1>4, TasksNumbered
  <2>2. t[2] \in Nat /\ u[2] \in Nat
    BY <2>1
  <2>3. QED
    BY <1>4, <2>2, TaskIs, RunningIs DEF Tasks
<1>8. j < k \/ (j = k /\ t[2] < u[2])
  <2>1. Pointer(t) = <<j, t[2]>> /\ Pointer(u) = <<k, u[2]>>
    BY DEF Pointer
  <2>2. CASE k < j \/ (j = k /\ u[2] < t[2])
    <3>1. TaskPtr2Id[Pointer(u)] < TaskPtr2Id[Pointer(t)]
      BY <1>4, <1>5, <2>1, <2>2 DEF OrderInv, IdsInOrder
    <3>2. TaskPtr2Id[Pointer(u)] \in Nat /\ TaskPtr2Id[Pointer(t)] \in Nat
      BY <1>4, <1>5 DEF TraceInv, TablesInv
    <3>3. QED
      BY <1>5, <3>1, <3>2
  <2>3. CASE j = k /\ t[2] = u[2]
    <3>1. TaskPtr2Id[Pointer(u)] = TaskPtr2Id[Pointer(t)]
      BY <2>1, <2>3
    <3>2. TaskPtr2Id[Pointer(u)] \in Nat
      BY <1>5 DEF TraceInv, TablesInv
    <3>3. QED
      BY <1>5, <3>1, <3>2
  <2>4. QED
    BY <1>7, <2>2, <2>3
<1>9. \A x \in j .. k : text[x].op # "wait"
  <2>1. Segment(running)
    BY DEF ProgramInv, Kept
  <2>2. QED
    BY <1>7, <2>1 DEF Segment
<1>10. <<j, t[2]>> \in Above(text, <<k, u[2]>>)
  <2> HIDE DEF j, k
  <2>1. j <= k /\ (j < k \/ t[2] < u[2])
    BY <1>7, <1>8
  <2>2. QED
    BY <1>1, <1>6, <1>7, <1>9, <2>1 DEF Declares
<1>11. <<running[t[1]], t[2]>> \in Above(text, <<running[u[1]], u[2]>>)
  BY <1>10
<1>12. CASE u \in done
  <2>1. t \in done
    BY <1>4, <1>11, <1>12, DoneClosed, AboveReached
  <2>2. QED
    BY <1>4, <2>1
<1>13. ASSUME NEW o \in Thread, tpc[o] # "out", LocalTask[o] = u PROVE FALSE
  <2>1. Ready(u)
    BY <1>13 DEF OrderInv, Comes
  <2> DEFINE S == done \cup {u}
  <2>2. S \subseteq All /\ u \in S /\ \A v \in S, z \in All :
          z[1] < v[1] /\ Conflict(TaskOf(z), TaskOf(v)) => z \in S
    BY <2>1, ReadyClosed
  <2>3. t \in S
    <3> HIDE DEF S
    <3>1. QED
      BY <1>4, <1>11, <2>2, AboveReached
  <2>4. t = u
    BY <1>4, <2>3
  <2>5. TaskPtr2Id[Pointer(u)] \in Nat
    BY <1>5 DEF TraceInv, TablesInv
  <2>6. QED
    BY <1>5, <2>4, <2>5
<1>14. QED
  BY <1>3, <1>12, <1>13 DEF IsBy, Begun

LEMMA OrderBegins ==
  ASSUME TraceInit
  PROVE  OrderInv
<1>1. /\ DOMAIN TaskPtr2Id = {} /\ accessed = {} /\ \A th \in Thread : tpc[th] = "out"
  BY DEF TraceInit
<1>2. QED
  BY <1>1 DEF OrderInv, IdsInOrder, Performed, Comes, InCall

LEMMA TraceIsInvariant == TraceSpec => [](ProgramInv /\ TraceInv /\ OrderInv)
<1>1. TraceInit => ProgramInv /\ TraceInv /\ OrderInv
  BY ProgramBegins, TraceBegins, OrderBegins DEF TraceInit
<1>2. ProgramInv /\ TraceInv /\ OrderInv /\ [TraceNext]_<<programVars, traceVars>>
        => (ProgramInv /\ TraceInv /\ OrderInv)'
  BY ProgramStep, TraceInvStep, OrderStep, TraceIsProgramStep
<1>3. QED
  BY <1>1, <1>2, PTL DEF TraceSpec

\* A program is executed in its build with tracing (TraceSpec of RaceTrace) as it is without:
\* so what is proved of programs holds of traced ones, as long as they are not stopped.
THEOREM TracedPrograms == TraceSpec => ProgramSpec
<1>1. TraceInit => ProgramInit
  BY DEF TraceInit
<1>2. TraceInv /\ [TraceNext]_<<programVars, traceVars>> => [ProgramNext]_programVars
  BY TraceIsProgramStep
<1>3. QED
  BY <1>1, <1>2, TraceIsInvariant, PTL DEF TraceSpec, ProgramSpec

\* What the tracer reports and what it misses (ReportsBrokenOrder of RaceTrace), for all
\* programs and numbers of threads: a task is accused only after one registered later has
\* made an access that conflicts with its own, and never in a program that declares what it
\* traces; a call that checks misses no such access that was complete before it, unless the
\* record has lost an update.
THEOREM Reports == TraceSpec => []ReportsBrokenOrder
<1>1. ProgramInv /\ TraceInv /\ OrderInv => ReportsBrokenOrder
  BY Unfounded DEF TraceInv, ThreadInv, ReportsBrokenOrder
<1>2. QED
  BY <1>1, TraceIsInvariant, PTL

-----------------------------------------------------------------------------
\* Arrays with the elements D; and what becomes of them, one assignment after the other.
Arrays(D) == [D -> Int]
Fits(a, D) == a.from \in Seq(D) /\ a.to \in D /\ a.add \in Int
AllFit(body, lo, n, D) == \A k \in 1 .. n : Fits(body[lo + k], D)
AllRead(body, lo, n, S) == \A k \in 1 .. n : ToSet(body[lo + k].from) \subseteq S
Assigns(body, lo, n) == {body[lo + k].to : k \in 1 .. n}
Agree(m1, m2, S) == \A y \in S : m1[y] = m2[y]
Add(k, v, y) == (v + (k * k + k + 1) * y) % Modulus
Assigned(x, a) == [x EXCEPT ![a.to] = Value(x, a)]
PartRun(A, m, body, lo, n, D) ==
  /\ A \in [0 .. n -> Arrays(D)]
  /\ Part(m, body, lo, n) = A[n] /\ A[0] = m
  /\ \A k \in 1 .. n : A[k] = Assigned(A[k - 1], body[lo + k])

\* The value of an assignment: an integer, that depends on its operands.
LEMMA ValueSteps ==
  ASSUME NEW D, NEW m \in Arrays(D), NEW a, Fits(a, D)
  PROVE  \E A \in [0 .. Len(a.from) -> Int] :
           /\ Value(m, a) = A[Len(a.from)] /\ A[0] = a.add
           /\ \A k \in 1 .. Len(a.from) :
                A[k] = Add(k, A[k - 1], m[a.from[k]])
<1> DEFINE n == Len(a.from)
           next(k, v) == (v + (k * k + k + 1) * m[a.from[k]]) % Modulus
           Step == [k \in 1 .. n |-> [v \in Int |-> next(k, v)]]
           Rule(g) == [k \in 0 .. n |-> IF k = 0 THEN a.add ELSE next(k, g[k - 1])]
           A == CHOOSE g : g = Rule(g)
<1>1. n \in Nat /\ a.add \in Int /\ \A k \in 1 .. n : a.from[k] \in D
  BY DEF Fits
<1>2. Value(m, a) = A[n]
  BY DEF Value
<1>3. ASSUME NEW k \in 1 .. n, NEW v \in Int PROVE next(k, v) \in Int
  <2>1. m[a.from[k]] \in Int /\ k \in Int
    BY <1>1 DEF Arrays
  <2>2. k * k \in Int
    BY <2>1
  <2>3. k * k + k + 1 \in Int
    BY <2>1, <2>2
  <2> DEFINE c == k * k + k + 1
             y == m[a.from[k]]
  <2>4. c * y \in Int
    <3>1. c \in Int /\ y \in Int
      BY <2>1, <2>3
    <3> HIDE DEF c, y
    <3>2. QED
      BY <3>1
  <2> DEFINE z == v + c * y
  <2>5. z \in Int
    <3> HIDE DEF c, y
    <3>1. QED
      BY <2>4
  <2>6. z % Modulus \in Int
    <3> HIDE DEF z
    <3>1. QED
      BY <2>5 DEF Modulus
  <2>7. QED
    BY <2>6
<1> HIDE DEF n, next
<1>4. Step \in [1 .. n -> [Int -> Int]]
  BY <1>3
<1>5. PICK f \in [0 .. n -> Int] :
        f[0] = a.add /\ \A k \in 1 .. n : f[k] = Step[k][f[k - 1]]
  <2> DEFINE P == Int
             first == a.add
  <2>1. first \in P /\ n \in Nat /\ Step \in [1 .. n -> [P -> P]]
    BY <1>1, <1>4
  <2> HIDE DEF Step, P, first
  <2>2. \E f \in [0 .. n -> P] : f[0] = first /\ \A k \in 1 .. n : f[k] = Step[k][f[k - 1]]
    BY <2>1, Steps
  <2>3. QED
    BY <2>2 DEF P, first
<1>6. \A k \in 1 .. n : k - 1 \in 0 .. n /\ k \in 0 .. n /\ k # 0
  BY <1>1
<1>7. \A k \in 1 .. n : f[k] = next(k, f[k - 1])
  BY <1>5, <1>6
<1>8. \A k \in 0 .. n : k = 0 \/ k \in 1 .. n
  BY <1>1
<1>9. f = Rule(f)
  <2>1. \A k \in 0 .. n : f[k] = IF k = 0 THEN a.add ELSE next(k, f[k - 1])
    BY <1>5, <1>7, <1>8
  <2>2. f = [k \in 0 .. n |-> f[k]]
    BY <1>5
  <2>3. QED
    BY <2>1, <2>2
<1>10. A = Rule(A)
  BY <1>9
<1> HIDE DEF A
<1>11. A[0] = a.add /\ \A k \in 1 .. n : A[k] = next(k, A[k - 1])
  BY <1>1, <1>6, <1>10
<1>12. \A k \in 0 .. n : A[k] \in Int
  <2> DEFINE T == {k \in 0 .. n : A[k] \in Int}
  <2>1. 0 \in T
    BY <1>1, <1>11
  <2>2. \A k \in 1 .. n : k - 1 \in T => k \in T
    BY <1>3, <1>6, <1>11
  <2> HIDE DEF T
  <2>3. \A k \in 0 .. n : k \in T
    BY <1>1, <2>1, <2>2, InductionUpTo
  <2>4. QED
    BY <2>3 DEF T
<1>13. A \in [0 .. n -> Int]
  <2>1. A = [k \in 0 .. n |-> IF k = 0 THEN a.add ELSE next(k, A[k - 1])]
    BY <1>10
  <2>2. DOMAIN A = 0 .. n /\ A = [k \in 0 .. n |-> A[k]]
    BY <2>1
  <2>3. QED
    BY <1>12, <2>2
<1>14. QED
  BY <1>2, <1>11, <1>13 DEF n, next, Add

LEMMA ValueType ==
  ASSUME NEW D, NEW m \in Arrays(D), NEW a, Fits(a, D)
  PROVE  Value(m, a) \in Int
<1>1. PICK A \in [0 .. Len(a.from) -> Int] : Value(m, a) = A[Len(a.from)]
  BY ValueSteps
<1>2. Len(a.from) \in 0 .. Len(a.from)
  BY DEF Fits
<1>3. QED
  BY <1>1, <1>2

LEMMA ValueSame ==
  ASSUME NEW D, NEW m1 \in Arrays(D), NEW m2 \in Arrays(D), NEW a, Fits(a, D),
         \A y \in ToSet(a.from) : m1[y] = m2[y]
  PROVE  Value(m1, a) = Value(m2, a)
<1> DEFINE n == Len(a.from)
<1>1. PICK A \in [0 .. n -> Int] :
           /\ Value(m1, a) = A[n] /\ A[0] = a.add
           /\ \A k \in 1 .. n : A[k] = Add(k, A[k - 1], m1[a.from[k]])
  BY ValueSteps
<1>2. PICK B \in [0 .. n -> Int] :
           /\ Value(m2, a) = B[n] /\ B[0] = a.add
           /\ \A k \in 1 .. n : B[k] = Add(k, B[k - 1], m2[a.from[k]])
  BY ValueSteps
<1>3. n \in Nat /\ \A k \in 1 .. n : a.from[k] \in ToSet(a.from)
  <2>1. n \in Nat /\ DOMAIN a.from = 1 .. n
    BY DEF Fits
  <2>2. QED
    BY <2>1 DEF ToSet
<1> HIDE DEF n
<1> DEFINE T == {k \in 0 .. n : A[k] = B[k]}
<1>4. 0 \in T
  BY <1>1, <1>2, <1>3
<1>5. ASSUME NEW k \in 1 .. n, k - 1 \in T PROVE k \in T
  <2>1. m1[a.from[k]] = m2[a.from[k]] /\ A[k - 1] = B[k - 1]
    BY <1>3, <1>5
  <2>2. A[k] = B[k]
    BY <1>1, <1>2, <2>1
  <2>3. QED
    BY <1>3, <2>2
<1> HIDE DEF T
<1>6. n \in T
  <2>1. n \in 0 .. n
    BY <1>3
  <2>2. QED
    BY <1>3, <1>4, <1>5, <2>1, InductionUpTo
<1>7. QED
  BY <1>1, <1>2, <1>6 DEF T

\* An assignment changes its target alone.
LEMMA AssignEffect ==
  ASSUME NEW D, NEW m \in Arrays(D), NEW a, Fits(a, D)
  PROVE  /\ Assigned(m, a) \in Arrays(D) /\ Assigned(m, a)[a.to] = Value(m, a)
         /\ \A y \in D : y # a.to => Assigned(m, a)[y] = m[y]
<1>1. Value(m, a) \in Int /\ a.to \in D
  BY ValueType DEF Fits
<1> DEFINE v == Value(m, a)
           new == [m EXCEPT ![a.to] = v]
<1> HIDE DEF v
<1>2. v \in Int /\ a.to \in D
  BY <1>1 DEF v
<1>3. new \in Arrays(D) /\ new[a.to] = v /\ \A y \in D : y # a.to => new[y] = m[y]
  BY <1>2 DEF Arrays
<1>4. QED
  BY <1>3 DEF v, Assigned

\* Assignments one after the other.
LEMMA PartSteps ==
  ASSUME NEW D, NEW m \in Arrays(D), NEW body, NEW lo \in Nat, NEW n \in Nat,
         AllFit(body, lo, n, D)
  PROVE  \E A : PartRun(A, m, body, lo, n, D)
<1> DEFINE M == Arrays(D)
           next(k, x) == Assigned(x, body[lo + k])
           Step == [k \in 1 .. n |-> [x \in M |-> next(k, x)]]
           Rule(g) == [k \in 0 .. n |-> IF k = 0 THEN m ELSE next(k, g[k - 1])]
           A == CHOOSE g : g = Rule(g)
<1>2. Part(m, body, lo, n) = A[n]
  BY DEF Part, Assigned
<1>3. ASSUME NEW k \in 1 .. n, NEW x \in M PROVE next(k, x) \in M
  BY AssignEffect DEF AllFit
<1>1. m \in M
  OBVIOUS
<1> HIDE DEF next, M, PartRun
<1>4. Step \in [1 .. n -> [M -> M]]
  BY <1>3
<1>5. PICK f \in [0 .. n -> M] :
        f[0] = m /\ \A k \in 1 .. n : f[k] = Step[k][f[k - 1]]
  <2> HIDE DEF Step
  <2>1. QED
    BY <1>1, <1>4, Steps
<1>6. \A k \in 1 .. n : k - 1 \in 0 .. n /\ k \in 0 .. n /\ k # 0
  OBVIOUS
<1>7. \A k \in 1 .. n : f[k] = next(k, f[k - 1])
  BY <1>5, <1>6
<1>8. \A k \in 0 .. n : k = 0 \/ k \in 1 .. n
  OBVIOUS
<1>9. f = Rule(f)
  <2>1. \A k \in 0 .. n : f[k] = IF k = 0 THEN m ELSE next(k, f[k - 1])
    BY <1>5, <1>7, <1>8
  <2>2. f = [k \in 0 .. n |-> f[k]]
    BY <1>5
  <2>3. QED
    BY <2>1, <2>2
<1>10. A = Rule(A)
  BY <1>9
<1> HIDE DEF A
<1>11. A[0] = m /\ \A k \in 1 .. n : A[k] = next(k, A[k - 1])
  <2>1. 0 \in 0 .. n
    OBVIOUS
  <2>2. QED
    BY <1>6, <1>10, <2>1
<1>12. \A k \in 0 .. n : A[k] \in M
  <2> DEFINE T == {k \in 0 .. n : A[k] \in M}
  <2>1. 0 \in T
    BY <1>1, <1>11
  <2>2. \A k \in 1 .. n : k - 1 \in T => k \in T
    BY <1>3, <1>6, <1>11
  <2> HIDE DEF T
  <2>3. \A k \in 0 .. n : k \in T
    BY <2>1, <2>2, InductionUpTo
  <2>4. QED
    BY <2>3 DEF T
<1>13. A \in [0 .. n -> M]
  <2>1. A = [k \in 0 .. n |-> IF k = 0 THEN m ELSE next(k, A[k - 1])]
    BY <1>10
  <2>2. DOMAIN A = 0 .. n /\ A = [k \in 0 .. n |-> A[k]]
    BY <2>1
  <2>3. QED
    BY <1>12, <2>2
<1>14. QED
  BY <1>2, <1>11, <1>13 DEF next, M, PartRun

\* They change what they assign alone, and that by what they read.
LEMMA PartEffect ==
  ASSUME NEW D, NEW m1 \in Arrays(D), NEW m2 \in Arrays(D), NEW body,
         NEW lo \in Nat, NEW n \in Nat, AllFit(body, lo, n, D),
         NEW S, S \subseteq D, AllRead(body, lo, n, S), Agree(m1, m2, S)
  PROVE  /\ Part(m1, body, lo, n) \in Arrays(D)
         /\ \A y \in D : y \notin Assigns(body, lo, n) => Part(m1, body, lo, n)[y] = m1[y]
         /\ Agree(Part(m1, body, lo, n), Part(m2, body, lo, n), S)
<1>1. PICK A : PartRun(A, m1, body, lo, n, D)
  BY PartSteps
<1>2. PICK B : PartRun(B, m2, body, lo, n, D)
  BY PartSteps
<1> USE DEF PartRun
<1> DEFINE T == {k \in 0 .. n :
                   /\ \A y \in D : y \notin Assigns(body, lo, n) => A[k][y] = m1[y]
                   /\ \A y \in S : A[k][y] = B[k][y]}
<1>3. 0 \in T
  BY <1>1, <1>2 DEF Agree
<1>4. ASSUME NEW k \in 1 .. n, k - 1 \in T PROVE k \in T
  <2> DEFINE a == body[lo + k]
  <2>1. k - 1 \in 0 .. n /\ k \in 0 .. n
    OBVIOUS
  <2>2. A[k - 1] \in Arrays(D) /\ B[k - 1] \in Arrays(D) /\ Fits(a, D) /\ ToSet(a.from) \subseteq S
    BY <1>1, <1>2, <2>1 DEF AllFit, AllRead
  <2>3. A[k][a.to] = Value(A[k - 1], a) /\ \A y \in D : y # a.to => A[k][y] = A[k - 1][y]
    <3>1. A[k] = Assigned(A[k - 1], a)
      BY <1>1
    <3>2. QED
      BY <2>2, <3>1, AssignEffect
  <2>4. B[k][a.to] = Value(B[k - 1], a) /\ \A y \in D : y # a.to => B[k][y] = B[k - 1][y]
    <3>1. B[k] = Assigned(B[k - 1], a)
      BY <1>2
    <3>2. QED
      BY <2>2, <3>1, AssignEffect
  <2>5. Value(A[k - 1], a) = Value(B[k - 1], a)
    BY <1>4, <2>2, ValueSame
  <2> HIDE DEF a
  <2>6. \A y \in S : A[k][y] = B[k][y]
    <3>1. TAKE y \in S
    <3>2. CASE y = a.to
      BY <2>3, <2>4, <2>5, <3>2
    <3>3. CASE y # a.to
      BY <1>4, <2>3, <2>4, <3>3
    <3>4. QED
      BY <3>2, <3>3
  <2>7. ASSUME NEW y \in D, y \notin Assigns(body, lo, n) PROVE A[k][y] = m1[y]
    <3>1. a.to \in Assigns(body, lo, n)
      BY DEF a, Assigns
    <3>2. QED
      BY <1>4, <2>3, <2>7, <3>1
  <2>8. QED
    BY <2>1, <2>6, <2>7
<1> HIDE DEF T
<1>5. n \in T
  <2>1. n \in 0 .. n
    OBVIOUS
  <2>2. QED
    BY <1>3, <1>4, <2>1, InductionUpTo
<1>6. A[n] \in Arrays(D)
  BY <1>1
<1>7. QED
  BY <1>1, <1>2, <1>5, <1>6 DEF T, Agree

\* The parts of a body, of whole + 1: where part k begins, and how long it is.
Whole(body) == Len(body) \div Length
From(k) == k * Length
Span(body, k) == IF k < Whole(body) THEN Length ELSE Len(body) % Length
BodyFits(body, D) == body \in Seq(ToSet(body)) /\ \A a \in ToSet(body) : Fits(a, D)
DoRun(A, m, body, D) ==
  /\ A \in [0 .. Whole(body) + 1 -> Arrays(D)]
  /\ Do(m, body) = A[Whole(body) + 1] /\ A[0] = m
  /\ \A k \in 1 .. Whole(body) + 1 :
       A[k] = Part(A[k - 1], body, From(k - 1), Span(body, k - 1))

LEMMA PartsFit ==
  ASSUME NEW D, NEW body, BodyFits(body, D)
  PROVE  /\ Whole(body) \in Nat
         /\ \A k \in 0 .. Whole(body) :
              /\ From(k) \in Nat /\ Span(body, k) \in Nat /\ AllFit(body, From(k), Span(body, k), D)
              /\ \A j \in 1 .. Span(body, k) : body[From(k) + j] \in ToSet(body)
<1>1. Len(body) \in Nat /\ DOMAIN body = 1 .. Len(body)
  BY DEF BodyFits
<1> DEFINE n == Len(body)
<1> HIDE DEF n
<1>2. n \in Nat /\ n \div 16 \in Nat /\ n % 16 \in 0 .. 15 /\ n = 16 * (n \div 16) + (n % 16)
  <2>1. n \in Nat
    BY <1>1 DEF n
  <2>2. QED
    BY <2>1
<1>3. Whole(body) \in Nat
  BY <1>2 DEF Whole, Length, n
<1>4. ASSUME NEW k \in 0 .. Whole(body)
      PROVE  /\ From(k) \in Nat /\ Span(body, k) \in Nat
             /\ \A j \in 1 .. Span(body, k) : From(k) + j \in 1 .. n
  <2>1. k \in Nat /\ From(k) = 16 * k /\ Whole(body) = n \div 16
    BY <1>3 DEF From, Whole, Length, n
  <2>2. CASE k < Whole(body)
    <3>1. Span(body, k) = 16
      BY <2>2 DEF Span, Length
    <3>2. 16 * k + 16 <= n
      BY <1>2, <2>1, <2>2
    <3>3. QED
      BY <1>2, <2>1, <3>1, <3>2
  <2>3. CASE ~ (k < Whole(body))
    <3>1. Span(body, k) = n % 16 /\ k = n \div 16
      BY <1>2, <2>1, <2>3 DEF Span, Length, n
    <3>2. QED
      BY <1>2, <2>1, <3>1
  <2>4. QED
    BY <2>2, <2>3
<1>5. \A x \in 1 .. n : body[x] \in ToSet(body) /\ Fits(body[x], D)
  <2>1. \A x \in 1 .. n : body[x] \in ToSet(body)
    BY <1>1 DEF ToSet, n
  <2>2. QED
    BY <2>1 DEF BodyFits
<1>6. QED
  BY <1>3, <1>4, <1>5 DEF AllFit

LEMMA PartType ==
  ASSUME NEW D, NEW m \in Arrays(D), NEW body, NEW lo \in Nat, NEW n \in Nat,
         AllFit(body, lo, n, D)
  PROVE  Part(m, body, lo, n) \in Arrays(D)
<1>1. PICK A : PartRun(A, m, body, lo, n, D)
  BY PartSteps
<1>2. QED
  BY <1>1 DEF PartRun

LEMMA DoSteps ==
  ASSUME NEW D, NEW m \in Arrays(D), NEW body, BodyFits(body, D)
  PROVE  \E A : DoRun(A, m, body, D)
<1> DEFINE M == Arrays(D)
           w == Whole(body)
           n == w + 1
           next(k, x) == Part(x, body, From(k - 1), Span(body, k - 1))
           part(k) == [x \in M |-> Part(x, body, From(k), Span(body, k))]
           Step == [k \in 1 .. n |-> [x \in M |-> next(k, x)]]
           Rule(g) == [k \in 0 .. n |-> IF k = 0 THEN m ELSE part(k - 1)[g[k - 1]]]
           A == CHOOSE g : g = Rule(g)
<1>1. w \in Nat /\ n \in Nat
  BY PartsFit
<1>2. Do(m, body) = A[n]
  <2>1. M = [DOMAIN m -> Int]
    BY DEF Arrays
  <2>2. QED
    BY <2>1 DEF Do, Whole, From, Span
<1>3. m \in M /\ \A k \in 1 .. n : \A x \in M : next(k, x) \in M
  <2>1. ASSUME NEW k \in 1 .. n, NEW x \in M PROVE next(k, x) \in M
    <3>1. k - 1 \in 0 .. w
      BY <1>1
    <3>2. QED
      BY <3>1, PartsFit, PartType
  <2>2. QED
    BY <2>1
<1>4. \A k \in 1 .. n : \A x \in M : part(k - 1)[x] = next(k, x)
  OBVIOUS
<1> HIDE DEF next, part, M, n
<1>5. Step \in [1 .. n -> [M -> M]]
  BY <1>3
<1>6. PICK f \in [0 .. n -> M] :
        f[0] = m /\ \A k \in 1 .. n : f[k] = Step[k][f[k - 1]]
  <2> HIDE DEF Step
  <2>1. m \in M /\ n \in Nat
    BY <1>1, <1>3
  <2>2. QED
    BY <1>5, <2>1, Steps
<1>7. \A k \in 1 .. n : k - 1 \in 0 .. n /\ k \in 0 .. n /\ k # 0
  BY <1>1
<1>8. \A k \in 1 .. n : f[k] = part(k - 1)[f[k - 1]]
  BY <1>4, <1>6, <1>7
<1>9. \A k \in 0 .. n : k = 0 \/ k \in 1 .. n
  BY <1>1
<1>10. f = Rule(f)
  <2>1. \A k \in 0 .. n : f[k] = IF k = 0 THEN m ELSE part(k - 1)[f[k - 1]]
    BY <1>6, <1>8, <1>9
  <2>2. f = [k \in 0 .. n |-> f[k]]
    BY <1>6
  <2>3. QED
    BY <2>1, <2>2
<1>11. A = Rule(A)
  BY <1>10
<1> HIDE DEF A
<1>12. A[0] = m /\ \A k \in 1 .. n : A[k] = part(k - 1)[A[k - 1]]
  <2>1. 0 \in 0 .. n
    BY <1>1
  <2>2. QED
    BY <1>7, <1>11, <2>1
<1>13. \A k \in 0 .. n : A[k] \in M
  <2> DEFINE T == {k \in 0 .. n : A[k] \in M}
  <2>1. 0 \in T
    BY <1>1, <1>3, <1>12
  <2>2. \A k \in 1 .. n : k - 1 \in T => k \in T
    BY <1>3, <1>4, <1>7, <1>12
  <2> HIDE DEF T
  <2>3. \A k \in 0 .. n : k \in T
    BY <1>1, <2>1, <2>2, InductionUpTo
  <2>4. QED
    BY <2>3 DEF T
<1>14. A \in [0 .. n -> M]
  <2>1. A = [k \in 0 .. n |-> IF k = 0 THEN m ELSE part(k - 1)[A[k - 1]]]
    BY <1>11
  <2>2. DOMAIN A = 0 .. n /\ A = [k \in 0 .. n |-> A[k]]
    BY <2>1
  <2>3. QED
    BY <1>13, <2>2
<1>15. \A k \in 1 .. n : A[k] = next(k, A[k - 1])
  BY <1>4, <1>7, <1>12, <1>13
<1>16. QED
  BY <1>2, <1>12, <1>14, <1>15 DEF next, M, n, DoRun

\* What a body does: it changes what it assigns alone, and that by what it reads.
LEMMA DoEffect ==
  ASSUME NEW D, NEW m1 \in Arrays(D), NEW m2 \in Arrays(D), NEW t, IsTask(t, D),
         NEW S, t.gets \subseteq S, S \subseteq D, Agree(m1, m2, S)
  PROVE  /\ Do(m1, t.body) \in Arrays(D)
         /\ \A y \in D : y \notin t.puts => Do(m1, t.body)[y] = m1[y]
         /\ Agree(Do(m1, t.body), Do(m2, t.body), S)
<1> DEFINE body == t.body
           n == Whole(body) + 1
<1>1. /\ BodyFits(body, D) /\ \A a \in ToSet(body) : ToSet(a.from) \subseteq S
      /\ \A a \in ToSet(body) : a.to \in t.puts
  BY DEF IsTask, BodyFits, Fits
<1>2. PICK A : DoRun(A, m1, body, D)
  BY <1>1, DoSteps
<1>3. PICK B : DoRun(B, m2, body, D)
  BY <1>1, DoSteps
<1>4. n \in Nat /\ Whole(body) \in Nat
  BY <1>1, PartsFit
<1> DEFINE T == {k \in 0 .. n :
                   /\ \A y \in D : y \notin t.puts => A[k][y] = m1[y]
                   /\ Agree(A[k], B[k], S)}
<1>5. 0 \in T
  BY <1>2, <1>3, <1>4 DEF DoRun
<1>6. ASSUME NEW k \in 1 .. n, k - 1 \in T PROVE k \in T
  <2> DEFINE lo == From(k - 1)
             l == Span(body, k - 1)
  <2>1. k - 1 \in 0 .. n /\ k \in 0 .. n /\ k - 1 \in 0 .. Whole(body)
    BY <1>4
  <2>2. A[k - 1] \in Arrays(D) /\ B[k - 1] \in Arrays(D)
    BY <1>2, <1>3, <2>1 DEF DoRun
  <2>3. A[k] = Part(A[k - 1], body, lo, l) /\ B[k] = Part(B[k - 1], body, lo, l)
    BY <1>2, <1>3 DEF DoRun
  <2>4. /\ lo \in Nat /\ l \in Nat
        /\ AllFit(body, lo, l, D) /\ \A j \in 1 .. l : body[lo + j] \in ToSet(body)
    BY <1>1, <2>1, PartsFit
  <2> HIDE DEF lo, l, body
  <2>5. AllRead(body, lo, l, S)
    BY <1>1, <2>4 DEF AllRead
  <2>6. \A y \in D : y \notin t.puts => y \notin Assigns(body, lo, l)
    BY <1>1, <2>4 DEF Assigns
  <2>7. Agree(A[k - 1], B[k - 1], S)
    BY <1>6
  <2>8. /\ \A y \in D : y \notin Assigns(body, lo, l) => A[k][y] = A[k - 1][y]
        /\ Agree(A[k], B[k], S)
    <3> DEFINE x == A[k - 1]
               z == B[k - 1]
    <3>1. x \in Arrays(D) /\ z \in Arrays(D) /\ Agree(x, z, S)
      BY <2>2, <2>7
    <3>2. A[k] = Part(x, body, lo, l) /\ B[k] = Part(z, body, lo, l)
      BY <2>3
    <3> HIDE DEF x, z
    <3>3. /\ \A y \in D : y \notin Assigns(body, lo, l) =>
               Part(x, body, lo, l)[y] = x[y]
          /\ Agree(Part(x, body, lo, l), Part(z, body, lo, l), S)
      <4>1. lo \in Nat /\ l \in Nat /\ AllFit(body, lo, l, D) /\ AllRead(body, lo, l, S)
        BY <2>4, <2>5
      <4>2. Agree(Part(x, body, lo, l), Part(z, body, lo, l), S)
        BY <3>1, <4>1, PartEffect
      <4>3. \A y \in D : y \notin Assigns(body, lo, l) =>
               Part(x, body, lo, l)[y] = x[y]
        BY <3>1, <4>1, PartEffect
      <4>4. QED
        BY <4>2, <4>3
    <3>4. QED
      BY <3>2, <3>3 DEF x
  <2>9. QED
    BY <1>6, <2>1, <2>6, <2>8
<1> HIDE DEF T
<1>7. n \in T
  <2>1. n \in 0 .. n
    BY <1>4
  <2>2. QED
    BY <1>4, <1>5, <1>6, <2>1, InductionUpTo
<1>8. A[n] \in Arrays(D) /\ Do(m1, body) = A[n] /\ Do(m2, body) = B[n]
  BY <1>2, <1>3, <1>4 DEF DoRun
<1>9. QED
  BY <1>7, <1>8 DEF T

LoopFits(tasks, D) == tasks \in Seq(ToSet(tasks)) /\ \A t \in ToSet(tasks) : IsTask(t, D)
LoopRun(A, m, tasks, D) ==
  /\ A \in [0 .. Len(tasks) -> Arrays(D)]
  /\ DoLoop(m, tasks) = A[Len(tasks)] /\ A[0] = m
  /\ \A k \in 1 .. Len(tasks) : A[k] = Do(A[k - 1], tasks[k].body)

LEMMA LoopTasks ==
  ASSUME NEW D, NEW tasks, LoopFits(tasks, D)
  PROVE  /\ Len(tasks) \in Nat /\ DOMAIN tasks = 1 .. Len(tasks)
         /\ \A k \in DOMAIN tasks : IsTask(tasks[k], D) /\ tasks[k].gets \subseteq D
                                    /\ tasks[k].puts \subseteq D
<1>1. Len(tasks) \in Nat /\ DOMAIN tasks = 1 .. Len(tasks)
  BY DEF LoopFits
<1>2. \A k \in DOMAIN tasks : IsTask(tasks[k], D)
  BY <1>1 DEF LoopFits, ToSet
<1>3. ASSUME NEW t, IsTask(t, D) PROVE t.gets \subseteq D /\ t.puts \subseteq D
  <2>1. \A a \in ToSet(t.body) : a.to \in D /\ a.from \in Seq(D)
    BY <1>3 DEF IsTask
  <2>2. \A a \in ToSet(t.body) : ToSet(a.from) \subseteq D
    BY <2>1 DEF ToSet
  <2>3. QED
    BY <1>3, <2>1, <2>2 DEF IsTask
<1>4. QED
  BY <1>1, <1>2, <1>3

LEMMA DoType ==
  ASSUME NEW D, NEW m \in Arrays(D), NEW t, IsTask(t, D)
  PROVE  Do(m, t.body) \in Arrays(D)
<1>1. BodyFits(t.body, D)
  BY DEF IsTask, BodyFits, Fits
<1>2. PICK A : DoRun(A, m, t.body, D)
  BY <1>1, DoSteps
<1>3. Whole(t.body) + 1 \in 0 .. Whole(t.body) + 1
  BY <1>1, PartsFit
<1>4. QED
  BY <1>2, <1>3 DEF DoRun

LEMMA LoopSteps ==
  ASSUME NEW D, NEW m \in Arrays(D), NEW tasks, LoopFits(tasks, D)
  PROVE  \E A : LoopRun(A, m, tasks, D)
<1> DEFINE M == Arrays(D)
           n == Len(tasks)
           next(k, x) == Do(x, tasks[k].body)
           Step == [k \in 1 .. n |-> [x \in M |-> next(k, x)]]
           Rule(g) == [k \in 0 .. n |-> IF k = 0 THEN m ELSE next(k, g[k - 1])]
           A == CHOOSE g : g = Rule(g)
<1>1. n \in Nat
  BY LoopTasks
<1>2. DoLoop(m, tasks) = A[n]
  BY DEF DoLoop
<1>3. m \in M /\ \A k \in 1 .. n : \A x \in M : next(k, x) \in M
  <2>1. ASSUME NEW k \in 1 .. n, NEW x \in M PROVE next(k, x) \in M
    <3>1. IsTask(tasks[k], D)
      BY LoopTasks
    <3>2. QED
      BY <3>1, DoType
  <2>2. QED
    BY <2>1
<1> HIDE DEF next, M, n
<1>4. Step \in [1 .. n -> [M -> M]]
  BY <1>3
<1>5. PICK f \in [0 .. n -> M] :
        f[0] = m /\ \A k \in 1 .. n : f[k] = Step[k][f[k - 1]]
  <2> HIDE DEF Step
  <2>1. m \in M /\ n \in Nat
    BY <1>1, <1>3
  <2>2. QED
    BY <1>4, <2>1, Steps
<1>6. \A k \in 1 .. n : k - 1 \in 0 .. n /\ k \in 0 .. n /\ k # 0
  BY <1>1
<1>7. \A k \in 1 .. n : f[k] = next(k, f[k - 1])
  BY <1>5, <1>6
<1>8. \A k \in 0 .. n : k = 0 \/ k \in 1 .. n
  BY <1>1
<1>9. f = Rule(f)
  <2>1. \A k \in 0 .. n : f[k] = IF k = 0 THEN m ELSE next(k, f[k - 1])
    BY <1>5, <1>7, <1>8
  <2>2. f = [k \in 0 .. n |-> f[k]]
    BY <1>5
  <2>3. QED
    BY <2>1, <2>2
<1>10. A = Rule(A)
  BY <1>9
<1> HIDE DEF A
<1>11. A[0] = m /\ \A k \in 1 .. n : A[k] = next(k, A[k - 1])
  <2>1. 0 \in 0 .. n
    BY <1>1
  <2>2. QED
    BY <1>6, <1>10, <2>1
<1>12. \A k \in 0 .. n : A[k] \in M
  <2> DEFINE T == {k \in 0 .. n : A[k] \in M}
  <2>1. 0 \in T
    BY <1>1, <1>3, <1>11
  <2>2. \A k \in 1 .. n : k - 1 \in T => k \in T
    BY <1>3, <1>6, <1>11
  <2> HIDE DEF T
  <2>3. \A k \in 0 .. n : k \in T
    BY <1>1, <2>1, <2>2, InductionUpTo
  <2>4. QED
    BY <2>3 DEF T
<1>13. A \in [0 .. n -> M]
  <2>1. A = [k \in 0 .. n |-> IF k = 0 THEN m ELSE next(k, A[k - 1])]
    BY <1>10
  <2>2. DOMAIN A = 0 .. n /\ A = [k \in 0 .. n |-> A[k]]
    BY <2>1
  <2>3. QED
    BY <1>12, <2>2
<1>14. QED
  BY <1>2, <1>11, <1>13 DEF next, M, n, LoopRun

\* A body leaves what it does not assign; and it assigns the same to what it reads and
\* assigns if that was the same.
LEMMA DoFrame ==
  ASSUME NEW D, NEW m \in Arrays(D), NEW t, IsTask(t, D), t.gets \subseteq D, NEW y \in D,
         y \notin t.puts
  PROVE  Do(m, t.body)[y] = m[y]
<1>1. Agree(m, m, D) /\ D \subseteq D
  BY DEF Agree
<1>2. QED
  BY <1>1, DoEffect

\* What a loop does: it changes what its tasks assign alone.
LEMMA LoopEffect ==
  ASSUME NEW D, NEW m \in Arrays(D), NEW tasks, LoopFits(tasks, D)
  PROVE  /\ DoLoop(m, tasks) \in Arrays(D)
         /\ \A y \in D : (\A h \in DOMAIN tasks : y \notin tasks[h].puts) =>
              DoLoop(m, tasks)[y] = m[y]
<1> DEFINE n == Len(tasks)
<1>1. PICK A : LoopRun(A, m, tasks, D)
  BY LoopSteps
<1>2. n \in Nat /\ DOMAIN tasks = 1 .. n
  BY LoopTasks
<1> DEFINE T == {k \in 0 .. n : \A y \in D :
                   (\A h \in DOMAIN tasks : y \notin tasks[h].puts) => A[k][y] = m[y]}
<1>3. 0 \in T
  BY <1>1, <1>2 DEF LoopRun
<1>4. ASSUME NEW k \in 1 .. n, k - 1 \in T PROVE k \in T
  <2>1. k - 1 \in 0 .. n /\ k \in 0 .. n /\ k \in DOMAIN tasks
    BY <1>2
  <2>2. A[k - 1] \in Arrays(D) /\ A[k] = Do(A[k - 1], tasks[k].body)
    BY <1>1, <2>1 DEF LoopRun
  <2>3. IsTask(tasks[k], D) /\ tasks[k].gets \subseteq D
    BY <2>1, LoopTasks
  <2>4. \A y \in D : y \notin tasks[k].puts => A[k][y] = A[k - 1][y]
    BY <2>2, <2>3, DoFrame
  <2>5. QED
    BY <1>4, <2>1, <2>4
<1> HIDE DEF T
<1>5. n \in T
  <2>1. n \in 0 .. n
    BY <1>2
  <2>2. QED
    BY <1>2, <1>3, <1>4, <2>1, InductionUpTo
<1>6. A[n] \in Arrays(D) /\ DoLoop(m, tasks) = A[n]
  BY <1>1, <1>2 DEF LoopRun
<1>7. QED
  BY <1>5, <1>6 DEF T

\* Where its tasks touch nothing in common, each does what it would do alone.
LEMMA LoopOwn ==
  ASSUME NEW D, NEW m \in Arrays(D), NEW tasks, LoopFits(tasks, D),
         \A g, h \in DOMAIN tasks : g # h => ~Touch(tasks[g], tasks[h]),
         NEW own \in DOMAIN tasks, NEW y \in tasks[own].puts
  PROVE  DoLoop(m, tasks)[y] = Do(m, tasks[own].body)[y]
<1> DEFINE n == Len(tasks)
           S == tasks[own].puts \cup tasks[own].gets
<1>1. PICK A : LoopRun(A, m, tasks, D)
  BY LoopSteps
<1>2. n \in Nat /\ DOMAIN tasks = 1 .. n /\ S \subseteq D /\ y \in S
  BY LoopTasks
<1>3. \A k \in 1 .. n : /\ A[k - 1] \in Arrays(D) /\ A[k] = Do(A[k - 1], tasks[k].body)
                        /\ IsTask(tasks[k], D) /\ tasks[k].gets \subseteq D
  <2>1. TAKE k \in 1 .. n
  <2>2. k - 1 \in 0 .. n /\ k \in DOMAIN tasks
    BY <1>2
  <2>3. QED
    BY <1>1, <2>2, LoopTasks DEF LoopRun
<1>4. \A k \in 1 .. n : k # own => \A x \in S : x \notin tasks[k].puts
  BY <1>2 DEF Touch
<1>5. \A k \in 1 .. n : k # own => \A x \in S : A[k][x] = A[k - 1][x]
  BY <1>2, <1>3, <1>4, DoFrame
\* Before the task its part of the arrays is as at first, and after it, as it leaves it.
<1> DEFINE T == {k \in 0 .. n : /\ k < own => Agree(A[k], m, S)
                                /\ k >= own => A[k][y] = Do(m, tasks[own].body)[y]}
<1>6. 0 \in T
  BY <1>1, <1>2 DEF LoopRun, Agree
<1>7. ASSUME NEW k \in 1 .. n, k - 1 \in T PROVE k \in T
  <2>1. k - 1 \in 0 .. n /\ k \in 0 .. n /\ own \in Int
    BY <1>2
  <2>2. CASE k < own
    BY <1>5, <1>7, <2>1, <2>2 DEF Agree
  <2>3. CASE k > own
    BY <1>2, <1>5, <1>7, <2>1, <2>3
  <2>4. CASE k = own
    <3>1. A[k - 1] \in Arrays(D) /\ Agree(A[k - 1], m, S) /\ IsTask(tasks[own], D)
      BY <1>3, <1>7, <2>1, <2>4
    <3>2. tasks[own].gets \subseteq S
      OBVIOUS
    <3>3. Agree(Do(A[k - 1], tasks[own].body), Do(m, tasks[own].body), S)
      BY <1>2, <3>1, <3>2, DoEffect
    <3>4. QED
      BY <1>2, <1>3, <2>1, <2>4, <3>3 DEF Agree
  <2>5. QED
    BY <2>1, <2>2, <2>3, <2>4
<1> HIDE DEF T
<1>8. n \in T
  <2>1. n \in 0 .. n
    BY <1>2
  <2>2. QED
    BY <1>2, <1>6, <1>7, <2>1, InductionUpTo
<1>9. own <= n
  BY <1>2
<1>10. QED
  BY <1>1, <1>2, <1>8, <1>9 DEF T, LoopRun

TurnFits(s, loops, D) ==
  Len(loops) \in Nat /\ \A k \in 1 .. Len(loops) : LoopFits(s[loops[k]].tasks, D)

\* Loops in turn: the arrays after each of them.
LEMMA InTurnSteps ==
  ASSUME NEW D, NEW m \in Arrays(D), NEW s, NEW loops, TurnFits(s, loops, D)
  PROVE  /\ InTurn(s, m, loops)[0] = m
         /\ InTurn(s, m, loops) \in [0 .. Len(loops) -> Arrays(D)]
         /\ \A k \in 1 .. Len(loops) :
              InTurn(s, m, loops)[k] = DoLoop(InTurn(s, m, loops)[k - 1], s[loops[k]].tasks)
<1> DEFINE M == Arrays(D)
           n == Len(loops)
           next(k, x) == DoLoop(x, s[loops[k]].tasks)
           Step == [k \in 1 .. n |-> [x \in M |-> next(k, x)]]
           Rule(g) == [k \in 0 .. n |-> IF k = 0 THEN m ELSE next(k, g[k - 1])]
           A == CHOOSE g : g = Rule(g)
<1>1. n \in Nat
  BY DEF TurnFits
<1>2. InTurn(s, m, loops) = A
  BY DEF InTurn
<1>3. m \in M /\ \A k \in 1 .. n : \A x \in M : next(k, x) \in M
  <2>1. ASSUME NEW k \in 1 .. n, NEW x \in M PROVE next(k, x) \in M
    <3>1. LoopFits(s[loops[k]].tasks, D)
      BY DEF TurnFits
    <3>2. QED
      BY <3>1, LoopEffect
  <2>2. QED
    BY <2>1
<1> HIDE DEF next, M, n
<1>4. Step \in [1 .. n -> [M -> M]]
  BY <1>3
<1>5. PICK f \in [0 .. n -> M] :
        f[0] = m /\ \A k \in 1 .. n : f[k] = Step[k][f[k - 1]]
  <2> HIDE DEF Step
  <2>1. m \in M /\ n \in Nat
    BY <1>1, <1>3
  <2>2. QED
    BY <1>4, <2>1, Steps
<1>6. \A k \in 1 .. n : k - 1 \in 0 .. n /\ k \in 0 .. n /\ k # 0
  BY <1>1
<1>7. \A k \in 1 .. n : f[k] = next(k, f[k - 1])
  BY <1>5, <1>6
<1>8. \A k \in 0 .. n : k = 0 \/ k \in 1 .. n
  BY <1>1
<1>9. f = Rule(f)
  <2>1. \A k \in 0 .. n : f[k] = IF k = 0 THEN m ELSE next(k, f[k - 1])
    BY <1>5, <1>7, <1>8
  <2>2. f = [k \in 0 .. n |-> f[k]]
    BY <1>5
  <2>3. QED
    BY <2>1, <2>2
<1>10. A = Rule(A)
  BY <1>9
<1> HIDE DEF A
<1>11. A[0] = m /\ \A k \in 1 .. n : A[k] = next(k, A[k - 1])
  <2>1. 0 \in 0 .. n
    BY <1>1
  <2>2. QED
    BY <1>6, <1>10, <2>1
<1>12. \A k \in 0 .. n : A[k] \in M
  <2> DEFINE T == {k \in 0 .. n : A[k] \in M}
  <2>1. 0 \in T
    BY <1>1, <1>3, <1>11
  <2>2. \A k \in 1 .. n : k - 1 \in T => k \in T
    BY <1>3, <1>6, <1>11
  <2> HIDE DEF T
  <2>3. \A k \in 0 .. n : k \in T
    BY <1>1, <2>1, <2>2, InductionUpTo
  <2>4. QED
    BY <2>3 DEF T
<1>13. A \in [0 .. n -> M]
  <2>1. A = [k \in 0 .. n |-> IF k = 0 THEN m ELSE next(k, A[k - 1])]
    BY <1>10
  <2>2. DOMAIN A = 0 .. n /\ A = [k \in 0 .. n |-> A[k]]
    BY <2>1
  <2>3. QED
    BY <1>12, <2>2
<1>14. QED
  BY <1>2, <1>11, <1>13 DEF next, M, n

Skipped(s, loops, j, k, y) ==
  \A l \in j + 1 .. k : \A h \in DOMAIN s[loops[l]].tasks : y \notin s[loops[l]].tasks[h].puts

\* What no task of the loops between two places assigns is the same after both.
LEMMA InTurnFrame ==
  ASSUME NEW D, NEW m \in Arrays(D), NEW s, NEW loops, TurnFits(s, loops, D),
         NEW j \in 0 .. Len(loops), NEW k \in j .. Len(loops), NEW y \in D,
         Skipped(s, loops, j, k, y)
  PROVE  InTurn(s, m, loops)[k][y] = InTurn(s, m, loops)[j][y]
<1> DEFINE R == InTurn(s, m, loops)
           T == {x \in 0 .. k - j : R[j + x][y] = R[j][y]}
<1>1. Len(loops) \in Nat /\ j \in Nat /\ k - j \in Nat /\ k \in Nat /\ k <= Len(loops)
  BY DEF TurnFits
<1>7. /\ R \in [0 .. Len(loops) -> Arrays(D)]
      /\ \A l \in 1 .. Len(loops) : R[l] = DoLoop(R[l - 1], s[loops[l]].tasks)
  BY InTurnSteps
<1>2. 0 \in T
  BY <1>1
<1>3. ASSUME NEW x \in 1 .. k - j, x - 1 \in T PROVE x \in T
  <2> DEFINE l == j + x
  <2>1. l \in j + 1 .. k /\ l \in 1 .. Len(loops) /\ l - 1 = j + (x - 1) /\ l - 1 \in 0 .. Len(loops)
        /\ x \in 0 .. k - j
    BY <1>1
  <2>2. R[l - 1] \in Arrays(D) /\ R[l] = DoLoop(R[l - 1], s[loops[l]].tasks)
    BY <1>7, <2>1
  <2>3. LoopFits(s[loops[l]].tasks, D)
    BY <2>1 DEF TurnFits
  <2> HIDE DEF R
  <2>4. R[l][y] = R[l - 1][y]
    <3>1. \A h \in DOMAIN s[loops[l]].tasks : y \notin s[loops[l]].tasks[h].puts
      BY <2>1 DEF Skipped
    <3>2. QED
      BY <2>2, <2>3, <3>1, LoopEffect
  <2>5. QED
    BY <1>3, <2>1, <2>4
<1> HIDE DEF T
<1>4. k - j \in T
  <2> DEFINE n == k - j
  <2>1. n \in Nat /\ n \in 0 .. n
    BY <1>1
  <2>2. QED
    BY <1>2, <1>3, <2>1, InductionUpTo
<1>5. j + (k - j) = k
  BY <1>1
<1>6. QED
  BY <1>4, <1>5 DEF T

-----------------------------------------------------------------------------
Elements == DOMAIN Texts[prog].init

\* An element is as it is after loop k, of those that are executed, if the tasks that
\* assign it have run up to that loop, and no others.
Computed ==
  running # <<>> =>
    \A x \in Elements, k \in 0 .. Len(running) :
      (\A t \in All : x \in TaskOf(t).puts => (t \in done <=> t[1] <= k)) =>
        mem[x] = InTurn(text, began, running)[k][x]

SerialInv ==
  /\ ProgramInv
  /\ mem \in Arrays(Elements) /\ began \in Arrays(Elements)
  /\ Computed

LEMMA SegmentFits ==
  ASSUME Placed, NEW loops, Segment(loops)
  PROVE  TurnFits(text, loops, Elements) /\ DOMAIN loops = 1 .. Len(loops)
<1>1. loops \in Seq({k \in DOMAIN text : text[k].op = "loop"})
  BY DEF Segment
<1>2. Len(loops) \in Nat /\ DOMAIN loops = 1 .. Len(loops)
  BY <1>1
<1>3. \A k \in 1 .. Len(loops) : loops[k] \in DOMAIN text /\ text[loops[k]].op = "loop"
  BY <1>1, <1>2
<1>4. text = Texts[prog].text /\ prog \in DOMAIN Texts
  BY DEF Placed
<1>5. \A k \in DOMAIN text : text[k].op = "loop" => LoopFits(text[k].tasks, Elements)
  BY <1>4, TextsAssumption DEF LoopFits, Elements
<1>6. QED
  BY <1>2, <1>3, <1>5 DEF TurnFits

LEMMA TaskFits ==
  ASSUME ProgramInv, NEW t \in All
  PROVE  /\ IsTask(TaskOf(t), Elements)
         /\ TaskOf(t).gets \subseteq Elements /\ TaskOf(t).puts \subseteq Elements
<1>1. TurnFits(text, running, Elements)
  BY SegmentFits DEF ProgramInv, Kept
<1>2. t[1] \in 1 .. Len(running) /\ t[2] \in DOMAIN Tasks(t[1])
  BY TaskIs
<1>3. LoopFits(Tasks(t[1]), Elements)
  BY <1>1, <1>2 DEF TurnFits, Tasks
<1>4. QED
  BY <1>2, <1>3, LoopTasks DEF TaskOf

\* Tasks of one loop touch nothing in common.
LEMMA Apart ==
  ASSUME ProgramInv, NEW k \in DOMAIN running,
         NEW g \in DOMAIN Tasks(k), NEW h \in DOMAIN Tasks(k), g # h
  PROVE  ~Touch(Tasks(k)[g], Tasks(k)[h])
<1> DEFINE t == <<k, g>>
           u == <<k, h>>
<1>1. t \in All /\ u \in All
  BY IsInAll DEF Tasks
<1>2. t[1] = k /\ t[2] = g /\ u[1] = k /\ u[2] = h /\ t # u /\ k \in Int
  BY RunningIs
<1>3. TaskOf(t) = Tasks(k)[g] /\ TaskOf(u) = Tasks(k)[h]
  BY <1>2 DEF TaskOf
<1> HIDE DEF t, u
<1>4. SUFFICES ASSUME Touch(TaskOf(t), TaskOf(u)) PROVE FALSE
  BY <1>3
<1>5. t[1] <= u[1] /\ t[1] = u[1] /\ All \subseteq All
  BY <1>2
<1>6. \A v \in All, z \in All : z[1] < v[1] /\ Conflict(TaskOf(z), TaskOf(v)) => z \in All
  OBVIOUS
<1>7. t = u
  BY <1>1, <1>4, <1>5, <1>6, Reached
<1>8. QED
  BY <1>2, <1>7

\* When a task may run, of those that touch what it does the earlier ones have run.
LEMMA ReadyAmong ==
  ASSUME ProgramInv, NEW t \in All, Ready(t), NEW u \in All, u # t,
         Touch(TaskOf(u), TaskOf(t))
  PROVE  u \in done <=> u[1] < t[1]
<1>1. t[1] \in Int /\ u[1] \in Int /\ t \notin done /\ Touch(TaskOf(t), TaskOf(u))
  BY TaskIs, TouchSymmetric DEF Ready
<1>2. CASE u[1] <= t[1]
  <2> DEFINE S == done \cup {t}
  <2>1. S \subseteq All /\ \A v \in S, z \in All :
          z[1] < v[1] /\ Conflict(TaskOf(z), TaskOf(v)) => z \in S
    BY ReadyClosed
  <2>2. t \in S
    OBVIOUS
  <2> HIDE DEF S
  <2>3. u \in S /\ (u[1] = t[1] => u = t)
    BY <1>2, <2>1, <2>2, Reached
  <2>4. QED
    BY <1>1, <1>2, <2>3 DEF S
<1>3. CASE t[1] < u[1]
  <2>1. SUFFICES ASSUME u \in done PROVE FALSE
    BY <1>1, <1>3
  <2>2. t[1] <= u[1]
    BY <1>1, <1>3
  <2>3. t \in done
    BY <1>1, <2>1, <2>2, DoneClosed, Reached
  <2>4. QED
    BY <1>1, <2>3
<1>4. QED
  BY <1>1, <1>2, <1>3

LEMMA RunComputes ==
  ASSUME SerialInv, NEW t \in All, Run(t)
  PROVE  mem' \in Arrays(Elements) /\ Computed'
<1> DEFINE R == InTurn(text, began, running)
           D == Elements
           task == TaskOf(t)
           S == task.puts \cup task.gets
           p == t[1]
<1>1. /\ ProgramInv /\ mem \in Arrays(D) /\ began \in Arrays(D)
      /\ Ready(t) /\ mem' = Do(mem, task.body) /\ done' = done \cup {t}
      /\ UNCHANGED <<prog, text, running, began>>
  BY DEF SerialInv, Run
<1>2. IsTask(task, D) /\ task.gets \subseteq D /\ task.puts \subseteq D
  BY <1>1, TaskFits
<1>3. mem' \in Arrays(D)
  BY <1>1, <1>2, DoType
<1>4. TurnFits(text, running, D) /\ DOMAIN running = 1 .. Len(running) /\ Len(running) \in Nat
  BY <1>1, SegmentFits DEF ProgramInv, Kept, TurnFits
<1>5. /\ R \in [0 .. Len(running) -> Arrays(D)]
      /\ \A l \in 1 .. Len(running) : R[l] = DoLoop(R[l - 1], Tasks(l))
  BY <1>1, <1>4, InTurnSteps DEF Tasks
<1>6. /\ p \in 1 .. Len(running) /\ p \in Nat /\ p - 1 \in 0 .. Len(running) /\ p \in 0 .. Len(running)
      /\ t[2] \in DOMAIN Tasks(p) /\ task = Tasks(p)[t[2]] /\ running # <<>>
  <2>1. p \in 1 .. Len(running) /\ t[2] \in DOMAIN Tasks(p)
    BY <1>1, TaskIs
  <2>2. running # <<>>
    BY <1>4, <2>1
  <2>3. QED
    BY <1>4, <2>1, <2>2 DEF TaskOf
\* What the task reads and assigns is as it is before its loop: those that touch it of
\* earlier loops have run, and no others.
<1>7. Agree(mem, R[p - 1], S)
  <2>1. SUFFICES ASSUME NEW y \in S PROVE mem[y] = R[p - 1][y]
    BY DEF Agree
  <2>2. ASSUME NEW u \in All, y \in TaskOf(u).puts PROVE u \in done <=> u[1] <= p - 1
    <3>1. u[1] \in Int /\ t \notin done
      BY <1>1, TaskIs DEF Ready
    <3>2. CASE u = t
      BY <1>6, <3>1, <3>2
    <3>3. CASE u # t
      <4>1. Touch(TaskOf(u), task)
        BY <2>2 DEF Touch
      <4>2. u \in done <=> u[1] < p
        BY <1>1, <3>3, <4>1, ReadyAmong
      <4>3. QED
        BY <1>6, <3>1, <4>2
    <3>4. QED
      BY <3>2, <3>3
  <2>3. y \in Elements
    BY <1>2
  <2>4. QED
    BY <1>6, <2>2, <2>3 DEF SerialInv, Computed
\* So the task does what it does there.
<1>8. \A y \in task.puts : mem'[y] = R[p][y]
  <2>1. TAKE y \in task.puts
  <2>2. R[p - 1] \in Arrays(D) /\ S \subseteq D /\ task.gets \subseteq S /\ y \in S
    BY <1>2, <1>5, <1>6
  <2>3. Do(mem, task.body)[y] = Do(R[p - 1], task.body)[y]
    <3> HIDE DEF R, S, task, D
    <3>1. Agree(Do(mem, task.body), Do(R[p - 1], task.body), S)
      BY <1>1, <1>2, <1>7, <2>2, DoEffect
    <3>2. QED
      BY <2>2, <3>1 DEF Agree
  <2>4. LoopFits(Tasks(p), D)
    BY <1>4, <1>6 DEF TurnFits, Tasks
  <2>5. \A g, h \in DOMAIN Tasks(p) : g # h => ~Touch(Tasks(p)[g], Tasks(p)[h])
    BY <1>1, <1>4, <1>6, Apart
  <2>6. DoLoop(R[p - 1], Tasks(p))[y] = Do(R[p - 1], Tasks(p)[t[2]].body)[y]
    <3>1. t[2] \in DOMAIN Tasks(p) /\ y \in Tasks(p)[t[2]].puts
      BY <1>6, <2>1
    <3> HIDE DEF R, D, p
    <3>2. QED
      BY <2>2, <2>4, <2>5, <3>1, LoopOwn
  <2>7. QED
    BY <1>1, <1>5, <1>6, <2>3, <2>6
<1>9. ASSUME NEW x \in D, NEW k \in 0 .. Len(running),
             \A u \in All : x \in TaskOf(u).puts => (u \in done' <=> u[1] <= k)
      PROVE  mem'[x] = R[k][x]
  <2>1. CASE x \notin task.puts
    <3>1. mem'[x] = mem[x]
      BY <1>1, <1>2, <2>1, DoFrame
    <3>2. \A u \in All : x \in TaskOf(u).puts => (u \in done <=> u[1] <= k)
      BY <1>1, <1>9, <2>1
    <3>3. QED
      BY <1>6, <3>1, <3>2 DEF SerialInv, Computed
  <2>2. CASE x \in task.puts
    <3>1. p <= k
      BY <1>1, <1>9, <2>2
    <3>2. ASSUME NEW l \in p + 1 .. k, NEW h \in DOMAIN text[running[l]].tasks,
                 x \in text[running[l]].tasks[h].puts
          PROVE  FALSE
      <4> DEFINE u == <<l, h>>
      <4>1. l \in DOMAIN running /\ u[1] = l /\ u[2] = h /\ l \in Nat /\ p < l /\ l <= k
        BY <1>4, <1>6
      <4>2. u \in All
        BY <1>1, <4>1, IsInAll
      <4>3. x \in TaskOf(u).puts /\ u # t
        BY <1>6, <3>2, <4>1 DEF TaskOf, Tasks
      <4> HIDE DEF u
      <4>4. Touch(TaskOf(u), task)
        BY <2>2, <4>3 DEF Touch
      <4>5. u \in done <=> u[1] < p
        BY <1>1, <4>2, <4>3, <4>4, ReadyAmong
      <4>6. u \in done'
        BY <1>9, <4>1, <4>2, <4>3
      <4>7. QED
        BY <1>1, <1>6, <4>1, <4>3, <4>5, <4>6
    <3>3. R[k][x] = R[p][x]
      <4>1. p \in 0 .. Len(running) /\ k \in p .. Len(running)
        BY <1>6, <3>1
      <4>2. Skipped(text, running, p, k, x)
        BY <3>2 DEF Skipped
      <4> HIDE DEF p, D
      <4>3. QED
        BY <1>1, <1>4, <1>9, <4>1, <4>2, InTurnFrame
    <3>4. QED
      BY <1>8, <2>2, <3>3
  <2>3. QED
    BY <2>1, <2>2
<1>10. Computed'
  <2>1. All' = All /\ \A u : TaskOf(u)' = TaskOf(u)
    BY <1>1, AllKept
  <2>2. InTurn(text, began, running)' = R /\ Elements' = D /\ Len(running)' = Len(running)
    BY <1>1 DEF Elements
  <2> HIDE DEF R, D
  <2>3. QED
    BY <1>9, <2>1, <2>2 DEF Computed
<1>11. QED
  BY <1>3, <1>10

LEMMA SpawnComputes ==
  ASSUME SerialInv, Spawn
  PROVE  Computed'
<1> DEFINE D == Elements
           loops == running'
<1>1. /\ ProgramInv /\ mem \in Arrays(D) /\ done = {} /\ done' = {}
      /\ mem' = mem /\ began' = mem /\ UNCHANGED <<prog, text>>
  <2>1. done = {}
    BY AllEmpty DEF SerialInv, ProgramInv, Ordered, Spawn
  <2>2. QED
    BY <2>1 DEF SerialInv, Spawn
<1>2. Segment(loops)
  <2>1. loops = graph \/ (asked.hit /\ loops = stored[asked.no].loops)
    BY DEF Spawn
  <2>2. QED
    BY <1>1, <2>1 DEF ProgramInv, Placed, Kept
<1> HIDE DEF loops
<1>3. TurnFits(text, loops, D) /\ DOMAIN loops = 1 .. Len(loops) /\ Len(loops) \in Nat
  BY <1>1, <1>2, SegmentFits DEF ProgramInv, TurnFits
<1>4. ASSUME NEW x \in D, NEW k \in 0 .. Len(loops),
             \A t \in All' : x \in TaskOf(t)'.puts => ~ (t[1] <= k)
      PROVE  mem[x] = InTurn(text, mem, loops)[k][x]
  <2>1. ASSUME NEW l \in 0 + 1 .. k, NEW h \in DOMAIN text[loops[l]].tasks
        PROVE  x \notin text[loops[l]].tasks[h].puts
    <3> DEFINE t == <<l, h>>
    <3>1. l \in 1 .. Len(loops) /\ l <= k
      BY <1>3
    <3>2. t[1] = l /\ t[2] = h
      OBVIOUS
    <3>3. t \in All' /\ TaskOf(t)' = text[loops[l]].tasks[h]
      <4>1. l \in DOMAIN running' /\ t \in {l} \X DOMAIN text'[running'[l]].tasks
        BY <1>1, <1>3, <3>1 DEF loops
      <4>2. t \in All'
        BY <4>1 DEF All, Tasks
      <4>3. QED
        BY <1>1, <3>2, <4>2 DEF TaskOf, Tasks, loops
    <3> HIDE DEF t
    <3>4. QED
      BY <1>4, <3>1, <3>2, <3>3
  <2>2. 0 \in 0 .. Len(loops) /\ k \in 0 .. Len(loops)
    BY <1>3
  <2>3. InTurn(text, mem, loops)[k][x] = InTurn(text, mem, loops)[0][x]
    <3>1. Skipped(text, loops, 0, k, x)
      BY <2>1 DEF Skipped
    <3> HIDE DEF D
    <3>2. QED
      BY <1>1, <1>3, <1>4, <2>2, <3>1, InTurnFrame
  <2>4. InTurn(text, mem, loops)[0] = mem
    <3> HIDE DEF D
    <3>1. QED
      BY <1>1, <1>3, InTurnSteps
  <2>5. QED
    BY <2>3, <2>4
<1>5. InTurn(text, began, running)' = InTurn(text, mem, loops) /\ Elements' = D
  BY <1>1 DEF Elements, loops
<1>6. QED
  <2> HIDE DEF D
  <2>1. QED
    BY <1>1, <1>4, <1>5 DEF Computed, loops

\* When a wait ends the arrays hold what its loops compute in turn (AsRegistered of
\* Programs), in every order of the tasks that their declarations allow.
THEOREM Deterministic == ProgramSpec => []AsRegistered
<1>1. ProgramInit => SerialInv
  <2>1. SUFFICES ASSUME ProgramInit PROVE SerialInv
    OBVIOUS
  <2>2. prog \in DOMAIN Texts /\ mem = Texts[prog].init /\ began = mem /\ running = <<>>
    BY <2>1 DEF ProgramInit
  <2>3. mem \in Arrays(Elements)
    BY <2>2, TextsAssumption DEF Arrays, Elements
  <2>4. QED
    BY <2>1, <2>2, <2>3, ProgramBegins DEF SerialInv, Computed
<1>2. ASSUME SerialInv, [ProgramNext]_programVars PROVE SerialInv'
  <2>1. ProgramInv /\ ProgramInv' /\ mem \in Arrays(Elements) /\ began \in Arrays(Elements)
    BY <1>2, ProgramStep DEF SerialInv
  <2>2. CASE UNCHANGED <<prog, text, running, done, mem, began>>
    <3>1. All' = All /\ \A u : TaskOf(u)' = TaskOf(u)
      BY <2>2, AllKept
    <3>2. /\ InTurn(text, began, running)' = InTurn(text, began, running)
          /\ Elements' = Elements /\ Len(running)' = Len(running)
      BY <2>2 DEF Elements
    <3>3. Computed'
      BY <1>2, <2>2, <3>1, <3>2 DEF SerialInv, Computed
    <3>4. QED
      BY <2>1, <2>2, <3>2, <3>3 DEF SerialInv
  <2>3. CASE Spawn
    <3>1. Computed'
      BY <1>2, <2>3, SpawnComputes
    <3>2. Elements' = Elements /\ mem' = mem /\ began' = mem
      BY <2>3 DEF Spawn, Elements
    <3>3. QED
      BY <2>1, <3>1, <3>2 DEF SerialInv
  <2>4. CASE Waited
    <3>1. running' = <<>> /\ UNCHANGED <<prog, mem, began>>
      BY <2>4 DEF Waited
    <3>2. QED
      BY <2>1, <3>1 DEF SerialInv, Computed, Elements
  <2>5. ASSUME NEW t \in All, Run(t) PROVE SerialInv'
    <3>1. mem' \in Arrays(Elements) /\ Computed'
      BY <1>2, <2>5, RunComputes
    <3>2. Elements' = Elements /\ began' = began
      BY <2>5 DEF Run, Elements
    <3>3. QED
      BY <2>1, <3>1, <3>2 DEF SerialInv
  <2>6. DagStart \/ Register \/ UNCHANGED programVars =>
          UNCHANGED <<prog, text, running, done, mem, began>>
    BY DEF DagStart, Register, programVars
  <2>7. QED
    BY <1>2, <2>2, <2>3, <2>4, <2>5, <2>6 DEF ProgramNext
<1>3. SerialInv => AsRegistered
  <2>1. SUFFICES ASSUME SerialInv, running # <<>>, done = All
                 PROVE  mem = InTurn(text, began, running)[Len(running)]
    BY DEF AsRegistered
  <2> DEFINE n == Len(running)
             R == InTurn(text, began, running)
             D == Elements
  <2>2. TurnFits(text, running, D) /\ n \in Nat /\ began \in Arrays(D) /\ mem \in Arrays(D)
    BY <2>1, SegmentFits DEF SerialInv, ProgramInv, Kept, TurnFits
  <2>3. R[n] \in Arrays(D) /\ n \in 0 .. n
    BY <2>2, InTurnSteps
  <2>4. \A t \in All : t \in done /\ t[1] <= n
    BY <2>1, <2>2, TaskIs DEF SerialInv
  <2>5. \A x \in D : mem[x] = R[n][x]
    BY <2>1, <2>3, <2>4 DEF SerialInv, Computed
  <2> HIDE DEF R, n, D
  <2>6. mem = R[n]
    BY <2>2, <2>3, <2>5 DEF Arrays
  <2>7. QED
    BY <2>6 DEF R, n
<1>4. QED
  BY <1>1, <1>2, <1>3, PTL DEF ProgramSpec

-----------------------------------------------------------------------------
\* Flattened sequences.
Follows(f, first, n, Step) == f[0] = first /\ \A k \in 1 .. n : f[k] = Step[k][f[k - 1]]

LEMMA FollowingSteps ==
  ASSUME NEW S, NEW first \in S, NEW n \in Nat, NEW Step \in [1 .. n -> [S -> S]]
  PROVE  \E f \in [0 .. n -> S] : Follows(f, first, n, Step)
BY Steps DEF Follows

\* A flattened sequence, step by step.
LEMMA FlattenSteps ==
  ASSUME NEW S, NEW n \in Nat, NEW q \in [1 .. n -> Seq(S)]
  PROVE  \E A \in [0 .. n -> Seq(S)] :
           /\ A[0] = <<>> /\ \A k \in 1 .. n : A[k] = A[k - 1] \o q[k]
           /\ FlattenSeq(q) = A[n]
<1> DEFINE Step == [k \in 1 .. n |-> [x \in Seq(S) |-> x \o q[k]]]
           Rule(g) == [c \in 1 .. n |-> IF c = 1 THEN q[c] ELSE g[c - 1] \o q[c]]
           G == CHOOSE g : g = Rule(g)
           first == <<>>
<1>1. first \in Seq(S)
  OBVIOUS
<1>2. Step \in [1 .. n -> [Seq(S) -> Seq(S)]]
  <2>1. ASSUME NEW k \in 1 .. n, NEW x \in Seq(S) PROVE x \o q[k] \in Seq(S)
    <3>1. q[k] \in Seq(S)
      OBVIOUS
    <3>2. QED
      BY <3>1
  <2>2. QED
    BY <2>1
<1>3. PICK A \in [0 .. n -> Seq(S)] : A[0] = first /\ \A k \in 1 .. n : A[k] = Step[k][A[k - 1]]
  <2> HIDE DEF Step, first
  <2>1. \E A \in [0 .. n -> Seq(S)] : Follows(A, first, n, Step)
    BY <1>1, <1>2, FollowingSteps
  <2>2. QED
    BY <2>1 DEF Follows
<1>4. A[0] = <<>>
  BY <1>3
<1>5. ASSUME NEW k \in 1 .. n PROVE A[k] = A[k - 1] \o q[k]
  <2>1. k - 1 \in 0 .. n /\ A[k - 1] \in Seq(S)
    BY <1>3
  <2>2. A[k] = Step[k][A[k - 1]]
    <3> HIDE DEF Step
    <3>1. QED
      BY <1>3
  <2>3. QED
    BY <2>1, <2>2
<1> HIDE DEF Step
<1>6. q \in Seq(Seq(S)) /\ Len(q) = n
  OBVIOUS
<1>7. CASE n = 0
  <2>1. FlattenSeq(q) = q /\ q = <<>>
    BY <1>6, <1>7 DEF FlattenSeq
  <2>2. QED
    BY <1>4, <1>5, <1>7, <2>1
<1>8. CASE n # 0
  <2>1. FlattenSeq(q) = G[n]
    BY <1>6, <1>8 DEF FlattenSeq
  <2> DEFINE f == [c \in 1 .. n |-> A[c]]
  <2>2. f = Rule(f)
    <3>1. ASSUME NEW c \in 1 .. n PROVE A[c] = IF c = 1 THEN q[c] ELSE f[c - 1] \o q[c]
      <4>1. CASE c = 1
        <5>1. c - 1 = 0 /\ q[c] \in Seq(S)
          BY <4>1
        <5>2. A[c] = <<>> \o q[c]
          BY <1>4, <1>5, <5>1
        <5>3. QED
          BY <4>1, <5>1, <5>2
      <4>2. CASE c # 1
        <5>1. c - 1 \in 1 .. n
          BY <4>2
        <5>2. QED
          BY <1>5, <4>2, <5>1
      <4>3. QED
        BY <4>1, <4>2
    <3>2. QED
      BY <3>1
  <2> HIDE DEF f
  <2>3. G = Rule(G)
    BY <2>2
  <2> HIDE DEF G
  <2> DEFINE T == {k \in Nat : k + 1 \in 1 .. n => G[k + 1] = A[k + 1]}
  <2>4. G[1] = A[1]
    <3>1. G[1] = q[1] /\ q[1] \in Seq(S) /\ 1 \in 1 .. n
      BY <1>8, <2>3
    <3>2. A[1] = <<>> \o q[1]
      <4>1. 1 - 1 = 0
        OBVIOUS
      <4>2. A[1] = A[0] \o q[1]
        BY <1>5, <3>1, <4>1
      <4>3. QED
        BY <1>4, <4>2
    <3>3. QED
      BY <3>1, <3>2
  <2>5. 0 \in T
    BY <2>4
  <2>6. ASSUME NEW k \in Nat, k \in T PROVE k + 1 \in T
    <3>1. SUFFICES ASSUME (k + 1) + 1 \in 1 .. n PROVE G[(k + 1) + 1] = A[(k + 1) + 1]
      OBVIOUS
    <3> DEFINE c == (k + 1) + 1
    <3>2. c \in 1 .. n /\ c # 1 /\ c - 1 = k + 1 /\ c - 1 \in 1 .. n
      BY <3>1
    <3>3. G[c - 1] = A[c - 1]
      BY <2>6, <3>2
    <3>4. G[c] = G[c - 1] \o q[c]
      <4> HIDE DEF c
      <4>1. QED
        BY <2>3, <3>2
    <3>5. A[c] = A[c - 1] \o q[c]
      BY <1>5, <3>2
    <3>6. QED
      BY <3>3, <3>4, <3>5
  <2> HIDE DEF T
  <2>7. \A k \in Nat : k \in T
    BY <2>5, <2>6, Induction
  <2>8. n - 1 \in Nat /\ (n - 1) + 1 = n /\ n \in 1 .. n
    BY <1>8
  <2>9. G[n] = A[n]
    BY <2>7, <2>8 DEF T
  <2>10. QED
    BY <1>4, <1>5, <2>1, <2>9
<1>9. QED
  BY <1>7, <1>8

LEMMA FlattenType ==
  ASSUME NEW S, NEW n \in Nat, NEW q \in [1 .. n -> Seq(S)]
  PROVE  FlattenSeq(q) \in Seq(S) /\ (n = 0 => FlattenSeq(q) = <<>>)
<1>1. PICK A \in [0 .. n -> Seq(S)] :
        /\ A[0] = <<>> /\ \A k \in 1 .. n : A[k] = A[k - 1] \o q[k]
        /\ FlattenSeq(q) = A[n]
  BY FlattenSteps
<1>2. QED
  BY <1>1

\* One more at the end.
LEMMA FlattenLast ==
  ASSUME NEW S, NEW n \in Nat, NEW q \in [1 .. n + 1 -> Seq(S)]
  PROVE  FlattenSeq(q) = FlattenSeq([k \in 1 .. n |-> q[k]]) \o q[n + 1]
<1> DEFINE r == [k \in 1 .. n |-> q[k]]
<1>1. n + 1 \in Nat /\ (n + 1) - 1 = n /\ n + 1 \in 1 .. n + 1 /\ r \in [1 .. n -> Seq(S)]
  OBVIOUS
<1>2. PICK A \in [0 .. n + 1 -> Seq(S)] :
        /\ A[0] = <<>> /\ \A k \in 1 .. n + 1 : A[k] = A[k - 1] \o q[k]
        /\ FlattenSeq(q) = A[n + 1]
  BY <1>1, FlattenSteps
<1>3. PICK B \in [0 .. n -> Seq(S)] :
        /\ B[0] = <<>> /\ \A k \in 1 .. n : B[k] = B[k - 1] \o r[k]
        /\ FlattenSeq(r) = B[n]
  <2> HIDE DEF r
  <2>1. QED
    BY <1>1, FlattenSteps
<1> DEFINE T == {k \in Nat : k <= n => A[k] = B[k]}
<1>4. 0 \in T
  BY <1>2, <1>3
<1>5. ASSUME NEW k \in Nat, k \in T PROVE k + 1 \in T
  <2>1. SUFFICES ASSUME k + 1 <= n PROVE A[k + 1] = B[k + 1]
    OBVIOUS
  <2>2. k <= n /\ k + 1 \in 1 .. n /\ k + 1 \in 1 .. n + 1 /\ (k + 1) - 1 = k
    BY <2>1
  <2>3. A[k + 1] = A[k] \o q[k + 1]
    BY <1>2, <2>2
  <2>4. B[k + 1] = B[k] \o r[k + 1]
    BY <1>3, <2>2
  <2>5. QED
    BY <1>5, <2>2, <2>3, <2>4
<1> HIDE DEF T
<1>6. \A k \in Nat : k \in T
  BY <1>4, <1>5, Induction
<1>7. A[n] = B[n]
  BY <1>6 DEF T
<1>8. A[n + 1] = A[n] \o q[n + 1]
  BY <1>1, <1>2
<1>9. QED
  BY <1>2, <1>3, <1>7, <1>8

-----------------------------------------------------------------------------
(***************************************************************************)
(* Settings.  A core list is cut into its numbers, each with the rest of   *)
(* the range it ends; pieces of one range follow each other, and all lie   *)
(* in it.                                                                  *)
(***************************************************************************)

\* What is listed from the k-th number.
Piece(list, k) ==
  IF k - 1 \in list.dash THEN list.num[k - 1] + 1 .. list.num[k] ELSE list.num[k] .. list.num[k]

\* A list of N numbers as get_env_settings accepts it.
Listed(list, N) ==
  /\ list.num \in [1 .. N -> Nat] /\ list.dash \subseteq 1 .. N - 1
  /\ \A k \in list.dash : list.num[k] < list.num[k + 1]

Linked(list, j, k) == \A x \in j .. k - 1 : x \in list.dash

LEMMA ListType ==
  ASSUME NEW list \in CoreLists, \A k \in list.dash : list.num[k] < list.num[k + 1]
  PROVE  \E N \in Nat \ {0} : Listed(list, N)
<1>1. PICK N \in 1 .. ListLen : list \in [num : [1 .. N -> CoreNum], dash : SUBSET (1 .. N - 1)]
  BY DEF CoreLists
<1>2. list.num \in [1 .. N -> CoreNum] /\ list.dash \subseteq 1 .. N - 1
  BY <1>1
<1>3. list.num \in [1 .. N -> Nat] /\ N \in Nat \ {0}
  <2>1. CoreNum \subseteq Nat /\ ListLen \in Nat
    BY StartupAssumption
  <2>2. N \in Nat \ {0}
    BY <2>1
  <2>3. \A k \in 1 .. N : list.num[k] \in Nat
    BY <1>2, <2>1
  <2>4. QED
    BY <1>2, <2>2, <2>3
<1>4. QED
  BY <1>2, <1>3 DEF Listed

\* Numbers that are joined are in order.
LEMMA Ascending ==
  ASSUME NEW list, NEW N \in Nat, Listed(list, N), NEW j \in 1 .. N
  PROVE  \A k \in j .. N : Linked(list, j, k) => list.num[j] <= list.num[k]
<1> DEFINE T == {d \in Nat : j + d <= N /\ Linked(list, j, j + d) => list.num[j] <= list.num[j + d]}
<1>1. \A k \in 1 .. N : list.num[k] \in Nat
  BY DEF Listed
<1>2. 0 \in T
  BY <1>1
<1>3. ASSUME NEW d \in Nat, d \in T PROVE d + 1 \in T
  <2>1. SUFFICES ASSUME j + (d + 1) <= N, Linked(list, j, j + (d + 1))
                 PROVE  list.num[j] <= list.num[j + (d + 1)]
    OBVIOUS
  <2>2. j + d \in 1 .. N /\ j + (d + 1) \in 1 .. N /\ (j + d) + 1 = j + (d + 1)
    BY <2>1
  <2>3. j + d \in list.dash /\ Linked(list, j, j + d)
    BY <2>1 DEF Linked
  <2>4. list.num[j] <= list.num[j + d]
    BY <1>3, <2>2, <2>3
  <2>5. list.num[j + d] < list.num[j + (d + 1)]
    BY <2>2, <2>3 DEF Listed
  <2>6. QED
    BY <1>1, <2>2, <2>4, <2>5
<1> HIDE DEF T
<1>4. \A d \in Nat : d \in T
  BY <1>2, <1>3, Induction
<1>5. ASSUME NEW k \in j .. N, Linked(list, j, k) PROVE list.num[j] <= list.num[k]
  <2>1. k - j \in Nat /\ j + (k - j) = k
    OBVIOUS
  <2>2. k - j \in T
    BY <1>4, <2>1
  <2>3. j + (k - j) <= N /\ Linked(list, j, j + (k - j)) => list.num[j] <= list.num[j + (k - j)]
    BY <2>2 DEF T
  <2>4. QED
    BY <1>5, <2>1, <2>3
<1>6. QED
  BY <1>5

\* Where the range of a number begins, and where it ends.
LEMMA RangeBegins ==
  ASSUME NEW list, NEW N \in Nat, Listed(list, N), NEW k \in 1 .. N
  PROVE  \E s \in 1 .. k : s - 1 \notin list.dash /\ Linked(list, s, k)
<1> DEFINE T == {d \in Nat : d + 1 <= N =>
                   \E s \in 1 .. d + 1 : s - 1 \notin list.dash /\ Linked(list, s, d + 1)}
<1>1. 0 \in T
  <2>1. 1 - 1 \notin list.dash /\ Linked(list, 1, 0 + 1)
    BY DEF Listed, Linked
  <2>2. QED
    BY <2>1
<1>2. ASSUME NEW d \in Nat, d \in T PROVE d + 1 \in T
  <2>1. SUFFICES ASSUME (d + 1) + 1 <= N
                 PROVE  \E s \in 1 .. (d + 1) + 1 :
                          s - 1 \notin list.dash /\ Linked(list, s, (d + 1) + 1)
    OBVIOUS
  <2>2. CASE d + 1 \in list.dash
    <3>1. PICK s \in 1 .. d + 1 : s - 1 \notin list.dash /\ Linked(list, s, d + 1)
      BY <1>2, <2>1
    <3>2. Linked(list, s, (d + 1) + 1)
      <4>1. \A x \in s .. ((d + 1) + 1) - 1 : x = d + 1 \/ x \in s .. (d + 1) - 1
        OBVIOUS
      <4>2. QED
        BY <2>2, <3>1, <4>1 DEF Linked
    <3>3. s \in 1 .. (d + 1) + 1
      OBVIOUS
    <3>4. QED
      BY <3>1, <3>2, <3>3
  <2>3. CASE d + 1 \notin list.dash
    <3>1. Linked(list, (d + 1) + 1, (d + 1) + 1)
      BY DEF Linked
    <3>2. ((d + 1) + 1) - 1 = d + 1 /\ (d + 1) + 1 \in 1 .. (d + 1) + 1
      OBVIOUS
    <3>3. QED
      BY <2>3, <3>1, <3>2
  <2>4. QED
    BY <2>2, <2>3
<1> HIDE DEF T
<1>3. \A d \in Nat : d \in T
  BY <1>1, <1>2, Induction
<1>4. k - 1 \in Nat /\ (k - 1) + 1 = k /\ k <= N
  OBVIOUS
<1>5. k - 1 \in T
  BY <1>3, <1>4
<1>6. (k - 1) + 1 <= N =>
        \E s \in 1 .. (k - 1) + 1 : s - 1 \notin list.dash /\ Linked(list, s, (k - 1) + 1)
  BY <1>5 DEF T
<1>7. QED
  BY <1>4, <1>6

LEMMA RangeEnds ==
  ASSUME NEW list, NEW N \in Nat, Listed(list, N), NEW s \in 1 .. N
  PROVE  \E j \in s .. N : j \notin list.dash /\ Linked(list, s, j)
<1> DEFINE T == {d \in Nat : N - d >= 1 =>
                   \E j \in N - d .. N : j \notin list.dash /\ Linked(list, N - d, j)}
<1>1. 0 \in T
  <2>1. N - 0 = N /\ N \notin list.dash /\ Linked(list, N, N)
    BY DEF Listed, Linked
  <2>2. N >= 1 => N \in N - 0 .. N
    OBVIOUS
  <2>3. QED
    BY <2>1, <2>2
<1>2. ASSUME NEW d \in Nat, d \in T PROVE d + 1 \in T
  <2> DEFINE r == N - (d + 1)
  <2>1. SUFFICES ASSUME r >= 1 PROVE \E j \in r .. N : j \notin list.dash /\ Linked(list, r, j)
    OBVIOUS
  <2>2. r \in 1 .. N /\ N - d = r + 1 /\ N - d >= 1
    BY <2>1
  <2> HIDE DEF r
  <2>3. CASE r \in list.dash
    <3>1. PICK j \in r + 1 .. N : j \notin list.dash /\ Linked(list, r + 1, j)
      BY <1>2, <2>2
    <3>2. Linked(list, r, j) /\ j \in r .. N
      <4>1. \A x \in r .. j - 1 : x = r \/ x \in r + 1 .. j - 1
        BY <2>2
      <4>2. j \in r .. N
        BY <2>2
      <4>3. QED
        BY <2>3, <3>1, <4>1, <4>2 DEF Linked
    <3>3. QED
      BY <3>1, <3>2
  <2>4. CASE r \notin list.dash
    <3>1. Linked(list, r, r) /\ r \in r .. N
      BY <2>2 DEF Linked
    <3>2. QED
      BY <2>4, <3>1
  <2>5. QED
    BY <2>3, <2>4
<1> HIDE DEF T
<1>3. \A d \in Nat : d \in T
  BY <1>1, <1>2, Induction
<1>4. N - s \in Nat /\ N - (N - s) = s /\ s >= 1
  OBVIOUS
<1>5. N - s \in T
  BY <1>3, <1>4
<1>6. N - (N - s) >= 1 =>
        \E j \in N - (N - s) .. N : j \notin list.dash /\ Linked(list, N - (N - s), j)
  BY <1>5 DEF T
<1>7. QED
  BY <1>4, <1>6

\* A piece lies in the range its number belongs to.
LEMMA PieceInRange ==
  ASSUME NEW list, NEW N \in Nat, Listed(list, N), NEW k \in 1 .. N, NEW s \in 1 .. k,
         s - 1 \notin list.dash, Linked(list, s, k)
  PROVE  s \in DOMAIN Ranges(list) /\ Piece(list, k) \subseteq Ranges(list)[s]
<1> DEFINE Last1 == CHOOSE j \in s .. Len(list.num) :
                      j \notin list.dash /\ \A x \in s .. j - 1 : x \in list.dash
<1>1. DOMAIN list.num = 1 .. N /\ Len(list.num) = N /\ \A x \in 1 .. N : list.num[x] \in Nat
  BY DEF Listed
<1>2. s \in 1 .. N
  OBVIOUS
<1>3. s \in DOMAIN Ranges(list) /\ Ranges(list)[s] = list.num[s] .. list.num[Last1]
  BY <1>1, <1>2 DEF Ranges
<1>4. Last1 \in s .. N /\ Last1 \notin list.dash /\ Linked(list, s, Last1)
  <2>1. \E j \in s .. N : j \notin list.dash /\ \A x \in s .. j - 1 : x \in list.dash
    BY <1>2, RangeEnds DEF Linked
  <2>2. QED
    BY <1>1, <2>1 DEF Linked
<1> HIDE DEF Last1
<1>5. k <= Last1
  BY <1>4 DEF Linked
<1>6. Linked(list, k, Last1) /\ Last1 \in k .. N
  BY <1>4, <1>5 DEF Linked
<1>7. list.num[k] <= list.num[Last1]
  BY <1>6, Ascending
<1>8. list.num[s] <= list.num[k]
  <2>1. k \in s .. N
    OBVIOUS
  <2>2. QED
    BY <1>2, <2>1, Ascending
<1>9. Last1 \in 1 .. N
  BY <1>4
<1>10. CASE k - 1 \in list.dash
  <2>1. s <= k - 1
    <3>1. s # k
      BY <1>10
    <3>2. QED
      BY <3>1
  <2>2. Linked(list, s, k - 1) /\ k - 1 \in s .. N /\ k - 1 \in 1 .. N
    BY <2>1 DEF Linked
  <2>3. list.num[s] <= list.num[k - 1]
    BY <1>2, <2>2, Ascending
  <2>4. Piece(list, k) = list.num[k - 1] + 1 .. list.num[k]
    BY <1>10 DEF Piece
  <2>5. QED
    BY <1>1, <1>2, <1>3, <1>7, <1>9, <2>2, <2>3, <2>4
<1>11. CASE k - 1 \notin list.dash
  <2>1. Piece(list, k) = list.num[k] .. list.num[k]
    BY <1>11 DEF Piece
  <2>2. QED
    BY <1>1, <1>2, <1>3, <1>7, <1>8, <1>9, <2>1
<1>12. QED
  BY <1>10, <1>11

\* No core is in two pieces of a list that names none twice.
LEMMA PiecesApart ==
  ASSUME NEW list, NEW N \in Nat, Listed(list, N), NamedOnce(list),
         NEW j \in 1 .. N, NEW k \in 1 .. N, j < k
  PROVE  Piece(list, j) \cap Piece(list, k) = {}
<1>1. PICK s \in 1 .. j : s - 1 \notin list.dash /\ Linked(list, s, j)
  BY RangeBegins
<1>2. PICK r \in 1 .. k : r - 1 \notin list.dash /\ Linked(list, r, k)
  BY RangeBegins
<1>3. /\ s \in DOMAIN Ranges(list) /\ Piece(list, j) \subseteq Ranges(list)[s]
      /\ r \in DOMAIN Ranges(list) /\ Piece(list, k) \subseteq Ranges(list)[r]
  BY <1>1, <1>2, PieceInRange
<1>4. CASE s # r
  BY <1>3, <1>4 DEF NamedOnce
<1>5. CASE s = r
  <2>1. k - 1 \in list.dash /\ Linked(list, j, k - 1) /\ k - 1 \in j .. N /\ k - 1 \in 1 .. N
    BY <1>2, <1>5 DEF Linked
  <2>2. list.num[j] <= list.num[k - 1]
    BY <2>1, Ascending
  <2>3. Piece(list, k) = list.num[k - 1] + 1 .. list.num[k]
    BY <2>1 DEF Piece
  <2>4. list.num[j] \in Nat /\ list.num[k - 1] \in Nat /\ list.num[k] \in Nat
    BY <2>1 DEF Listed
  <2>5. \A x \in Piece(list, j) : x \in Int /\ x <= list.num[j]
    <3>1. j - 1 \in list.dash => list.num[j - 1] \in Nat
      BY DEF Listed
    <3>2. QED
      BY <2>4, <3>1 DEF Piece
  <2>6. \A x \in Piece(list, k) : x \in Int /\ list.num[k - 1] < x
    BY <2>3, <2>4
  <2>7. QED
    BY <2>2, <2>4, <2>5, <2>6
<1>6. QED
  BY <1>4, <1>5

NoRepeats(ids) == \A x, y \in 1 .. Len(ids) : x # y => ids[x] # ids[y]

LEMMA RestType ==
  ASSUME NEW a \in Nat, NEW b \in Nat, a < b
  PROVE  /\ RangeRest(a, b) \in Seq(Nat) /\ Len(RangeRest(a, b)) = b - a
         /\ \A x \in 1 .. b - a : RangeRest(a, b)[x] = a + x
BY DEF RangeRest

\* What one number of the list adds to the cores.
LEMMA PieceIds ==
  ASSUME NEW list, NEW N \in Nat, Listed(list, N), NEW k \in 1 .. N,
         NEW q, q = IF k - 1 \in list.dash THEN RangeRest(list.num[k - 1], list.num[k])
                    ELSE <<list.num[k]>>
  PROVE  /\ q \in Seq(Nat) /\ Len(q) # 0 /\ NoRepeats(q)
         /\ \A x \in 1 .. Len(q) : q[x] \in Piece(list, k)
<1>1. list.num[k] \in Nat
  BY DEF Listed
<1>2. CASE k - 1 \in list.dash
  <2> DEFINE a == list.num[k - 1]
             b == list.num[k]
  <2>1. a \in Nat /\ b \in Nat /\ a < b
    <3>1. k - 1 \in 1 .. N /\ (k - 1) + 1 = k
      BY <1>2 DEF Listed
    <3>2. QED
      BY <1>1, <1>2, <3>1 DEF Listed
  <2>2. q = RangeRest(a, b) /\ Piece(list, k) = a + 1 .. b
    BY <1>2 DEF Piece
  <2> HIDE DEF a, b
  <2>3. q \in Seq(Nat) /\ Len(q) = b - a /\ \A x \in 1 .. b - a : q[x] = a + x
    BY <2>1, <2>2, RestType
  <2>4. b - a \in Nat /\ b - a # 0
    BY <2>1
  <2>5. NoRepeats(q)
    BY <2>1, <2>3, <2>4 DEF NoRepeats
  <2>6. \A x \in 1 .. Len(q) : q[x] \in Piece(list, k)
    BY <2>1, <2>2, <2>3, <2>4
  <2>7. QED
    BY <2>3, <2>4, <2>5, <2>6
<1>3. CASE k - 1 \notin list.dash
  <2> DEFINE v == list.num[k]
  <2>1. q = <<v>> /\ Piece(list, k) = v .. v /\ v \in Nat
    BY <1>1, <1>3 DEF Piece
  <2> HIDE DEF v
  <2>2. <<v>> \in Seq(Nat) /\ Len(<<v>>) = 1 /\ <<v>>[1] = v
    BY <2>1
  <2>3. q \in Seq(Nat) /\ Len(q) = 1 /\ q[1] = v
    BY <2>1, <2>2
  <2>4. \A x \in 1 .. Len(q) : x = 1
    <3>1. \A x \in 1 .. 1 : x = 1
      OBVIOUS
    <3>2. Len(q) = 1
      BY <2>3
    <3>3. QED
      BY <3>1, <3>2
  <2>5. NoRepeats(q)
    BY <2>4 DEF NoRepeats
  <2>6. \A x \in 1 .. Len(q) : q[x] \in Piece(list, k)
    BY <2>1, <2>3, <2>4
  <2>7. QED
    BY <2>3, <2>5, <2>6
<1>4. QED
  BY <1>2, <1>3

\* The cores of a list: some, all of them named, and no one twice.
LEMMA IdsOfList ==
  ASSUME NEW list, NEW N \in Nat \ {0}, Listed(list, N)
  PROVE  /\ CoreIds(list) \in Seq(Nat) /\ Len(CoreIds(list)) # 0
         /\ \A x \in 1 .. Len(CoreIds(list)) : CoreIds(list)[x] \in Named(list)
         /\ NamedOnce(list) => NoRepeats(CoreIds(list))
<1> DEFINE q == [k \in 1 .. N |-> IF k - 1 \in list.dash
                                  THEN RangeRest(list.num[k - 1], list.num[k])
                                  ELSE <<list.num[k]>>]
           F(k) == FlattenSeq([x \in 1 .. k |-> q[x]])
           Ok(k) == /\ F(k) \in Seq(Nat) /\ (k # 0 => Len(F(k)) # 0)
                    /\ \A x \in 1 .. Len(F(k)) : \E j \in 1 .. k : F(k)[x] \in Piece(list, j)
                    /\ NamedOnce(list) => NoRepeats(F(k))
           T == {k \in Nat : k <= N => Ok(k)}
<1>1. ASSUME NEW k \in 1 .. N
      PROVE  /\ q[k] \in Seq(Nat) /\ Len(q[k]) # 0 /\ NoRepeats(q[k])
             /\ \A x \in 1 .. Len(q[k]) : q[k][x] \in Piece(list, k)
  <2>1. q[k] = IF k - 1 \in list.dash THEN RangeRest(list.num[k - 1], list.num[k])
               ELSE <<list.num[k]>>
    OBVIOUS
  <2> HIDE DEF q
  <2>2. QED
    BY <2>1, PieceIds
<1>2. CoreIds(list) = F(N)
  <2>1. DOMAIN list.num = 1 .. N
    BY DEF Listed
  <2>2. [x \in 1 .. N |-> q[x]] = q
    OBVIOUS
  <2>3. QED
    BY <2>1, <2>2 DEF CoreIds
<1>3. q \in [1 .. N -> Seq(Nat)]
  <2>1. q = [k \in 1 .. N |-> q[k]]
    OBVIOUS
  <2> HIDE DEF q
  <2>2. QED
    BY <1>1, <2>1
<1> HIDE DEF q
<1>4. Ok(0)
  <2> DEFINE r == [x \in 1 .. 0 |-> q[x]]
  <2>1. r \in [1 .. 0 -> Seq(Nat)]
    OBVIOUS
  <2> HIDE DEF r
  <2>2. FlattenSeq(r) = <<>>
    BY <2>1, FlattenType
  <2>3. F(0) = <<>>
    BY <2>2 DEF r
  <2> DEFINE e == F(0)
  <2> HIDE DEF F
  <2>4. e = <<>>
    BY <2>3
  <2> HIDE DEF e
  <2>5. e \in Seq(Nat) /\ Len(e) = 0
    BY <2>4
  <2>6. e \in Seq(Nat) /\ (\A x \in 1 .. Len(e) : FALSE) /\ NoRepeats(e)
    BY <2>5 DEF NoRepeats
  <2>7. QED
    BY <2>6 DEF e
<1>5. ASSUME NEW k \in Nat, k + 1 <= N, Ok(k) PROVE Ok(k + 1)
  <2> DEFINE r == [x \in 1 .. k + 1 |-> q[x]]
             f == F(k)
             p == q[k + 1]
             g == F(k + 1)
  <2>1. k + 1 \in 1 .. N /\ k \in Nat
    BY <1>5
  <2>2. /\ r \in [1 .. k + 1 -> Seq(Nat)] /\ r[k + 1] = q[k + 1]
        /\ [x \in 1 .. k |-> r[x]] = [x \in 1 .. k |-> q[x]]
    <3>1. \A x \in 1 .. k + 1 : x \in 1 .. N /\ q[x] \in Seq(Nat)
      BY <1>3, <1>5
    <3>2. r \in [1 .. k + 1 -> Seq(Nat)]
      BY <3>1
    <3>3. \A x \in 1 .. k + 1 : r[x] = q[x]
      OBVIOUS
    <3>4. k + 1 \in 1 .. k + 1 /\ \A x \in 1 .. k : x \in 1 .. k + 1
      BY <2>1
    <3>5. \A x \in 1 .. k : r[x] = q[x]
      BY <3>3, <3>4
    <3> HIDE DEF r
    <3>6. QED
      BY <3>2, <3>3, <3>4, <3>5
  <2>3. FlattenSeq(r) = FlattenSeq([x \in 1 .. k |-> r[x]]) \o r[k + 1]
    <3> HIDE DEF r
    <3>1. QED
      BY <2>2, FlattenLast
  <2>4. g = f \o p
    BY <2>2, <2>3
  <2>5. /\ p \in Seq(Nat) /\ Len(p) # 0 /\ NoRepeats(p)
        /\ \A x \in 1 .. Len(p) : p[x] \in Piece(list, k + 1)
    BY <1>1, <2>1
  <2>6. /\ f \in Seq(Nat)
        /\ \A x \in 1 .. Len(f) : \E j \in 1 .. k : f[x] \in Piece(list, j)
        /\ NamedOnce(list) => NoRepeats(f)
    BY <1>5
  <2> HIDE DEF F, r, f, p, g
  <2>7. /\ g \in Seq(Nat) /\ Len(g) = Len(f) + Len(p) /\ Len(f) \in Nat /\ Len(p) \in Nat
        /\ \A x \in 1 .. Len(g) :
             \/ x \in 1 .. Len(f) /\ g[x] = f[x]
             \/ x - Len(f) \in 1 .. Len(p) /\ x > Len(f) /\ g[x] = p[x - Len(f)]
    BY <2>4, <2>5, <2>6, ConcatProperties
  <2>8. Len(g) # 0
    BY <2>5, <2>7
  <2>9. ASSUME NEW x \in 1 .. Len(g) PROVE \E j \in 1 .. k + 1 : g[x] \in Piece(list, j)
    <3>1. CASE x \in 1 .. Len(f) /\ g[x] = f[x]
      <4>1. PICK j \in 1 .. k : f[x] \in Piece(list, j)
        BY <2>6, <3>1
      <4>2. j \in 1 .. k + 1
        OBVIOUS
      <4>3. QED
        BY <3>1, <4>1, <4>2
    <3>2. CASE x - Len(f) \in 1 .. Len(p) /\ g[x] = p[x - Len(f)]
      <4>1. k + 1 \in 1 .. k + 1
        OBVIOUS
      <4>2. QED
        BY <2>5, <3>2, <4>1
    <3>3. QED
      BY <2>7, <3>1, <3>2
  <2>10. ASSUME NamedOnce(list) PROVE NoRepeats(g)
    <3>1. SUFFICES ASSUME NEW x \in 1 .. Len(g), NEW y \in 1 .. Len(g), x < y PROVE g[x] # g[y]
      <4>1. \A x, y \in 1 .. Len(g) : x # y => x < y \/ y < x
        BY <2>7
      <4>2. QED
        BY <3>1, <4>1 DEF NoRepeats
    <3>2. CASE y \in 1 .. Len(f) /\ g[y] = f[y]
      <4>1. x \in 1 .. Len(f) /\ g[x] = f[x]
        BY <2>7, <3>1, <3>2
      <4>2. QED
        BY <2>6, <2>10, <3>1, <3>2, <4>1 DEF NoRepeats
    <3>3. CASE y - Len(f) \in 1 .. Len(p) /\ y > Len(f) /\ g[y] = p[y - Len(f)]
      <4>1. CASE x \in 1 .. Len(f) /\ g[x] = f[x]
        <5>1. PICK j \in 1 .. k : f[x] \in Piece(list, j)
          BY <2>6, <4>1
        <5>2. p[y - Len(f)] \in Piece(list, k + 1)
          BY <2>5, <3>3
        <5>3. j \in 1 .. N /\ j < k + 1 /\ N \in Nat
          BY <1>5
        <5>4. Piece(list, j) \cap Piece(list, k + 1) = {}
          BY <2>1, <2>10, <5>3, PiecesApart
        <5>5. QED
          BY <3>3, <4>1, <5>1, <5>2, <5>4
      <4>2. CASE x - Len(f) \in 1 .. Len(p) /\ x > Len(f) /\ g[x] = p[x - Len(f)]
        <5>1. x - Len(f) # y - Len(f)
          BY <2>7, <3>1
        <5>2. QED
          BY <2>5, <3>3, <4>2, <5>1 DEF NoRepeats
      <4>3. QED
        BY <2>7, <4>1, <4>2
    <3>4. QED
      BY <2>7, <3>2, <3>3
  <2>11. QED
    BY <2>7, <2>8, <2>9, <2>10 DEF g
<1> HIDE DEF F
<1>6. 0 \in T
  BY <1>4
<1>7. ASSUME NEW k \in Nat, k \in T PROVE k + 1 \in T
  <2>1. k + 1 <= N => k <= N
    OBVIOUS
  <2> HIDE DEF Ok
  <2>2. QED
    BY <1>5, <1>7, <2>1
<1> HIDE DEF T
<1>8. \A k \in Nat : k \in T
  BY <1>6, <1>7, Induction
<1>9. Ok(N)
  <2> HIDE DEF Ok
  <2>1. QED
    BY <1>8 DEF T
<1>10. ASSUME NEW j \in 1 .. N PROVE Piece(list, j) \subseteq Named(list)
  <2>1. N \in Nat
    OBVIOUS
  <2>2. PICK s \in 1 .. j : s - 1 \notin list.dash /\ Linked(list, s, j)
    BY <2>1, RangeBegins
  <2>3. s \in DOMAIN Ranges(list) /\ Piece(list, j) \subseteq Ranges(list)[s]
    BY <2>1, <2>2, PieceInRange
  <2>4. QED
    BY <2>3 DEF Named
<1>11. QED
  BY <1>2, <1>9, <1>10

-----------------------------------------------------------------------------
LEMMA Quotient ==
  ASSUME NEW a \in Nat, NEW b \in Nat \ {0}
  PROVE  a \div b \in Nat /\ b * (a \div b) <= a
OBVIOUS

\* The entry of core_ids for a sub-thread.
Entry(group, slot, sub) == slot * group + sub

LEMMA EntryIs ==
  ASSUME NEW n \in Nat, NEW group \in Nat \ {0}, NEW slot \in 0 .. n - 1, NEW sub \in 0 .. group - 1
  PROVE  Entry(group, slot, sub) \in 0 .. n * group - 1
<1> DEFINE a == slot * group
           b == (slot + 1) * group
           c == (n - (slot + 1)) * group
           d == n * group
<1>1. n - (slot + 1) \in Nat /\ slot \in Nat
  OBVIOUS
<1>2. a \in Nat /\ b \in Nat /\ c \in Nat /\ d \in Nat
  BY <1>1
<1>3. b = a + group /\ c = d - b
  BY <1>1
<1>4. Entry(group, slot, sub) = a + sub
  BY DEF Entry
<1> HIDE DEF a, b, c, d
<1>5. a + sub \in 0 .. d - 1
  BY <1>2, <1>3
<1>6. QED
  BY <1>4, <1>5 DEF d

\* Two sub-threads have different entries.
LEMMA EntriesApart ==
  ASSUME NEW group \in Nat \ {0}, NEW s1 \in Nat, NEW s2 \in Nat,
         NEW b1 \in 0 .. group - 1, NEW b2 \in 0 .. group - 1,
         Entry(group, s1, b1) = Entry(group, s2, b2)
  PROVE  s1 = s2 /\ b1 = b2
<1>1. ASSUME NEW x \in Nat, NEW y \in Nat, NEW c \in 0 .. group - 1, NEW d \in 0 .. group - 1, x < y
      PROVE  x * group + c < y * group + d
  <2>1. y - (x + 1) \in Nat
    BY <1>1
  <2>2. (y - (x + 1)) * group \in Nat
    BY <2>1
  <2>3. (y - (x + 1)) * group = y * group - x * group - group
    OBVIOUS
  <2>4. x * group \in Nat /\ y * group \in Nat
    OBVIOUS
  <2>5. QED
    BY <2>2, <2>3, <2>4
<1>2. s1 * group + b1 = s2 * group + b2
  BY DEF Entry
<1>3. ~(s1 < s2) /\ ~(s2 < s1)
  <2>1. s1 * group \in Nat /\ s2 * group \in Nat
    OBVIOUS
  <2>2. s1 < s2 => s1 * group + b1 < s2 * group + b2
    BY <1>1
  <2>3. s2 < s1 => s2 * group + b2 < s1 * group + b1
    BY <1>1
  <2>4. QED
    BY <1>2, <2>1, <2>2, <2>3
<1>4. s1 = s2
  BY <1>3
<1>5. s1 * group = s2 * group /\ s1 * group \in Nat
  BY <1>4
<1>6. QED
  BY <1>2, <1>4, <1>5

\* The cores of a start: the first entries of core_ids, for as many threads as there are.
LEMMA BoundToIs ==
  ASSUME NEW n \in Nat, NEW group \in Nat \ {0}, NEW ids \in Seq(Nat),
         n * group <= Len(ids), n * group \in 0 .. MAX_THREADS,
         NEW slot \in 0 .. n - 1, NEW sub \in 0 .. group - 1
  PROVE  /\ Entry(group, slot, sub) + 1 \in 1 .. Len(ids) /\ Entry(group, slot, sub) \in Nat
         /\ BoundTo(Started(n, group, ids), slot, sub) = ids[Entry(group, slot, sub) + 1]
<1> DEFINE at == Entry(group, slot, sub)
           all == n * group
<1>1. at \in 0 .. all - 1
  BY EntryIs
<1>2. Started(n, group, ids).group = group
  BY DEF Started
<1>3. BoundTo(Started(n, group, ids), slot, sub) = Started(n, group, ids).core[at]
  BY <1>2 DEF BoundTo, Entry
<1>4. all <= Len(ids) /\ all \in 0 .. MAX_THREADS /\ Len(ids) \in Nat /\ MAX_THREADS \in Nat
  BY StartupAssumption
<1> HIDE DEF at, all
<1>5. at \in 0 .. MAX_THREADS - 1 /\ at < Len(ids) /\ at \in Nat
  BY <1>1, <1>4
<1>6. Started(n, group, ids).core[at] = ids[at + 1]
  BY <1>5 DEF Started
<1>7. at + 1 \in 1 .. Len(ids)
  BY <1>4, <1>5
<1>8. QED
  BY <1>3, <1>5, <1>6, <1>7 DEF at

\* Cores of a list that is long enough, whatever the threads and groups.
LEMMA CoresApart ==
  ASSUME NEW n \in Nat, NEW group \in Nat \ {0}, NEW ids \in Seq(Nat), NEW env,
         n * group \in 0 .. MAX_THREADS,
         env.list # Unset => /\ \A x \in 1 .. Len(ids) : ids[x] \in Named(env.list)
                             /\ NamedOnce(env.list) => NoRepeats(ids)
  PROVE  BoundApart(Started(n, group, ids), env)
<1> DEFINE st == Started(n, group, ids)
           spots == (0 .. n - 1) \X (0 .. group - 1)
           all == n * group
           core(p) == BoundTo(st, p[1], p[2])
           at(p) == Entry(group, p[1], p[2])
<1>1. st.threads = n /\ st.group = group /\ st.listed = Len(ids) /\ st.ok
  BY DEF Started
<1>2. ASSUME all <= Len(ids), NEW p \in spots
      PROVE  at(p) \in Nat /\ at(p) + 1 \in 1 .. Len(ids) /\ core(p) = ids[at(p) + 1]
  <2>1. p[1] \in 0 .. n - 1 /\ p[2] \in 0 .. group - 1
    OBVIOUS
  <2>2. QED
    BY <1>2, <2>1, BoundToIs
<1>3. ASSUME NEW p \in spots, NEW q \in spots, at(p) = at(q) PROVE p = q
  <2>1. p[1] \in Nat /\ q[1] \in Nat /\ p[2] \in 0 .. group - 1 /\ q[2] \in 0 .. group - 1
    OBVIOUS
  <2>2. p[1] = q[1] /\ p[2] = q[2]
    BY <1>3, <2>1, EntriesApart
  <2>3. p = <<p[1], p[2]>> /\ q = <<q[1], q[2]>>
    OBVIOUS
  <2>4. QED
    BY <2>2, <2>3
<1> HIDE DEF core, at, all
<1>4. ASSUME all <= Len(ids), env.list # Unset, NEW p \in spots PROVE core(p) \in Named(env.list)
  BY <1>2, <1>4
<1>5. ASSUME all <= Len(ids), env.list # Unset, NamedOnce(env.list),
             NEW p \in spots, NEW q \in spots, core(p) = core(q)
      PROVE  p = q
  <2>1. ids[at(p) + 1] = ids[at(q) + 1]
    BY <1>2, <1>5
  <2>2. at(p) + 1 = at(q) + 1
    BY <1>2, <1>5, <2>1 DEF NoRepeats
  <2>3. at(p) \in Nat /\ at(q) \in Nat
    BY <1>2, <1>5
  <2>4. at(p) = at(q)
    BY <2>2, <2>3
  <2>5. QED
    BY <1>3, <2>4
<1> HIDE DEF st, spots
<1>6. ASSUME st.ok /\ st.threads * st.group <= st.listed, env.list # Unset
      PROVE  /\ \A p \in spots : core(p) \in Named(env.list)
             /\ NamedOnce(env.list) => \A p, q \in spots : core(p) = core(q) => p = q
  <2>1. all <= Len(ids)
    BY <1>1, <1>6 DEF all
  <2>2. QED
    BY <1>4, <1>5, <1>6, <2>1
<1>7. spots = (0 .. st.threads - 1) \X (0 .. st.group - 1)
  BY <1>1 DEF spots
<1>8. \A p : core(p) = BoundTo(st, p[1], p[2])
  BY DEF core
<1>9. BoundApart(st, env)
  BY <1>6, <1>7, <1>8 DEF BoundApart
<1>10. QED
  BY <1>9 DEF st

\* What get_env_settings returns, if it returns.
LEMMA SettingsType ==
  ASSUME NEW env \in Settings, GetEnvSettings(env).ok
  PROVE  /\ GetEnvSettings(env).ids \in Seq(Nat)
         /\ env.list = Unset => GetEnvSettings(env).ids = <<>>
         /\ env.list # Unset =>
              /\ GetEnvSettings(env).ids # <<>>
              /\ \A x \in 1 .. Len(GetEnvSettings(env).ids) :
                   GetEnvSettings(env).ids[x] \in Named(env.list)
              /\ NamedOnce(env.list) => NoRepeats(GetEnvSettings(env).ids)
<1>1. CASE env.list = Unset
  BY <1>1 DEF GetEnvSettings
<1>2. CASE env.list # Unset
  <2>1. env.list \in CoreLists
    BY <1>2 DEF Settings
  <2>2. /\ GetEnvSettings(env).ids = CoreIds(env.list)
        /\ \A k \in env.list.dash : env.list.num[k] < env.list.num[k + 1]
    BY <1>2 DEF GetEnvSettings
  <2>3. PICK N \in Nat \ {0} : Listed(env.list, N)
    BY <2>1, <2>2, ListType
  <2> DEFINE ids == CoreIds(env.list)
  <2>4. /\ ids \in Seq(Nat) /\ Len(ids) # 0
        /\ \A x \in 1 .. Len(ids) : ids[x] \in Named(env.list)
        /\ NamedOnce(env.list) => NoRepeats(ids)
    BY <2>3, IdsOfList
  <2> HIDE DEF ids
  <2>5. ids # <<>>
    BY <2>4
  <2>6. QED
    BY <1>2, <2>2, <2>4, <2>5 DEF ids
<1>3. QED
  BY <1>1, <1>2

LEMMA InOrderType ==
  ASSUME NEW n \in Nat
  PROVE  /\ InOrder(n) \in Seq(Nat) /\ Len(InOrder(n)) = n
         /\ \A k \in 1 .. n : InOrder(n)[k] = k - 1
BY DEF InOrder

\* Threads get cores of the list, and each its own (OwnCores of Startup), for lists of any
\* length and any numbers of threads and groups that the program and the environment give.
THEOREM CoresAreOwn == Spec => []CoresOfStarts
<1>1. ASSUME NEW n \in Given, NEW env \in Settings
      PROVE  BoundApart(InitGroups(n, env), env)
  <2> DEFINE set == GetEnvSettings(env)
             total == IF n # 0 THEN n ELSE IF env.total = Unset THEN 1 ELSE env.total
             group == IF env.group = Unset THEN 1 ELSE env.group
             ids == IF set.ids # <<>> THEN set.ids ELSE InOrder(total)
  <2>1. CASE ~set.ok \/ group = 0 \/ total < group
    <3>1. InitGroups(n, env) = Failed
      BY <2>1 DEF InitGroups
    <3>2. ~Failed.ok
      BY DEF Failed
    <3>3. QED
      BY <3>1, <3>2 DEF BoundApart
  <2>2. CASE ~(~set.ok \/ group = 0 \/ total < group)
    <3>1. InitGroups(n, env) = Started(total \div group, group, ids)
      BY <2>2 DEF InitGroups
    <3>2. total \in Nat /\ total \in 0 .. MAX_THREADS /\ group \in Nat \ {0}
      <4>1. n \in 0 .. MAX_THREADS - 1 /\ MAX_THREADS \in Nat
        BY StartupAssumption
      <4>2. env.total # Unset => env.total \in 0 .. MAX_THREADS - 1
        BY StartupAssumption DEF Settings
      <4>3. env.group # Unset => env.group \in 0 .. MAX_THREADS - 1
        BY StartupAssumption DEF Settings
      <4>4. group \in Nat \ {0}
        BY <2>2, <4>3
      <4>5. QED
        BY <4>1, <4>2, <4>4
    <3>3. (total \div group) \in Nat /\ (total \div group) * group \in 0 .. MAX_THREADS
      <4> DEFINE d == total \div group
      <4> HIDE DEF total, group
      <4>1. d \in Nat /\ group * d <= total
        BY <3>2, Quotient
      <4> HIDE DEF d
      <4>2. d * group = group * d /\ d * group \in Nat
        BY <3>2, <4>1
      <4>3. d * group <= total
        BY <4>1, <4>2
      <4>4. d * group \in 0 .. MAX_THREADS
        BY <3>2, <4>2, <4>3, StartupAssumption
      <4>5. QED
        BY <4>1, <4>4 DEF d
    <3>4. /\ ids \in Seq(Nat)
          /\ env.list # Unset => /\ \A x \in 1 .. Len(ids) : ids[x] \in Named(env.list)
                                 /\ NamedOnce(env.list) => NoRepeats(ids)
      <4>1. set.ok
        BY <2>2
      <4>2. InOrder(total) \in Seq(Nat)
        <5> HIDE DEF total
        <5>1. QED
          BY <3>2, InOrderType
      <4>3. /\ set.ids \in Seq(Nat)
            /\ env.list # Unset =>
                 /\ set.ids # <<>>
                 /\ \A x \in 1 .. Len(set.ids) : set.ids[x] \in Named(env.list)
                 /\ NamedOnce(env.list) => NoRepeats(set.ids)
        BY <4>1, SettingsType
      <4> HIDE DEF set, total
      <4>4. QED
        BY <4>2, <4>3
    <3> HIDE DEF set, total, group, ids
    <3>5. BoundApart(Started(total \div group, group, ids), env)
      BY <3>2, <3>3, <3>4, CoresApart
    <3>6. QED
      BY <3>1, <3>5
  <2>3. QED
    BY <2>1, <2>2
<1>2. ASSUME NEW n \in Given, NEW env \in Settings, NEW extra \in BOOLEAN
      PROVE  LET start == InitPlain(n, env, extra) IN
             /\ start.ok => start.threads <= start.listed
             /\ BoundApart(start, env)
             /\ start.ok /\ extra /\ n # 0 /\ env.list = Unset =>
                  \A x \in 0 .. start.threads - 1 : MpiBoundTo(start) # BoundTo(start, x, 0)
  <2> DEFINE set == GetEnvSettings(env)
             total == IF n = 0 THEN env.total ELSE n
             more == IF n # 0 /\ extra THEN total + 1 ELSE total
             ids == IF set.ids # <<>> THEN set.ids ELSE InOrder(more)
             start == InitPlain(n, env, extra)
  <2>1. CASE ~set.ok \/ total \in {Unset, 0} \/ total > Len(ids)
    <3>1. start = Failed
      BY <2>1 DEF InitPlain
    <3>2. ~Failed.ok
      BY DEF Failed
    <3>3. QED
      BY <3>1, <3>2 DEF BoundApart
  <2>2. CASE ~(~set.ok \/ total \in {Unset, 0} \/ total > Len(ids))
    <3>1. start = Started(total, 1, ids)
      BY <2>2 DEF InitPlain
    <3>2. total \in Nat /\ total \in 0 .. MAX_THREADS - 1 /\ more \in Nat /\ MAX_THREADS \in Nat
      <4>1. n \in 0 .. MAX_THREADS - 1 /\ MAX_THREADS \in Nat
        BY StartupAssumption
      <4>2. env.total # Unset => env.total \in 0 .. MAX_THREADS - 1
        BY StartupAssumption DEF Settings
      <4>3. total \in 0 .. MAX_THREADS - 1
        BY <2>2, <4>1, <4>2
      <4>4. QED
        BY <4>1, <4>3
    <3>3. InOrder(more) \in Seq(Nat) /\ Len(InOrder(more)) = more
          /\ \A k \in 1 .. more : InOrder(more)[k] = k - 1
      <4> HIDE DEF more
      <4>1. QED
        BY <3>2, InOrderType
    <3>4. /\ set.ids \in Seq(Nat)
          /\ env.list = Unset => set.ids = <<>>
          /\ env.list # Unset =>
               /\ set.ids # <<>>
               /\ \A x \in 1 .. Len(set.ids) : set.ids[x] \in Named(env.list)
               /\ NamedOnce(env.list) => NoRepeats(set.ids)
      BY <2>2, SettingsType
    <3>5. /\ ids \in Seq(Nat)
          /\ env.list # Unset => /\ \A x \in 1 .. Len(ids) : ids[x] \in Named(env.list)
                                 /\ NamedOnce(env.list) => NoRepeats(ids)
      <4> HIDE DEF set, more
      <4>1. QED
        BY <3>3, <3>4
    <3>6. total <= Len(ids)
      <4>1. Len(ids) \in Nat
        <5> HIDE DEF ids
        <5>1. QED
          BY <3>5
      <4>2. QED
        BY <2>2, <3>2, <4>1
    <3>7. /\ start.threads = total /\ start.group = 1 /\ start.listed = Len(ids)
          /\ start.core = [k \in 0 .. MAX_THREADS - 1 |-> IF k < Len(ids) THEN ids[k + 1] ELSE 0]
      <4> HIDE DEF start, ids, total
      <4>1. QED
        BY <3>1 DEF Started
    <3>8. BoundApart(start, env)
      <4> HIDE DEF set, total, ids, start, more
      <4>1. total * 1 \in 0 .. MAX_THREADS
        BY <3>2
      <4>2. BoundApart(Started(total, 1, ids), env)
        BY <3>2, <3>5, <4>1, CoresApart
      <4>3. QED
        BY <3>1, <4>2
    <3>9. ASSUME extra, n # 0, env.list = Unset, NEW x \in 0 .. total - 1
          PROVE  MpiBoundTo(start) # BoundTo(start, x, 0)
      <4>1. ids = InOrder(more) /\ more = total + 1
        BY <3>4, <3>9
      <4> HIDE DEF set, total, ids, start, more
      <4>2. Len(ids) = total + 1 /\ \A k \in 1 .. total + 1 : ids[k] = k - 1
        BY <3>3, <4>1
      <4>3. MpiBoundTo(start) = start.core[total]
        BY <3>7 DEF MpiBoundTo
      <4>4. x * 1 + 0 = x /\ x \in Nat
        BY <3>2
      <4>5. BoundTo(start, x, 0) = start.core[x]
        BY <3>7, <4>4 DEF BoundTo
      <4>6. total \in 0 .. MAX_THREADS - 1 /\ x \in 0 .. MAX_THREADS - 1 /\ x < total
        BY <3>2
      <4>7. start.core[total] = ids[total + 1]
        BY <3>2, <3>7, <4>2, <4>6
      <4>8. start.core[x] = ids[x + 1]
        BY <3>2, <3>7, <4>2, <4>6
      <4>9. ids[total + 1] = total /\ ids[x + 1] = x
        BY <3>2, <4>2, <4>6
      <4>10. QED
        BY <4>3, <4>5, <4>6, <4>7, <4>8, <4>9
    <3> HIDE DEF set, total, ids, start, more
    <3>10. QED
      BY <3>6, <3>7, <3>8, <3>9 DEF start
  <2>3. QED
    BY <2>1, <2>2
<1>3. OwnCores
  BY <1>1, <1>2 DEF OwnCores
<1>4. CoresOfStarts
  BY <1>3 DEF CoresOfStarts
<1>5. QED
  BY <1>4, PTL
=============================================================================
