------------------------------ MODULE Programs ------------------------------
(***************************************************************************)
(* The execution of a whole program that uses the library.  The main       *)
(* thread registers loops and waits; a task may run when the tasks of      *)
(* earlier loops that it depends on have run, which is what DagBuild and   *)
(* DagExec show of the graph, and dag_start answers as DagService says.    *)
(*                                                                         *)
(* Tasks are executed one at a time in any order: NoRace shows that tasks  *)
(* which may run at the same time do not touch the same elements.          *)
(***************************************************************************)
EXTENDS Integers, Sequences, SequencesExt

CONSTANT Texts   \* the programs, by their names

VARIABLES
  prog,     \* the program that runs
  text,     \* the calls it makes
  pc,       \* its next statement
  asked,    \* the last dag_start: number, parameters, answer
  graph,    \* loops registered since the last wait, by their statements
  stored,   \* number -> parameters and loops of the graph kept under it
  running,  \* the loops being executed
  done,     \* their tasks that ran, <<place of the loop, place in the loop>>
  mem,      \* the arrays
  began     \* the arrays when the loops being executed began (history)

programVars == <<prog, text, pc, asked, graph, stored, running, done, mem, began>>

-----------------------------------------------------------------------------
(* Bodies *)

\* Arithmetic is abstracted to an expression that tells its operands and their order apart.
Modulus == 9973
Value(m, a) ==
  LET value[k \in 0 .. Len(a.from)] ==
        IF k = 0 THEN a.add
        ELSE (value[k - 1] + (k * k + k + 1) * m[a.from[k]]) % Modulus
  IN  value[Len(a.from)]

\* Assignments lo + 1 to lo + n of a body, one after the other.
Part(m, body, lo, n) ==
  LET after[k \in 0 .. n] ==
        IF k = 0 THEN m
        ELSE LET before == after[k - 1]
             IN  [before EXCEPT ![body[lo + k].to] = Value(before, body[lo + k])]
  IN  after[n]

\* All of them, in parts of Length (TLC's recursion must not be deep), each a function of
\* the arrays before it.
Length == 16
Do(m, body) ==
  LET whole == Len(body) \div Length
      part(k) == [x \in [DOMAIN m -> Int] |->
                    Part(x, body, k * Length, IF k < whole THEN Length ELSE Len(body) % Length)]
      after[k \in 0 .. whole + 1] == IF k = 0 THEN m ELSE part(k - 1)[after[k - 1]]
  IN  after[whole + 1]

\* The tasks of a loop, and loops of a text, in the order of registration.
DoLoop(m, tasks) ==
  LET after[k \in 0 .. Len(tasks)] ==
        IF k = 0 THEN m ELSE Do(after[k - 1], tasks[k].body)
  IN  after[Len(tasks)]

InTurn(s, m, loops) ==
  LET after[k \in 0 .. Len(loops)] ==
        IF k = 0 THEN m ELSE DoLoop(after[k - 1], s[loops[k]].tasks)
  IN  after

-----------------------------------------------------------------------------
(* Texts *)

\* What tasks declare; and what they do.
Conflict(t, u) ==
  \/ t.writes \cap (u.writes \cup u.reads) # {}
  \/ t.reads \cap u.writes # {}

Touch(t, u) ==
  \/ t.puts \cap (u.puts \cup u.gets) # {}
  \/ t.gets \cap u.puts # {}

IsTask(t, elements) ==
  /\ t.body \in Seq(ToSet(t.body))
  /\ \A a \in ToSet(t.body) : a.from \in Seq(elements) /\ a.to \in elements /\ a.add \in Int
  /\ t.puts = {a.to : a \in ToSet(t.body)}
  /\ t.gets = UNION {ToSet(a.from) : a \in ToSet(t.body)}

\* A text is a sequence of loops, answers asked for, and waits.
ASSUME TextsAssumption ==
  \A p \in DOMAIN Texts :
    LET s == Texts[p].text
        elements == DOMAIN Texts[p].init
    IN  /\ Texts[p].init \in [elements -> Int]
        /\ s \in Seq(ToSet(s))
        /\ \A k \in DOMAIN s :
             /\ s[k].op \in {"loop", "start", "wait"}
             /\ s[k].op = "loop" => /\ s[k].tasks \in Seq(ToSet(s[k].tasks))
                                   /\ \A t \in ToSet(s[k].tasks) : IsTask(t, elements)
             /\ s[k].op = "start" => \E j \in k .. Len(s) : s[j].op = "wait"

\* A loop is parallel as declared: DagBuild orders tasks of different loops.
ASSUME ParallelLoops ==
  \A p \in DOMAIN Texts : \A s \in ToSet(Texts[p].text) :
    s.op = "loop" => \A t, u \in DOMAIN s.tasks : t # u => ~Conflict(s.tasks[t], s.tasks[u])

\* A task is named by its statement in a text and its place there.  Above(s, u): the task
\* u, and those of earlier statements that it or one of them depends on, as declared.
Above(s, u) ==
  LET above[n \in 0 .. u[1] - 1] ==
        IF n = 0 THEN {u}
        ELSE LET below == above[n - 1]
                 k == u[1] - n
             IN  below \cup
                   {<<k, h>> : h \in {h \in IF s[k].op = "loop" THEN DOMAIN s[k].tasks ELSE {} :
                      \E v \in below : Conflict(s[k].tasks[h], s[v[1]].tasks[v[2]])}}
  IN  above[u[1] - 1]

\* A program declares what it accesses: of two tasks with no wait between them that touch
\* the same element, the later one depends on the other, directly or not.
ASSUME DeclaredAccesses ==
  \A p \in DOMAIN Texts :
    LET s == Texts[p].text
        loops == {k \in DOMAIN s : s[k].op = "loop"}
    IN  \A k \in loops : \A h \in DOMAIN s[k].tasks :
          LET above == Above(s, <<k, h>>)
          IN  \A j \in loops : j <= k /\ (\A x \in j .. k : s[x].op # "wait") =>
                \A g \in DOMAIN s[j].tasks :
                  Touch(s[j].tasks[g], s[k].tasks[h]) => <<j, g>> \in above

-----------------------------------------------------------------------------
\* Tasks of the loops being executed, named by the place of the loop and theirs in it.
Tasks(k) == text[running[k]].tasks
TaskOf(t) == Tasks(t[1])[t[2]]
All == UNION {{k} \X DOMAIN Tasks(k) : k \in DOMAIN running}

\* Mutant: a task waits for the loop before its own, and no other.
ReadyAfterLast(t) ==
  /\ t \notin done
  /\ \A u \in All : u[1] = t[1] - 1 /\ u \notin done => ~Conflict(TaskOf(t), TaskOf(u))

Ready(t) ==
  /\ t \notin done
  /\ \A u \in All : u[1] < t[1] /\ u \notin done => ~Conflict(TaskOf(t), TaskOf(u))

-----------------------------------------------------------------------------
At(op) == pc <= Len(text) /\ text[pc].op = op

NextWait == CHOOSE k \in pc .. Len(text) :
              text[k].op = "wait" /\ \A j \in pc .. k - 1 : text[j].op # "wait"

DagStart ==
  /\ At("start")
  /\ LET no == text[pc].no
         hit == no \in DOMAIN stored /\ stored[no].par = text[pc].par
     IN  /\ asked' = [no |-> no, par |-> text[pc].par, hit |-> hit]
         /\ pc' = IF hit THEN NextWait ELSE pc + 1
  /\ UNCHANGED <<prog, text, graph, stored, running, done, mem, began>>

Register ==
  /\ At("loop")
  /\ graph' = Append(graph, pc)
  /\ pc' = pc + 1
  /\ UNCHANGED <<prog, text, asked, stored, running, done, mem, began>>

\* acemesh_spawn_and_wait executes the stored graph or the registered loops,
\* which it stores if they are the first under their number.
Spawn ==
  /\ At("wait") /\ running = <<>>
  /\ running' = IF asked.hit THEN stored[asked.no].loops ELSE graph
  /\ stored' = IF asked.no = 0 THEN stored
               ELSE [n \in DOMAIN stored \cup {asked.no} |->
                       IF n \in DOMAIN stored THEN stored[n]
                       ELSE [par |-> asked.par, loops |-> graph]]
  /\ graph' = <<>>
  /\ began' = mem
  /\ UNCHANGED <<prog, text, pc, asked, done, mem>>

Run(t) ==
  /\ Ready(t)
  /\ mem' = Do(mem, TaskOf(t).body)
  /\ done' = done \cup {t}
  /\ UNCHANGED <<prog, text, pc, asked, graph, stored, running, began>>

Waited ==
  /\ running # <<>> /\ done = All
  /\ running' = <<>> /\ done' = {}
  /\ pc' = pc + 1
  /\ UNCHANGED <<prog, text, asked, graph, stored, mem, began>>

Ended == pc = Len(text) + 1

ProgramInit ==
  /\ prog \in DOMAIN Texts
  /\ text = Texts[prog].text
  /\ pc = 1
  /\ asked = [no |-> 0, par |-> 0, hit |-> FALSE]
  /\ graph = <<>> /\ stored = <<>> /\ running = <<>> /\ done = {}
  /\ mem = Texts[prog].init /\ began = mem

ProgramNext ==
  \/ DagStart \/ Register \/ Spawn \/ Waited
  \/ \E t \in All : Run(t)
  \/ Ended /\ UNCHANGED programVars

ProgramSpec == ProgramInit /\ [][ProgramNext]_programVars

-----------------------------------------------------------------------------
\* Tasks that may run at the same time do not touch the same element, unless
\* both only read it: the addresses, one per tile, and the neighbours that a
\* program declares stand for all it really accesses.
NoRace ==
  LET ready == {t \in All : Ready(t)} IN
  \A t, u \in ready : t # u => ~Touch(TaskOf(t), TaskOf(u))

\* When a wait ends, the arrays hold what its loops compute one after the other, task by
\* task in the order of registration: whatever the order of the tasks was, and whether
\* the loops were registered for this wait or kept from an earlier one.
AsRegistered ==
  running # <<>> /\ done = All => mem = InTurn(text, began, running)[Len(running)]

\* What a serial program leaves in memory, where the results are compared.
Outcome(p) == LET m == Do(p.init, p.serial) IN [x \in p.out |-> m[x]]
Serial == [p \in DOMAIN Texts |-> Outcome(Texts[p])]

\* In every order of its tasks, with graphs built once and executed again or
\* built every time, a program ends with the result of its serial version:
\* what check() of the examples compares.
SameAsSerial ==
  Ended => LET serial == Serial[prog] IN \A x \in DOMAIN serial : mem[x] = serial[x]
=============================================================================
