---------------------------- MODULE ProgramText ----------------------------
(***************************************************************************)
(* How the programs of the examples are written down: a text is a sequence *)
(* of calls of the C interface, a loop is a sequence of tasks, and the body*)
(* of a task a sequence of assignments to array elements.                  *)
(*                                                                         *)
(* An array element is a tuple <<array, index, ...>>, and so is the        *)
(* address by which a program declares a region.  Programs says what an    *)
(* assignment does.                                                        *)
(***************************************************************************)
EXTENDS Integers, Sequences, SequencesExt, FiniteSetsExt

\* for (k = lo; k < hi; k += step) body(k), as a sequence.
For(lo, hi, step, body(_)) ==
  LET times == IF lo < hi THEN (hi - lo + step - 1) \div step ELSE 0
      upto[n \in 0 .. times] ==
        IF n = 0 THEN <<>> ELSE upto[n - 1] \o body(lo + (n - 1) * step)
  IN  upto[times]

\* The values of such a loop.
From(lo, hi, step) == {k \in lo .. hi - 1 : (k - lo) % step = 0}

Least(a, b) == IF a < b THEN a ELSE b

Assign(to, operands) == <<[to |-> to, from |-> operands, add |-> 0]>>
Store(to, value) == <<[to |-> to, from |-> <<>>, add |-> value]>>

\* A task: addresses pushed by acemesh_push_wlist and rlist, its neighbours
\* among the latter (wrlist pushes both), and what its function does.
Task(writes, reads, body) ==
  <<[writes |-> writes, reads |-> reads, body |-> body,
     puts |-> {a.to : a \in ToSet(body)},
     gets |-> UNION {ToSet(a.from) : a \in ToSet(body)}]>>

Loop(tasks) == <<[op |-> "loop", tasks |-> tasks]>>
Wait == <<[op |-> "wait"]>>

\* #pragma omp parallel for: a team of threads shares the iterations, and waits
\* for all of them at the end.
ParallelFor(lo, hi, step, body(_)) ==
  Loop(For(lo, hi, step, LAMBDA k : Task({}, {}, body(k)))) \o Wait

\* A program, or a part of one, that a single thread executes.
Alone(body) == Loop(Task({}, {}, body)) \o Wait

\* The bodies of all the tasks of a text, in the order of registration.
InOrder(text) ==
  FlattenSeq([k \in DOMAIN text |->
    IF text[k].op = "loop" THEN FlattenSeq([t \in DOMAIN text[k].tasks |-> text[k].tasks[t].body])
    ELSE <<>>])

\* int ret = acemesh_dag_start_vec(no, ...); if (ret) goto the next wait.
Start(no, par) == <<[op |-> "start", no |-> no, par |-> par]>>

Program(text, init, serial, out) ==
  [text |-> text, init |-> init, serial |-> serial, out |-> out]
=============================================================================
