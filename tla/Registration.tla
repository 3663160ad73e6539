---------------------------- MODULE Registration ----------------------------
(***************************************************************************)
(* Registering tasks through the C++ interface.  All its functions collect *)
(* accesses in the vector addrs before they hand it to the graph:          *)
(* register_task does both, register_task_datainfo collects and            *)
(* register_task_end hands over, and do_register, which registers the      *)
(* tasks of a thread group, begins with an empty vector and leaves it full.*)
(*                                                                         *)
(* A call is its kind and the accesses it names; the state is addrs and    *)
(* the accesses of the tasks registered, in order.                         *)
(***************************************************************************)
EXTENDS Integers, Sequences, SequencesExt

CONSTANTS
  Named,   \* what a program names: <<address, area_type>>
  Items,   \* bound: accesses named in a call
  Calls    \* bound: calls of the interface

ASSUME RegistrationAssumption == Items \in Nat /\ Calls \in Nat

\* One access of the argument list: SHADE_AND_UNSHADE is two of them.
Collected(x) ==
  IF x[2] = "SHADE_AND_UNSHADE" THEN << <<x[1], "SHADE">>, <<x[1], "UNSHADE">> >>
  ELSE <<x>>

CollectAll(items) == FlattenSeq([k \in DOMAIN items |-> Collected(items[k])])

\* task_graph.register_task copies the accesses.
HandOver(s, addrs) == Append(s.tasks, addrs)

RegisterTaskDatainfo(s, items) == [s EXCEPT !.addrs = @ \o CollectAll(items)]

RegisterTaskEnd(s) == [addrs |-> <<>>, tasks |-> HandOver(s, s.addrs)]

\* Mutant: the accesses of a task stay for the next.
RegisterTaskKept(s, items) ==
  LET addrs == s.addrs \o CollectAll(items)
  IN  [addrs |-> addrs, tasks |-> HandOver(s, addrs)]

RegisterTask(s, items) ==
  [addrs |-> <<>>, tasks |-> HandOver(s, s.addrs \o CollectAll(items))]

\* Of a task of a thread group.
DoRegister(s, items) ==
  [addrs |-> CollectAll(items), tasks |-> HandOver(s, CollectAll(items))]

Call(s, c) ==
  CASE c.kind = "datainfo" -> RegisterTaskDatainfo(s, c.items)
    [] c.kind = "end"      -> RegisterTaskEnd(s)
    [] c.kind = "task"     -> RegisterTask(s, c.items)
    [] c.kind = "group"    -> DoRegister(s, c.items)

\* The state after each number of calls.
Called(calls) ==
  LET called[k \in 0 .. Len(calls)] ==
        IF k = 0 THEN [addrs |-> <<>>, tasks |-> <<>>] ELSE Call(called[k - 1], calls[k])
  IN  called

-----------------------------------------------------------------------------
AnyItems == UNION {[1 .. n -> Named] : n \in 0 .. Items}

AnyCall ==
  [kind : {"datainfo", "task", "group"}, items : AnyItems] \cup [kind : {"end"}, items : {<<>>}]

\* A program declares one task at a time: between a register_task_datainfo and the
\* register_task_end for the same task it registers no other.
OneAtATime(calls) ==
  \A k \in 1 .. Len(calls) - 1 :
    calls[k].kind = "datainfo" => calls[k + 1].kind \in {"datainfo", "end"}

\* The call before k that registered a task last, or 0.
LastEnd(calls, k) ==
  CHOOSE e \in 0 .. k - 1 : /\ e # 0 => calls[e].kind # "datainfo"
                           /\ \A x \in e + 1 .. k - 1 : calls[x].kind = "datainfo"

\* What the program named in the calls after e, up to k.
Declared(calls, e, k) == FlattenSeq([x \in 1 .. k - e |-> CollectAll(calls[e + x].items)])

\* What a thread group left in addrs.
Left(calls, e) ==
  IF e # 0 /\ calls[e].kind = "group" THEN CollectAll(calls[e].items) ELSE <<>>

\* Every task is registered once, with all that was declared for it and nothing else,
\* except the task after one of a thread group: it inherits the accesses of that one.
RegistersDeclared ==
  \A n \in 0 .. Calls : \A calls \in [1 .. n -> AnyCall] : OneAtATime(calls) =>
    \A k \in 1 .. n :
      LET before == Called(calls)[k - 1].tasks
          e == LastEnd(calls, k)
          left == IF calls[k].kind = "group" THEN <<>> ELSE Left(calls, e)
      IN  Called(calls)[k].tasks =
            IF calls[k].kind = "datainfo" THEN before
            ELSE Append(before, left \o Declared(calls, e, k))
=============================================================================
