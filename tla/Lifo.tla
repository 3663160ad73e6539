-------------------------------- MODULE Lifo --------------------------------
(***************************************************************************)
(* What concurrent_aceMesh_stack promises: a stack of tasks.  A push or a  *)
(* pop takes effect in one step.  Every task of a round is pushed once;    *)
(* when all have been popped the next round may push them again.           *)
(***************************************************************************)
EXTENDS Sequences

CONSTANTS Task, Thread, Poppers, NoTask

VARIABLES
  list,     \* the stack, top first
  hand,     \* the task a thread is pushing, NoTask if none
  fresh,    \* tasks still to be pushed in this round
  out       \* tasks popped in this round

vars == <<list, hand, fresh, out>>

Init ==
  /\ list = <<>>
  /\ hand = [th \in Thread |-> NoTask]
  /\ fresh = Task
  /\ out = {}

Begin(th, t) ==
  /\ hand[th] = NoTask /\ t \in fresh
  /\ hand' = [hand EXCEPT ![th] = t]
  /\ fresh' = fresh \ {t}
  /\ UNCHANGED <<list, out>>

Push(th) ==
  /\ hand[th] # NoTask
  /\ list' = <<hand[th]>> \o list
  /\ hand' = [hand EXCEPT ![th] = NoTask]
  /\ UNCHANGED <<fresh, out>>

\* A push may be refused; the caller keeps the task.
Refuse(th) ==
  /\ hand[th] # NoTask
  /\ fresh' = fresh \cup {hand[th]}
  /\ hand' = [hand EXCEPT ![th] = NoTask]
  /\ UNCHANGED <<list, out>>

Pop(th) ==
  /\ hand[th] = NoTask /\ list # <<>>
  /\ out' = out \cup {Head(list)}
  /\ list' = Tail(list)
  /\ UNCHANGED <<hand, fresh>>

NewRound ==
  /\ out = Task
  /\ out' = {}
  /\ fresh' = Task
  /\ UNCHANGED <<list, hand>>

Next ==
  \/ \E th \in Thread, t \in Task : Begin(th, t)
  \/ \E th \in Thread : Push(th) \/ Refuse(th)
  \/ \E th \in Poppers : Pop(th)
  \/ NewRound

Spec == Init /\ [][Next]_vars
=============================================================================
