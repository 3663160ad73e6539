----------------------------- MODULE TaskStack -----------------------------
(***************************************************************************)
(* concurrent_aceMesh_stack, the lock-free private queue of a thread: a    *)
(* list of tasks linked by task::next whose top, task_pool, is exchanged by*)
(* compare-and-swap.  Any thread pushes; the Poppers pop.  In the default  *)
(* build the owner is the only one of them.                                *)
(*                                                                         *)
(* One action is one access to task_pool or to a next pointer.  The tasks  *)
(* are those of a stored graph: each is pushed once in every round, and the*)
(* next round begins when all have been popped.                            *)
(***************************************************************************)
EXTENDS Sequences, Naturals

CONSTANTS Task, Thread, Poppers, NoTask

ASSUME StackAssumption ==
  /\ Poppers \subseteq Thread
  /\ NoTask \notin Task

VARIABLES
  top,      \* task_pool
  next,     \* task::next
  pc,       \* where a thread is in push, try_push or try_pop
  hand,     \* the argument of push, NoTask outside
  old,      \* old_top
  new,      \* new_top
  fresh,    \* tasks still to be pushed in this round
  out,      \* tasks popped in this round
  list      \* the tasks pushed and not popped, last first (history)

roundVars == <<fresh, out>>
vars == <<top, next, pc, hand, old, new, roundVars, list>>

Ptr == Task \cup {NoTask}

\* Mutant: the exchange does not compare.
SwapsAlways(th) == TRUE

\* compare_and_swap succeeds.
Swaps(th) == top = old[th]

\* Mutant: a push whose exchange fails does not read the top again.
RetryStale == "push_cas"

\* The loop of push.
Retry == "push_read"

\* Mutant: try_pop installs the element it is about to return.
BelowItself(t) == t

Below(t) == next[t]

-----------------------------------------------------------------------------
PushBegin(th, t) ==
  /\ pc[th] = "idle" /\ t \in fresh
  /\ pc' = [pc EXCEPT ![th] = "push_read"]
  /\ hand' = [hand EXCEPT ![th] = t]
  /\ fresh' = fresh \ {t}
  /\ UNCHANGED <<top, next, old, new, out, list>>

PushRead(th) ==
  /\ pc[th] = "push_read"
  /\ pc' = [pc EXCEPT ![th] = "push_link"]
  /\ old' = [old EXCEPT ![th] = top]
  /\ UNCHANGED <<top, next, hand, new, roundVars, list>>

PushLink(th) ==
  /\ pc[th] = "push_link"
  /\ pc' = [pc EXCEPT ![th] = "push_cas"]
  /\ next' = [next EXCEPT ![hand[th]] = old[th]]
  /\ UNCHANGED <<top, hand, old, new, roundVars, list>>

PushDone(th) ==
  /\ pc[th] = "push_cas" /\ Swaps(th)
  /\ pc' = [pc EXCEPT ![th] = "idle"]
  /\ top' = hand[th]
  /\ list' = <<hand[th]>> \o list
  /\ hand' = [hand EXCEPT ![th] = NoTask]
  /\ UNCHANGED <<next, old, new, roundVars>>

PushRetry(th) ==
  /\ pc[th] = "push_cas" /\ ~Swaps(th)
  /\ pc' = [pc EXCEPT ![th] = Retry]
  /\ UNCHANGED <<top, next, hand, old, new, roundVars, list>>

\* try_push returns false instead.
TryPushFails(th) ==
  /\ pc[th] = "push_cas" /\ ~Swaps(th)
  /\ pc' = [pc EXCEPT ![th] = "idle"]
  /\ fresh' = fresh \cup {hand[th]}
  /\ hand' = [hand EXCEPT ![th] = NoTask]
  /\ UNCHANGED <<top, next, old, new, out, list>>

\* An empty stack makes try_pop return false at once.
PopRead(th) ==
  /\ pc[th] = "idle"
  /\ pc' = [pc EXCEPT ![th] = IF top = NoTask THEN "idle" ELSE "pop_next"]
  /\ old' = [old EXCEPT ![th] = top]
  /\ UNCHANGED <<top, next, hand, new, roundVars, list>>

PopNext(th) ==
  /\ pc[th] = "pop_next"
  /\ pc' = [pc EXCEPT ![th] = "pop_cas"]
  /\ new' = [new EXCEPT ![th] = Below(old[th])]
  /\ UNCHANGED <<top, next, hand, old, roundVars, list>>

PopDone(th) ==
  /\ pc[th] = "pop_cas" /\ Swaps(th)
  /\ pc' = [pc EXCEPT ![th] = "idle"]
  /\ top' = new[th]
  /\ out' = out \cup {old[th]}
  /\ list' = SubSeq(list, 2, Len(list))
  /\ UNCHANGED <<next, hand, old, new, fresh>>

\* try_pop returns false; its caller will call again.
PopFails(th) ==
  /\ pc[th] = "pop_cas" /\ ~Swaps(th)
  /\ pc' = [pc EXCEPT ![th] = "idle"]
  /\ UNCHANGED <<top, next, hand, old, new, roundVars, list>>

\* All tasks have been executed and the graph is spawned again.
NewRound ==
  /\ out = Task
  /\ out' = {}
  /\ fresh' = Task
  /\ UNCHANGED <<top, next, pc, hand, old, new, list>>

Init ==
  /\ top = NoTask
  /\ next = [t \in Task |-> NoTask]
  /\ pc = [th \in Thread |-> "idle"]
  /\ hand = [th \in Thread |-> NoTask]
  /\ old = [th \in Thread |-> NoTask]
  /\ new = [th \in Thread |-> NoTask]
  /\ fresh = Task
  /\ out = {}
  /\ list = <<>>

Pushing(th) ==
  \/ PushRead(th) \/ PushLink(th) \/ PushDone(th) \/ PushRetry(th) \/ TryPushFails(th)
Popping(th) == PopRead(th) \/ PopNext(th) \/ PopDone(th) \/ PopFails(th)

Next ==
  \/ \E th \in Thread, t \in Task : PushBegin(th, t)
  \/ \E th \in Thread : Pushing(th)
  \/ \E th \in Poppers : Popping(th)
  \/ NewRound

Spec == Init /\ [][Next]_vars

\* Every thread takes its steps; those that do not pop push what is ready.  No
\* thread has to give a push up.
Fairness ==
  /\ \A th \in Thread : WF_vars(PushRead(th) \/ PushLink(th) \/ PushDone(th) \/ PushRetry(th))
  /\ \A th \in Poppers : WF_vars(Popping(th))
  /\ \A th \in Thread \ Poppers : WF_vars(\E t \in Task : PushBegin(th, t))
  /\ WF_vars(NewRound)

FairSpec == Spec /\ Fairness

-----------------------------------------------------------------------------
(***************************************************************************)
(* Properties.                                                             *)
(***************************************************************************)

Listed == {list[i] : i \in 1 .. Len(list)}

\* Type invariant: what the pointers and the threads can hold.
TypeOK ==
  /\ top \in Ptr
  /\ next \in [Task -> Ptr]
  /\ pc \in [Thread -> {"idle", "push_read", "push_link", "push_cas",
                        "pop_next", "pop_cas"}]
  /\ hand \in [Thread -> Ptr]
  /\ old \in [Thread -> Ptr]
  /\ new \in [Thread -> Ptr]
  /\ fresh \in SUBSET Task
  /\ out \in SUBSET Task
  /\ list \in Seq(Task)

\* "Only support one pop and multi push": the links from task_pool run through
\* exactly the tasks pushed and not popped, the last one first.
Chain ==
  /\ top = IF list = <<>> THEN NoTask ELSE list[1]
  /\ \A i \in 1 .. Len(list) :
       next[list[i]] = IF i < Len(list) THEN list[i + 1] ELSE NoTask

\* No task is lost and none is in the stack twice: in a round it waits to be
\* pushed, is being pushed by one thread, is in the stack, or has been popped.
Conserved ==
  /\ Task = fresh \cup out \cup Listed \cup {t \in Task : \E th \in Thread : hand[th] = t}
  /\ fresh \cap out = {} /\ fresh \cap Listed = {} /\ out \cap Listed = {}
  /\ \A th \in Thread : hand[th] \notin fresh \cup out \cup Listed
  /\ \A th, u \in Thread : hand[th] = hand[u] /\ hand[th] # NoTask => th = u
  /\ \A i, j \in 1 .. Len(list) : list[i] = list[j] => i = j

\* What the threads know while they are inside an operation.
Locals ==
  \A th \in Thread :
    /\ hand[th] # NoTask <=> pc[th] \in {"push_read", "push_link", "push_cas"}
    /\ pc[th] = "push_cas" => next[hand[th]] = old[th]
    /\ pc[th] \in {"pop_next", "pop_cas"} => th \in Poppers /\ old[th] \in Listed
    /\ pc[th] = "pop_cas" => new[th] = next[old[th]]

\* The inductive invariant, for one popper.
StackInv == TypeOK /\ Chain /\ Conserved /\ Locals

\* The stack is a LIFO: every push and pop takes effect at its exchange.
L == INSTANCE Lifo
RefinesLifo == L!Spec

\* Although a push or pop whose exchange fails has to start again, in every round
\* each task gets into the stack and out of it.
RoundsComplete == []<>(out = Task)
=============================================================================
