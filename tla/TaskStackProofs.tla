-------------------------- MODULE TaskStackProofs --------------------------
(***************************************************************************)
(* Proofs about the lock-free stack: with one popper it is a LIFO, for any *)
(* number of threads and tasks.                                            *)
(***************************************************************************)
EXTENDS TaskStack, SequenceTheorems, TLAPS

\* The comment of aceMesh_stack.h: "only support one pop".
OnePopper == \A p, q \in Poppers : p = q

-----------------------------------------------------------------------------
(***************************************************************************)
(* The list, pushed to and popped from.                                    *)
(***************************************************************************)

\* The tasks of a list.
Elements(l) == {l[i] : i \in 1 .. Len(l)}

\* What a push does to the list.
LEMMA PushedList ==
  ASSUME NEW l \in Seq(Task), NEW t \in Task, NEW m, m = <<t>> \o l
  PROVE  /\ m \in Seq(Task) /\ m # <<>> /\ m[1] = t
         /\ Len(l) \in Nat /\ Len(m) = Len(l) + 1
         /\ \A i \in 1 .. Len(l) : m[i + 1] = l[i]
         /\ \A i \in 1 .. Len(m) : i = 1 \/ (i - 1 \in 1 .. Len(l) /\ m[i] = l[i - 1])
         /\ Elements(m) = Elements(l) \cup {t}
<1>1. /\ m \in Seq(Task) /\ Len(l) \in Nat /\ Len(m) = Len(l) + 1 /\ m[1] = t
      /\ \A i \in 1 .. Len(l) : m[i + 1] = l[i]
  OBVIOUS
<1>2. \A i \in 1 .. Len(m) : i = 1 \/ (i - 1 \in 1 .. Len(l) /\ m[i] = l[i - 1])
  BY <1>1
<1>3. m # <<>>
  BY <1>1
<1>4. 1 \in 1 .. Len(m) /\ \A i \in 1 .. Len(l) : i + 1 \in 1 .. Len(m)
  BY <1>1
<1>5. Elements(m) = Elements(l) \cup {t}
  BY <1>1, <1>2, <1>4 DEF Elements
<1>6. QED
  BY <1>1, <1>2, <1>3, <1>5

\* What a pop does to the list.
LEMMA PoppedList ==
  ASSUME NEW l \in Seq(Task), l # <<>>, NEW m, m = SubSeq(l, 2, Len(l))
  PROVE  /\ m \in Seq(Task) /\ m = Tail(l) /\ Head(l) = l[1]
         /\ Len(l) \in Nat \ {0} /\ Len(m) = Len(l) - 1
         /\ \A i \in 1 .. Len(m) : i + 1 \in 1 .. Len(l) /\ m[i] = l[i + 1]
         /\ Elements(l) = Elements(m) \cup {l[1]}
<1>1. /\ Len(l) \in Nat \ {0} /\ Head(l) = l[1]
      /\ m \in Seq(Task) /\ m = Tail(l) /\ Len(m) = Len(l) - 1
      /\ \A i \in 1 .. Len(m) : m[i] = l[i + 1]
  <2>1. m = Tail(l)
    BY TailIsSubSeq
  <2>2. Len(l) \in Nat \ {0} /\ Head(l) = l[1]
    OBVIOUS
  <2>3. QED
    BY <2>1, <2>2, HeadTailProperties
<1>2. \A i \in 1 .. Len(m) : i + 1 \in 1 .. Len(l)
  BY <1>1
<1>3. \A i \in 1 .. Len(l) : i = 1 \/ (i - 1 \in 1 .. Len(m) /\ m[i - 1] = l[i])
  BY <1>1
<1>4. Elements(l) = Elements(m) \cup {l[1]}
  <2>1. \A i \in 1 .. Len(m) : m[i] \in Elements(l)
    BY <1>1, <1>2 DEF Elements
  <2>2. \A i \in 1 .. Len(l) : l[i] \in Elements(m) \cup {l[1]}
    BY <1>3 DEF Elements
  <2>3. l[1] \in Elements(l)
    BY <1>1 DEF Elements
  <2>4. QED
    BY <2>1, <2>2, <2>3 DEF Elements
<1>5. QED
  BY <1>1, <1>2, <1>4

-----------------------------------------------------------------------------
(***************************************************************************)
(* The inductive invariant.                                                *)
(***************************************************************************)

\* The empty stack satisfies it.
LEMMA InitInv == Init => StackInv
<1> SUFFICES ASSUME Init
             PROVE  StackInv
  OBVIOUS
<1> USE DEF Init
<1>1. <<>> \in Seq(Task) /\ Listed = {} /\ Len(list) = 0 /\ \A i \in 1 .. Len(list) : FALSE
  BY DEF Listed
<1>2. TypeOK
  BY <1>1 DEF TypeOK, Ptr
<1>3. Chain
  BY <1>1 DEF Chain
<1>4. Conserved
  BY <1>1, StackAssumption DEF Conserved
<1>5. Locals
  BY DEF Locals
<1>6. QED
  BY <1>2, <1>3, <1>4, <1>5 DEF StackInv

\* Every step keeps the types.
LEMMA TypeStep ==
  ASSUME StackInv, [Next]_vars
  PROVE  TypeOK'
<1> USE StackAssumption DEF StackInv, TypeOK, Ptr, roundVars
<1>1. ASSUME NEW th \in Thread, NEW t \in Task, PushBegin(th, t)
      PROVE  TypeOK'
  BY <1>1 DEF PushBegin
<1>2. ASSUME NEW th \in Thread, Pushing(th)
      PROVE  TypeOK'
  <2>0. pc[th] \in {"push_read", "push_link", "push_cas"} => hand[th] \in Task
    BY DEF Locals
  <2>1. CASE PushRead(th)
    BY <2>1 DEF PushRead
  <2>2. CASE PushLink(th)
    BY <2>0, <2>2 DEF PushLink
  <2>3. CASE PushDone(th)
    <3>1. list' \in Seq(Task)
      BY <2>0, <2>3, PushedList DEF PushDone
    <3>2. QED
      BY <2>3, <3>1 DEF PushDone
  <2>4. CASE PushRetry(th)
    BY <2>4 DEF PushRetry, Retry
  <2>5. CASE TryPushFails(th)
    BY <2>0, <2>5 DEF TryPushFails
  <2>6. QED
    BY <1>2, <2>1, <2>2, <2>3, <2>4, <2>5 DEF Pushing
<1>3. ASSUME NEW th \in Poppers, Popping(th)
      PROVE  TypeOK'
  <2>0. /\ th \in Thread
        /\ pc[th] \in {"pop_next", "pop_cas"} => old[th] \in Listed
        /\ Listed \subseteq Task
    BY DEF Locals, Listed
  <2>1. CASE PopRead(th)
    BY <2>0, <2>1 DEF PopRead
  <2>2. CASE PopNext(th)
    BY <2>0, <2>2 DEF PopNext, Below
  <2>3. CASE PopDone(th)
    <3>1. list # <<>>
      BY <2>0, <2>3 DEF PopDone, Listed
    <3>2. list' \in Seq(Task)
      BY <2>3, <3>1, PoppedList DEF PopDone
    <3>3. QED
      BY <2>0, <2>3, <3>2 DEF PopDone
  <2>4. CASE PopFails(th)
    BY <2>0, <2>4 DEF PopFails
  <2>5. QED
    BY <1>3, <2>1, <2>2, <2>3, <2>4 DEF Popping
<1>4. CASE NewRound
  BY <1>4 DEF NewRound
<1>5. CASE UNCHANGED vars
  BY <1>5 DEF vars
<1>6. QED
  BY <1>1, <1>2, <1>3, <1>4, <1>5 DEF Next

\* A successful pop returns the first task of the list and leaves the second on top.
LEMMA PopsFirst ==
  ASSUME StackInv, NEW th \in Poppers, PopDone(th)
  PROVE  /\ list # <<>> /\ old[th] = list[1] /\ top = list[1]
         /\ Len(list) \in Nat \ {0}
         /\ new[th] = IF Len(list) = 1 THEN NoTask ELSE list[2]
<1>1. th \in Thread /\ old[th] \in Listed /\ top = old[th] /\ new[th] = next[old[th]]
  BY StackAssumption DEF PopDone, Swaps, StackInv, Locals
<1>2. list # <<>> /\ Len(list) \in Nat \ {0} /\ 1 \in 1 .. Len(list)
  BY <1>1 DEF Listed, StackInv, TypeOK
<1>3. top = list[1]
  BY <1>2 DEF StackInv, Chain
<1>4. QED
  BY <1>1, <1>2, <1>3 DEF StackInv, Chain

\* Every step keeps the links: a task that is not in the stack yet can be linked
\* freely, and a successful exchange sets the top to a task linked to the rest.
LEMMA ChainStep ==
  ASSUME StackInv, [Next]_vars
  PROVE  Chain'
<1> USE StackAssumption DEF StackInv, roundVars
<1>0. list \in Seq(Task) /\ Len(list) \in Nat
  BY DEF TypeOK
<1>1. ASSUME UNCHANGED <<top, next, list>>
      PROVE  Chain'
  BY <1>1 DEF Chain
<1>2. ASSUME NEW th \in Thread, PushLink(th)
      PROVE  Chain'
  <2>1. \A i \in 1 .. Len(list) : list[i] # hand[th]
    BY <1>2 DEF Conserved, Listed
  <2>2. \A i \in 1 .. Len(list) : next'[list[i]] = next[list[i]]
    BY <1>0, <1>2, <2>1 DEF PushLink, TypeOK
  <2>3. QED
    BY <1>2, <2>2 DEF PushLink, Chain
<1>3. ASSUME NEW th \in Thread, PushDone(th)
      PROVE  Chain'
  <2>1. hand[th] \in Task /\ next[hand[th]] = old[th] /\ top = old[th]
    BY <1>3 DEF PushDone, Swaps, Locals, TypeOK, Ptr
  <2>2. /\ list' # <<>> /\ list'[1] = hand[th] /\ Len(list') = Len(list) + 1
        /\ \A i \in 1 .. Len(list) : list'[i + 1] = list[i]
        /\ \A i \in 1 .. Len(list') : i = 1 \/ (i - 1 \in 1 .. Len(list) /\ list'[i] = list[i - 1])
    BY <1>0, <1>3, <2>1, PushedList DEF PushDone
  <2>3. top' = list'[1] /\ next' = next
    BY <1>3, <2>2 DEF PushDone
  <2>4. ASSUME NEW i \in 1 .. Len(list')
        PROVE  next[list'[i]] = IF i < Len(list') THEN list'[i + 1] ELSE NoTask
    <3>1. CASE i = 1
      <4>1. CASE list = <<>>
        BY <1>0, <2>1, <2>2, <3>1, <4>1 DEF Chain
      <4>2. CASE list # <<>>
        <5>1. 1 \in 1 .. Len(list) /\ 1 < Len(list')
          BY <1>0, <2>2, <4>2
        <5>2. list'[2] = list[1] /\ top = list[1]
          BY <2>2, <4>2, <5>1 DEF Chain
        <5>3. QED
          BY <2>1, <2>2, <3>1, <5>1, <5>2
      <4>3. QED
        BY <4>1, <4>2
    <3>2. CASE i # 1
      <4>1. PICK j \in 1 .. Len(list) : j = i - 1 /\ list'[i] = list[j]
        BY <2>2, <3>2
      <4>2. next[list[j]] = IF j < Len(list) THEN list[j + 1] ELSE NoTask
        BY DEF Chain
      <4>3. j < Len(list) => j + 1 \in 1 .. Len(list) /\ list'[i + 1] = list[j + 1]
        <5>1. j < Len(list) => j + 1 \in 1 .. Len(list) /\ (j + 1) + 1 = i + 1
          BY <1>0, <4>1
        <5>2. QED
          BY <2>2, <5>1
      <4>4. j < Len(list) <=> i < Len(list')
        BY <1>0, <2>2, <4>1
      <4>5. QED
        BY <4>1, <4>2, <4>3, <4>4
    <3>3. QED
      BY <3>1, <3>2
  <2>5. QED
    BY <2>2, <2>3, <2>4 DEF Chain
<1>4. ASSUME NEW th \in Poppers, PopDone(th)
      PROVE  Chain'
  <2>1. /\ list # <<>> /\ Len(list) \in Nat \ {0}
        /\ new[th] = IF Len(list) = 1 THEN NoTask ELSE list[2]
    BY <1>4, PopsFirst
  <2>2. /\ list' \in Seq(Task) /\ Len(list') = Len(list) - 1
        /\ \A i \in 1 .. Len(list') : i + 1 \in 1 .. Len(list) /\ list'[i] = list[i + 1]
    BY <1>0, <1>4, <2>1, PoppedList DEF PopDone
  <2>3. top' = new[th] /\ next' = next
    BY <1>4 DEF PopDone
  <2>4. top' = IF list' = <<>> THEN NoTask ELSE list'[1]
    <3>1. CASE Len(list) = 1
      BY <2>1, <2>2, <2>3, <3>1
    <3>2. CASE Len(list) # 1
      <4>1. 1 \in 1 .. Len(list') /\ list' # <<>>
        BY <2>1, <2>2, <3>2
      <4>2. QED
        BY <2>1, <2>2, <2>3, <3>2, <4>1
    <3>3. QED
      BY <3>1, <3>2
  <2>5. ASSUME NEW i \in 1 .. Len(list')
        PROVE  next[list'[i]] = IF i < Len(list') THEN list'[i + 1] ELSE NoTask
    <3>1. PICK j \in 1 .. Len(list) : j = i + 1 /\ list'[i] = list[j]
      BY <2>2
    <3>2. next[list[j]] = IF j < Len(list) THEN list[j + 1] ELSE NoTask
      BY DEF Chain
    <3>3. i < Len(list') => i + 1 \in 1 .. Len(list') /\ list'[i + 1] = list[(i + 1) + 1]
      BY <2>1, <2>2
    <3>4. (i < Len(list') <=> j < Len(list)) /\ (i + 1) + 1 = j + 1
      BY <2>1, <2>2, <3>1
    <3>5. QED
      BY <3>1, <3>2, <3>3, <3>4
  <2>6. QED
    BY <2>3, <2>4, <2>5 DEF Chain
<1>5. QED
  BY <1>1, <1>2, <1>3, <1>4
     DEF Next, PushBegin, Pushing, PushRead, PushRetry, TryPushFails, Popping, PopRead,
         PopNext, PopFails, NewRound, vars

\* Every step keeps each task in one place.
LEMMA ConservedStep ==
  ASSUME StackInv, [Next]_vars
  PROVE  Conserved'
<1> USE StackAssumption DEF StackInv, roundVars
<1> DEFINE Held == {t \in Task : \E u \in Thread : hand[u] = t}
<1>0. /\ list \in Seq(Task) /\ Len(list) \in Nat /\ NoTask \notin Task
      /\ Listed \subseteq Task /\ fresh \subseteq Task /\ out \subseteq Task
      /\ \A u \in Thread : hand[u] \in Task \cup {NoTask}
      /\ hand \in [Thread -> Ptr]
  BY DEF TypeOK, Listed, Ptr
<1>1. ASSUME UNCHANGED <<hand, fresh, out, list>>
      PROVE  Conserved'
  BY <1>1 DEF Conserved, Listed
<1>2. ASSUME NEW th \in Thread, NEW t \in Task, PushBegin(th, t)
      PROVE  Conserved'
  <2>1. /\ hand[th] = NoTask /\ t \in fresh /\ fresh' = fresh \ {t} /\ out' = out
        /\ list' = list /\ Listed' = Listed
        /\ hand'[th] = t /\ \A u \in Thread : u # th => hand'[u] = hand[u]
    BY <1>0, <1>2 DEF PushBegin, Locals, Listed
  <2>2. {x \in Task : \E u \in Thread : hand'[u] = x} = Held \cup {t}
    <3>1. \A x \in Task : (\E u \in Thread : hand'[u] = x) <=> (x = t \/ \E u \in Thread : hand[u] = x)
      BY <1>0, <2>1
    <3>2. QED
      BY <3>1
  <2>3. Task = fresh' \cup out' \cup Listed' \cup {x \in Task : \E u \in Thread : hand'[u] = x}
    BY <2>1, <2>2 DEF Conserved
  <2>4. fresh' \cap out' = {} /\ fresh' \cap Listed' = {} /\ out' \cap Listed' = {}
    BY <2>1 DEF Conserved
  <2>5. \A u \in Thread : hand'[u] \notin fresh' \cup out' \cup Listed'
    BY <2>1 DEF Conserved
  <2>6. \A u, v \in Thread : hand'[u] = hand'[v] /\ hand'[u] # NoTask => u = v
    BY <2>1 DEF Conserved
  <2>7. QED
    BY <2>1, <2>3, <2>4, <2>5, <2>6 DEF Conserved
<1>3. ASSUME NEW th \in Thread, PushDone(th)
      PROVE  Conserved'
  <2>0. PICK t : t = hand[th]
    OBVIOUS
  <2>1. t \in Task
    BY <1>0, <1>3, <2>0 DEF PushDone, Locals
  <2>2. /\ fresh' = fresh /\ out' = out /\ list' = <<t>> \o list
        /\ hand'[th] = NoTask /\ \A u \in Thread : u # th => hand'[u] = hand[u]
    BY <1>0, <1>3, <2>0 DEF PushDone
  <2>3. Listed' = Listed \cup {t}
    <3>1. PICK l, m : l = list /\ m = list'
      OBVIOUS
    <3>2. Elements(m) = Elements(l) \cup {t}
      <4>1. l \in Seq(Task) /\ t \in Task /\ m = <<t>> \o l
        BY <1>0, <2>1, <2>2, <3>1
      <4>2. QED
        BY <4>1, PushedList
    <3>3. Listed = Elements(l) /\ Listed' = Elements(m)
      BY <3>1 DEF Elements, Listed
    <3>4. QED
      BY <3>2, <3>3
  <2>4. t \notin fresh \cup out \cup Listed
    BY <2>0 DEF Conserved
  <2>5. Task = fresh' \cup out' \cup Listed' \cup {x \in Task : \E u \in Thread : hand'[u] = x}
    <3>1. \A x \in Held : x = t \/ \E u \in Thread : hand'[u] = x
      BY <2>0, <2>2
    <3>2. QED
      BY <1>0, <2>1, <2>2, <2>3, <3>1 DEF Conserved
  <2>6. fresh' \cap out' = {} /\ fresh' \cap Listed' = {} /\ out' \cap Listed' = {}
    BY <2>2, <2>3, <2>4 DEF Conserved
  <2>7. \A u \in Thread : hand'[u] \notin fresh' \cup out' \cup Listed'
    <3>1. \A u \in Thread : u # th => hand[u] # t
      BY <1>0, <2>0, <2>1 DEF Conserved
    <3>2. QED
      BY <1>0, <2>1, <2>2, <2>3, <3>1 DEF Conserved
  <2>8. \A u, v \in Thread : hand'[u] = hand'[v] /\ hand'[u] # NoTask => u = v
    BY <2>2 DEF Conserved
  <2>9. \A i, j \in 1 .. Len(list') : list'[i] = list'[j] => i = j
    <3>1. /\ list'[1] = t /\ Len(list') = Len(list) + 1
          /\ \A i \in 1 .. Len(list') : i = 1 \/ (i - 1 \in 1 .. Len(list) /\ list'[i] = list[i - 1])
      BY <1>0, <2>1, <2>2, PushedList
    <3>2. \A i \in 1 .. Len(list) : list[i] # t
      BY <2>4 DEF Listed
    <3>3. ASSUME NEW i \in 1 .. Len(list'), NEW j \in 1 .. Len(list'), list'[i] = list'[j]
          PROVE  i = j
      <4>1. i = 1 <=> j = 1
        BY <3>1, <3>2, <3>3
      <4>2. i # 1 /\ j # 1 => i - 1 = j - 1
        BY <3>1, <3>3 DEF Conserved
      <4>3. QED
        BY <1>0, <3>1, <4>1, <4>2
    <3>4. QED
      BY <3>3
  <2>10. QED
    BY <2>5, <2>6, <2>7, <2>8, <2>9 DEF Conserved
<1>4. ASSUME NEW th \in Thread, TryPushFails(th)
      PROVE  Conserved'
  <2>0. PICK t : t = hand[th]
    OBVIOUS
  <2>1. /\ t \in Task /\ fresh' = fresh \cup {t} /\ out' = out
        /\ list' = list /\ Listed' = Listed
        /\ hand'[th] = NoTask /\ \A u \in Thread : u # th => hand'[u] = hand[u]
    BY <1>0, <1>4, <2>0 DEF TryPushFails, Locals, Listed
  <2>2. t \notin fresh \cup out \cup Listed
    BY <2>0 DEF Conserved
  <2>3. Task = fresh' \cup out' \cup Listed' \cup {x \in Task : \E u \in Thread : hand'[u] = x}
    <3>1. \A x \in Held : x = t \/ \E u \in Thread : hand'[u] = x
      BY <2>0, <2>1
    <3>2. QED
      BY <1>0, <2>1, <3>1 DEF Conserved
  <2>4. fresh' \cap out' = {} /\ fresh' \cap Listed' = {} /\ out' \cap Listed' = {}
    BY <2>1, <2>2 DEF Conserved
  <2>5. \A u \in Thread : hand'[u] \notin fresh' \cup out' \cup Listed'
    <3>1. \A u \in Thread : u # th => hand[u] # t
      BY <1>0, <2>0, <2>1 DEF Conserved
    <3>2. QED
      BY <1>0, <2>1, <3>1 DEF Conserved
  <2>6. \A u, v \in Thread : hand'[u] = hand'[v] /\ hand'[u] # NoTask => u = v
    BY <2>1 DEF Conserved
  <2>7. QED
    BY <2>1, <2>3, <2>4, <2>5, <2>6 DEF Conserved
<1>5. ASSUME NEW th \in Poppers, PopDone(th)
      PROVE  Conserved'
  <2>1. list # <<>> /\ old[th] = list[1]
    BY <1>5, PopsFirst
  <2>2. PICK t : t = list[1]
    OBVIOUS
  <2>3. /\ Len(list) \in Nat \ {0} /\ Len(list') = Len(list) - 1
        /\ \A i \in 1 .. Len(list') : i + 1 \in 1 .. Len(list) /\ list'[i] = list[i + 1]
        /\ Listed = Listed' \cup {t}
    <3>1. PICK l, m : l = list /\ m = list'
      OBVIOUS
    <3>2. l \in Seq(Task) /\ l # <<>> /\ m = SubSeq(l, 2, Len(l))
      BY <1>0, <1>5, <2>1, <3>1 DEF PopDone
    <3>3. /\ Len(l) \in Nat \ {0} /\ Len(m) = Len(l) - 1
          /\ \A i \in 1 .. Len(m) : i + 1 \in 1 .. Len(l) /\ m[i] = l[i + 1]
          /\ Elements(l) = Elements(m) \cup {l[1]}
      BY <3>2, PoppedList
    <3>4. Listed = Listed' \cup {t}
      <4>1. Listed = Elements(l)
        BY <3>1 DEF Elements, Listed
      <4>2. Listed' = Elements(m)
        BY <3>1 DEF Elements, Listed
      <4>3. t = l[1]
        BY <2>2, <3>1
      <4>4. QED
        BY <3>3, <4>1, <4>2, <4>3
    <3>5. QED
      BY <3>1, <3>3, <3>4
  <2>4. fresh' = fresh /\ out' = out \cup {t} /\ hand' = hand
    BY <1>5, <2>1, <2>2 DEF PopDone
  <2>5. t \notin Listed'
    <3>1. \A i \in 1 .. Len(list') : i + 1 # 1 /\ 1 \in 1 .. Len(list)
      BY <2>3
    <3>2. \A i \in 1 .. Len(list') : list'[i] # list[1]
      BY <2>3, <3>1 DEF Conserved
    <3>3. QED
      BY <2>2, <3>2 DEF Listed
  <2>6. \A i, j \in 1 .. Len(list') : list'[i] = list'[j] => i = j
    <3>1. ASSUME NEW i \in 1 .. Len(list'), NEW j \in 1 .. Len(list'), list'[i] = list'[j]
          PROVE  i = j
      <4>1. i + 1 = j + 1
        BY <2>3, <3>1 DEF Conserved
      <4>2. QED
        BY <4>1
    <3>2. QED
      BY <3>1
  <2>7. /\ Task = fresh' \cup out' \cup Listed' \cup {x \in Task : \E u \in Thread : hand'[u] = x}
        /\ fresh' \cap out' = {} /\ fresh' \cap Listed' = {} /\ out' \cap Listed' = {}
        /\ \A u \in Thread : hand'[u] \notin fresh' \cup out' \cup Listed'
        /\ \A u, v \in Thread : hand'[u] = hand'[v] /\ hand'[u] # NoTask => u = v
    BY <2>3, <2>4, <2>5 DEF Conserved
  <2>8. QED
    BY <2>6, <2>7 DEF Conserved
<1>6. CASE NewRound
  <2>1. /\ out = Task /\ out' = {} /\ fresh' = Task /\ hand' = hand /\ list' = list
        /\ Listed' = Listed
    BY <1>6 DEF NewRound, Listed
  <2>2. Listed = {} /\ \A u \in Thread : hand[u] = NoTask
    BY <1>0, <2>1 DEF Conserved
  <2>3. QED
    BY <1>0, <2>1, <2>2 DEF Conserved
<1>7. QED
  BY <1>1, <1>2, <1>3, <1>4, <1>5, <1>6
     DEF Next, Pushing, PushRead, PushLink, PushRetry, Popping, PopRead, PopNext, PopFails,
         vars

\* Every step keeps what the threads know.  Only here is one popper needed: another
\* one could take old_top out while a thread still relies on its link.
LEMMA LocalsStep ==
  ASSUME OnePopper, StackInv, [Next]_vars
  PROVE  Locals'
<1> USE StackAssumption DEF StackInv, roundVars
<1>0. /\ list \in Seq(Task) /\ NoTask \notin Task
      /\ \A u \in Thread : hand[u] \in Task \cup {NoTask}
      /\ hand \in [Thread -> Ptr] /\ old \in [Thread -> Ptr] /\ new \in [Thread -> Ptr]
      /\ next \in [Task -> Ptr]
      /\ DOMAIN pc = Thread /\ pc = [u \in Thread |-> pc[u]]
  BY DEF TypeOK, Ptr
<1> DEFINE Knows(u) ==
      /\ hand[u] # NoTask <=> pc[u] \in {"push_read", "push_link", "push_cas"}
      /\ pc[u] = "push_cas" => next[hand[u]] = old[u]
      /\ pc[u] \in {"pop_next", "pop_cas"} => u \in Poppers /\ old[u] \in Listed
      /\ pc[u] = "pop_cas" => new[u] = next[old[u]]
<1>a. \A u \in Thread : Knows(u)
  BY DEF Locals
\* A thread that did not move knows what it knew if the links it relies on stay.
<1>b. ASSUME NEW u \in Thread, hand'[u] = hand[u], pc'[u] = pc[u], old'[u] = old[u],
             new'[u] = new[u],
             pc[u] = "push_cas" => next'[hand[u]] = next[hand[u]],
             pc[u] \in {"pop_next", "pop_cas"} => old[u] \in Listed',
             pc[u] = "pop_cas" => next'[old[u]] = next[old[u]]
      PROVE  Knows(u)'
  BY <1>a, <1>b
<1>c. SUFFICES ASSUME NEW u \in Thread
               PROVE  Knows(u)'
  BY DEF Locals
<1> HIDE DEF Knows
<1>1. ASSUME NEW th \in Thread, NEW t \in Task, PushBegin(th, t)
      PROVE  Knows(u)'
  <2>1. Listed' = Listed /\ next' = next /\ old' = old /\ new' = new
    BY <1>1 DEF PushBegin, Listed
  <2>2. CASE u = th
    <3>1. pc'[u] = "push_read" /\ hand'[u] = t
      BY <1>0, <1>1, <2>2 DEF PushBegin
    <3>2. QED
      BY <1>0, <3>1 DEF Knows
  <2>3. CASE u # th
    <3>1. pc'[u] = pc[u] /\ hand'[u] = hand[u]
      BY <1>0, <1>1, <2>3 DEF PushBegin
    <3>2. QED
      BY <1>a, <1>b, <2>1, <3>1 DEF Knows
  <2>4. QED
    BY <2>2, <2>3
<1>2. ASSUME NEW th \in Thread, PushRead(th) \/ PushRetry(th)
      PROVE  Knows(u)'
  <2>1. Listed' = Listed /\ next' = next /\ hand' = hand /\ new' = new
    BY <1>2 DEF PushRead, PushRetry, Listed
  <2>2. CASE u = th
    <3>1. /\ pc[u] \in {"push_read", "push_cas"}
          /\ pc'[u] \in {"push_read", "push_link"}
      BY <1>0, <1>2, <2>2 DEF PushRead, PushRetry, Retry
    <3>2. QED
      BY <1>a, <2>1, <3>1 DEF Knows
  <2>3. CASE u # th
    <3>1. pc'[u] = pc[u] /\ old'[u] = old[u]
      BY <1>0, <1>2, <2>3 DEF PushRead, PushRetry
    <3>2. QED
      BY <1>a, <1>b, <2>1, <3>1 DEF Knows
  <2>4. QED
    BY <2>2, <2>3
<1>3. ASSUME NEW th \in Thread, PushLink(th)
      PROVE  Knows(u)'
  <2>1. /\ Listed' = Listed /\ hand' = hand /\ new' = new /\ old' = old
        /\ pc[th] = "push_link" /\ hand[th] \in Task
        /\ next' = [next EXCEPT ![hand[th]] = old[th]]
    BY <1>0, <1>3, <1>a DEF PushLink, Listed, Knows
  <2>2. CASE u = th
    <3>1. pc'[u] = "push_cas" /\ next'[hand[u]] = old[u]
      BY <1>0, <1>3, <2>1, <2>2 DEF PushLink
    <3>2. QED
      BY <1>0, <2>1, <2>2, <3>1 DEF Knows
  <2>3. CASE u # th
    <3>1. pc'[u] = pc[u]
      BY <1>0, <1>3, <2>3 DEF PushLink
    <3>2. pc[u] = "push_cas" => next'[hand[u]] = next[hand[u]]
      <4>1. pc[u] = "push_cas" => hand[u] # hand[th] /\ hand[u] \in Task
        BY <1>0, <1>a, <2>1, <2>3 DEF Knows, Conserved
      <4>2. QED
        BY <1>0, <2>1, <4>1
    <3>3. old[u] \in Listed => next'[old[u]] = next[old[u]]
      <4>1. old[u] \in Listed => old[u] # hand[th] /\ old[u] \in Task
        BY <1>0 DEF Conserved, Listed
      <4>2. QED
        BY <1>0, <2>1, <4>1
    <3>4. QED
      BY <1>a, <1>b, <2>1, <3>1, <3>2, <3>3 DEF Knows
  <2>4. QED
    BY <2>2, <2>3
<1>4. ASSUME NEW th \in Thread, PushDone(th) \/ TryPushFails(th)
      PROVE  Knows(u)'
  <2>1. next' = next /\ old' = old /\ new' = new /\ pc[th] = "push_cas" /\ hand[th] \in Task
    BY <1>0, <1>4, <1>a DEF PushDone, TryPushFails, Knows
  <2>2. Listed \subseteq Listed'
    <3>1. CASE list' = list
      BY <3>1 DEF Listed
    <3>2. CASE list' = <<hand[th]>> \o list
      <4>1. PICK l, m, t : l = list /\ m = list' /\ t = hand[th]
        OBVIOUS
      <4>2. l \in Seq(Task) /\ t \in Task /\ m = <<t>> \o l
        BY <1>0, <2>1, <3>2, <4>1
      <4>3. Elements(m) = Elements(l) \cup {t}
        BY <4>2, PushedList
      <4>4. Listed = Elements(l) /\ Listed' = Elements(m)
        BY <4>1 DEF Elements, Listed
      <4>5. QED
        BY <4>3, <4>4
    <3>3. QED
      BY <1>4, <3>1, <3>2 DEF PushDone, TryPushFails
  <2>3. CASE u = th
    <3>1. pc'[u] = "idle" /\ hand'[u] = NoTask
      BY <1>0, <1>4, <2>3 DEF PushDone, TryPushFails
    <3>2. QED
      BY <3>1 DEF Knows
  <2>4. CASE u # th
    <3>1. pc'[u] = pc[u] /\ hand'[u] = hand[u]
      BY <1>0, <1>4, <2>4 DEF PushDone, TryPushFails
    <3>2. QED
      BY <1>a, <1>b, <2>1, <2>2, <3>1 DEF Knows
  <2>5. QED
    BY <2>3, <2>4
<1>5. ASSUME NEW th \in Poppers, PopRead(th) \/ PopNext(th) \/ PopFails(th)
      PROVE  Knows(u)'
  <2>1. Listed' = Listed /\ next' = next /\ hand' = hand
    BY <1>5 DEF PopRead, PopNext, PopFails, Listed
  <2>2. CASE u # th
    <3>1. pc'[u] = pc[u] /\ old'[u] = old[u] /\ new'[u] = new[u]
      BY <1>0, <1>5, <2>2 DEF PopRead, PopNext, PopFails
    <3>2. QED
      BY <1>a, <1>b, <2>1, <3>1 DEF Knows
  <2>3. CASE u = th /\ PopRead(th)
    <3>1. /\ hand[u] = NoTask /\ old'[u] = top
          /\ pc'[u] = IF top = NoTask THEN "idle" ELSE "pop_next"
      BY <1>0, <1>a, <2>3 DEF PopRead, Knows
    <3>2. top # NoTask => top \in Listed
      <4>1. list # <<>> => 1 \in 1 .. Len(list)
        BY <1>0
      <4>2. QED
        BY <4>1 DEF Chain, Listed
    <3>3. QED
      BY <2>1, <2>3, <3>1, <3>2 DEF Knows
  <2>4. CASE u = th /\ PopNext(th)
    <3>1. pc[u] = "pop_next" /\ pc'[u] = "pop_cas" /\ old'[u] = old[u] /\ new'[u] = next[old[u]]
      BY <1>0, <2>4 DEF PopNext, Below
    <3>2. QED
      BY <1>a, <2>1, <2>4, <3>1 DEF Knows
  <2>5. CASE u = th /\ PopFails(th)
    <3>1. pc[u] = "pop_cas" /\ pc'[u] = "idle"
      BY <1>0, <2>5 DEF PopFails
    <3>2. QED
      BY <1>a, <2>1, <3>1 DEF Knows
  <2>6. QED
    BY <1>5, <2>2, <2>3, <2>4, <2>5
<1>6. ASSUME NEW th \in Poppers, PopDone(th)
      PROVE  Knows(u)'
  <2>1. next' = next /\ hand' = hand /\ old' = old /\ new' = new /\ pc[th] = "pop_cas"
    BY <1>6 DEF PopDone
  <2>2. CASE u = th
    <3>1. pc'[u] = "idle" /\ hand[u] = NoTask
      BY <1>0, <1>6, <1>a, <2>1, <2>2 DEF PopDone, Knows
    <3>2. QED
      BY <2>1, <3>1 DEF Knows
  <2>3. CASE u # th
    <3>1. pc'[u] = pc[u]
      BY <1>0, <1>6, <2>3 DEF PopDone
    <3>2. pc[u] \notin {"pop_next", "pop_cas"}
      BY <1>a, <2>3 DEF Knows, OnePopper
    <3>3. QED
      BY <1>b, <2>1, <3>1, <3>2
  <2>4. QED
    BY <2>2, <2>3
<1>7. CASE NewRound \/ UNCHANGED vars
  BY <1>7, <1>a, <1>b DEF NewRound, vars, Listed, Knows
<1>8. QED
  BY <1>1, <1>2, <1>3, <1>4, <1>5, <1>6, <1>7 DEF Next, Pushing, Popping

\* With one thread that pops the links always run through the tasks that are in the
\* stack, none is lost or doubled, and no thread is misled by an old pointer.
THEOREM Invariance ==
  ASSUME OnePopper
  PROVE  Spec => []StackInv
<1>1. Init => StackInv
  BY InitInv
<1>2. StackInv /\ [Next]_vars => StackInv'
  BY TypeStep, ChainStep, ConservedStep, LocalsStep DEF StackInv
<1>3. QED
  BY <1>1, <1>2, PTL DEF Spec

\* The stack implements Lifo: every push and every pop takes effect at its exchange,
\* and a pop returns the task pushed last of those that are left.
THEOREM Refinement ==
  ASSUME OnePopper
  PROVE  Spec => RefinesLifo
<1>1. Init => L!Init
  BY DEF Init, L!Init
<1>2. StackInv /\ [Next]_vars => [L!Next]_L!vars
  <2> SUFFICES ASSUME StackInv, [Next]_vars
               PROVE  [L!Next]_L!vars
    OBVIOUS
  <2> USE StackAssumption DEF roundVars
  <2>0. \A th \in Thread :
          hand[th] # NoTask <=> pc[th] \in {"push_read", "push_link", "push_cas"}
    BY DEF StackInv, Locals
  <2>1. ASSUME UNCHANGED <<list, hand, fresh, out>>
        PROVE  [L!Next]_L!vars
    BY <2>1 DEF L!vars
  <2>2. ASSUME NEW th \in Thread, NEW t \in Task, PushBegin(th, t)
        PROVE  L!Begin(th, t)
    BY <2>0, <2>2 DEF PushBegin, L!Begin
  <2>3. ASSUME NEW th \in Thread, PushDone(th)
        PROVE  L!Push(th)
    BY <2>0, <2>3 DEF PushDone, L!Push
  <2>4. ASSUME NEW th \in Thread, TryPushFails(th)
        PROVE  L!Refuse(th)
    BY <2>0, <2>4 DEF TryPushFails, L!Refuse
  <2>5. ASSUME NEW th \in Poppers, PopDone(th)
        PROVE  L!Pop(th)
    <3>1. list # <<>> /\ old[th] = list[1] /\ list \in Seq(Task)
      BY <2>5, PopsFirst DEF StackInv, TypeOK
    <3>2. list' = Tail(list) /\ Head(list) = list[1]
      BY <2>5, <3>1, PoppedList DEF PopDone
    <3>3. hand[th] = NoTask
      BY <2>0, <2>5 DEF PopDone
    <3>4. QED
      BY <2>5, <3>1, <3>2, <3>3 DEF PopDone, L!Pop
  <2>6. CASE NewRound
    BY <2>6 DEF NewRound, L!NewRound, L!Next
  <2>7. QED
    BY <2>1, <2>2, <2>3, <2>4, <2>5, <2>6
       DEF Next, Pushing, PushRead, PushLink, PushRetry, Popping, PopRead, PopNext, PopFails,
           vars, L!Next
<1>3. QED
  BY <1>1, <1>2, Invariance, PTL DEF Spec, L!Spec, RefinesLifo
=============================================================================
