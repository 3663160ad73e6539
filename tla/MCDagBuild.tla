----------------------------- MODULE MCDagBuild -----------------------------
(***************************************************************************)
(* An instance of DagBuild, with the checks of a debug build and the parts *)
(* of a partitioned one: graphs with few tasks and rich loops, and longer  *)
(* chains of loops on one address.                                         *)
(***************************************************************************)
EXTENDS GraphCheck, Partition, TLC

CONSTANTS a1, a2

MCAddr == {a1, a2}
MCTypes == Type

\* The addresses are interchangeable.
Symmetry == Permutations({a1, a2})

Declared == past \cup {tuples[i] : i \in 1 .. Len(tuples)}

\* Three tasks, up to two accesses per loop, of two addresses.
Rich ==
  /\ n <= IF Finished THEN 4 ELSE 3
  /\ \A x \in Declared : x.type \in {"IN", "OUT"}

\* Four tasks, one access per loop, of one address, all access types.
Chain ==
  \A x, y \in Declared : x # y => x.addr = y.addr /\ loop[x.task] # loop[y.task]

\* Neighbours are read, as the neighbour functions of the examples are for.
NearRead == \A x \in Declared : x.near => x.type = "IN"

Explored == (Rich \/ Chain) /\ NearRead
=============================================================================
