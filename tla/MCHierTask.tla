---------------------------- MODULE MCHierTask ----------------------------
(***************************************************************************)
(* Instance of HierTask: two by two chunks, three subthreads.              *)
(***************************************************************************)
EXTENDS HierTask

MCChunks == <<2, 2>>

\* Fewer points than chunks, lengths that divide and that do not.
Block(x, y) == <<[low |-> -1, high |-> x - 1], [low |-> 1, high |-> 1 + y]>>

MCRanges == {Block(1, 2), Block(3, 1), Block(3, 3)}
=============================================================================
