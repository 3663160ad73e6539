---------------------------- MODULE MCTileLoop ----------------------------
(***************************************************************************)
(* Instances of TileLoop: one dimension with every kind of bounds, beside  *)
(* others that are cut into tiles.                                         *)
(***************************************************************************)
EXTENDS TileLoop

Nest(lb, ub, size, off) ==
  [n |-> <<6, 3>>, lb |-> <<lb, 1>>, ub |-> <<ub, 2>>, tile |-> <<size, 2>>,
   off |-> <<off, 0>>, sno |-> 1]

\* All bounds, tile sizes and offsets of the first dimension.
Plane ==
  UNION {{Nest(lb, ub, size, off) : off \in 0 .. lb} :
           lb \in 0 .. 4, ub \in 2 .. 5, size \in 1 .. 4}

\* Three dimensions, packed by rows and by planes.
Space ==
  {[n |-> <<2, 3, 3>>, lb |-> <<0, y, 0>>, ub |-> <<1, 2, 2>>, tile |-> <<x, 2, 2>>,
    off |-> <<0, 0, 0>>, sno |-> s] : y \in {0, 1}, x \in {2, 3}, s \in {1, 2}}

MCNests == {a \in Plane : a.lb[1] <= a.ub[1]} \cup Space
=============================================================================
