---------------------------- MODULE MCDagReuse -----------------------------
(***************************************************************************)
(* Instances of DagReuse for TLC.                                          *)
(***************************************************************************)
EXTENDS DagReuse, TLC

CONSTANTS v1, v2, v3    \* parameters

MCNo == {0, 1}
MCPar == {v1, v2, v3}
NoEmpty == {}

\* Parameters are only compared.
Symmetry == Permutations(MCPar)
=============================================================================
