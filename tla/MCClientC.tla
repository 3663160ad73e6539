----------------------------- MODULE MCClientC -----------------------------
(***************************************************************************)
(* An instance of ClientLibrary: two threads of execution, eight threads   *)
(* for two nodes of three cores where only one node has a counter, and     *)
(* every short sequence of requests to the memory pool and of calls of the *)
(* C++ interface.                                                          *)
(***************************************************************************)
EXTENDS ClientLibrary

CONSTANTS main, w1

MCThread == {main, w1}
MCAccesses == {<<100, "OUT", "SHADE_AND_UNSHADE">>}
MCKinds == {<<1, 8, TRUE>>, <<2, 8, FALSE>>, <<2, 0, TRUE>>}
MCNear == [v \in {1, 2} |-> IF v = 1 THEN {100} ELSE {200}]

\* One that a remainder leaves negative, and one larger than the cores of a node.
MCBeyond == {-1, 7}

MCNamed == {<<100, "NORMAL">>, <<200, "SHADE_AND_UNSHADE">>}

\* malloc aligns to 16 bytes.
MCAddresses == {<<a, 64 + b, 128 + c, 192, 256>> : a, b, c \in {0, 16}}
=============================================================================
