---------------------------- MODULE RuntimeStart ----------------------------
(***************************************************************************)
(* The life of the runtime with the settings it is started with, which     *)
(* have no state of their own: they are looked at once, before the first   *)
(* start, for every environment and every argument of the program.         *)
(***************************************************************************)
EXTENDS RuntimeLife, Startup

\* What a process makes of its settings before it starts the runtime: threads get cores
\* of the list, and each its own (aceMesh_runtime_init, get_env_settings, thread_bind).
CoresOfStarts == inits = 0 => OwnCores
=============================================================================
