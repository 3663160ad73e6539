--------------------------- MODULE ClientLibrary ---------------------------
(***************************************************************************)
(* The C interface with the parts that have no state of their own in       *)
(* ClientC: the memory pool, which replaces malloc in a library built with *)
(* MEMORY_POOL, and the C++ interface.  They are looked at once, before    *)
(* the program begins, for every sequence of requests and of calls.        *)
(***************************************************************************)
EXTENDS ClientC, MemPool, Registration

Before == pc = "idle" /\ round = 0 /\ task[1] = NoTask

\* What the pool gives lies in its blocks, does not overlap and is aligned, in every
\* round, and a program that repeats itself needs no more blocks (acemesh_myalloc_aligned_4
\* to _32, ReInitial).
PoolSound == Before => PoolServes

\* A task of the C++ interface gets the accesses declared for it (register_task,
\* register_task_datainfo, register_task_end, do_register).
RegistrationSound == Before => RegistersDeclared
=============================================================================
