------------------------------ MODULE MemPool ------------------------------
(***************************************************************************)
(* The memory pool of a library built with MEMORY_POOL: the arguments of   *)
(* tasks are cut from blocks of UNITSIZE bytes, and ReInitial makes the    *)
(* whole pool vacant at the end of every acemesh_spawn_and_wait.           *)
(*                                                                         *)
(* A pool is a record as in the code, whose lists of blocks are sequences; *)
(* a block is its address, and the n-th malloc returns Address[n].         *)
(***************************************************************************)
EXTENDS Integers, Sequences, SequencesExt

CONSTANTS
  UNITSIZE,
  Addresses,  \* what malloc may return, one after the other: a set of sequences
  Aligns,     \* 4, 8, 16, 32: the functions of the pool
  Sizes,      \* bound: sizes asked for
  Requests    \* bound: requests between two ReInitial

\* malloc aligns to 16 bytes, and what it returns does not overlap; a round needs no more
\* than a block for every request.  Nothing in the code keeps a size from being negative
\* or greater than UNITSIZE, 20 megabytes: it is left to the program.
ASSUME PoolAssumption ==
  /\ UNITSIZE \in Nat \ {0} /\ Requests \in Nat
  /\ Aligns \subseteq {4, 8, 16, 32} /\ Sizes \subseteq 0 .. UNITSIZE
  /\ \A address \in Addresses :
       /\ 1 .. Requests + 1 \subseteq DOMAIN address
       /\ \A i \in 1 .. Requests + 1 : address[i] \in Nat /\ address[i] % 16 = 0
       /\ \A i, j \in 1 .. Requests + 1 :
            i # j => address[i] + UNITSIZE <= address[j] \/ address[j] + UNITSIZE <= address[i]

\* mempool_allocblock.
AllocBlock(pool) == pool.address[pool.mallocs + 1]

\* The first free block, or a new one, becomes the block that is cut; the rest of the
\* block before it is lost until ReInitial.
NextBlock(pool) ==
  LET new == pool.FreeMemBlock = <<>>
      block == IF new THEN AllocBlock(pool) ELSE Head(pool.FreeMemBlock)
  IN  [pool EXCEPT
         !.mallocs = IF new THEN @ + 1 ELSE @,
         !.FreeMemBlock = IF new THEN @ ELSE Tail(@),
         !.AllocatedMemBlock = <<block>> \o @,
         !.self1 = block,
         !.EndBlock = block + UNITSIZE]

InitPool(address) ==
  NextBlock([address |-> address, mallocs |-> 0, self1 |-> 0, EndBlock |-> 0,
             FreeMemBlock |-> <<>>, AllocatedMemBlock |-> <<>>, got |-> <<>>])

AlignUp(p, align) == IF p % align > 0 THEN p + (align - (p % align)) ELSE p

\* Mutant: a request may pass the end of the block.
FitsAny(pool, size) == pool.EndBlock > pool.self1

Fits(pool, size) == pool.EndBlock - pool.self1 >= size

\* acemesh_myalloc_aligned_4, _8, _16 and _32: the start of a new block is not aligned
\* again.  got is the history of what the pool gave.
Alloc(pool, request) ==
  LET aligned == [pool EXCEPT !.self1 = AlignUp(@, request.align)]
      cut == IF Fits(aligned, request.size) THEN aligned ELSE NextBlock(aligned)
  IN  [cut EXCEPT !.self1 = @ + request.size,
                  !.got = Append(@, [at |-> cut.self1, size |-> request.size,
                                     align |-> request.align])]

\* All blocks become free, in reverse order, and the first is cut again.
ReInitial(pool) ==
  NextBlock([pool EXCEPT !.FreeMemBlock = Reverse(pool.AllocatedMemBlock) \o @,
                         !.AllocatedMemBlock = <<>>, !.got = <<>>])

-----------------------------------------------------------------------------
RequestSeqs ==
  UNION {[1 .. n -> [align : Aligns, size : Sizes]] : n \in 0 .. Requests}

\* The pool after the first k requests, and after all.
Served(pool, requests) ==
  LET served[k \in 0 .. Len(requests)] == IF k = 0 THEN pool ELSE Alloc(served[k - 1], requests[k])
  IN  served

Serve(pool, requests) == Served(pool, requests)[Len(requests)]

\* What a pool gave since ReInitial lies in its blocks, does not overlap, and is
\* aligned as asked for, up to the 16 bytes malloc aligns to.
Sound(pool) ==
  /\ \A x \in ToSet(pool.got) :
       /\ \E b \in ToSet(pool.AllocatedMemBlock) : b <= x.at /\ x.at + x.size <= b + UNITSIZE
       /\ x.align <= 16 => x.at % x.align = 0
  /\ \A i, j \in DOMAIN pool.got :
       i < j => \/ pool.got[i].at + pool.got[i].size <= pool.got[j].at
                \/ pool.got[j].at + pool.got[j].size <= pool.got[i].at

\* A program that asks for the same in every round gets the same memory in every round,
\* and needs no new block after the first, whatever another round has asked for before.
PoolServes ==
  \A address \in Addresses, first, next \in RequestSeqs :
    LET one == Serve(InitPool(address), first)
        two == Serve(ReInitial(one), next)
        three == Serve(ReInitial(two), first)
    IN  /\ Sound(one) /\ Sound(two)
        /\ three.got = one.got /\ three.mallocs = two.mallocs
=============================================================================
