----------------------------- MODULE TileLoop -----------------------------
(***************************************************************************)
(* A tiled loop nest of the C interface, as its compiler generates it: the *)
(* tile functions give the number of tiles and the bounds of each, and the *)
(* body of a tile fetches it from main memory with strided copies, expands *)
(* it to the size of a full tile, computes, compresses it and writes it    *)
(* back.  Elements stand for bytes: e_type_size is 1.                      *)
(***************************************************************************)
EXTENDS Integers, Sequences, SequencesExt, FiniteSetsExt

CONSTANT Nests
  (* records: n the sizes of the array, lb and ub the bounds of the loops,   *)
  (* tile the tile sizes, off init_offset (per dimension), sno stride_no     *)

ASSUME NestsAssumption ==
  \A a \in Nests :
    /\ Len(a.n) \in Nat /\ a.sno \in 1 .. Len(a.n) - 1
    /\ \A d \in 1 .. Len(a.n) :
         /\ a.tile[d] \in Nat \ {0} /\ a.lb[d] \in Nat /\ a.ub[d] \in Int /\ a.off[d] \in Int
         /\ a.ub[d] < a.n[d] /\ a.off[d] <= a.lb[d]
    \* a strided copy moves whole rows of the dimensions below stride_no
    /\ \A d \in 1 .. a.sno - 1 : a.lb[d] = 0 /\ a.ub[d] = a.n[d] - 1 /\ a.tile[d] >= a.n[d]

VARIABLES
  nest,   \* the loop nest that is executed
  mm,     \* the array in main memory
  ldm,    \* the buffer of a full tile
  no,     \* numbers of the current tile, per dimension
  pc

tileVars == <<nest, mm, ldm, no, pc>>

Dims == 1 .. Len(nest.n)
Product(s, k) == FoldSeq(LAMBDA x, y : x * y, 1, SubSeq(s, 1, k))

\* The remainder of C, for a positive divisor.
CMod(a, b) == IF a >= 0 THEN a % b ELSE -((-a) % b)
CDiv(a, b) == IF a >= 0 THEN a \div b ELSE -((-a) \div b)

-----------------------------------------------------------------------------
\* Mutant: the tile cut off by the upper bound is never counted by itself.
TileNumNoPost(size, lb, ub) ==
  LET len == ub - lb + 1 - (IF CMod(lb, size) # 0 THEN size - CMod(lb, size) ELSE 0)
  IN  (IF CMod(lb, size) # 0 THEN 1 ELSE 0)
        + (IF len <= 0 THEN 0 ELSE IF len < size THEN 1 ELSE len \div size)

\* acemesh_get_loop_tile_num of an ascending loop: what precedes the first
\* multiple of the size, the rest above the last one, and the whole tiles.
TileNum(size, lb, ub) ==
  LET pre   == CMod(lb, size) # 0
      len1  == IF ~pre THEN ub - lb + 1
               ELSE Max({0, ub - lb + 1 - (size - CMod(lb, size))})
      post  == CMod(ub, size) # size - 1 /\ len1 > size
      len2  == IF post THEN len1 - (CMod(ub, size) + 1) ELSE len1
      whole == IF len2 <= 0 THEN 0 ELSE IF len2 < size THEN 1 ELSE len2 \div size
  IN  IF ub < lb THEN 0 ELSE (IF pre THEN 1 ELSE 0) + (IF post THEN 1 ELSE 0) + whole

TileStart(size, k, lb) == Max({lb, k * size + lb - CMod(lb, size)})
TileEnd(size, k, lb, ub) == Min({ub, (k + 1) * size + lb - CMod(lb, size) - 1})
TileNo(size, index, lb) == CDiv(index - (lb - CMod(lb, size)), size)
DataTile(size, index, low) == Max({low, index - CMod(index, size)})

\* The same, tiles being counted from init_offset.
TileNumOff(size, lb, ub, off) ==
  IF lb > ub THEN 0 ELSE CDiv(ub - off, size) - CDiv(lb - off, size) + 1
TileStartOff(size, k, lb, off) ==
  Max({lb, (k + CDiv(lb - off, size)) * size + off})
TileEndOff(size, k, lb, ub, off) ==
  Min({ub, (k + CDiv(lb - off, size) + 1) * size + off - 1})
TileNoOff(size, index, lb, off) ==
  CDiv(index - CMod(off, size), size) - CDiv(lb - CMod(off, size), size)

\* Mutant: the offset is not subtracted.
DataTileNoOff(size, index, low, off) == Max({low, CDiv(index, size) * size + off})

DataTileOff(size, index, low, off) ==
  Max({low, CDiv(index - off, size) * size + off})

\* With offset 0 a program calls the functions without one.
Num(d) ==
  IF nest.off[d] = 0 THEN TileNum(nest.tile[d], nest.lb[d], nest.ub[d])
  ELSE TileNumOff(nest.tile[d], nest.lb[d], nest.ub[d], nest.off[d])
From(d) ==
  IF nest.off[d] = 0 THEN TileStart(nest.tile[d], no[d], nest.lb[d])
  ELSE TileStartOff(nest.tile[d], no[d], nest.lb[d], nest.off[d])
To(d) ==
  IF nest.off[d] = 0 THEN TileEnd(nest.tile[d], no[d], nest.lb[d], nest.ub[d])
  ELSE TileEndOff(nest.tile[d], no[d], nest.lb[d], nest.ub[d], nest.off[d])

-----------------------------------------------------------------------------
\* d1, d2, ... and t1, t2, ...: the sizes of a full tile and of this one.
Full == nest.tile
Part == [d \in Dims |-> To(d) - From(d) + 1]

\* Position of an index in an array of the given sizes, and its inverse.
At(sizes, i) == FoldSeq(+, 0, [d \in Dims |-> i[d] * Product(sizes, d - 1)])
IndexAt(sizes, p) == [d \in Dims |-> (p \div Product(sizes, d - 1)) % sizes[d]]

\* stride[]: beyond stride_no the tile is spread like a full one.
Stride(d) == IF d - 1 > nest.sno THEN Product(Full, d - 1) ELSE Product(Part, d - 1)

Packed(i) == FoldSeq(+, 0, [d \in Dims |-> i[d] * Stride(d)])

\* slave_acemesh_reshape_copyin: expands in place, from the last element down.
CopyIn(buf) ==
  FoldLeft(LAMBDA b, p : [b EXCEPT ![p] = b[Packed(IndexAt(Full, p))]],
           buf, [k \in 1 .. Product(Full, Len(Full)) |-> Product(Full, Len(Full)) - k])

\* slave_acemesh_reshape_copyout: compresses in place, from the first element up.
CopyOut(buf) ==
  FoldLeft(LAMBDA b, p : [b EXCEPT ![Packed(IndexAt(Part, p))] = b[At(Full, IndexAt(Part, p))]],
           buf, [k \in 1 .. Product(Part, Len(Part)) |-> k - 1])

\* slave_acemesh_athread_get: len elements in blocks, from every stride-th place.
AthreadGet(dest, at, src, from, len, stride, bsize) ==
  [p \in DOMAIN dest |->
     IF p - at \in 0 .. len - 1
     THEN src[from + ((p - at) \div bsize) * (bsize + stride) + ((p - at) % bsize)]
     ELSE dest[p]]

\* slave_acemesh_athread_put.
AthreadPut(dest, at, src, from, len, stride, bsize) ==
  [p \in DOMAIN dest |->
     LET q == p - at
         block == q \div (bsize + stride)
         rest == q % (bsize + stride)
     IN  IF q >= 0 /\ rest < bsize /\ block * bsize + rest < len
         THEN src[from + block * bsize + rest]
         ELSE dest[p]]

\* The copies of one tile: one for every index above stride_no.
Transfers ==
  LET bsize == Product(Part, nest.sno)
  IN  {[ldm |-> Packed(i), mm |-> At(nest.n, [d \in Dims |-> From(d) + i[d]]),
        len |-> bsize * Part[nest.sno + 1], bsize |-> bsize,
        stride |-> Product(nest.n, nest.sno) - bsize] :
         i \in {i \in [Dims -> 0 .. Max({Part[d] : d \in Dims})] :
                  \A d \in Dims : i[d] < Part[d] /\ (d <= nest.sno + 1 => i[d] = 0)}}

-----------------------------------------------------------------------------
Start(a) ==
  /\ pc = "idle"
  /\ nest' = a
  /\ mm' = [p \in 0 .. Product(a.n, Len(a.n)) - 1 |-> p]
  /\ ldm' = [p \in 0 .. Product(a.tile, Len(a.n)) - 1 |-> -1]
  /\ no' = [d \in 1 .. Len(a.n) |-> 0]
  /\ pc' = "tile"

Get ==
  /\ pc = "tile" /\ \A d \in Dims : no[d] < Num(d)
  /\ ldm' = FoldSet(LAMBDA x, b : AthreadGet(b, x.ldm, mm, x.mm, x.len, x.stride, x.bsize),
                    ldm, Transfers)
  /\ pc' = "expand"
  /\ UNCHANGED <<nest, mm, no>>

Expand ==
  /\ pc = "expand"
  /\ ldm' = CopyIn(ldm)
  /\ pc' = "compute"
  /\ UNCHANGED <<nest, mm, no>>

\* The loops of the body, over the tile in the layout of a full one.
Compute ==
  /\ pc = "compute"
  /\ ldm' = [p \in DOMAIN ldm |->
       IF \A d \in Dims : IndexAt(Full, p)[d] < Part[d] THEN ldm[p] + 1000 ELSE ldm[p]]
  /\ pc' = "compress"
  /\ UNCHANGED <<nest, mm, no>>

Compress ==
  /\ pc = "compress"
  /\ ldm' = CopyOut(ldm)
  /\ pc' = "put"
  /\ UNCHANGED <<nest, mm, no>>

Put ==
  /\ pc = "put"
  /\ mm' = FoldSet(LAMBDA x, a : AthreadPut(a, x.mm, ldm, x.ldm, x.len, x.stride, x.bsize),
                   mm, Transfers)
  /\ pc' = "next"
  /\ UNCHANGED <<nest, ldm, no>>

\* The tile loops, the first dimension innermost.
NextTile ==
  /\ pc = "next"
  /\ LET more == {d \in Dims : no[d] + 1 < Num(d)} IN
     IF more = {}
     THEN pc' = "end" /\ UNCHANGED no
     ELSE /\ no' = [d \in Dims |-> CASE d < Min(more) -> 0
                                     [] d = Min(more) -> no[d] + 1
                                     [] OTHER -> no[d]]
          /\ pc' = "tile"
  /\ UNCHANGED <<nest, mm, ldm>>

TileInit == nest = <<>> /\ mm = <<>> /\ ldm = <<>> /\ no = <<>> /\ pc = "idle"

TileNext ==
  \/ \E a \in Nests : Start(a)
  \/ Get \/ Expand \/ Compute \/ Compress \/ Put \/ NextTile

TileSpec == TileInit /\ [][TileNext]_tileVars

-----------------------------------------------------------------------------
\* When the loops end, every element inside their bounds was computed once, in
\* its place, and no other was changed: whatever the bounds and the tile sizes,
\* with tiles cut off on either side, and although the tile is expanded and
\* compressed in place and written back in blocks.
ComputedOnce ==
  pc = "end" =>
    \A p \in DOMAIN mm :
      mm[p] = IF \A d \in Dims : LET i == IndexAt(nest.n, p)[d]
                                 IN  nest.lb[d] <= i /\ i <= nest.ub[d]
              THEN p + 1000 ELSE p

\* The tile functions agree: a tile of the loop is a part of one data tile, by
\* whose address its accesses are declared, and of the number asked for.
TileOfData ==
  pc = "tile" => \A d \in Dims : \A i \in From(d) .. To(d) :
    IF nest.off[d] = 0
    THEN /\ TileNo(nest.tile[d], i, nest.lb[d]) = no[d]
         /\ DataTile(nest.tile[d], i, 0) = DataTile(nest.tile[d], From(d), 0)
    ELSE /\ TileNoOff(nest.tile[d], i, nest.lb[d], nest.off[d]) = no[d]
         /\ DataTileOff(nest.tile[d], i, nest.off[d], nest.off[d])
              = DataTileOff(nest.tile[d], From(d), nest.off[d], nest.off[d])
=============================================================================
