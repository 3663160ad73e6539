----------------------------- MODULE MCPrograms -----------------------------
(***************************************************************************)
(* Programs with the example programs as its texts, on small arrays, and   *)
(* with small traced programs, which the examples are not.                 *)
(***************************************************************************)
EXTENDS RaceTrace, TLC

Stencil == INSTANCE Stencils WITH SIZEX <- 6, SIZEY <- 5, SIZEZ <- 4,
                                  BLKX <- 2, BLKY <- 2, BLKZ <- 1
Square == INSTANCE Stencils WITH SIZEX <- 6, SIZEY <- 6, SIZEZ <- 4,
                                 BLKX <- 2, BLKY <- 2, BLKZ <- 1
Cubic == INSTANCE Stencils WITH SIZEX <- 5, SIZEY <- 4, SIZEZ <- 4,
                                BLKX <- 2, BLKY <- 1, BLKZ <- 1
Fdtds == INSTANCE Fdtd WITH nx <- 5, ny <- 4, tmax <- 2, tz <- 2, tz1 <- 3, tz2 <- 3
Adis == INSTANCE Adi WITH N <- 5, T <- 2, blockx <- 2, blocky <- 2,
                          T2 <- 1, block1 <- 2, block2 <- 2
Chol == INSTANCE Cholesky WITH DIM <- 4

Examples ==
  [ p2d5p |-> Stencil!p2d5p(3),
    p2d5p_omp |-> Stencil!p2d5p_omp(3),
    p3d7p |-> Stencil!p3d7p(3),
    p3d7p_omp |-> Stencil!p3d7p_omp(3),
    p3d7p_1IterPerDag |-> Stencil!p3d7p_1IterPerDag(3),
    p3d7p_2IterPerDag |-> Stencil!p3d7p_2IterPerDag(4),
    p3d7p_2IterPerDag_reuse |-> Stencil!p3d7p_2IterPerDag_reuse(4),
    p3d7p_2dag_reuse1of2 |-> Stencil!p3d7p_2dag_reuse1of2(4),
    p3d7p_2dag_reuse2 |-> Stencil!p3d7p_2dag_reuse2(4),
    p3d7p_outer |-> Stencil!p3d7p_outer(8),
    p3d7p_outer_reuse |-> Stencil!p3d7p_outer_reuse(8),
    p3d7p_cyclic |-> Stencil!p3d7p_cyclic(3),
    p3d7p_blocked |-> Stencil!p3d7p_blocked(4, 2),
    p3d7p_f |-> Square!p3d7p_f(3),
    p3d7p_par3 |-> Cubic!p3d7p_par3(2),
    fdtd_dag |-> Fdtds!fdtd_bands,
    fdtd_dag_bk |-> Fdtds!fdtd_tiles,
    fdtd_omp |-> Fdtds!fdtd_team,
    dag_adifull |-> Adis!dag_bands,
    mdag_adifull |-> Adis!mdag_bands,
    dag_adifull_2d |-> Adis!dag_tiles,
    upch_adifull |-> Adis!upch_bands,
    omp_adifull |-> Adis!omp_bands,
    serial_adifull |-> Adis!serial_bands,
    cholesky_dag |-> Chol!cholesky_dag,
    cholesky_omp |-> Chol!cholesky_omp ]

\* A task that calls the tracer on the address x, and perhaps then on y; it declares to read
\* x, and perhaps to write it.
Tracer(first, second, writes) ==
  [writes |-> IF writes THEN {"x"} ELSE {}, reads |-> {"x"}, body |-> <<>>, puts |-> {}, gets |-> {},
   calls |-> << <<first, "x">> >> \o (IF second = "" THEN <<>> ELSE << <<second, "y">> >>)]

\* By the letters of their names.
Tracers ==
  [ r |-> Tracer("Read", "", FALSE),
    h |-> Tracer("ReadHalo", "", FALSE),
    w |-> Tracer("Write", "", FALSE),
    W |-> Tracer("Write", "", TRUE),
    v |-> Tracer("WriteHalo", "", FALSE),
    V |-> Tracer("WriteHalo", "", TRUE) ]

Small(loops) == [text |-> loops, init |-> <<>>, serial |-> <<>>, out |-> {}]
One(t) == Stencil!Loop(<<t>>)

\* Three loops of one task.
Threes ==
  LET name(s) == s[1] \o s[2] \o s[3]
      kinds == {"r", "h", "w", "W"}
      all == kinds \X kinds \X kinds \cup {<<"r", "V", "v">>, <<"v", "r", "v">>}
  IN  [p \in {name(s) : s \in all} |->
         LET s == CHOOSE s \in all : name(s) = p
         IN  Small(One(Tracers[s[1]]) \o One(Tracers[s[2]]) \o One(Tracers[s[3]]) \o Stencil!Wait)]

\* A graph that is executed again; a round after another; an address that nobody declares.
Others ==
  LET rw == One(Tracers.r) \o One(Tracers.W)
  IN  [ stored |-> Small(Stencil!Start(1, 1) \o rw \o Stencil!Wait
                           \o Stencil!Start(1, 1) \o rw \o Stencil!Wait),
        rounds |-> Small(rw \o Stencil!Wait \o One(Tracers.w) \o One(Tracers.r) \o Stencil!Wait),
        undeclared |-> Small(One(Tracer("Read", "Write", FALSE)) \o Stencil!Wait) ]

MCTraced == DOMAIN Threes \cup DOMAIN Others
MCTexts == Examples @@ Threes @@ Others

CONSTANTS t1, t2, t3
MCThread == {t1, t2, t3}
MCSymmetry == Permutations(MCThread)
=============================================================================
