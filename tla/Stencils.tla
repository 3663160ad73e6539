------------------------------ MODULE Stencils ------------------------------
(***************************************************************************)
(* The stencil programs of examples/: 2d5p, 3d7p with all its ways to cut  *)
(* the iterations into graphs, 3d7p-par3, and the OpenMP versions of the   *)
(* first two.  The innermost dimension of 3d7p is not tiled: an element    *)
(* stands for a whole line.                                                *)
(***************************************************************************)
EXTENDS ProgramText

CONSTANTS SIZEX, SIZEY, SIZEZ, BLKX, BLKY, BLKZ

Grid == {0, 1} \X (0 .. SIZEX - 1) \X (0 .. SIZEY - 1)
Interior == (1 .. SIZEX - 2) \X (1 .. SIZEY - 2)
TileLoop(task(_, _)) ==
  Loop(For(1, SIZEX - 1, BLKX, LAMBDA i : For(1, SIZEY - 1, BLKY, LAMBDA j : task(i, j))))

Do2d5pkernel(dest, src, i, j) ==
  Assign(<<dest, i, j>>,
    <<<<src, i, j>>, <<src, i-1, j>>, <<src, i+1, j>>, <<src, i, j-1>>, <<src, i, j+1>>>>)

\* The two ends of the line keep their values.
Do3d7pkernel(dest, src, i, j) ==
  Assign(<<dest, i, j>>,
    <<<<src, i, j>>, <<src, i-1, j>>, <<src, i+1, j>>, <<src, i, j-1>>, <<src, i, j+1>>,
      <<dest, i, j>>>>)

stencil_core(kernel(_,_,_,_), dest, starti, startj) ==
  For(starti, Least(starti + BLKX, SIZEX - 1), 1, LAMBDA i :
    For(startj, Least(startj + BLKY, SIZEY - 1), 1, LAMBDA j : kernel(dest, 1 - dest, i, j)))

my_neighbors(src, i, j) ==
  {n \in {<<src, i - BLKX, j>>, <<src, i + BLKX, j>>, <<src, i, j - BLKY>>, <<src, i, j + BLKY>>} :
     n[2] \in 0 .. SIZEX - 1 /\ n[3] \in 0 .. SIZEY - 1}

Iteration(kernel(_,_,_,_), itr) ==
  LET dest == itr % 2 src == (itr + 1) % 2 IN
  TileLoop(LAMBDA i, j :
    Task({<<dest, i, j>>}, {<<src, i, j>>} \cup my_neighbors(src, i, j),
         stencil_core(kernel, dest, i, j)))

Do2d5p(iter) ==
  For(0, iter, 1, LAMBDA itr : Iteration(Do2d5pkernel, itr)) \o Wait

\* 2d5p_omp.cpp, 3d7p_omp.cpp: a team for the tiles of each iteration, and
\* all wait for the last of them.
Tiled(kernel(_,_,_,_), itr) ==
  TileLoop(LAMBDA i, j : Task({}, {}, stencil_core(kernel, itr % 2, i, j))) \o Wait
Do2d5p_omp(iter) == For(0, iter, 1, LAMBDA itr : Tiled(Do2d5pkernel, itr))
Do3d7p_omp(iter) == For(0, iter, 1, LAMBDA itr : Tiled(Do3d7pkernel, itr))

\* 3d7p_dag.c: all iterations in one graph.
Do3d7p(iter) ==
  For(0, iter, 1, LAMBDA itr : Iteration(Do3d7pkernel, itr)) \o Wait

\* 3d7p_dag_1IterPerDag.c, 3d7p_dag_2IterPerDag.c
Do3d7p_1IterPerDag(iter) ==
  For(0, iter, 1, LAMBDA itr : Iteration(Do3d7pkernel, itr) \o Wait)
Do3d7p_2IterPerDag(iter) ==
  For(0, iter, 2, LAMBDA itr :
    Iteration(Do3d7pkernel, itr) \o Iteration(Do3d7pkernel, itr + 1) \o Wait)

\* 3d7p_dag_2IterPerDag_reuse.c: built once.
Do3d7p_2IterPerDag_reuse(iter) ==
  For(0, iter, 2, LAMBDA itr :
    Start(1, 0) \o Iteration(Do3d7pkernel, itr) \o Iteration(Do3d7pkernel, itr + 1) \o Wait)

\* Mutant: the graph of the even iterations is taken for the odd ones too.
Params_none(itr) == 0

\* vecI of 3d7p_dag_2dag_reuse1of2.c: the address of the array written.
Params(itr) == itr % 2

\* 3d7p_dag_2dag_reuse1of2.c: the graph of the even iterations is reused.
Do3d7p_2dag_reuse1of2(iter) ==
  For(0, iter, 1, LAMBDA itr :
    Start(1, Params(itr)) \o Iteration(Do3d7pkernel, itr) \o Wait)

\* 3d7p_dag_2dag_reuse2.c: a graph for the even ones, another for the odd.
Do3d7p_2dag_reuse2(iter) ==
  For(0, iter, 2, LAMBDA itr :
    Start(1, 0) \o Iteration(Do3d7pkernel, itr) \o Wait
      \o Start(2, 0) \o Iteration(Do3d7pkernel, itr + 1) \o Wait)

\* 3d7p_dag_outer.c, 3d7p_dag_outer_reuse.c: four times a quarter.
Do3d7p_outer(iter) ==
  For(0, 4, 1, LAMBDA outer :
    For(0, iter \div 4, 1, LAMBDA itr : Iteration(Do3d7pkernel, itr)) \o Wait)
Do3d7p_outer_reuse(iter) ==
  For(0, 4, 1, LAMBDA outer :
    Start(1, 0) \o For(0, iter \div 4, 1, LAMBDA itr : Iteration(Do3d7pkernel, itr)) \o Wait)

-----------------------------------------------------------------------------
\* The formula of Myinit: what it is does not matter.
initial(i, j) == 50 * i + 7 * j + 3

\* stencil_init of 3d7p/3d7p_dag.c.
stencil_init(starti, endi, startj, endj) ==
  For(starti, endi, 1, LAMBDA i : For(startj, endj, 1, LAMBDA j :
    Store(<<0, i, j>>, initial(i, j)) \o Store(<<1, i, j>>, initial(i, j))))

\* The tiles at the border include it.
lower(i) == IF i = 1 THEN 0 ELSE i
upper(i, size, block) == IF i + block >= size - 1 THEN size ELSE i + block

\* INIT_CYCLIC: initialised by a loop of the graph that follows.
Myinit_cyclic_dag ==
  TileLoop(LAMBDA i, j :
    Task({<<0, i, j>>, <<1, i, j>>}, {},
      stencil_init(lower(i), upper(i, SIZEX, BLKX), lower(j), upper(j, SIZEY, BLKY))))

\* INIT_BLOCKED: by a graph of its own, a task for a row of tiles.
Myinit_blocked_dag ==
  Loop(For(1, SIZEX - 1, BLKX, LAMBDA i :
    Task({0, 1} \X {i} \X From(1, SIZEY - 1, BLKY), {},
      stencil_init(lower(i), upper(i, SIZEX, BLKX), 0, SIZEY))))
  \o Wait

\* GRAPH_REUSE of 3d7p/3d7p_dag.c: iter/dist times the graph of dist iterations.
Do3d7p_graph_reuse(iter, dist) ==
  For(0, iter \div dist, 1, LAMBDA outer :
    Start(1, 0) \o For(0, dist, 1, LAMBDA itr : Iteration(Do3d7pkernel, itr)) \o Wait)

-----------------------------------------------------------------------------
\* Myinit fills the array read first (and corners of the other).
Myinit == [x \in Grid |-> IF x[1] = 1 THEN initial(x[2], x[3]) ELSE 0]
Cleared == [x \in Grid |-> 0]

\* check: the loops over the whole interior, and the array written last.
check(kernel(_,_,_,_), iter) ==
  For(0, iter, 1, LAMBDA itr : For(1, SIZEX - 1, 1, LAMBDA i : For(1, SIZEY - 1, 1, LAMBDA j :
    kernel(itr % 2, (itr + 1) % 2, i, j))))
checked(iter) == {<<(iter + 1) % 2>> \o x : x \in Interior}

\* The serial program that initialises both arrays first.
initialised(iter) == stencil_init(0, SIZEX, 0, SIZEY) \o check(Do3d7pkernel, iter)

-----------------------------------------------------------------------------
\* 3d7p-par3: all three dimensions are cut.
Do3d7pkernel_3d(dest, src, i, j, k) ==
  Assign(<<dest, i, j, k>>,
    <<<<src, i, j, k>>, <<src, i-1, j, k>>, <<src, i+1, j, k>>, <<src, i, j-1, k>>,
      <<src, i, j+1, k>>, <<src, i, j, k-1>>, <<src, i, j, k+1>>>>)

\* Inner tiles: from starti to the end of the tile, and so on.
Inside(x, y, z, body(_, _, _)) ==
  For(x[1], Least(x[2], SIZEX - 1), 1, LAMBDA i : For(y[1], Least(y[2], SIZEY - 1), 1, LAMBDA j :
    For(z[1], Least(z[2], SIZEZ - 1), 1, LAMBDA k : body(i, j, k))))

stencil_core_3d(dest, i, j, k) ==
  Inside(<<i, i + BLKX>>, <<j, j + BLKY>>, <<k, k + BLKZ>>,
         LAMBDA ii, jj, kk : Do3d7pkernel_3d(dest, 1 - dest, ii, jj, kk))

my_neighbors_3d(src, i, j, k) ==
  {n \in {<<src, i - BLKX, j, k>>, <<src, i + BLKX, j, k>>, <<src, i, j - BLKY, k>>,
          <<src, i, j + BLKY, k>>, <<src, i, j, k - BLKZ>>, <<src, i, j, k + BLKZ>>} :
     n[2] \in 0 .. SIZEX - 1 /\ n[3] \in 0 .. SIZEY - 1 /\ n[4] \in 0 .. SIZEZ - 1}

Do3d7p_3d(iter) ==
  For(0, iter, 1, LAMBDA itr :
    LET dest == itr % 2 src == (itr + 1) % 2 IN
    Loop(For(1, SIZEX - 1, BLKX, LAMBDA i : For(1, SIZEY - 1, BLKY, LAMBDA j :
           For(1, SIZEZ - 1, BLKZ, LAMBDA k :
             Task({<<dest, i, j, k>>}, {<<src, i, j, k>>} \cup my_neighbors_3d(src, i, j, k),
                  stencil_core_3d(dest, i, j, k)))))))
  \o Wait

Cube == {0, 1} \X (0 .. SIZEX - 1) \X (0 .. SIZEY - 1) \X (0 .. SIZEZ - 1)
Myinit_3d == [x \in Cube |-> IF x[1] = 1 THEN initial(x[2], x[3]) + 11 * x[4] ELSE 0]

check_3d(iter) ==
  For(0, iter, 1, LAMBDA itr :
    Inside(<<1, SIZEX>>, <<1, SIZEY>>, <<1, SIZEZ>>,
           LAMBDA i, j, k : Do3d7pkernel_3d(itr % 2, (itr + 1) % 2, i, j, k)))

-----------------------------------------------------------------------------
\* 3d7p_dag.f: indices count from 1, and tiles are known by the address of
\* p(1, i, j, a), whose dimensions are SIZEZ, SIZEY, SIZEX: i and j have
\* changed places, in all the addresses of the program.
p(i, j, a) == <<a, (i - 1) + (j - 1) * SIZEY>>

Statement(dest, src, i, j) ==
  Assign(<<dest, i, j>>,
    <<<<src, i, j>>, <<src, i+1, j>>, <<src, i, j+1>>, <<src, i-1, j>>, <<src, i, j-1>>,
      <<dest, i, j>>>>)

core_3d7p(dest, src, starti, startj) ==
  For(starti, Least(starti + BLKX, SIZEX), 1, LAMBDA i :
    For(startj, Least(startj + BLKY, SIZEY), 1, LAMBDA j : Statement(dest, src, i, j)))

neighbor(src, i, j) ==
  {p(n[1], n[2], src) :
     n \in {m \in {<<i - BLKX, j>>, <<i + BLKX, j>>, <<i, j - BLKY>>, <<i, j + BLKY>>} :
              m[1] \in 2 .. SIZEX - 1 /\ m[2] \in 2 .. SIZEY - 1}}

main_f(iter) ==
  For(1, iter + 1, 1, LAMBDA itt :
    LET dest == (itt % 2) + 1 src == ((itt + 1) % 2) + 1 IN
    Loop(For(2, SIZEY, BLKY, LAMBDA j : For(2, SIZEX, BLKX, LAMBDA i :
      Task({p(i, j, dest)}, {p(i, j, src)} \cup neighbor(src, i, j),
           core_3d7p(dest, src, i, j))))))
  \o Wait

my_init ==
  [x \in {1, 2} \X (1 .. SIZEX) \X (1 .. SIZEY) |-> IF x[1] = 1 THEN initial(x[2], x[3]) ELSE 0]
check_f(iter) ==
  For(1, iter + 1, 1, LAMBDA itt : For(2, SIZEX, 1, LAMBDA i : For(2, SIZEY, 1, LAMBDA j :
    Statement((itt % 2) + 1, ((itt + 1) % 2) + 1, i, j))))

-----------------------------------------------------------------------------
\* The programs: what main of each file calls, from the initial values to the
\* comparison of check.
Stencil2D(text, iter) == Program(text, Myinit, check(Do2d5pkernel, iter), checked(iter))
Stencil3D(text, iter) == Program(text, Myinit, check(Do3d7pkernel, iter), checked(iter))
StencilDag(text, iter) == Program(text, Cleared, initialised(iter), checked(iter))

p2d5p(iter) == Stencil2D(Do2d5p(iter), iter)
p2d5p_omp(iter) == Stencil2D(Do2d5p_omp(iter), iter)
p3d7p(iter) == Stencil3D(Do3d7p(iter), iter)
p3d7p_omp(iter) == Stencil3D(Do3d7p_omp(iter), iter)
p3d7p_1IterPerDag(iter) == Stencil3D(Do3d7p_1IterPerDag(iter), iter)
p3d7p_2IterPerDag(iter) == Stencil3D(Do3d7p_2IterPerDag(iter), iter)
p3d7p_2IterPerDag_reuse(iter) == Stencil3D(Do3d7p_2IterPerDag_reuse(iter), iter)
p3d7p_2dag_reuse1of2(iter) == Stencil3D(Do3d7p_2dag_reuse1of2(iter), iter)
p3d7p_2dag_reuse2(iter) == Stencil3D(Do3d7p_2dag_reuse2(iter), iter)
p3d7p_outer(iter) == Stencil3D(Do3d7p_outer(iter), iter)
p3d7p_outer_reuse(iter) == Stencil3D(Do3d7p_outer_reuse(iter), iter)
p3d7p_cyclic(iter) == StencilDag(Myinit_cyclic_dag \o Do3d7p(iter), iter)
p3d7p_blocked(iter, dist) ==
  StencilDag(Myinit_blocked_dag \o Do3d7p_graph_reuse(iter, dist), iter)

p3d7p_par3(iter) ==
  Program(Do3d7p_3d(iter), Myinit_3d, check_3d(iter), {x \in Cube : x[1] = (iter + 1) % 2})
p3d7p_f(iter) ==
  Program(main_f(iter), my_init, check_f(iter),
          {(iter % 2) + 1} \X (2 .. SIZEX - 1) \X (2 .. SIZEY - 1))
=============================================================================
