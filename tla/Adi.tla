-------------------------------- MODULE Adi ---------------------------------
(***************************************************************************)
(* The programs of examples/adifull: dag-adifull.c sweeps over bands of    *)
(* rows and then of columns in one graph, mdag-adifull.c makes a graph of  *)
(* each half step, dag-adifull-2d.c cuts both dimensions and runs the      *)
(* sweeps as pipelines of loops, upch-adifull.c is an older version of the *)
(* first, omp-adifull.c and serial-adifull.c do without tasks.             *)
(***************************************************************************)
EXTENDS ProgramText

CONSTANTS N, T, blockx, blocky,   \* of the bands
          T2, block1, block2      \* of dag-adifull-2d.c

A(i, j) == <<"A", i, j>>
X(i, j) == <<"X", i, j>>
B(i, j) == <<"B", i, j>>

Square(rows, cols, body(_, _)) ==
  For(rows[1], rows[2], 1, LAMBDA i : For(cols[1], cols[2], 1, LAMBDA j : body(i, j)))

-----------------------------------------------------------------------------
\* The statements of the six loops.
row_forward(i, j) ==
  Assign(X(i, j), <<X(i, j), X(i, j-1), A(i, j), B(i, j-1)>>)
  \o Assign(B(i, j), <<B(i, j), A(i, j), B(i, j-1)>>)
row_last(i) == Assign(X(i, N-1), <<X(i, N-1), B(i, N-1)>>)
row_backward(i, j) ==
  Assign(X(i, N-j-2), <<X(i, N-2-j), X(i, N-3-j), A(i, N-j-3), B(i, N-3-j)>>)
col_forward(i, j) ==
  Assign(X(i, j), <<X(i, j), X(i-1, j), A(i, j), B(i-1, j)>>)
  \o Assign(B(i, j), <<B(i, j), A(i, j), B(i-1, j)>>)
col_last(j) == Assign(X(N-1, j), <<X(N-1, j), B(N-1, j)>>)
col_backward(i, j) ==
  Assign(X(N-2-i, j), <<X(N-2-i, j), X(N-3-i, j), A(N-3-i, j), B(N-2-i, j)>>)

\* [lo, hi) of a block, cut at a bound.
Cut(lo, block, from, bound) == <<(IF lo < from THEN from ELSE lo), Least(bound, lo + block)>>

-----------------------------------------------------------------------------
\* The functions of the tasks over bands.
stencil_loop1(i) == Square(Cut(i, blockx, 0, N), <<1, N>>, row_forward)
stencil_loop2(i) == For(i, Least(N, i + blockx), 1, row_last)
stencil_loop3(i) == Square(Cut(i, blockx, 0, N), <<0, N - 2>>, row_backward)
stencil_loop4(j) ==
  Square(Cut(j, blocky, 0, N), <<1, N>>, LAMBDA jj, i : col_forward(i, jj))
stencil_loop5(j) == For(j, Least(N, j + blocky), 1, col_last)
stencil_loop6(j) ==
  Square(Cut(j, blocky, 0, N), <<0, N - 2>>, LAMBDA jj, i : col_backward(i, jj))

Bands(block, task(_)) == Loop(For(0, N, block, task))

\* A half step: own(array, k) is the address of a band, and the first loop
\* also reads the addresses of barrier.
RowLoops(own(_, _), barrier) ==
  LET all(i) == {own("X", i), own("B", i), own("A", i)} IN
  Bands(blockx, LAMBDA i : Task({own("X", i), own("B", i)}, all(i) \cup barrier, stencil_loop1(i)))
  \o Bands(blockx, LAMBDA i : Task({own("X", i)}, all(i), stencil_loop2(i)))
  \o Bands(blockx, LAMBDA i : Task({own("X", i)}, all(i), stencil_loop3(i)))

\* loop5 does not declare A, which its function does not use.
ColumnLoops(own(_, _), barrier, forward(_)) ==
  LET xb(j) == {own("X", j), own("B", j)}
      all(j) == xb(j) \cup {own("A", j)}
  IN  Bands(blocky, LAMBDA j : Task(xb(j), all(j) \cup barrier, forward(j)))
      \o Bands(blocky, LAMBDA j : Task({own("X", j)}, xb(j), stencil_loop5(j)))
      \o Bands(blocky, LAMBDA j : Task({own("X", j)}, all(j), stencil_loop6(j)))

\* [i][id] and [id][j]: the first bands are not both known by [0][0].
row_band(a, i) == <<a, i, IF i = 0 THEN 1 ELSE 0>>
col_band(a, j) == <<a, IF j = 0 THEN 1 ELSE 0, j>>

\* A half step waits for the addresses of the other half.
dag_adifull ==
  For(0, T, 1, LAMBDA t :
    RowLoops(row_band, {col_band("X", j) : j \in From(0, N, blocky)})
    \o ColumnLoops(col_band, {row_band("X", i) : i \in From(0, N, blockx)}, stencil_loop4))
  \o Wait

mdag_adifull ==
  For(0, T, 1, LAMBDA t :
    RowLoops(LAMBDA a, i : <<a, i, 0>>, {}) \o Wait
    \o ColumnLoops(LAMBDA a, j : <<a, 0, j>>, {}, stencil_loop4) \o Wait)

\* upch-adifull.c: the statement for B takes A from the first column of the
\* band, where dag-adifull.c takes it from the column being computed.
loop4_first_column(j) ==
  Square(Cut(j, blocky, 0, N), <<1, N>>, LAMBDA jj, i :
    Assign(X(i, jj), <<X(i, jj), X(i-1, jj), A(i, jj), B(i-1, jj)>>)
    \o Assign(B(i, jj), <<B(i, jj), A(i, j), A(i, jj), B(i-1, jj)>>))

upch_adifull ==
  For(0, T, 1, LAMBDA t :
    RowLoops(row_band, {col_band("X", j) : j \in From(0, N, blocky)})
    \o ColumnLoops(col_band, {row_band("X", i) : i \in From(0, N, blockx)}, loop4_first_column))
  \o Wait

\* omp-adifull.c: a team for the bands of each loop.
omp_adifull ==
  For(0, T, 1, LAMBDA t :
    ParallelFor(0, N, blockx, stencil_loop1) \o ParallelFor(0, N, blockx, stencil_loop2)
    \o ParallelFor(0, N, blockx, stencil_loop3) \o ParallelFor(0, N, blocky, stencil_loop4)
    \o ParallelFor(0, N, blocky, stencil_loop5) \o ParallelFor(0, N, blocky, stencil_loop6))

\* serial-adifull.c: band after band.
serial_adifull ==
  For(0, T, 1, LAMBDA t :
    For(0, N, blockx, stencil_loop1) \o For(0, N, blockx, stencil_loop2)
    \o For(0, N, blockx, stencil_loop3) \o For(0, N, blocky, stencil_loop4)
    \o For(0, N, blocky, stencil_loop5) \o For(0, N, blocky, stencil_loop6))

-----------------------------------------------------------------------------
\* dag-adifull-2d.c: the same statements on tiles.  The backward loops count
\* tiles from the end: a tile may begin below zero, and its data are at the
\* address addr of the mirrored tile.
tile_loop1(i, j) ==
  Square(Cut(i, block1, 0, N), Cut(j, block2, 1, N), row_forward)
tile_loop2(i) == For(i, Least(N, i + block1), 1, row_last)
tile_loop3(i, j) ==
  Square(Cut(i, block1, 0, N), Cut(j, block2, 0, N - 2), row_backward)
tile_loop4(i, j) ==
  Square(Cut(j, block2, 0, N), Cut(i, block1, 1, N), LAMBDA jj, ii : col_forward(ii, jj))
tile_loop5(j) == For(j, Least(N, j + block2), 1, col_last)
tile_loop6(i, j) ==
  Square(Cut(j, block2, 0, N), Cut(i, block1, 0, N - 2), LAMBDA jj, ii : col_backward(ii, jj))

mirrored(k, block) == N - 2 - (k + block - 1)
backward_from(block) == ((N - 2) % block) + 1 - block
last_tile(block) == N - 1 - ((N - 1) % block)

neighbor_loop1(i, j) == IF j < block2 THEN {} ELSE {B(i, j - block2), X(i, j - block2)}
neighbor_loop3(i, j) ==
  LET jj == mirrored(j, block2) - block2 IN
  IF mirrored(j, block2) <= 0 THEN {} ELSE {X(i, jj), A(i, jj), B(i, jj)}
neighbor_loop4(i, j) == IF i < block1 THEN {} ELSE {X(i - block1, j), B(i - block1, j)}
neighbor_loop6(i, j) ==
  LET ii == mirrored(i, block1) - block1 IN
  IF mirrored(i, block1) <= 0 THEN {} ELSE {X(ii, j), A(ii, j)}

loop1 ==
  For(0, N, block2, LAMBDA j : Bands(block1, LAMBDA i :
    Task({X(i, j), B(i, j)}, {X(i, j), B(i, j), A(i, j)} \cup neighbor_loop1(i, j),
         tile_loop1(i, j))))
loop2 ==
  LET jj == last_tile(block2) IN
  Bands(block1, LAMBDA i : Task({X(i, jj)}, {X(i, jj), B(i, jj), A(i, jj)}, tile_loop2(i)))
loop3 ==
  For(backward_from(block2), N - 2, block2, LAMBDA j :
    LET addrj == mirrored(j, block2) IN
    Bands(block1, LAMBDA i :
      Task({X(i, addrj)}, {A(i, addrj), B(i, addrj)} \cup neighbor_loop3(i, j), tile_loop3(i, j))))
loop4 ==
  For(0, N, block1, LAMBDA i : Bands(block2, LAMBDA j :
    Task({X(i, j), B(i, j)}, {X(i, j), B(i, j), A(i, j)} \cup neighbor_loop4(i, j),
         tile_loop4(i, j))))
loop5 ==
  LET ii == last_tile(block1) IN
  Bands(block2, LAMBDA j : Task({X(ii, j)}, {X(ii, j), B(ii, j)}, tile_loop5(j)))
loop6 ==
  For(backward_from(block1), N - 2, block1, LAMBDA i :
    LET addri == mirrored(i, block1) IN
    Bands(block2, LAMBDA j :
      Task({X(addri, j)}, {A(addri, j), B(addri, j)} \cup neighbor_loop6(i, j), tile_loop6(i, j))))

dag_adifull_2d ==
  For(0, T2, 1, LAMBDA t : loop1 \o loop2 \o loop3 \o loop4 \o loop5 \o loop6) \o Wait

-----------------------------------------------------------------------------
Elements == {"A", "X", "B"} \X (0 .. N - 1) \X (0 .. N - 1)

\* Any values: those of the program are the same for the three arrays.
init_array ==
  [x \in Elements |-> 17 * x[2] + 5 * x[3]
                      + (CASE x[1] = "A" -> 1 [] x[1] = "X" -> 100 [] x[1] = "B" -> 1000)]

\* check: the loops over the whole arrays; X is compared.
check(steps) ==
  For(0, steps, 1, LAMBDA t :
    Square(<<0, N>>, <<1, N>>, row_forward)
    \o For(0, N, 1, row_last)
    \o Square(<<0, N>>, <<0, N - 2>>, row_backward)
    \o Square(<<1, N>>, <<0, N>>, col_forward)
    \o For(0, N, 1, col_last)
    \o Square(<<0, N - 2>>, <<0, N>>, col_backward))

Solution == {x \in Elements : x[1] = "X"}
adi(text, steps) == Program(text, init_array, check(steps), Solution)

dag_bands == adi(dag_adifull, T)
mdag_bands == adi(mdag_adifull, T)
dag_tiles == adi(dag_adifull_2d, T2)
serial_bands == adi(Alone(serial_adifull), T)
omp_bands == Program(omp_adifull, init_array, serial_adifull, Solution)

\* check of upch-adifull.c has other statements than its tasks: the result is
\* compared with that of the tasks in the order of the loops.
upch_bands == Program(upch_adifull, init_array, InOrder(upch_adifull), Solution)
=============================================================================
