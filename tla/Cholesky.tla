------------------------------ MODULE Cholesky ------------------------------
(***************************************************************************)
(* The program of examples/cholesky: the factorisation of a matrix of      *)
(* DIM x DIM tiles, a task per call of a BLAS or LAPACK function on tiles, *)
(* and its serial and OpenMP versions.                                     *)
(***************************************************************************)
EXTENDS ProgramText

CONSTANT DIM

A(i, j) == <<i, j>>

\* What the functions of the tiles read, and the tile they overwrite.
sgemm_2(a, b, c) == Assign(c, <<c, a, b>>)
strsm_2(a, b) == Assign(b, <<b, a>>)
ssyrk(a, c) == Assign(c, <<c, a>>)
spotf2_(a) == Assign(a, <<a>>)

sgemm_tile(a, b, c) == sgemm_2(a, b, c)
ssyrk_tile(a, c) == ssyrk(a, c)
spotrf_tile(a) == spotf2_(a)
strsm_tile(t, b) == strsm_2(t, b)

compute ==
  For(0, DIM, 1, LAMBDA j :
    For(0, j, 1, LAMBDA k :
      Loop(For(j + 1, DIM, 1, LAMBDA i :
        Task({A(i, j)}, {A(i, j), A(i, k), A(j, k)}, sgemm_tile(A(i, k), A(j, k), A(i, j))))))
    \o For(0, j, 1, LAMBDA i :
         Loop(Task({A(j, j)}, {A(j, j), A(j, i)}, ssyrk_tile(A(j, i), A(j, j)))))
    \o Loop(Task({A(j, j)}, {A(j, j)}, spotrf_tile(A(j, j))))
    \o Loop(For(j + 1, DIM, 1, LAMBDA i :
         Task({A(i, j)}, {A(i, j), A(j, j)}, strsm_tile(A(j, j), A(i, j))))))
  \o Wait

-----------------------------------------------------------------------------
Tiles == (0 .. DIM - 1) \X (0 .. DIM - 1)
init == [x \in Tiles |-> 31 * x[1] + 7 * x[2] + 1]

\* cholesky.cpp
serial ==
  For(0, DIM, 1, LAMBDA j :
    For(0, j, 1, LAMBDA k : For(j + 1, DIM, 1, LAMBDA i :
      sgemm_tile(A(i, k), A(j, k), A(i, j))))
    \o For(0, j, 1, LAMBDA i : ssyrk_tile(A(j, i), A(j, j)))
    \o spotrf_tile(A(j, j))
    \o For(j + 1, DIM, 1, LAMBDA i : strsm_tile(A(j, j), A(i, j))))

\* cholesky_omp.cpp: a team for each loop that its comment calls parallel.
compute_omp ==
  For(0, DIM, 1, LAMBDA j :
    For(0, j, 1, LAMBDA k :
      ParallelFor(j + 1, DIM, 1, LAMBDA i : sgemm_tile(A(i, k), A(j, k), A(i, j))))
    \o Alone(For(0, j, 1, LAMBDA i : ssyrk_tile(A(j, i), A(j, j))) \o spotrf_tile(A(j, j)))
    \o ParallelFor(j + 1, DIM, 1, LAMBDA i : strsm_tile(A(j, j), A(i, j))))

cholesky_dag == Program(compute, init, serial, Tiles)
cholesky_omp == Program(compute_omp, init, serial, Tiles)
=============================================================================
