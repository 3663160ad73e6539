-------------------------------- MODULE Fdtd --------------------------------
(***************************************************************************)
(* The programs of examples/fdtd: fdtd_dag.c cuts the arrays into bands of *)
(* tz rows, fdtd_dag_bk.c into tiles of tz1 rows and tz2 columns.  All     *)
(* time steps make one graph.  fdtd_omp.c has a parallel loop over the     *)
(* bands where fdtd_dag.c has a loop of tasks.                             *)
(***************************************************************************)
EXTENDS ProgramText

CONSTANTS nx, ny, tmax, tz, tz1, tz2

\* Addresses are computed by hand in the neighbour functions: they are linear.
width(array) == IF array = "ex" THEN ny + 1 ELSE ny
at(array, i, j) == <<array, i * width(array) + j>>

Greatest(a, b) == IF a > b THEN a ELSE b

Sweep(lo, hi, left, right, body(_, _)) ==
  For(lo, Least(nx, hi), 1, LAMBDA i : For(left, Least(ny, right), 1, LAMBDA j : body(i, j)))

-----------------------------------------------------------------------------
\* The functions of the tasks of fdtd_dag_bk.c.
stencil_loop1(t, jj, cols) ==
  For(jj, Least(ny, jj + cols), 1, LAMBDA j : Store(at("ey", 0, j), t))

stencil_loop2(ii, jj, rows, cols) ==
  Sweep(Greatest(ii, 1), ii + rows, jj, jj + cols, LAMBDA i, j :
    Assign(at("ey", i, j), <<at("ey", i, j), at("hz", i, j), at("hz", i - 1, j)>>))

stencil_loop3(ii, jj, rows, cols) ==
  Sweep(ii, ii + rows, Greatest(jj, 1), jj + cols, LAMBDA i, j :
    Assign(at("ex", i, j), <<at("ex", i, j), at("hz", i, j), at("hz", i, j - 1)>>))

stencil_loop4(ii, jj, rows, cols) ==
  Sweep(ii, ii + rows, jj, jj + cols, LAMBDA i, j :
    Assign(at("hz", i, j), <<at("hz", i, j), at("ex", i, j + 1), at("ex", i, j),
                             at("ey", i + 1, j), at("ey", i, j)>>))

\* An address of an array, moved.
Moved(a, by) == <<a[1], a[2] + by>>

neighbor_loop2(ii, jj) ==
  IF ii >= tz1 THEN {Moved(at("hz", ii, jj), -tz1 * ny)} ELSE {}

neighbor_loop3(ii, jj) ==
  IF jj >= tz2 THEN {Moved(at("hz", ii, jj), -tz2)} ELSE {}

\* The elements of ex in the next tile of the row are read and not declared:
\* loop 3 of that tile has read hz of this one.
neighbor_loop4(ii, jj) ==
  (IF ii < nx - tz1 THEN {Moved(at("ey", ii, jj), tz1 * ny)} ELSE {})
  \cup (IF ii >= tz2 THEN {Moved(at("ex", ii, jj), -tz2)} ELSE {})

\* A loop over the tiles that reads and writes its tile of one array.
BlockLoop(written, read, near(_, _), body(_, _, _, _)) ==
  Loop(For(0, nx, tz1, LAMBDA ii : For(0, ny, tz2, LAMBDA jj :
    Task({at(written, ii, jj)}, {at(a, ii, jj) : a \in {written} \cup read} \cup near(ii, jj),
         body(ii, jj, tz1, tz2)))))

fdtd_dag_bk ==
  For(0, tmax, 1, LAMBDA t :
    Loop(For(0, ny, tz2, LAMBDA jj : Task({at("ey", 0, jj)}, {}, stencil_loop1(t, jj, tz2))))
    \o BlockLoop("ey", {"hz"}, neighbor_loop2, stencil_loop2)
    \o BlockLoop("ex", {"hz"}, neighbor_loop3, stencil_loop3)
    \o BlockLoop("hz", {"ex", "ey"}, neighbor_loop4, stencil_loop4))
  \o Wait

-----------------------------------------------------------------------------
\* fdtd_dag.c: whole rows.
stencil1(t) == stencil_loop1(t, 0, ny)
stencil2(ii) == stencil_loop2(ii, 0, tz, ny)
stencil3(ii) == stencil_loop3(ii, 0, tz, ny)
stencil4(ii) == stencil_loop4(ii, 0, tz, ny)

neighbor_rows2(ii) == IF ii >= tz THEN {Moved(at("hz", ii, 0), -tz * ny)} ELSE {}
neighbor_rows4(ii) == IF ii < nx - tz THEN {Moved(at("ey", ii, 0), tz * ny)} ELSE {}

fdtd_dag ==
  LET row(array, ii) == at(array, ii, 0)
      Rows(task(_)) == Loop(For(0, nx, tz, task))
  IN  For(0, tmax, 1, LAMBDA t :
        Loop(Task({row("ey", 0)}, {}, stencil1(t)))
        \o Rows(LAMBDA ii : Task({row("ey", ii)},
                                 {row("ey", ii), row("hz", ii)} \cup neighbor_rows2(ii), stencil2(ii)))
        \o Rows(LAMBDA ii : Task({row("ex", ii)}, {row("ex", ii), row("hz", ii)}, stencil3(ii)))
        \o Rows(LAMBDA ii : Task({row("hz", ii)},
                                 {row(a, ii) : a \in {"hz", "ex", "ey"}} \cup neighbor_rows4(ii),
                                 stencil4(ii))))
      \o Wait

\* fdtd_omp.c: loop 2 begins with the second row, and so do its bands.
fdtd_omp ==
  For(0, tmax, 1, LAMBDA t :
    ParallelFor(0, ny, 1, LAMBDA j : stencil_loop1(t, j, 1))
    \o ParallelFor(1, nx, tz, stencil2)
    \o ParallelFor(0, nx, tz, stencil3)
    \o ParallelFor(0, nx, tz, stencil4))

\* fdtd_serial.cpp
fdtd_serial ==
  For(0, tmax, 1, LAMBDA t :
    For(0, ny, 1, LAMBDA j : Store(at("ey", 0, j), t))
    \o stencil_loop2(1, 0, nx, ny) \o stencil_loop3(0, 1, nx, ny) \o stencil_loop4(0, 0, nx, ny))

-----------------------------------------------------------------------------
Field == {at("hz", i, j) : i \in 0 .. nx - 1, j \in 0 .. ny - 1}
Elements ==
  Field \cup {at("ex", i, j) : i \in 0 .. nx - 1, j \in 0 .. ny}
        \cup {at("ey", i, j) : i \in 0 .. nx, j \in 0 .. ny - 1}

\* Other values than those of the program, where most elements are zero.
init_array ==
  [x \in Elements |-> 3 * x[2] + (CASE x[1] = "ex" -> 100 [] x[1] = "ey" -> 200 [] OTHER -> 300)]

\* check: the loops over the whole arrays; hz is compared.
check ==
  For(0, tmax, 1, LAMBDA t :
    stencil_loop1(t, 0, ny)
    \o stencil_loop2(0, 0, nx, ny) \o stencil_loop3(0, 0, nx, ny) \o stencil_loop4(0, 0, nx, ny))

fdtd(text) == Program(text, init_array, check, Field)
fdtd_bands == fdtd(fdtd_dag)
fdtd_tiles == fdtd(fdtd_dag_bk)
fdtd_team == Program(fdtd_omp, init_array, fdtd_serial, Field)
=============================================================================
