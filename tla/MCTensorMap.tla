---------------------------- MODULE MCTensorMap ----------------------------
(***************************************************************************)
(* A small instance of TensorMap: a 4 by 2 buffer written in column pieces *)
(* and read in row tiles, as the decoder cases do, and two whole buffers,  *)
(* one of them in the hash bucket of the first.                            *)
(***************************************************************************)
EXTENDS TensorMap

base == tensor_from_base_layout("A", <<4, 2>>, 2)
piece0 == view_at(base, 0, 0, 2, 1)
piece1 == view_at(base, 0, 1, 2, 1)
tile0 == view_at(base, 0, 0, 2, 2)
tile1 == view_at(base, 2, 0, 2, 2)
bufB == tensor_from_base_layout("B", <<2, 1>>, 2)
bufC == tensor_from_base_layout("C", <<1, 1>>, 4)

MCPrograms ==
    { << <<piece0, "out">> >>,
      << <<piece1, "inout">>, <<bufC, "in">> >>,
      << <<tile0, "in">>, <<bufB, "out">> >>,
      << <<tile0, "inout">> >>,
      << <<base, "in">>, <<bufB, "in">>, <<bufC, "out">> >>,
      << <<tile1, "out">> >> }

\* Every window of a 3 by 3 buffer, buffers of one and of three dimensions, and one
\* of a later version.
grid == tensor_from_base_layout("A", <<3, 3>>, 2)
MCWindows ==
    { view_at(grid, w[1], w[2], w[3], w[4]) :
        w \in { x \in (0 .. 2) \X (0 .. 2) \X (1 .. 3) \X (1 .. 3) :
                  x[1] + x[3] <= 3 /\ x[2] + x[4] <= 3 } }
      \cup { tensor_from_base_layout("A", <<9>>, 2), tensor_from_base_layout("A", <<3, 1, 3>>, 2),
             view_at(tensor_from_base_layout("A", <<4, 2>>, 2), 1, 1, 2, 1),
             tensor_from_base_layout("A", <<4, 2>>, 2), [grid EXCEPT !.version = 1] }

MCHash == [a \in {"A", "B", "C"} |-> IF a = "C" THEN 1 ELSE 0]
=============================================================================
