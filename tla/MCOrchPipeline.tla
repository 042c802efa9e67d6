--------------------------- MODULE MCOrchPipeline ---------------------------
(***************************************************************************)
(* Two stages of the decoder in small: pieces of a tile are written, the   *)
(* tile is read, pieces are updated in place and the whole is read again.  *)
(***************************************************************************)
EXTENDS OrchPipeline

base == tensor_from_base_layout("A", <<4, 2>>, 2)
piece0 == view_at(base, 0, 0, 2, 1)
piece1 == view_at(base, 0, 1, 2, 1)
tile0 == view_at(base, 0, 0, 2, 2)
bufB == tensor_from_base_layout("B", <<2, 1>>, 2)

MCTaskList ==
    << [in |-> <<>>, out |-> <<piece0>>, inout |-> <<>>],
       [in |-> <<>>, out |-> <<piece1, bufB>>, inout |-> <<>>],
       [in |-> <<bufB>>, out |-> <<>>, inout |-> <<tile0>>],
       [in |-> <<base>>, out |-> <<>>, inout |-> <<bufB>>],
       [in |-> <<base, bufB>>, out |-> <<>>, inout |-> <<>>] >>

MCHash == [a \in {"A", "B"} |-> 0]
=============================================================================
