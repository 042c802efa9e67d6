--------------------------- MODULE MCDecodeGraph ---------------------------
(***************************************************************************)
(* A small decode layer: two tiles, the second with one row, and chunk     *)
(* counts that divide into tasks evenly, unevenly or not at all.           *)
(***************************************************************************)
EXTENDS DecodeGraph

MCHash ==
    [n \in {Names[k] : k \in DOMAIN Names}
         \cup { <<s, b>> : s \in {"sij", "pij", "mi", "li", "oi_new", "mi_update", "li_update", "oi"},
                          b \in 0 .. PagedBatch - 1 }
         |-> IF \E k \in DOMAIN Names : Names[k] = n
               THEN (CHOOSE k \in DOMAIN Names : Names[k] = n) % NumBuckets ELSE n[2] % NumBuckets]
=============================================================================
