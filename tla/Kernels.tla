------------------------------ MODULE Kernels ------------------------------
(***************************************************************************)
(* The kernels of the Qwen3 decode layer (simpler-testcase; both copies    *)
(* give the pipes the same instructions): for each kernel, the             *)
(* instructions it gives to the pipes of an AI core, in program order.     *)
(*                                                                         *)
(* An instruction is a flag set at the end of one pipe's work, a flag wait *)
(* of another, or work of a pipe that reads and writes on-chip buffers.  A *)
(* buffer is a memory and the offset TASSIGN gives it; no two buffers of a *)
(* kernel overlap unless they have the same offset.  Which pipe works      *)
(* follows from the operation and the memory of its tiles.  Arithmetic,    *)
(* shapes, global memory and barriers within one pipe are left out: a pipe *)
(* works in order, and no kernel loads what it stores.                     *)
(***************************************************************************)
EXTENDS Integers, Sequences, SequencesExt

CONSTANTS
    Trips       \* bound: iterations of the outer loops (up to 136 in the code)

ASSUME KernelAssumption == Trips \in Nat \ {0}

set(src, dst, e)  == [op |-> "set",  pipe |-> src, flag |-> <<src, dst, e>>]
wait(src, dst, e) == [op |-> "wait", pipe |-> dst, flag |-> <<src, dst, e>>]
work(pipe, writes, reads) == [op |-> "work", pipe |-> pipe, writes |-> writes, reads |-> reads]

Mat(a)   == <<"Mat", a>>
Left(a)  == <<"Left", a>>
Right(a) == <<"Right", a>>
Acc      == <<"Acc", 0>>

TLOAD(b)             == work("MTE2", {b}, {})
TMOV(d, s)           == work("MTE1", {d}, {s})
TMATMUL(a, b)        == work("M", {Acc}, {a, b})
TMATMUL_ACC(a, b)    == work("M", {Acc}, {Acc, a, b})
TSTORE_Acc           == work("FIX", {}, {Acc})
V(d, s)              == work("V", {d}, s)
TROW(d, s, tmp)      == work("V", {d, tmp}, {s})     \* TROWSUM, TROWMAX
TSTORE(b)            == work("MTE3", {}, {b})

\* The body of a loop over its first trips.
Loop(trips, body(_)) == FlattenSeq([k \in 1 .. trips |-> body(k - 1)])

----------------------------------------------------------------------------
\* Cube kernels.  Each ends by taking back the flags it set before its loop.

\* k_proj, v_proj, down_proj and the cube half of out_proj_residual differ in their
\* operands' shapes only.
two_tile_projection ==
    LET first == << set("MTE1", "M", 0), wait("MTE1", "M", 0), TMATMUL(Left(0), Right(0)) >>
        later == << set("MTE1", "M", 1), wait("MTE1", "M", 1), TMATMUL_ACC(Left(0), Right(0)) >>
        body(k) ==
          << wait("MTE1", "MTE2", 0), TLOAD(Mat(0)), TLOAD(Mat(4096)), set("MTE2", "MTE1", 0),
             wait("MTE1", "MTE2", 1), TLOAD(Mat(36864)), set("MTE2", "MTE1", 1),
             wait("MTE1", "MTE2", 2), TLOAD(Mat(40960)), set("MTE2", "MTE1", 2),
             wait("M", "MTE1", 0), wait("MTE2", "MTE1", 0),
             TMOV(Left(0), Mat(0)), TMOV(Right(0), Mat(4096)) >>
            \o (IF k = 0 THEN first ELSE later) \o
          << set("MTE1", "MTE2", 0), set("M", "MTE1", 1), wait("M", "MTE1", 1),
             wait("MTE2", "MTE1", 1), TMOV(Left(0), Mat(36864)), set("MTE1", "MTE2", 1),
             wait("MTE2", "MTE1", 2), TMOV(Right(0), Mat(40960)), set("MTE1", "MTE2", 2),
             set("MTE1", "M", 2), wait("MTE1", "M", 2), TMATMUL_ACC(Left(0), Right(0)),
             set("M", "MTE1", 0) >>
    IN << set("MTE1", "MTE2", 0), set("MTE1", "MTE2", 1), set("MTE1", "MTE2", 2),
          set("M", "MTE1", 0) >>
         \o Loop(Trips, body) \o
       << set("M", "FIX", 0), wait("M", "FIX", 0), TSTORE_Acc,
          wait("MTE1", "MTE2", 0), wait("MTE1", "MTE2", 1), wait("MTE1", "MTE2", 2),
          wait("M", "MTE1", 0) >>

k_proj_no_wait == SelectSeq(two_tile_projection, LAMBDA i : i # wait("MTE1", "MTE2", 2))
k_proj == two_tile_projection
v_proj_no_wait == SelectSeq(two_tile_projection, LAMBDA i : i # wait("M", "MTE1", 0))
v_proj == two_tile_projection
down_proj_no_free == Tail(two_tile_projection)
down_proj_keeps == Front(two_tile_projection)
down_proj == two_tile_projection
out_proj_residual_aic == two_tile_projection   \* TPUSH in place of TSTORE

q_proj ==
    LET Halves(x, w, f, acc(_, _)) ==
          << TMOV(Left(2048), Mat(x)), TMOV(Right(0), Mat(w)), set("MTE1", "M", f),
             TMOV(Left(0), Mat(x)), TMOV(Right(32768), Mat(w)), set("MTE1", "M", f + 1),
             wait("MTE1", "M", f), acc(Left(2048), Right(0)),
             wait("MTE1", "M", f + 1), TMATMUL_ACC(Left(0), Right(32768)) >>
        body(k) ==
          << wait("MTE1", "MTE2", 0), TLOAD(Mat(0)), TLOAD(Mat(4096)), set("MTE2", "MTE1", 0),
             wait("MTE1", "MTE2", 1), TLOAD(Mat(69632)), set("MTE2", "MTE1", 1),
             wait("MTE1", "MTE2", 2), TLOAD(Mat(73728)), set("MTE2", "MTE1", 2),
             wait("MTE2", "MTE1", 0), wait("M", "MTE1", 0) >>
            \o (IF k = 0 THEN Halves(0, 4096, 0, TMATMUL) ELSE Halves(0, 4096, 2, TMATMUL_ACC)) \o
          << set("MTE1", "MTE2", 0), set("M", "MTE1", 1), wait("M", "MTE1", 1),
             wait("MTE2", "MTE1", 1), TMOV(Left(2048), Mat(69632)),
             wait("MTE2", "MTE1", 2), TMOV(Right(0), Mat(73728)), set("MTE1", "M", 4),
             TMOV(Left(0), Mat(69632)), set("MTE1", "MTE2", 1),
             TMOV(Right(32768), Mat(73728)), set("MTE1", "MTE2", 2), set("MTE1", "M", 5),
             wait("MTE1", "M", 4), TMATMUL_ACC(Left(2048), Right(0)),
             wait("MTE1", "M", 5), TMATMUL_ACC(Left(0), Right(32768)), set("M", "MTE1", 0) >>
    IN << set("MTE1", "MTE2", 0), set("MTE1", "MTE2", 1), set("MTE1", "MTE2", 2),
          set("M", "MTE1", 0) >>
         \o Loop(Trips, body) \o
       << set("M", "FIX", 0), wait("M", "FIX", 0), TSTORE_Acc,
          wait("MTE1", "MTE2", 0), wait("MTE1", "MTE2", 1), wait("MTE1", "MTE2", 2),
          wait("M", "MTE1", 0) >>

\* gate_proj and up_proj: a quarter of the operands at a time, and flags m and m + 1
\* (e and e + 1) keep each quarter of L0 from being overwritten (read) too early.
mlp_projection ==
    LET quarters(x, w, m, e, acc(_, _)) ==
          << wait("M", "MTE1", m), TMOV(Left(1024), Mat(x)), TMOV(Right(0), Mat(w)),
             set("MTE1", "M", e),
             wait("M", "MTE1", m + 1), TMOV(Left(0), Mat(x)), TMOV(Right(32768), Mat(w)),
             set("MTE1", "M", e + 1),
             wait("MTE1", "M", e), acc(Left(1024), Right(0)), set("M", "MTE1", m),
             wait("MTE1", "M", e + 1), TMATMUL_ACC(Left(0), Right(32768)), set("M", "MTE1", m + 1) >>
        first(i) == IF i = 0 THEN quarters(0, 4096, 1, 0, TMATMUL)
                             ELSE quarters(0, 4096, 1, 0, TMATMUL_ACC)
        later(i) == quarters(0, 4096, 3, 2, TMATMUL_ACC)
        second(i) == quarters(135168, 139264, 6, 4, TMATMUL_ACC)
        body(k) ==
          << wait("MTE1", "MTE2", 0), TLOAD(Mat(0)), TLOAD(Mat(4096)), set("MTE2", "MTE1", 0),
             wait("MTE1", "MTE2", 1), TLOAD(Mat(135168)), TLOAD(Mat(139264)), set("MTE2", "MTE1", 1),
             wait("M", "MTE1", 0), wait("MTE2", "MTE1", 0) >>
            \o (IF k = 0 THEN Loop(2, first) ELSE Loop(2, later)) \o
          << set("MTE1", "MTE2", 0), set("M", "MTE1", 5), wait("M", "MTE1", 5),
             wait("MTE2", "MTE1", 1) >>
            \o Loop(2, second) \o << set("MTE1", "MTE2", 1), set("M", "MTE1", 0) >>
        spare == <<0, 1, 2, 3, 4, 6, 7>>
    IN << set("MTE1", "MTE2", 0), set("MTE1", "MTE2", 1) >>
         \o [i \in DOMAIN spare |-> set("M", "MTE1", spare[i])]
         \o Loop(Trips, body) \o
       << set("M", "FIX", 0), wait("M", "FIX", 0), TSTORE_Acc,
          wait("MTE1", "MTE2", 0), wait("MTE1", "MTE2", 1) >>
         \o [i \in DOMAIN spare |-> wait("M", "MTE1", spare[i])]

gate_proj == mlp_projection
up_proj == mlp_projection

\* One block of the attention chunk per half of the body, the halves exchanging flags
\* e and 1 - e; the key block has one buffer, so flag 0 or 1 guards it alternately.
qk_matmul ==
    LET half(q, l, e) ==
          << wait("MTE1", "MTE2", e), TLOAD(Mat(8192)), set("MTE2", "MTE1", l),
             wait("M", "MTE1", e), TMOV(Left(0), Mat(q)),
             wait("MTE2", "MTE1", l), TMOV(Right(0), Mat(8192)), set("MTE1", "MTE2", 1 - e),
             set("MTE1", "M", e), wait("MTE1", "M", e), wait("FIX", "M", e),
             TMATMUL(Left(0), Right(0)), set("M", "MTE1", 1 - e), set("M", "FIX", e),
             wait("M", "FIX", e), TSTORE_Acc, set("FIX", "M", 1 - e) >>
        body(k) == half(0, 1, 0) \o half(4096, 2, 1)
    IN << set("MTE1", "MTE2", 0), set("M", "MTE1", 0), set("FIX", "M", 0),
          TLOAD(Mat(0)), set("MTE2", "MTE1", 0), TLOAD(Mat(4096)), wait("MTE2", "MTE1", 0) >>
         \o Loop(Trips, body) \o
       << wait("MTE1", "MTE2", 0), wait("M", "MTE1", 0), wait("FIX", "M", 0) >>

sv_matmul ==
    LET half(a, e) ==     \* a: first of the half's load flags; its own set frees the other half
          << wait("MTE1", "MTE2", a), TLOAD(Mat(0)), set("MTE2", "MTE1", a),
             wait("MTE1", "MTE2", a + 1), TLOAD(Mat(4096)), set("MTE2", "MTE1", a + 1),
             wait("MTE2", "MTE1", a), wait("M", "MTE1", e), TMOV(Left(0), Mat(0)),
             set("MTE1", "MTE2", 2 - a), wait("MTE2", "MTE1", a + 1),
             TMOV(Right(0), Mat(4096)), set("MTE1", "MTE2", 3 - a),
             set("MTE1", "M", e), wait("MTE1", "M", e), wait("FIX", "M", e),
             TMATMUL(Left(0), Right(0)), set("M", "MTE1", 1 - e), set("M", "FIX", e),
             wait("M", "FIX", e), TSTORE_Acc, set("FIX", "M", 1 - e) >>
        body(k) == half(0, 0) \o half(2, 1)
    IN << set("MTE1", "MTE2", 0), set("MTE1", "MTE2", 1), set("M", "MTE1", 0), set("FIX", "M", 0) >>
         \o Loop(Trips, body) \o
       << wait("MTE1", "MTE2", 0), wait("MTE1", "MTE2", 1), wait("M", "MTE1", 0), wait("FIX", "M", 0) >>

----------------------------------------------------------------------------
\* Vector kernels.  Buffers are offsets in the unified buffer.
silu ==
    << TLOAD(16384), set("MTE2", "V", 0), TLOAD(49152), set("MTE2", "V", 1),
       wait("MTE2", "V", 0), V(81920, {16384}), V(81920, {81920}), V(81920, {81920}),
       V(114688, {81920}), V(16384, {16384, 114688}),
       wait("MTE2", "V", 1), V(16384, {16384, 49152}), V(0, {16384}),
       set("V", "MTE3", 0), wait("V", "MTE3", 0), TSTORE(0) >>

down_proj_residual ==
    << TLOAD(0), TLOAD(8192), set("MTE2", "V", 0), wait("MTE2", "V", 0),
       V(0, {0, 8192}), V(16384, {0}), V(16384, {16384}),
       set("V", "MTE3", 0), wait("V", "MTE3", 0), TSTORE(16384) >>

\* The vector half of out_proj_residual: TPOP brings the cube half's result into slot 0
\* of the pipe's ring.  The second vector core of the pair stores nothing.
out_proj_residual_aiv ==
    << TLOAD(73728), set("MTE2", "V", 0), wait("MTE2", "V", 0), V(77824, {73728}),
       TLOAD(0), set("MTE2", "V", 1), wait("MTE2", "V", 1), V(94208, {0, 77824}),
       set("V", "MTE3", 0), wait("V", "MTE3", 0), TSTORE(94208) >>

softmax ==
    LET half(e, p) ==     \* e: load flag; p: first of the store flags
          << wait("V", "MTE2", e), TLOAD(4160), set("MTE2", "V", e),
             wait("MTE2", "V", e), V(12352, {4160}), set("V", "MTE2", 1 - e),
             V(12352, {12352}), wait("MTE3", "V", p), TROW(28736, 12352, 20544),
             V(12352, {12352, 28736}), V(12352, {12352}), V(0, {12352}), set("V", "MTE3", p),
             V(12352, {0}), wait("MTE3", "V", p + 1), TROW(4096, 12352, 20544),
             set("V", "MTE3", p + 1), wait("V", "MTE3", p), TSTORE(0), TSTORE(28736),
             set("MTE3", "V", 2 - p), wait("V", "MTE3", p + 1), TSTORE(4096),
             set("MTE3", "V", 3 - p) >>
        body(k) == half(0, 0) \o half(1, 2)
    IN << set("V", "MTE2", 0), set("MTE3", "V", 0), set("MTE3", "V", 1) >>
         \o Loop(Trips, body) \o
       << wait("V", "MTE2", 0), wait("MTE3", "V", 0), wait("MTE3", "V", 1) >>

qk_norm ==
    LET body(k) ==
          << wait("V", "MTE2", 0), TLOAD(67328), set("MTE2", "V", 0),
             wait("MTE2", "V", 0), wait("MTE3", "V", 0), V(108288, {67328}),
             TROW(40960, 108288, 0), V(41280, {40960}), V(41280, {41280}), V(41280, {41280}),
             V(108288, {67328, 41280}), set("V", "MTE2", 0), V(108288, {108288, 66304}),
             set("V", "MTE3", 0), wait("V", "MTE3", 0), TSTORE(108288), set("MTE3", "V", 0),
             wait("MTE3", "MTE2", 0), TLOAD(41600), set("MTE2", "V", 1),
             wait("MTE2", "V", 1), V(49792, {41600}), TROW(66176, 49792, 57984),
             V(66240, {66176}), V(66240, {66240}), V(66240, {66240}),
             V(41600, {41600, 66240}), V(41600, {41600, 66816}),
             set("V", "MTE3", 1), wait("V", "MTE3", 1), TSTORE(41600), set("MTE3", "MTE2", 0) >>
    IN << set("V", "MTE2", 0), set("MTE3", "V", 0), set("MTE3", "MTE2", 0),
          TLOAD(66304), TLOAD(66816) >>
         \o Loop(Trips, body) \o
       << wait("V", "MTE2", 0), wait("MTE3", "V", 0), wait("MTE3", "MTE2", 0) >>

\* Two passes over the row tile: the sum of squares, then the scaling.
post_rmsnorm ==
    LET sum(k) ==
          << wait("V", "MTE2", 0), TLOAD(9280), set("MTE2", "V", 0),
             TLOAD(17472), set("MTE2", "V", 1),
             wait("MTE2", "V", 0), V(9280, {9280}), TROW(33856, 9280, 25664),
             V(33920, {9216, 33856}),
             wait("MTE2", "V", 1), V(9280, {17472}), TROW(33856, 9280, 17472),
             set("V", "MTE2", 0), V(9216, {33920, 33856}) >>
        scale(k) ==
          << wait("V", "MTE2", 2), TLOAD(9280), set("MTE2", "V", 2), TLOAD(0), set("MTE2", "V", 3),
             TLOAD(17472), set("MTE2", "V", 4), TLOAD(512), set("MTE2", "V", 5),
             wait("MTE2", "V", 2), V(9280, {9280, 33920}), wait("MTE2", "V", 3), V(9280, {9280, 0}),
             wait("MTE3", "V", 0), V(1024, {9280}), set("V", "MTE3", 0),
             wait("MTE2", "V", 4), V(9280, {17472, 33920}), wait("MTE2", "V", 5), V(9280, {9280, 512}),
             wait("MTE3", "V", 1), V(5120, {9280}), set("V", "MTE2", 2), set("V", "MTE3", 1),
             wait("V", "MTE3", 0), TSTORE(1024), set("MTE3", "V", 0),
             wait("V", "MTE3", 1), TSTORE(5120), set("MTE3", "V", 1) >>
    IN << set("V", "MTE2", 0), set("V", "MTE2", 2), set("MTE3", "V", 0), set("MTE3", "V", 1),
          V(9216, {}) >>
         \o Loop(Trips, sum) \o
       << set("V", "MTE2", 1), V(9216, {9216}), V(9216, {9216}), V(9216, {9216}), V(33920, {9216}),
          wait("V", "MTE2", 1) >>
         \o Loop(Trips, scale) \o
       << wait("V", "MTE2", 0), wait("V", "MTE2", 2), wait("MTE3", "V", 0), wait("MTE3", "V", 1) >>

\* The same with four tiles per trip, which need all eight flags between V and MTE2.
rmsnorm_sum ==
    LET tile == << 9920, 22720, 35008, 39104 >>
        partial == << <<8256, {8320, 8192}>>, <<8256, {8256, 8192}>>,
                      <<8256, {8256, 8192}>>, <<8320, {8256, 8192}>> >>
        load(i) == << wait("V", "MTE2", i), TLOAD(tile[i + 1]), set("MTE2", "V", i) >>
        add(i) ==
          << wait("MTE2", "V", i), V(43200, {tile[i + 1]}), set("V", "MTE2", i), V(43200, {43200}),
             TROW(8192, 43200, 0), V(partial[i + 1][1], partial[i + 1][2]) >>
        body(k) == Loop(4, load) \o Loop(4, add)
    IN << V(8320, {}) >> \o [i \in 1 .. 4 |-> set("V", "MTE2", i - 1)]
         \o Loop(Trips, body) \o [i \in 1 .. 4 |-> wait("V", "MTE2", 4 - i)]

rmsnorm_scale ==
    LET tile == << 9920, 22720, 35008, 39104 >>
        gamma == << 8384, 8896, 9408, 14016 >>
        out  == << 14528, 18624, 26816, 30912 >>
        free == << 5, 6, 7, 0, 1, 2, 3, 4 >>     \* V to MTE2: tile and gamma of each step
        full == << 4, 5, 6, 7, 0, 1, 2, 3 >>     \* MTE2 to V
        load(i) ==
          << wait("V", "MTE2", free[2 * i + 1]), TLOAD(tile[i + 1]), set("MTE2", "V", full[2 * i + 1]),
             wait("V", "MTE2", free[2 * i + 2]), TLOAD(gamma[i + 1]), set("MTE2", "V", full[2 * i + 2]) >>
        mul(i) ==
          << wait("MTE2", "V", full[2 * i + 1]), V(43200, {tile[i + 1]}),
             set("V", "MTE2", free[2 * i + 1]), V(0, {43200, 8256}),
             wait("MTE2", "V", full[2 * i + 2]), V(0, {0, gamma[i + 1]}),
             set("V", "MTE2", free[2 * i + 2]),
             wait("MTE3", "V", i), V(out[i + 1], {0}), set("V", "MTE3", i) >>
        store(i) == << wait("V", "MTE3", i), TSTORE(out[i + 1]), set("MTE3", "V", i) >>
        body(k) == Loop(4, load) \o Loop(4, mul) \o Loop(4, store)
        before == << 0, 1, 2, 3, 4, 7, 6, 5 >>
        after == << 5, 6, 7, 4, 3, 2, 1, 0 >>
    IN [i \in DOMAIN before |-> set("V", "MTE2", before[i])]
         \o Loop(Trips, body) \o [i \in DOMAIN after |-> wait("V", "MTE2", after[i])]

rmsnorm ==
    [i \in 1 .. 4 |-> set("MTE3", "V", i - 1)] \o rmsnorm_sum
      \o << set("V", "MTE2", 4), V(8320, {8320}), V(8320, {8320}), V(8320, {8320}), V(8256, {8320}),
            wait("V", "MTE2", 4) >>
      \o rmsnorm_scale \o [i \in 1 .. 4 |-> wait("MTE3", "V", i - 1)]

\* The running maximum, sum and output of two groups of heads; the two share the buffers
\* the next chunk is loaded into.
online_merge(m, l, o, e, b, last) ==    \* b: new maximum, two scales, new sum, product
    << wait("MTE2", "V", e), V(b[1], {m, 8192}), V(b[2], {m, b[1]}), V(b[2], {b[2]}),
       V(b[3], {8192, b[1]}), V(b[3], {b[3]}), V(b[4], {b[2], l}),
       wait("MTE2", "V", e + 1), V(b[5], {b[3], 8256}), V(b[4], {b[4], b[5]}),
       V(8640, {o, b[2]}), V(0, {0, b[3]}), V(o, {8640, 0}), set("V", "MTE2", last) >>

online_load(e) ==
    << TLOAD(0), TLOAD(8192), set("MTE2", "V", e), TLOAD(8256), set("MTE2", "V", e + 1) >>

online_chunk(k) ==
    << wait("V", "MTE2", 0) >> \o online_load(0)
      \o online_merge(26432, 26496, 16960, 0, << 8320, 8384, 8448, 8512, 8576 >>, 1)
      \o << wait("V", "MTE2", 1) >> \o online_load(2)
      \o online_merge(34752, 34816, 26560, 2, << 8384, 8448, 8576, 16832, 16896 >>, 0)
      \o << V(26496, {8512}), V(34816, {16832}), V(26432, {8320}), V(34752, {8384}) >>

\* The outputs of both groups, divided by their sums.
online_finish ==
    << wait("MTE2", "V", 4), V(16960, {16960, 26496}), V(25152, {16960}),
       set("V", "MTE3", 0), wait("V", "MTE3", 0), TSTORE(25152), set("MTE3", "V", 0),
       wait("MTE2", "V", 5), V(16960, {26560, 34816}), wait("MTE3", "V", 0),
       V(25152, {16960}), set("V", "MTE3", 1), wait("V", "MTE3", 1), TSTORE(25152),
       wait("V", "MTE2", 0) >>

\* A context of one block makes no trip.
online_softmax(trips) ==
    << set("V", "MTE2", 0), TLOAD(16960), TLOAD(26432), TLOAD(26496), set("MTE2", "V", 4),
       TLOAD(26560), TLOAD(34752), TLOAD(34816), set("MTE2", "V", 5) >>
      \o Loop(trips, online_chunk) \o online_finish

\* Per key-value head: the rotated key, the value, the rotated queries and their padding.
rope_key ==
    << wait("V", "MTE2", 0), TLOAD(1024), set("MTE2", "V", 0), TLOAD(1280), set("MTE2", "V", 1),
       wait("MTE2", "V", 0), V(1536, {1024, 0}), wait("MTE2", "V", 1), V(1792, {1280, 256}),
       V(1536, {1536, 1792}), V(1280, {1280, 512}), V(1024, {1024, 768}), V(1024, {1280, 1024}),
       wait("MTE3", "V", 0), V(2048, {1536}), set("V", "MTE3", 0), wait("V", "MTE3", 0),
       TSTORE(2048), set("MTE3", "V", 1), wait("MTE3", "V", 1), V(2048, {1024}),
       set("V", "MTE2", 0), set("V", "MTE3", 1), wait("V", "MTE3", 1), TSTORE(2048),
       set("MTE3", "V", 0) >>

rope_value ==
    << wait("V", "MTE2", 1), TLOAD(2176), set("MTE2", "V", 2), wait("MTE2", "V", 2),
       V(2688, {2176}), set("V", "MTE2", 1), set("V", "MTE3", 2), wait("V", "MTE3", 2),
       TSTORE(2688) >>

rope_query ==
    << wait("V", "MTE2", 2), TLOAD(2944), set("MTE2", "V", 3), wait("MTE2", "V", 3),
       V(2944, {2944}), V(5504, {2944, 0}), V(2944, {2944}), V(6784, {2944, 256}),
       V(5504, {5504, 6784}), V(8064, {5504}), set("V", "MTE3", 3),
       V(5504, {2944, 512}), V(6784, {2944, 768}), set("V", "MTE2", 2), V(5504, {5504, 6784}),
       V(8704, {5504}), set("V", "MTE3", 4), wait("V", "MTE3", 3), TSTORE(8064),
       wait("V", "MTE3", 4), TSTORE(8704), V(9344, {}), V(14976, {9344}),
       set("V", "MTE3", 5), wait("V", "MTE3", 5), TSTORE(14976) >>

rope_head(k) == rope_key \o rope_value \o rope_query

rope_kv_cache ==
    << set("V", "MTE2", 0), set("MTE3", "V", 0), set("V", "MTE2", 1), set("V", "MTE2", 2),
       TLOAD(0), TLOAD(256), TLOAD(512), TLOAD(768) >>
      \o Loop(Trips, rope_head) \o
    << wait("V", "MTE2", 0), wait("MTE3", "V", 0), wait("V", "MTE2", 1), wait("V", "MTE2", 2) >>

Cube == [ q_proj |-> q_proj, k_proj |-> k_proj, v_proj |-> v_proj, qk_matmul |-> qk_matmul,
          sv_matmul |-> sv_matmul, out_proj_residual |-> out_proj_residual_aic,
          gate_proj |-> gate_proj, up_proj |-> up_proj, down_proj |-> down_proj ]
Vector == [ rmsnorm |-> rmsnorm, qk_norm |-> qk_norm, rope_kv_cache |-> rope_kv_cache,
            softmax |-> softmax, online_softmax |-> online_softmax(Trips),
            online_softmax_one_block |-> online_softmax(0),
            out_proj_residual |-> out_proj_residual_aiv, post_rmsnorm |-> post_rmsnorm,
            silu |-> silu, down_proj_residual |-> down_proj_residual ]
=============================================================================
