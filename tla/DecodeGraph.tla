---------------------------- MODULE DecodeGraph ----------------------------
(***************************************************************************)
(* The task graphs of the workloads: the Qwen3 decode layer as six files   *)
(* build it, and paged attention as one does.  A program is the sequence   *)
(* of tasks the entry function submits; a task has a name <<kernel, tile or *)
(* batch row, first chunk>>, the windows it accesses and the tasks the file *)
(* makes it wait for by hand ({} where the tensor map is to find them).    *)
(* Tensors only read by every task (weights, tables, the *_ro accesses)    *)
(* and the result, which no task reads, are left out.                      *)
(*                                                                         *)
(* Sizes are scaled: a projection chunk is one column, an attention chunk  *)
(* one row of scores, but the counts keep the code's relations (several    *)
(* chunks per operator, a last tile with fewer valid rows, a last SPMD     *)
(* task with fewer blocks).                                                *)
(***************************************************************************)
EXTENDS TensorMapCore

CONSTANTS
    TileRows,    \* 16
    UserBatch,   \* user_batch, 90
    Hidden,      \* 5120
    KvHidden,    \* 1024
    QChunks, KvChunks, AttnChunks, OpChunks, MlpChunks,   \* 20, 8, 4, 40, 34
    PagedBatch,  \* 480
    Variants,    \* bound: the case files, see ProgramOf
    Targets      \* the target width of the tier chosen when the program is built

ASSUME DecodeGraphAssumption ==
    /\ {TileRows, UserBatch, QChunks, KvChunks, AttnChunks, OpChunks, MlpChunks} \subseteq Nat \ {0}
    /\ \A n \in {QChunks, AttnChunks, OpChunks} : Hidden % n = 0
    /\ KvHidden % KvChunks = 0

Tiles   == 0 .. (UserBatch + TileRows - 1) \div TileRows - 1
Rows    == 0 .. UserBatch - 1
TileOf(b) == b \div TileRows
Padded  == TileRows * Cardinality(Tiles)

\* Rows of tile t that belong to the batch.
cur_valid(t) == Min({TileRows, UserBatch - t * TileRows})

\* SPMD: the chunks are handed out in tasks of qwen3_blocks_per_task, whose target
\* width the tier chooses; the last task takes what is left.
qwen3_blocks_per_task(target, total) == Min({total, target})
qwen3_n_tasks(target, total) ==
    LET w == qwen3_blocks_per_task(target, total) IN (total + w - 1) \div w
Bases(target, total) ==
    [k \in 1 .. qwen3_n_tasks(target, total) |-> (k - 1) * qwen3_blocks_per_task(target, total)]
cur_blocks_unclamped(target, total, base) == qwen3_blocks_per_task(target, total)
qwen3_cur_blocks(target, total, base) == Min({qwen3_blocks_per_task(target, total), total - base})

----------------------------------------------------------------------------
\* The intermediate tensors in the order they are allocated, by name and shape.
Upto(S) == [k \in 1 .. Cardinality(S) |-> k - 1]
LayerTensors  == << <<"q_proj">>, <<"k_proj">>, <<"v_proj">>, <<"q_proj_norm">>, <<"k_proj_norm">> >>
RowTensors(b) == << <<"raw_scores", b>>, <<"exp_padded", b>>, <<"cur_mi", b>>, <<"cur_li", b>>,
                    <<"oi_tmp", b>>, <<"q_padded", b>>, <<"k_cache_update", b>>, <<"v_cache_update", b>> >>
TileTensors(t) == << <<"resid1", t>>, <<"gm_pipe", t>>, <<"post_norm", t>>, <<"mlp", t>>,
                     <<"gate", t>>, <<"up", t>>, <<"down", t>> >>
Names ==
    LayerTensors
      \o [k \in DOMAIN Upto(Tiles) |-> <<"normed", k - 1>>]
      \o [k \in DOMAIN Upto(Tiles) |-> <<"attn_out", k - 1>>]
      \o FlattenSeq([k \in DOMAIN Upto(Rows) |-> RowTensors(k - 1)])
      \o FlattenSeq([k \in DOMAIN Upto(Tiles) |-> TileTensors(k - 1)])

ShapeOf(kind) ==
    CASE kind \in {"q_proj", "q_proj_norm"}               -> <<Padded, Hidden>>
      [] kind \in {"k_proj", "v_proj", "k_proj_norm"}     -> <<Padded, KvHidden>>
      [] kind \in {"raw_scores", "exp_padded", "oi_tmp"}  -> <<AttnChunks, 2>>
      [] kind \in {"cur_mi", "cur_li"}                    -> <<AttnChunks, 1>>
      [] kind = "q_padded"                                -> <<2, 2>>
      [] kind \in {"k_cache_update", "v_cache_update"}    -> <<1, KvHidden>>
      [] kind = "gm_pipe"                                 -> <<OpChunks, 1>>
      [] kind \in {"mlp", "gate", "up"}                   -> <<TileRows, MlpChunks>>
      [] OTHER                                            -> <<TileRows, Hidden>>

Base(name, shape) == tensor_from_base_layout(name, shape, "f")
alloc_tensors == [n \in {Names[k] : k \in DOMAIN Names} |-> Base(n, ShapeOf(n[1]))]

\* The manual-scope file has one attn_out for the layer, and RoPE writes its rows of
\* the key and value caches in place.
manual_tensors ==
    [n \in DOMAIN alloc_tensors |->
        CASE n[1] = "attn_out" ->
               view_at(Base(<<"attn_out">>, <<Padded, Hidden>>), n[2] * TileRows, 0, TileRows, Hidden)
          [] n[1] \in {"k_cache_update", "v_cache_update"} ->
               view_at(Base(<<n[1]>>, <<UserBatch, KvHidden>>), n[2], 0, 1, KvHidden)
          [] OTHER -> alloc_tensors[n]]

\* orchestrator_alloc makes six layer tensors where orchestrator_desc takes five:
\* get_tensor(k) still has an address of its own, but from the sixth tensor on the
\* shape of the tensor before it.
orchestrator_alloc_shapes ==
    << <<Padded, Hidden>>, <<Padded, KvHidden>>, <<Padded, KvHidden>>,
       <<Padded, Hidden>>, <<Padded, KvHidden>>, <<Padded, KvHidden>> >>
      \o [k \in 1 .. Len(Names) - 5 |-> ShapeOf(Names[k + 5][1])]
get_tensors ==
    [n \in DOMAIN alloc_tensors |->
        Base(n, orchestrator_alloc_shapes[CHOOSE k \in DOMAIN Names : Names[k] = n])]

----------------------------------------------------------------------------
\* The accesses of the kernels.  T gives the tensors, m the target width, r the tile
\* or batch row, c the first chunk.  The columns that the blocks of one task take from
\* chunk c on, when a row of w columns is cut into n chunks:
Piece(t, row, rows, w, m, n, c) ==
    view_at(t, row, c * (w \div n), rows, qwen3_cur_blocks(m, n, c) * (w \div n))
TilePiece(t, w, m, n, c) == Piece(t, 0, TileRows, w, m, n, c)
LayerPiece(t, r, w, m, n, c) == Piece(t, r * TileRows, TileRows, w, m, n, c)
TileOfLayer(t, r, w)     == view_at(t, r * TileRows, 0, TileRows, w)
ScoreRows(t, w, m, c)    == view_at(t, c, 0, qwen3_cur_blocks(m, AttnChunks, c), w)

In(t) == <<t, "in">>
Out(t) == <<t, "out">>
InOut(t) == <<t, "inout">>

rmsnorm(T, r) == << Out(T[<<"normed", r>>]) >>
q_proj(T, m, r, c) ==
    << In(T[<<"normed", r>>]), Out(LayerPiece(T[<<"q_proj">>], r, Hidden, m, QChunks, c)) >>
k_proj(T, m, r, c) ==
    << In(T[<<"normed", r>>]), Out(LayerPiece(T[<<"k_proj">>], r, KvHidden, m, KvChunks, c)) >>
v_proj(T, m, r, c) ==
    << In(T[<<"normed", r>>]), Out(LayerPiece(T[<<"v_proj">>], r, KvHidden, m, KvChunks, c)) >>
qk_norm(T, r) ==
    << Out(TileOfLayer(T[<<"k_proj_norm">>], r, KvHidden)),
       Out(TileOfLayer(T[<<"q_proj_norm">>], r, Hidden)),
       In(TileOfLayer(T[<<"q_proj">>], r, Hidden)), In(TileOfLayer(T[<<"k_proj">>], r, KvHidden)) >>
rope_kv_cache(T, b) ==
    << Out(T[<<"q_padded", b>>]), Out(T[<<"k_cache_update", b>>]), Out(T[<<"v_cache_update", b>>]),
       In(TileOfLayer(T[<<"k_proj_norm">>], TileOf(b), KvHidden)),
       In(TileOfLayer(T[<<"v_proj">>], TileOf(b), KvHidden)),
       In(TileOfLayer(T[<<"q_proj_norm">>], TileOf(b), Hidden)) >>
qk_matmul(T, m, b, c) ==
    << In(T[<<"q_padded", b>>]), Out(ScoreRows(T[<<"raw_scores", b>>], 2, m, c)),
       In(T[<<"k_cache_update", b>>]) >>
softmax(T, m, b, c) ==
    << Out(ScoreRows(T[<<"cur_li", b>>], 1, m, c)), Out(ScoreRows(T[<<"cur_mi", b>>], 1, m, c)),
       Out(ScoreRows(T[<<"exp_padded", b>>], 2, m, c)), In(ScoreRows(T[<<"raw_scores", b>>], 2, m, c)) >>
sv_matmul(T, m, b, c) ==
    << Out(ScoreRows(T[<<"oi_tmp", b>>], 2, m, c)), In(ScoreRows(T[<<"exp_padded", b>>], 2, m, c)),
       In(T[<<"v_cache_update", b>>]) >>
online_softmax(T, m, b, c) ==
    << In(ScoreRows(T[<<"oi_tmp", b>>], 2, m, c)), In(ScoreRows(T[<<"cur_mi", b>>], 1, m, c)),
       In(ScoreRows(T[<<"cur_li", b>>], 1, m, c)),
       InOut(Piece(T[<<"attn_out", TileOf(b)>>], b % TileRows, 1, Hidden, m, AttnChunks, c)) >>
out_proj(T, m, r, c) ==
    << In(view_at(T[<<"attn_out", r>>], 0, 0, cur_valid(r), Hidden)),
       InOut(TilePiece(T[<<"resid1", r>>], Hidden, m, OpChunks, c)), Out(T[<<"gm_pipe", r>>]) >>
post_rmsnorm(T, r) == << In(T[<<"resid1", r>>]), Out(T[<<"post_norm", r>>]) >>
gate_proj(T, m, r, c) ==
    << In(T[<<"post_norm", r>>]), InOut(TilePiece(T[<<"gate", r>>], MlpChunks, m, MlpChunks, c)) >>
up_proj(T, m, r, c) ==
    << In(T[<<"post_norm", r>>]), InOut(TilePiece(T[<<"up", r>>], MlpChunks, m, MlpChunks, c)) >>
silu(T, m, r, c) ==
    << In(TilePiece(T[<<"gate", r>>], MlpChunks, m, MlpChunks, c)),
       In(TilePiece(T[<<"up", r>>], MlpChunks, m, MlpChunks, c)),
       InOut(TilePiece(T[<<"mlp", r>>], MlpChunks, m, MlpChunks, c)) >>
down_proj(T, m, r, c) ==
    << In(T[<<"mlp", r>>]), InOut(TilePiece(T[<<"down", r>>], Hidden, m, OpChunks, c)) >>
down_proj_residual(T, m, r, c) ==
    << In(TilePiece(T[<<"down", r>>], Hidden, m, OpChunks, c)),
       In(TilePiece(T[<<"resid1", r>>], Hidden, m, OpChunks, c)) >>

----------------------------------------------------------------------------
\* The programs: the tasks in the order they are submitted.
Task(kernel, r, c, acc) == [id |-> <<kernel, r, c>>, acc |-> acc]
ForEach(n, F(_)) == FlattenSeq([k \in 1 .. n |-> F(k - 1)])
ForChunks(m, n, F(_)) ==
    FlattenSeq([k \in DOMAIN Bases(m, n) |-> F(Bases(m, n)[k])])

prologue(T, m, r) ==
    << Task("rmsnorm", r, 0, rmsnorm(T, r)) >>
      \o ForChunks(m, QChunks, LAMBDA c : << Task("q_proj", r, c, q_proj(T, m, r, c)) >>)
      \o ForChunks(m, KvChunks, LAMBDA c : << Task("k_proj", r, c, k_proj(T, m, r, c)),
                                              Task("v_proj", r, c, v_proj(T, m, r, c)) >>)
      \o << Task("qk_norm", r, 0, qk_norm(T, r)) >>

attention(T, m, b) ==
    << Task("rope_kv_cache", b, 0, rope_kv_cache(T, b)) >>
      \o ForChunks(m, AttnChunks,
                   LAMBDA c : << Task("qk_matmul", b, c, qk_matmul(T, m, b, c)),
                                 Task("softmax", b, c, softmax(T, m, b, c)),
                                 Task("sv_matmul", b, c, sv_matmul(T, m, b, c)),
                                 Task("online_softmax", b, c, online_softmax(T, m, b, c)) >>)

mlp(T, m, r) ==
    ForChunks(m, OpChunks, LAMBDA c : << Task("out_proj", r, c, out_proj(T, m, r, c)) >>)
      \o << Task("post_rmsnorm", r, 0, post_rmsnorm(T, r)) >>
      \o ForChunks(m, MlpChunks, LAMBDA c : << Task("gate_proj", r, c, gate_proj(T, m, r, c)),
                                               Task("up_proj", r, c, up_proj(T, m, r, c)),
                                               Task("silu", r, c, silu(T, m, r, c)) >>)
      \o ForChunks(m, OpChunks,
                   LAMBDA c : << Task("down_proj", r, c, down_proj(T, m, r, c)),
                                 Task("down_proj_residual", r, c, down_proj_residual(T, m, r, c)) >>)

layer(T, m) ==
    ForEach(Cardinality(Tiles), LAMBDA r : prologue(T, m, r))
      \o ForEach(UserBatch, LAMBDA b : attention(T, m, b))
      \o ForEach(Cardinality(Tiles), LAMBDA r : mlp(T, m, r))

\* The runtime's own version of the layer submits the tasks of a kernel together.
Chunks(T, m, name, kernel(_, _, _, _), r, n) ==
    ForChunks(m, n, LAMBDA c : << Task(name, r, c, kernel(T, m, r, c)) >>)

qwen3_decode_prologue(T, m, r) ==
    << Task("rmsnorm", r, 0, rmsnorm(T, r)) >>
      \o Chunks(T, m, "q_proj", q_proj, r, QChunks)
      \o Chunks(T, m, "k_proj", k_proj, r, KvChunks)
      \o Chunks(T, m, "v_proj", v_proj, r, KvChunks)
      \o << Task("qk_norm", r, 0, qk_norm(T, r)) >>

qwen3_decode_attention(T, m, b) ==
    << Task("rope_kv_cache", b, 0, rope_kv_cache(T, b)) >>
      \o Chunks(T, m, "qk_matmul", qk_matmul, b, AttnChunks)
      \o Chunks(T, m, "softmax", softmax, b, AttnChunks)
      \o Chunks(T, m, "sv_matmul", sv_matmul, b, AttnChunks)
      \o Chunks(T, m, "online_softmax", online_softmax, b, AttnChunks)

qwen3_decode_mlp(T, m, r) ==
    Chunks(T, m, "out_proj", out_proj, r, OpChunks)
      \o << Task("post_rmsnorm", r, 0, post_rmsnorm(T, r)) >>
      \o Chunks(T, m, "gate_proj", gate_proj, r, MlpChunks)
      \o Chunks(T, m, "up_proj", up_proj, r, MlpChunks)
      \o Chunks(T, m, "silu", silu, r, MlpChunks)
      \o Chunks(T, m, "down_proj", down_proj, r, OpChunks)
      \o Chunks(T, m, "down_proj_residual", down_proj_residual, r, OpChunks)

qwen3_decode(T, m) ==
    ForEach(Cardinality(Tiles), LAMBDA r : qwen3_decode_prologue(T, m, r))
      \o ForEach(UserBatch, LAMBDA b : qwen3_decode_attention(T, m, b))
      \o ForEach(Cardinality(Tiles), LAMBDA r : qwen3_decode_mlp(T, m, r))

\* The runtime's data-driven version submits the same tasks.  It names whole tensors to
\* the runtime, save the columns that a chunk of online_softmax or of the second half owns;
\* out_proj reads attn_out along its rows and names it whole.
Sliced == {"online_softmax", "out_proj", "gate_proj", "up_proj", "silu", "down_proj"}
NamedWhole(kernel, t) == kernel \notin Sliced \/ (kernel = "out_proj" /\ t.addr[1] = "attn_out")
WholeBuffer(t) == tensor_from_base_layout(t.addr, <<t.storage>>, t.dtype)
Declare(task) ==
    [task EXCEPT !.acc = [i \in DOMAIN @ |->
        IF NamedWhole(task.id[1], @[i][1]) THEN <<WholeBuffer(@[i][1]), @[i][2]>> ELSE @[i]]]
DeclareAll(tasks) == [k \in DOMAIN tasks |-> Declare(tasks[k])]

auto_prologue(T, m, r)  == DeclareAll(qwen3_decode_prologue(T, m, r))
auto_attention(T, m, b) == DeclareAll(qwen3_decode_attention(T, m, b))
auto_mlp(T, m, r)       == DeclareAll(qwen3_decode_mlp(T, m, r))

auto_decode(T, m) ==
    ForEach(Cardinality(Tiles), LAMBDA r : auto_prologue(T, m, r))
      \o ForEach(UserBatch, LAMBDA b : auto_attention(T, m, b))
      \o ForEach(Cardinality(Tiles), LAMBDA r : auto_mlp(T, m, r))

\* The descriptor file gives SOFTMAX no input.
WithoutSoftmaxInput(prog) ==
    [k \in DOMAIN prog |->
        IF prog[k].id[1] = "softmax"
          THEN [prog[k] EXCEPT !.acc = SelectSeq(@, LAMBDA a : a[2] # "in")] ELSE prog[k]]

\* Paged attention: four tasks per batch.  "ro" is a read without a lookup, of a tensor
\* an earlier task of the same batch wrote.
PagedTensor(name, b) == Base(<<name, b>>, <<1, 2>>)
paged_batch(b) ==
    LET T(name) == PagedTensor(name, b)
    IN << Task("qk_matmul", b, 0, << Out(T("sij")) >>),
          Task("softmax_prep", b, 0, << In(T("sij")), Out(T("pij")), Out(T("mi")), Out(T("li")) >>),
          Task("pv_matmul", b, 0, << In(T("pij")), Out(T("oi_new")) >>),
          Task("online_update", b, 0,
               << <<T("mi"), "ro">>, <<T("li"), "ro">>, In(T("oi_new")), InOut(T("mi_update")),
                  InOut(T("li_update")), InOut(T("oi")) >>) >>

----------------------------------------------------------------------------
\* The tasks that the manual-scope and desc_ap files name as predecessors of a task.
All(kernel, r, m, n) == { <<kernel, r, Bases(m, n)[k]>> : k \in DOMAIN Bases(m, n) }
RowsAndOneMore(r) == r * TileRows .. r * TileRows + cur_valid(r)
RowsOf(r) == r * TileRows .. r * TileRows + cur_valid(r) - 1

QKVWithoutV(r, m) == [ q |-> All("q_proj", r, m, QChunks), k |-> All("k_proj", r, m, KvChunks), v |-> {} ]
QKV(r, m) == [ q |-> All("q_proj", r, m, QChunks), k |-> All("k_proj", r, m, KvChunks),
               v |-> All("v_proj", r, m, KvChunks) ]
Onlines(r, m) == UNION { All("online_softmax", b, m, AttnChunks) : b \in RowsOf(r) }

manual_preds(id, m) ==
    LET r == id[2]
        c == id[3]
    IN CASE id[1] \in {"q_proj", "k_proj", "v_proj"} -> { <<"rmsnorm", r, 0>> }
         [] id[1] = "qk_norm"        -> QKV(r, m).q \cup QKV(r, m).k
         [] id[1] = "rope_kv_cache"  -> { <<"qk_norm", TileOf(r), 0>> } \cup QKV(TileOf(r), m).v
         [] id[1] = "qk_matmul"      -> { <<"rope_kv_cache", r, 0>> }
         [] id[1] = "softmax"        -> { <<"qk_matmul", r, c>> }
         [] id[1] = "sv_matmul"      -> { <<"rope_kv_cache", r, 0>>, <<"softmax", r, c>> }
         [] id[1] = "online_softmax" -> { <<"sv_matmul", r, c>>, <<"softmax", r, c>> }
         [] id[1] = "out_proj"       -> Onlines(r, m)
         [] id[1] = "post_rmsnorm"   -> All("out_proj", r, m, OpChunks)
         [] id[1] \in {"gate_proj", "up_proj"} -> { <<"post_rmsnorm", r, 0>> }
         [] id[1] = "silu"           -> { <<"gate_proj", r, c>>, <<"up_proj", r, c>> }
         [] id[1] = "down_proj"      -> All("silu", r, m, MlpChunks)
         [] id[1] = "down_proj_residual" -> { <<"down_proj", r, c>>, <<"out_proj", r, c>> }
         [] OTHER                    -> {}

\* The runtime's own version of the layer waits for whole groups of tasks.
qwen3_decode_preds(id, m) ==
    LET r == id[2]
        c == id[3]
    IN CASE id[1] = "qk_norm"        -> QKV(r, m).q \cup QKV(r, m).k \cup QKV(r, m).v
         [] id[1] = "rope_kv_cache"  -> { <<"qk_norm", TileOf(r), 0>> }
         [] id[1] = "softmax"        -> All("qk_matmul", r, m, AttnChunks)
         [] id[1] = "sv_matmul"      ->
              { <<"rope_kv_cache", r, 0>> } \cup All("softmax", r, m, AttnChunks)
         [] id[1] = "online_softmax" -> All("sv_matmul", r, m, AttnChunks)
         [] id[1] = "silu"           ->
              All("gate_proj", r, m, MlpChunks) \cup All("up_proj", r, m, MlpChunks)
         [] OTHER                    -> manual_preds(id, m)

----------------------------------------------------------------------------
\* The windows the kernels touch, in submission order; the accesses a file declares for
\* the same tasks; and which files leave the edges to the tensor map.
ProgramOf(v, m) ==
    CASE v = "tensormap"            -> layer(alloc_tensors, m)
      [] v = "manual"               -> layer(manual_tensors, m)
      [] v \in {"desc", "desc_ap"}  -> layer(alloc_tensors, m)
      [] v \in {"qwen3_decode", "qwen3_decode_auto"} -> qwen3_decode(manual_tensors, m)
      [] v = "paged"                -> ForEach(PagedBatch, paged_batch)
DeclaredOf(v, m) ==
    CASE v \in {"desc", "desc_ap"}  -> WithoutSoftmaxInput(layer(get_tensors, m))
      [] v = "qwen3_decode_auto"    -> auto_decode(manual_tensors, m)
      [] OTHER                      -> ProgramOf(v, m)
UsesTensorMap(v) == v \in {"tensormap", "desc", "paged"}
UsesRuntime(v)   == v = "qwen3_decode_auto"

ByVariant(F(_, _)) == [v \in Variants |-> [m \in Targets |-> F(v, m)]]
Program  == ByVariant(ProgramOf)
Declared == ByVariant(DeclaredOf)

\* The elements of memory a task reads or writes.  Scratch of one block (gm_pipe) has
\* no reader and no order.
Touched(task, kinds) ==
    UNION { { <<a[1].addr, x>> : x \in Elements(a[1]) } :
              a \in { task.acc[i] : i \in { j \in DOMAIN task.acc :
                          task.acc[j][2] \in kinds /\ task.acc[j][1].addr[1] # "gm_pipe" } } }

VARIABLES
    variant, target,   \* the file and the width the program is built with
    map,               \* the tensor map
    preds,             \* the predecessors registered for each task so far
    above              \* history: all ancestors of each task so far

vars == <<variant, target, map, preds, above>>

Init ==
    /\ variant \in Variants
    /\ target \in Targets
    /\ map = tm_init /\ preds = <<>> /\ above = <<>>

Registered(found) ==
    /\ preds' = Append(preds, found)
    /\ above' = Append(above, found \cup UNION { above[j] : j \in found \cap DOMAIN above })

\* Submit the next task.  No task retires meanwhile: a retired producer needs no edge.
tm_submit ==
    LET k == Len(preds) + 1
        task == Declared[variant][target][k]
        s == LookupAll(map, task.acc)
    IN /\ UsesTensorMap(variant)
       /\ k <= Len(Program[variant][target])
       /\ map' = InsertAll(s.map, task.acc, k)
       /\ Registered({ s.found[i] : i \in DOMAIN s.found })
       /\ UNCHANGED <<variant, target>>

add_predecessors ==
    LET prog == Program[variant][target]
        k == Len(preds) + 1
        names == IF variant = "qwen3_decode" THEN qwen3_decode_preds(prog[k].id, target)
                                             ELSE manual_preds(prog[k].id, target)
        named == { j \in DOMAIN prog : prog[j].id \in names }
    IN /\ ~UsesTensorMap(variant) /\ ~UsesRuntime(variant)
       /\ k <= Len(prog)
       /\ Registered(named)
       /\ UNCHANGED <<variant, target, map>>

\* External: the runtime makes a task wait for all that wrote what it names.
rt_submit_task ==
    LET decl == Declared[variant][target]
        k == Len(preds) + 1
        named == Touched(decl[k], {"in", "out", "inout"})
        writers == { j \in 1 .. k - 1 : Touched(decl[j], {"out", "inout"}) \cap named # {} }
    IN /\ UsesRuntime(variant)
       /\ k <= Len(decl)
       /\ Registered(writers)
       /\ UNCHANGED <<variant, target, map>>

Next == tm_submit \/ add_predecessors \/ rt_submit_task

Spec == Init /\ [][Next]_vars

----------------------------------------------------------------------------
ReadBy(v, m)  == [k \in DOMAIN Program[v][m] |-> Touched(Program[v][m][k], {"in", "inout", "ro"})]
WrittenBy(v, m) == [k \in DOMAIN Program[v][m] |-> Touched(Program[v][m][k], {"out", "inout"})]
ReadSet  == ByVariant(ReadBy)
WriteSet == ByVariant(WrittenBy)

\* The earlier tasks that task k has to see finished: those that wrote what it reads,
\* and those that read or wrote what it writes.
FlowOf(v, m) == [k \in DOMAIN Program[v][m] |->
    { j \in 1 .. k - 1 : WriteSet[v][m][j] \cap ReadSet[v][m][k] # {} }]
OutputOf(v, m) == [k \in DOMAIN Program[v][m] |->
    { j \in 1 .. k - 1 : (WriteSet[v][m][j] \cup ReadSet[v][m][j]) \cap WriteSet[v][m][k] # {} }]
Flow   == ByVariant(FlowOf)
Output == ByVariant(OutputOf)

\* Every element a kernel reads was written by an ancestor of its task: the graph lets
\* no task start before the data it reads is there.
InputsReady == \A k \in DOMAIN above : Flow[variant][target][k] \subseteq above[k]

\* No two tasks that may run together write the same element, and none writes an
\* element another may still be reading: OUT accesses look nothing up, so this rests on
\* the shape of the program.
OutputsOrdered == \A k \in DOMAIN above : Output[variant][target][k] \subseteq above[k]

\* The dependencies written by hand, and those the tensor map finds, are only ones the
\* data needs: the predecessor wrote an element this task reads.  With InputsReady the
\* manual files and the tensor map file order the tasks alike.
EdgesAreFlow ==
    variant \notin {"qwen3_decode", "qwen3_decode_auto"} =>
        \A k \in DOMAIN preds : preds[k] \subseteq Flow[variant][target][k]
=============================================================================
