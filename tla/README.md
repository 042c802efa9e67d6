# A verification of esl_proxy

`esl_proxy` is a user-space proxy of an accelerator runtime. An *orchestration*
function creates tasks and names the tasks each of them depends on; a *cutter*
resolves the dependencies; a *dispatcher* places ready tasks on core slots; an
*executor* simulates the cores. All of them are threads that share rings,
bitmaps and queues. This directory holds TLA+ modules of that program, the TLC
configurations that check them, and TLAPS proofs. Paths below are relative to
the repository (`src/`).

## 1. Inventory

The repository holds three programs that share file names but no state, the
task graphs they are fed with, and the kernels those tasks run on the chip.

**A. The algorithm proxy** (`esl_proxy/src/main.c`, `src/algorithm/`,
`include/algorithm/`), built by default.

| Component | State it keeps | Operations | Correct when |
|---|---|---|---|
| Orchestration (`ring_buf.h`, the case headers, `main.c`) | `g_task_id`, `g_basic_buf`, `g_predecessors`, `g_orch_is_done` | `new_task` (waits for a ring entry), `add_predecessors` (drops targets below the watermark), publication | an entry is reused only when its holder has run; no unfinished target is dropped |
| Cutter (`cutter.c`) | `g_min_uncomplete_task`, `g_commit_task_id`, `state_buf`, `g_successor_buf`, `g_predecessor_cnt` | `deal_completed_queue`: `update_task_state`, `add_successors`, `resolve_dep`, `send_2_ready_queue` | a task enters a ready queue once, exactly when its predecessors have run |
| Dispatcher (`dispatch.c`) | `free_bitmap`, `msg_bitmap`, `task_id_map`, `g_completed_cnt`, `g_is_done` | `drain_completed_snapshot`, `send_task`, `try_early_dispatch`, `dispatch_finish` | a slot is filled only when free; every completion is counted once; the window closes only when all is done |
| Early Dispatch (`early_dispatch.c`, `ed_gate.h`) | per ring entry: generation tags, fanin and target, claim, staged record, `spec` state; ED queue; gated-core mask | Hook 0 (`propagate_dispatch_fanin`), late arrivals, staging, Hook 2, `ed_notify_once`, `ed_drain_gated_cores` | staged tasks start once, never early, and are never forgotten |
| Executor (`executor.c`) | `slot_state`, `tasks`, `doorbell`, `idx` of every core | pick a runnable slot, `complete_slot`, gate polling | each runnable slot completes once |
| Queues (`queue.h`, `spin.h`) | array, head, tail, count under a spin lock | single and batch enqueue and dequeue | a bounded FIFO: by items for ever, by batches until RING_SIZE items were put |
| Memory pool, manager (`mem_pool.h`, `manager.c`) | blocks, free-on-completion lists | allocate, `process_when2free` | no block is handed out twice |

**B. The scheduler proxy** (`esl_proxy/src/scheduler/`, `include/scheduler/`,
`include/common/`).

| Component | State it keeps | Operations | Correct when |
|---|---|---|---|
| Painters (`painter.c`) | `commit_task_id`, state and successors per subgraph, `g_predecessor_cnt`, `completed_task_cnt` | one round over the dispatchers' completions: `update_task_state`, `add_successors`, `resolve_dep`, `send_2_ready_queue` | a task is released once, after its predecessors ran, by the painter whose subgraph holds it |
| Dispatchers (`scheduler/dispatch.c`) | free bits, message bits, task id maps of their cores | `read_msgq`, `push_2_completed_queue`, `send_task` for three types, stealing from another dispatcher | a core slot has one task; a completion is told once to every painter |
| Rings (`scheduler/dispatch.h`, `common/queue.h`) | single-reader completion queue; completion ring with a cursor per painter; ready queues | batch write, batch read, batch enqueue and dequeue | nothing lost, duplicated or reordered |

**C. The stand-alone orchestrator and the tensor map**
(`include/algorithm/tensor.h`, `tensormap.h`, `tensormap_core.h`,
`esl_proxy/src/orchestrator/`, `cases/*desc*`, `*detect*`, `*alloc*`).

| Component | State it keeps | Operations | Correct when |
|---|---|---|---|
| Overlap (`tensor.h`, `tm_check_overlap`) | none | the windows of a buffer, their extent, the comparison of two | NONE only for disjoint windows, COVERED only for contained ones |
| Tensor map (`tensormap_core.h`) | pool, free list, bucket and task chains, `last_alive`, `last_cleanup` | look-up, insertion, removal of covered entries, lazy sweeping | chains whole; no live producer lost, no retired one kept |
| Submission (`tensormap.h`) | pending tensors, predecessors found | `tm_in`, `tm_out`, `tm_inout`, `tm_submit` | a task waits for every live writer of what it reads, and for no other |
| Stand-alone orchestrator (`orchestrator.c`) | per thread cursors and maps, the shared predecessor ring | alloc, desc, detect, each stage joined before the next; dump | each task is described once and gets the predecessors one thread would find |

**D. Workloads** (`cases/`, `simpler-testcase/*/orchestration/`): the Qwen3
decode layer, written six times with dependencies by hand, through the tensor
map, or left to a runtime, and paged attention. Correct when the graph orders
every reader behind every writer of what it reads, at every SPMD tier.

**E. Kernels** (`simpler-testcase/*/kernels/`): nine cube and nine vector
kernels, each a program whose instructions run out of step on up to four pipes,
ordered by event flags only.

Left aside: `atomic/` and `micro-bench/` (timings), `tools/`, `scripts/`,
`report/`, `doc/`, generated tables (`*_graph.h`), the logging and latency
modules (`log.*`, `lat_trace.h`).

**Interaction in A.** The orchestrator publishes through `g_task_id` and reads
the watermark. The cutter consumes published tasks and `completed_queue`,
produces `ready_queue[2]`, and with Early Dispatch also credits fanin and rings
doorbells. The dispatcher consumes the ready queues and the ED queue, writes
executor slots and `g_ed_gated_core_mask`, drains `msg_bitmap` and produces
`completed_queue`. The executor consumes slots, mask and doorbells, sets
`msg_bitmap`, and, when it opens a gate, runs Hook 0 itself. `main` joins all
and prints a self-check.

**Interaction of the others.** In B a dispatcher writes completions to the queue
of its own painter and to the ring the others read; every painter resolves its
own subgraph and puts what is ready in the queues of dispatcher 0, from which
all dispatchers take. In C the desc threads fill a table that the detect
threads read after they are joined; the detect threads share only the
predecessor ring. D feeds A and C; E is what a task of D runs.

**What is hard.** In A: four threads; five kinds of data with a generation (a ring
entry serves task t, t+RING_SIZE, ...) guarded by tags on some paths only; two
claimants for a staged task (`send_task`, `try_early_dispatch`); two notifiers
for its doorbell (Hook 2, the dispatcher's own check); two threads crediting
the same fanin (Hook 0, late arrival); unsigned counters decremented without a
test; termination by a count. In B: two painters that learn of one completion
at different times. In C: entries on two intrusive chains unlinked from the
middle, under a watermark that moves meanwhile. In D: index arithmetic at a
short last tile or task. In E: four pipes and buffers used in turn. The full list, each at its line, is `hazards` in
`PROJECT.json`.

## 2. Modules

```
ProxyState ── Orchestrator ─────────────┐
    ├──────── Cutter ───────┐           │
    └─ EarlyDispatch ─┬─────┤           │
                      ├ Dispatcher ─────┼── EslProxy ── EslProxyInv ── MCEslProxy
                      └ Executor ───────┘      │             │        (instances)
                                    DagExec ◄──┘ (refinement)│
                    EslProxyProofs ◄─────────────────────────┘
                    └─ EslProxyDagProofs ── EslProxyFaninProofs
RingQueue ──(refinement)──► BoundedFifo        RingQueue ── RingQueueProofs

TensorOverlap ── TensorMapCore ─┬─ TensorMap ───┬─ MCTensorMap
                                │               └─ TensorMapProofs ◄──┐
                                ├─ OrchPipeline ┬─ MCOrchPipeline     │
                                │               └─ OrchPipelineProofs │
                                ├─ TensorMapSteps ─────────┴──────────┘
                                └─ DecodeGraph ─── MCDecodeGraph
Kernels ── KernelPipes

Scheduler ── SchedulerInv ─┬─ MCScheduler
                           └─ SchedulerProofs
```

* **ProxyState**: constants, shared variables, thread registers, initial
  state. A per-task array is a function on `Rings`, indexed by `Idx(t)`.
  `free_bitmap` and `msg_bitmap` are sets of units `<<type, core, slot>>`; `ed`
  is the record of all Early Dispatch fields of an entry. `orch`, `cut`, `disp`
  and `exec` hold each thread's program counter and the locals that survive a
  step. `TASK_TYPE_MIX = TASK_TYPE_VECTOR`, as in `task.h`.
* **Orchestrator**: `new_task`, `add_predecessors`, `publish`,
  `orchestration_done`.
* **Cutter**: one round of `deal_completed_queue`. `take_completed` marks the
  batch completed and moves the watermark; `add_successors_enter` takes the
  commit window; `commit` builds a task's survivors; `edge` and `late_arrival`
  append one edge each under the edge lock; `resolve_dep_load` and
  `resolve_dep` count the successors down; `hook2` sets DISPATCHED and
  notifies; `send_2_ready_queue` puts one type's batch. `cutter_exit` leaves.
* **EarlyDispatch**: the helpers shared by three threads: fanin credit, entry
  into staging, Hook 0, `ed_notify_once`.
* **Dispatcher**: `drain_completed_snapshot` (with `set_mix`),
  `send_task_dequeue`, `send_task`, Hook 0 as `dispatcher_hook0` and
  `dispatcher_credit`, `try_early_dispatch` as `try_nothing`, `begin_ed` (the
  check of pending work), `try_no_slot`, `try_stage`, `stage_mask`, `stage_record`, `stage_check`, and
  `dispatch_finish`.
* **Executor**: `start`, `complete_slot`, `signal`, `drain_mask`,
  `poll_core`, `poll_not_rung`, `poll_open`, `executor_hook0`,
  `executor_credit`, `executor_exit`.
* **EslProxy**: the composition, its fairness and every property.
* **DagExec**: what the proxy promises: every task is submitted, starts
  after its predecessors finished, and runs once.
* **RingQueue**, **BoundedFifo**: `queue.h`, as memory up to the end of
  `queue_t`, and the queue it promises.
* **MCEslProxy**: graphs, types and block counts for the runs.
* **EslProxyInv**: the inductive invariants, in parts named for what they are
  about; no state of its own.
* **EslProxyProofs**, **EslProxyDagProofs**, **EslProxyFaninProofs**,
  **RingQueueProofs**: lemmas and theorems (section 4).

* **TensorOverlap**: windows of a buffer, the elements they name, and
  `tm_check_overlap` with all its early answers.
* **TensorMapCore**: the map as a record: pool, free list, bucket heads, task
  heads; insertion, look-up, removal and sweeping as functions of it.
* **TensorMap**: one thread submitting arbitrary tasks of a small set while the
  watermark moves between any two of its steps.
* **OrchPipeline**: the desc and detect stages with every number of threads up
  to `MaxThreads`; `add_predecessors` in the steps others can come between.
  The alloc stage makes constants and is over before the first desc step.
* **DecodeGraph**: the programs of the case files as sequences of tasks with
  the windows they access (`prologue`, `attention`, `mlp`, `paged`, ...) and
  the edges the file makes by hand (`manual_preds`, `qwen3_decode_preds`);
  submission goes through the tensor map, by hand, or to the runtime.
* **Kernels**: the instruction list of each kernel; **KernelPipes**: the pipes
  that run it, block after block.
* **Scheduler**: painters and dispatchers of program B. A painter's round is a
  function of its tables, one operator per routine of `painter.c`: `CommitOne`
  for a task of the window, `Countdown` for an edge, and `Iterate` for the loops
  over them.
* **TensorMapSteps**: what a look-up and an insertion do to the map, for any map;
  **TensorMapProofs**: the inductive invariant of the map under a moving watermark
  and its theorems; **OrchPipelineProofs**: the inductive invariant of the pipeline and its theorems.
* **SchedulerInv**: the inductive invariant of program B; **SchedulerProofs**: what
  a painter's round does to its tables, that every step keeps the invariant, and
  the theorems.

### Steps and what is merged

In program A one step is one access to memory that another thread uses; memory is
sequentially consistent (the program uses acquire/release and `seq_cst` where
its own argument needs store-load order, as in Hook 2 and the mask exchange).
Accesses are merged when no other thread can tell:

* adding a fanin credit, the compare-and-swap to STAGING and the put in the ED
  queue: only the one that reaches the target goes on;
* `ed_notify_once`: its checks, the claim and the doorbell. The record cannot
  change generation between them because the task is unfinished;
* the dequeue of an ED candidate up to its claim and publication: the fields
  read are written only by the dispatcher, or only once and in one direction;
* the sweep over `msg_bitmap`: a bit set during the sweep is seen in the next;
* the many stores of `ed_init_task_meta`, done before the task is visible;
* clearing the dispatch record and emptying the slot in `complete_slot`: the
  record is only a hint for the choice of a core;
* the cases' `set_task_type` right after `new_task` (`cases/org.h:47-49`).

The two ready queues are served by two steps. The executor's cores may be
visited in any order and any runnable slot of a core may be the first it finds;
ticks and SPMD blocks are one arbitrary duration. The branches for a tag
mismatch and for an active slot that is not RUNNABLE are kept although no run
reaches them. The threads' queues are sequences of at most RING_SIZE entries.
Of a queue used by items (`g_ed_ready_queue`) that is what `queue.h` implements. One
used by batches (`ready_queue` of each type, `completed_queue`) never wraps and is a
FIFO only until RING_SIZE items were put in, taken out again or not: `InsideArray`
ends the model there, at the put of the cutter (`cut.tail` counts what it put) and
at that of the dispatcher (every task goes through `completed_queue` once). Run
`queue` compares the sequences with `queue.h`, and `queue_wrap` shows what the
code does past that point.

In **TensorMap** a step is one call that reads the watermark. In
**OrchPipeline** detection works on a map of the thread's own and is one step;
the accesses to the shared ring are one step each. In **Scheduler** a painter's
round is one step up to the put into each ready queue: everything it touches
before is its own, except the batch it reads, whose end is fixed when it loads
the write position. A dispatcher's queue write and its ring write are two steps.
The lock of a ready queue makes each put and take one step.

**External parts.** The cores of program B: a core runs what is written to its
register, then raises its bit, in any order with the others. Handshake: the
cores of `Replies` raise their bit before the first round; without one nothing
in the program ever starts the painters (`painter.c:169-178` skips empty
batches). `dispatch_worker` does not wait for these replies: that they come before
the first round, and not during it, is the model's choice. One log with a cursor for each painter
stands for the queue of the own painter and the ring of the others, which one
call fills from one buffer (`scheduler/dispatch.c:190-191`): that the two hold the
same is by construction and not a result. The pipes of a core: each takes its own instructions in order; a
flag counts sets not yet waited for. The runtime behind
`qwen3_dynamic_tensormap/orchestration/qwen3_decode.cpp`: a task waits for all
earlier writers of a tensor it names, as the comment at the head of that file
says.

## 3. Checks

`tlc -config <cfg> <module>` in this directory.

| Run | Instance | Shows |
|---|---|---|
| `mixed_ed` | diamond of 3 cube tasks and a vector task of 2 blocks, 1 core of 2 slots each, 2 stagings a round, ED on | types, hand-over of slots, both counters, the gate protocol, ready queues, single claim, `main`'s self-check, refinement of `DagExec`, the inductive invariant |
| `join_live` | 2 roots and a join, 2 cores of 1 slot, batches of 1, ED on | every task runs and every thread returns |
| `reuse` | 6 tasks of two types, ring of 4, ED off (the default build) | ring entries that change hands are protected by the watermark |
| `queue` | 4 entries, batches up to 3, two items, to the end of `queue_t` | by items, or inside the array, `BoundedFifo` |
| `tensormap` | 6 tasks from 6 shapes of task, pool of 4, window and ring of 4, sweep every 3; overlap of all windows of a 3 by 3 buffer | dependencies complete and exact, chains sound, slots and pool suffice |
| `pipeline` | 5 tasks, 1 to 3 desc and 1 to 3 detect threads | detection in parallel equals detection in sequence |
| `graphs` | two tiles (3 rows and 1), 2 to 4 chunks, SPMD targets 1, 2 and 4, six programs | the graphs order what they must and nothing else |
| `kernels` | 18 kernels, 3 outer iterations, any block after any block | buffers in order, no flag lost, no pipe stuck |
| `scheduler` | 4 tasks in two subgraphs, 2 painters, 2 dispatchers | release, hand-over and reports, the inductive invariant |
| `ring_reuse`, `queue_wrap`, `desc_missing_input` | minimal instances | the disagreements of section 5 |

The main properties of `EslProxy`:

* `TypeOK`: types, and the bounds that keep a thread's next access inside its
  arrays.
* `SlotHandoff`: a slot is in one hand at a time.
* `Inductive`: the inductive invariant of section 4, checked by `mixed_ed`, where
  all its parts apply (`NoReuse` is true of the diamond).
* `PredecessorCntExact`: the dependency counter is the number of edges not yet
  resolved, so it never wraps and reaches zero once; and so is the counter Early
  Dispatch keeps besides it (`unfin_pred_cnt`), whose zero rings the doorbell.
* `FaninExact`: a dispatch credit is given exactly once whichever of Hook 0 and
  the append of the edge comes first (design document 5.12.3).
* `DoorbellMeansReady`, `GatedWaitsForDispatched`, `GatedIsWatched`,
  `ReleasedOrOwed`: the gate does not open early, gated tasks cannot block each
  other out of the slots, no gated slot is forgotten, and one of the two
  notifiers always remains responsible (5.10, 5.15, 5.16).
* `ReadyIsReady`, `OneSlotPerTask`, `WatermarkSafe`.
* `SelfCheck`: what `main` prints after the joins (counters, slots and entries).
* `ImplementsDag`: refinement of `DagExec` by the mapping task -> running
  (holds a RUNNABLE slot), done (has run), waiting (published), absent.
* `EventuallyDone`: every task runs and every thread returns. It is checked with
  Early Dispatch on, where a task that is not staged takes the way of the default
  build; that the default build implements `DagExec` is `ProxyRefinesDag`, which
  holds for both settings.

Of the other modules:

* `DepsComplete`: a task waits, directly or through others, for every live
  earlier writer of an element it reads. Through others, because an INOUT
  removes the entries it covers and takes their place. `NoFalseEdge` is the
  converse.
* `ChainsSound`, `SweptClean`, `PoolSuffices`: what makes that possible. The
  first is that the two families of chains are whole and that a task slot has
  the entries of one task. `PoolSuffices` states how large a pool must be: an
  entry for every write of every task that may be unswept, which is up to
  `CleanupInterval - 1` more than are alive.
* `OverlapSound`: against the sets of elements, with the one exception the code
  has (section 5, remark 1).
* `DescribedOnce`, `FoundAsSequential`, `DumpedAlone`: the three
  stages. Two of them hold under a condition on the number of threads that is
  part of the statement (remarks 2 and 3).
* `InputsReady`, `OutputsOrdered`, `EdgesAreFlow`: on the graphs.
  `InputsReady` and `EdgesAreFlow` together make the hand-written and the
  discovered graph order the tasks alike. The two `qwen3_decode` files wait for
  whole operators and are not held to `EdgesAreFlow`.
* `BuffersInOrder`, `FlagsNotOverrun`, `NeverStuck`, `FlagsGivenBack`: on the
  kernels; together a block computes what its instructions compute in program
  order, whatever ran on the core before.
* `ReleasedOnce`, `NoneForgotten`, `ReportedOnce`, `CoresHandedOver`,
  `ReadyIsReady`: on the scheduler. Task 0 is exempt where the handshake makes
  it so (remark 6). `SchedInductive` is the invariant they are proved from.

**Bounds.** `N` tasks, at most 6; every other bound is a constant of the
configuration. The diamond has what distinguishes the counters: a task with two
successors, one with two predecessors, and an edge that can be appended after its
predecessor completed. One core of two slots for three cube tasks makes gated and
runnable ones compete; in `join_live` two cores make the choice of a core matter,
and with one slot each a gated task and the ones it waits for want the same slots.
Rings of 2 make every entry change hands. `ED_UNFIN_THRESHOLD` is out of reach.
The runs with Early Dispatch use a ring that holds all tasks, because ring reuse
breaks the program (section 5); they say nothing about reuse. In `reuse` the ring
is smaller than the number of tasks, and two entries change hands before
`InsideArray` ends the model at the fifth completion; the trace of `ring_reuse`
puts two items and stays inside the arrays. `EndOfQueue` ends the model of one
queue behind its lock, where the memory of another object begins.

In `tensormap` the ring, the task window and the pool are all smaller than the
tasks submitted, so that each is reused, and the interval (3) is neither a
divisor of the window nor reached before slots collide. In `graphs` the sizes
keep every relation the index arithmetic uses: more tiles than one, a last tile
that is short, chunk counts that targets divide evenly, unevenly or not at all.
Three iterations in `kernels` are one more than the deepest double buffer;
flags outlive blocks, so blocks after blocks cover longer runs. In `scheduler`
one core per dispatcher makes slots scarce, and the subgraphs have one edge
inside one and three across. `CntWidth` is the width of a counter; `QUEUE_DEPTH`
is the number of tasks of one type, the least that loses none. `CHECK_DEADLOCK FALSE` is used where the program ends
(`tensormap`, `graphs`) and where `InsideArray` ends the model (`reuse`); `pipeline` and `scheduler` have an explicit last step.

**Fairness** (`FairSpec`). Each thread is weakly fair: it is a pthread that
spins and never blocks on another except through a spin lock or a wait for the
watermark. The executor's loop comes back in every iteration to its main scan,
to the mask and to each pending core, so these are strongly fair: without it a
thread could be said to poll one core for ever. Nothing is assumed about the
relative speed of threads, how long a task runs, or which thread wins a claim.

## 4. Proofs

`tlapm <module>` checks a module of proofs; the longest take about ten minutes.
Every theorem about program A holds for every graph, set of types, block counts,
number of cores and slots, batch sizes and both settings of Early Dispatch;
every theorem about program B for every number of painters, dispatchers and
cores, every subgraphs, batch sizes and handshake replies; every theorem about
the pipeline of program C for every list of tasks, numbers of threads, sizes of
stripes, pool and hash table; every theorem about its tensor map for every set
of programs, any watermark, pool, hash, window and interval of sweeps; each under the assumptions named with it.

| Theorem | States | Needs |
|---|---|---|
| `EslProxyProofs!TypeCorrect` | `Spec => []TypeOK` | |
| `EslProxyProofs!SlotsHandedOver` | `Spec => []SlotHandoff` | |
| `EslProxyProofs!NoGateForgotten` | `Spec => []GatedIsWatched` | |
| `EslProxyProofs!WatermarkCovers` | `Spec => []WatermarkSafe` | |
| `RingQueueProofs!QueueIsFifo` | `QueueSpec => FifoInsideArray` | |
| `EslProxyDagProofs!CountersExact` | `Spec => []PredecessorCntExact` | `NoReuse` |
| `EslProxyDagProofs!NoEarlyDoorbell` | `Spec => []DoorbellMeansReady` | `NoReuse` |
| `EslProxyDagProofs!StagedIsReleased` | `Spec => []ReleasedOrOwed` | `NoReuse` |
| `EslProxyDagProofs!OneSlotEach` | `Spec => []OneSlotPerTask` | `NoReuse` |
| `EslProxyDagProofs!ReadyOnceAndReady` | `Spec => []ReadyIsReady` | `NoReuse` |
| `EslProxyDagProofs!ProxyRefinesDag` | `Spec => ImplementsDag` | `NoReuse` |
| `EslProxyFaninProofs!CreditsNeitherLostNorDoubled` | `Spec => []FaninExact` | `NoReuse` |
| `EslProxyFaninProofs!GatesWaitForRunners` | `Spec => []GatedWaitsForDispatched` | `NoReuse` |
| `EslProxyFaninProofs!SelfCheckSucceeds` | `Spec => []SelfCheck` | `NoReuse` |
| `EslProxyFaninProofs!InductiveHolds` | `Spec => []Inductive` | |
| `SchedulerProofs!SchedTypeCorrect` | `Spec => []TypeOK` | |
| `SchedulerProofs!CoresAreHandedOver` | `Spec => []CoresHandedOver` | |
| `SchedulerProofs!SchedReleasesOnce` | `Spec => []ReleasedOnce` | `CountersWide` |
| `SchedulerProofs!SchedReportsOnce` | `Spec => []ReportedOnce` | `CountersWide` |
| `SchedulerProofs!SchedReadyIsReady` | `Spec => []ReadyIsReady` | `CountersWide` |
| `SchedulerProofs!SchedForgetsNone` | `Spec => []NoneForgotten` | `CountersWide`, `QueuesDeep` |
| `SchedulerProofs!SchedInductiveHolds` | `Spec => []SchedInductive` | |
| `OrchPipelineProofs!DescribedOnceHolds` | `Spec => []DescribedOnce` | |
| `OrchPipelineProofs!FoundAsSequentialHolds` | `Spec => []FoundAsSequential` | |
| `OrchPipelineProofs!DumpedAloneHolds` | `Spec => []DumpedAlone` | |
| `OrchPipelineProofs!PipeInvHolds` | `Spec => []PipeInv` | |
| `TensorMapProofs!ChainsSoundHolds` | `Spec => []ChainsSound` | |
| `TensorMapProofs!SweptCleanHolds` | `Spec => []SweptClean` | |
| `TensorMapProofs!MapInvHolds` | `Spec => []MapInv` | |

**Assumptions.** `ConfigAssumption` (sizes are positive, limits natural) and
`GraphAssumption` (predecessor lists are lists of tasks, self-dependencies and
cycles included) in ProxyState. `N >= 1` leaves out the empty case, in which
the slots have no task to name. `InvalidAssumption`: the marker of an empty
field is neither a task nor a unit nor a record `[tag, unit]` of the two. The
code marks an empty `staged` word by a value no tag packs to; without the third
part a theorem would be about a constant that could equal a record.

`NoReuse` (EslProxyInv) is a hypothesis of theorems, not an ASSUME: a ring entry
for every task, predecessors created before their successors, no list longer
than the 32 nodes the cutter copies. The first is how the ring is
sized for the Qwen3 cases (4096 entries in `include/algorithm/conf.h:5`, about 3096
tasks in the largest by `cases/orch_config.h:23`); `cases/ed_a12_ring_stress.h:13`
(10000 tasks) is outside it. The second is what a case can name, since
`add_predecessors` takes ids that `new_task` has returned. Without the first the
theorems are false: that is the finding of run `ring_reuse`; without the third
`ReadyIsReady` is false, since an edge the cutter does not copy is never waited for.
With a ring entry for every task no queue takes more than RING_SIZE items and
`InsideArray` holds of every step. The theorems without `NoReuse` are about the
model, which ends where a batch would leave its array.

Of program B: `SchedulerAssumption` (sizes are positive) and `GraphAssumption` in
Scheduler: every task is in one subgraph and of one of the two types, predecessors
are tasks and none is named twice, and task 0 exists, since task ids index the
arrays and an unset entry of `task_id_map` reads as 0. Cycles are allowed. The
paged attention tables and the default table of the decode layer meet it; the
decode layer's total graph meets it but for the types (remark 11). `CountersWide` and `QueuesDeep` (SchedulerInv) are
hypotheses of theorems: fewer predecessors of a task, and fewer handshake
replies, than a counter has values (2^32 in the code, against 16 predecessors
and 128 slots a dispatcher), and as many entries in a ready queue as tasks of its
type (1024 in `common/queue.h:10`, against 960 in the largest case). Without the
second a batch that does not fit is dropped and its tasks never run.

Of program C: `TensorMapAssumption` (sizes are positive, a hash names a bucket) and
`PipelineAssumption` (thread counts and stripes are positive, the case's lists of
tensors are lists, and every buffer they name has a hash). Two tasks may name the
same tensor in any way, and a tensor may be named twice by one task. Of the tensor
map alone: `TensorMapConfig`, the same of its sizes and programs, and that no more
tasks can be unfinished (`RING_SIZE`) than the map has task slots (`TaskWindow`).

**Argument.** None of the properties is inductive. `EslProxy` (`SlotInv`) and
`EslProxyInv` hold the strengthenings, and run `mixed_ed` checks their
conjunction, `Inductive`.

*Slots* (`SlotInv`). `SlotHandoff` says: a free slot is EMPTY with no completion
bit; a slot with a bit is EMPTY; an occupied or signalled slot holds the task
that `task_id_map` names. Two things are missing. `complete_slot` empties the
slot in one step and `signal` sets its bit in a later one: `SignalOwed` adds
that the slot in between is EMPTY, in neither set, and still named.
`send_task` picks a core from the set it computed when it dequeued the batch:
`BatchHasCores` adds that these cores still have a free slot and that there is
one for every task left. The executor cannot disturb it, because only the
dispatcher touches `free_bitmap`.

*Gate* (`GateInv`). The executor drops a core from its pending set on the
strength of what its walk over the slots of that core saw, and the dispatcher
may gate a slot the walk has passed. `WalkInv` adds what saves it: a passed
gated slot was seen, or its core is in the mask, or the dispatcher stands
between gating it and `stage_mask`; the mask is taken only between two walks.

*Watermark* (`WatermarkInv`). "Has run" is handed on from the completion bit to
`completed_queue`, the batch, the COMPLETED state and the watermark; each link
is a conjunct. `EntriesHeld` adds that entries are exclusive until then: two
unfinished tasks are less than a ring apart (`IdxDistinct`), because `new_task`
waits for the watermark. This holds with ring reuse.

*The way of a task* (`DagInv`, ten conjuncts, under `NoReuse`). An entry
belongs to its task and is untouched before `commit` (`CreationInv`,
`EntryInv`); edges lead from tasks not completed to committed ones (`EdgeInv`);
a round resolves each completed task once (`RoundInv`). Then the counter of a
committed task is the sum of three disjoint shares: edges in successor lists
not yet resolved, successors of the round still to be counted down, and edges
still to append (`CountInv`); each cutter step moves one unit from one share to
another or subtracts it together with the counter. `UnfinInv` says the same of
`unfin_pred_cnt`, whose steps are the same but for who reads zero. `ReasonInv` is the converse
direction: a predecessor that has not run owns such an edge, so a counter of
zero means ready. From the cutter to a slot a task stands in one line per type,
without duplicates, and only if due (`LaneInv`: the cutter's buffer, the ready
queue and the dispatcher's batch are one sequence, and each hand-over moves
elements within it). With Early Dispatch a task may be found twice, in a line
and among the candidates; `next_block` decides, and `ClaimInv` says that from
the claim to the recorded completion it is on one slot or in `completed_queue`.
`StageInv` is the protocol of a staged task: slot gated, core announced, slot
recorded, record claimed, doorbell; `claimed` and the doorbell change together,
and until the record names the slot the dispatcher stands before the check that
rings it itself. `DueInv` ties doorbells and DISPATCHED to readiness.

*Credits* (`FaninInv`, under `NoReuse`, with Early Dispatch). `SnapExact`: of a
committed task's predecessors the snapshot leaves out only some that have run.
`EdgesExact`: the successor lists hold one edge for each predecessor whose append is
done. `CreditsExact` is the account: the counter, the credits the dispatcher
and the executor have taken on from a list but not written, and the one the
cutter owes after a late arrival add up to the appended edges whose predecessor
is dispatched. An append adds an edge and, if its predecessor is marked by then,
the owed credit; Hook 0 marks its task and takes on all edges of its list in one
step, and the two take the same lock; a credit written moves from a to-do list
to the counter. That Hook 0 runs only once for a task is `HookInv`: whoever
stands before it has claimed a task that is not marked, the dispatcher one never
staged, the executor one it opened the gate of, and these exclude each other.
`StagedInTime` follows when the counter reaches the snapshot's length: then
every predecessor is marked, so it has started (`Started` is never undone).

*End* (`EndInv`, under `NoReuse`). `SelfCheck` says nothing before all threads
have returned, so it needs what holds all the way there. `CountedInv`: the
dispatcher's count is the tasks in `completed_queue` and the COMPLETED entries,
two disjoint sets by `WatermarkInv` and `ClaimInv`; the dispatcher leaves at N, so
these are all tasks and every task has run. `Settled`: what ran was released, a
claim is of all blocks, the entry of a released task is DISPATCHED or was
committed with nothing to wait for, and a started task has been marked or has a
thread standing before its Hook 0. When the threads have returned, no one stands
there, every predecessor is marked and `CreditsExact` makes each counter equal
its target. `StatsInv` ties the counts of stagings, doorbells and openings to
three sets of tasks, two read from records and one from the slots; with `StageInv`
and all slots empty the three are one set.

*Refinement.* With `DagInv`, publication maps to `Submit`, `send_task` and
`poll_open` to `Start` (its guard, all predecessors done, is `DueInv` with
`ReasonInv`), `complete_slot` to `Finish`, everything else to a stutter.

*Scheduler* (`SchedInductive`). No property of a painter stands alone, because its
counters are right only while every completion reaches it once, and this in turn
only while every task is launched once, which the counters decide. Three accounts
are kept at once. *Completions*: a launch has one token, which is with the core
that runs the task, then in its message bit, then an entry of the completion log
(`OneTokenEach`); a handshake reply is a token of task 0 that no launch paid for.
*Releases*: ready batches and ready queues are lists without repetition, of tasks
not launched, and disjoint (`QueuesSound`, `ListsSound`); only a painter's counter
adds to them. *Counters* (`CountedSound`): a committed task waits for the tasks whose
successor list holds it; the other predecessors were done when it was committed;
its counter is the number it waits for less the log entries read since, and it has
been made ready if and only if all have answered. Entries of task 0 may answer
more often than it is waited for: then the counter wraps, and `CountAfter` says
what it holds. It comes back to zero only after 2^32 more answers, which
`CountersWide` excludes. The step of the proof that matters is the deal of one
batch: the batch is marked done, the window is committed against the new set, and
then the batch counts down every list, those just extended included
(`AddSuccessorsSound`, `CountSuccessorsSound`, `ResolveSound`).
`ReleasedOnce` and `NoneForgotten` follow by counting places, `ReportedOnce` from
the tokens, `ReadyIsReady` from both directions of `CountedSound`.

The routines of a painter are loops over lists, and `Iterate` is a recursive
function. What such a loop does is proved by induction over the position reached:
`NatSetInduction` derives induction for a set of naturals from the library's
`WFMin`, which takes sets where its induction theorems take operators, and
`Recursion` states what it gives for `Iterate`.

*Pipeline* (`PipeInv` in OrchPipelineProofs). The threads share no cursor, so the
properties rest on what each cursor implies about all tasks. `DescCursor`: a desc
thread's stripe is a block `c * desc_batch_size` with `c` congruent to the thread,
and its cursor is at most a round of stripes behind its end. So a task the
thread skips lies in a block of another thread, or is the first after its own
stripe, which with two threads or more is another's too (`StripeOwner`,
`DescSkipInv`); hence a task is described if and only if its owner's cursor has
passed it (`DescribedBy`). That is where the hypothesis of two threads is needed:
with one the first task of every later stripe is its own and is skipped. A detect
thread's map is the map of `SequentialRun` at its cursor (`FoundBy`), because
`prepare_hash` leaves the map `detect_task` would leave (`TaskDetected`): only INOUT
look-ups remove entries, `prepare_hash` makes those, and the look-ups of plain
inputs it leaves out change nothing (`LookupInFirst`). For the words of a single
thread, `Written` says how far a task's words have been written, `WordsBegin`,
`WordsGo` and `WordsEnd` are the three steps of `add_predecessors`, and `WordsKept`
that words of a later task leave them.

A chain is walked by a recursive function on the length still to go, and a
loop over tensors or entries by the folds of the library. What a fold computes
is reached through a function of the position (`FoldExists`, by induction with
`UpTo`), of which `Inserting`, `Visiting` and `LookingUp` say what one step is.

*Tensor map* (`MapInv` in TensorMapProofs). That the chains are whole is kept by an
insertion only if the slot of the new task is empty or its own, and a slot may
still hold a task that is done. `MapInv` adds when that cannot be: every linked entry was
produced between `last_cleanup` and the task that is being submitted, and these are at
most `TaskWindow` apart, because `tm_submit` sweeps before it inserts whenever the
window would be full. Two tasks within the window have different slots
(`SlotDistinct`), so a slot is one task's; and a sweep to the watermark leaves nothing
before `last_cleanup`.

*Queue* (`QueueInv` in RingQueueProofs). By items, head and count give the tail
modulo the ring, and indices stay in the array. By batches the tail is head and
count exactly, and while it is inside the array every word to be read is an
entry, so that the content is a segment of the array; a step that leaves the array is
one `FifoInsideArray` says nothing of.

The modules have a lemma per action or per thread and part of the invariant
(`CutterKeepsEntries`, `CutterKeepsCounts`, `EdgeCredits`, `SendKeepsDag`, `StageClaimKeeps`,
`RecordKeepsDag`, `CheckKeepsDag`, ...), frame lemmas for the steps that leave a
part alone, and `...Fields`, `...Step` lemmas that say once what an action
writes. Lists are handled by `ConcatLists`, `AppendToList`, `TailOfList`,
`CutList`, `OccurrencesTail` and `EdgesSwap`, with no induction: a counted set
of edges changes by one list at a time.

**Only model-checked.** Of program A: liveness (`EventuallyDone`), which the
prover cannot do. Of the tensor map: that its answers neither miss a dependency
nor invent one (`DepsComplete`, `NoFalseEdge`), which needs the order of the entries in a
bucket and what a removal passes on; that the pool suffices; and the
arithmetic of windows (`OverlapSound`). The graphs of the cases and the kernels:
`DecodeGraph`'s properties are about fixed graphs, where a run already is
exhaustive, and `KernelPipes` runs fixed instruction lists.

## 5. Where the code and its documents disagree

Three runs end in a counterexample; `findings` in `PROJECT.json` quotes the lines.

1. `ring_reuse`: the watermark is published before `resolve_dep` reads the
   completed tasks' successor lists; the entry can be recommitted in between
   and the successors are never resolved.
2. `queue_wrap`: in a queue of two entries, after one item was put and taken, the
   second item of a batch of two is written on the queue's lock word, since
   `batch_enqueue` tests the count but never wraps the tail, and is read back as
   something else; the specification of the queue promises that slots are used
   again (`specs/010-mpmc-queue/spec.md:84-85`). Program B's `common/queue.h` wraps.
3. `desc_missing_input`: the softmax task of `qwen3_14b_decoder_desc.h` does
   not name the scores it reads, and may run before they are written.

**Remarks** on what the models had to exclude or to state:

1. `view_at` (`tensor.h:126-127`) caches the distance to the last element where
   `tensor_from_base_layout` caches the number of elements. The overlap test
   therefore misses the last element of a window against a window that begins
   there. `OverlapSound` allows exactly this; no case names two such windows.
2. With one desc thread the first task of every stripe but the first is skipped
   (`DESC_DO_OR_SKIP`, `qwen3_14b_decoder_desc.h:152-164`).
3. With several detect threads the words of one task in the predecessor ring
   are mixed with others', and `dump_predecessors` (`orchestrator.c:90-126`)
   prints the mixture; only `cnt` and the words together are right.
4. The alloc thread makes six leading tensors, `orchestrator_desc` takes five
   (`alloc.h:97-102`, `desc.h:195-199`), so that later tensors are paired with
   the shape of the one before.
5. `paged_attention_unroll_manual_scope.h:110-113` registers two predecessors
   of an update in two calls that both start the count at 0, so the second is
   not counted; the updates of one accumulator are then unordered.
6. In program B a handshake reply is indistinguishable from the completion of
   task 0: the counter that ends the program counts it, and a painter that had
   added edges to task 0 before would count them twice.
7. The own painter never advances its cursor in the ring whose comment
   (`scheduler/dispatch.h:67-70`) says a cell is overwritten only after all
   painters passed; no code tests that.
8. In program B the result of the put into a ready queue is ignored
   (`painter.c:125`), and the thread that first passes the start barrier destroys
   it while others may hold its mutex (`scheduler.c:127-128`).
9. In program A: with Early Dispatch a staged task's ready-queue entry outlives
   the generation of its ring entry (`dispatch.c:213-221`); without it nothing
   empties `g_successor_buf` when an entry changes hands
   (`early_dispatch.c:144`); `set_mix` removes vector slots that no completion
   puts back; predecessors beyond `CON_NODE_CNT` are dropped
   (`cutter.c:175`); and with more than RING_SIZE tasks, as in
   `cases/ed_a12_ring_stress.h`, batches leave their array (run `queue_wrap`).
10. `rmsnorm.cpp:215-221` sets flags a second time before their first wait: the
   kernels need flags that count to two (`FlagLimit`).
11. The total graph of program B, `include/cases/qwen3_14b_decode_total_graph.h`
   (`README.md:39`), has 60 tasks of type 2 ("aiv=0, aic=1, mix=2"), but
   `task.h:15-20` has two types, with MIX = 1: `painter.c:84` and `:109` then write
   behind `rq_buf` and `ready_cnt`, and no queue of that type is sent. The same
   comment has the other two types the other way round (`TASK_TYPE_CUBE = 0`). The
   default table, `include/cases/qwen3_14b_decode_subgraph.h`, has types 0 and 1
   only; the older copy in `cases/`, which has type 2, is not on the include path.
   `GraphAssumption` excludes such tables.

What the runs confirm of the design document: the doorbell rings exactly once
(5.10), fanin is exact (5.12.3), self-notification covers a late record (5.15),
tasks released by the gate propagate their dispatch (5.16). One remark without
a run: `specs/010-mpmc-queue/spec.md:100` describes a partial batch on a nearly
full queue; the code refuses such a batch whole.

## 6. Not modelled

* In the stand-alone orchestrator `g_subtask_cnt`, which the desc threads add to
  without synchronisation and no step reads; and a case with more tasks than
  RING_SIZE, for which `new_task` waits for ever (`orch_config.h:23-26` sizes
  the ring for the cases).
* Options that are off or diagnostic: `ENABLE_DAG_DEDUP`, `ED_ABLATE_*`,
  `ED_A10`/`ED_A11` probes; logs, latency traces, statistics except the three
  counters of the self-check.
* Overflow of the fixed lists `node[32]`, `NODE_BUFF` and `rq_buf`, and the
  16-bit task ids of `executor.c`; listed as hazards.
* Weak memory orders: the models are sequentially consistent.
* Multiple dispatcher threads of program A (its configuration has one).
* Memory pool and manager: `manager_worker` returns before its loop and `main`
  starts no manager thread. If it did, `process_when2free` would drop the
  entries whose task is still running.
* The ED probes, `paged_attention_unroll_manual_scope.h` and the generated
  tables; `qwen3_dynamic_tensormap_ot2.h`, which does not compile as C.
* Program B without `REAL_CHIP`: nothing starts its painters. The headers of
  the chip are not in the repository.
* What kernels compute; accesses to global memory; barriers within a pipe and
  the places where one is missing (`silu.cpp:84`), which an in-order pipe hides.
* Tools, scripts and micro-benchmarks: no state of the system.

## 7. Plan

Done: programs A, B and C, the decode graphs and the kernels, and the proofs of
section 4. Next, in this order:

1. Successor lists and ready buffers of bounded length; task ids of small
   width; rings of program B smaller than the number of tasks.
