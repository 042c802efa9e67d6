----------------------------- MODULE ProxyState ------------------------------
(***************************************************************************)
(* The memory the four kinds of threads of the algorithm proxy share, and  *)
(* the registers each of them keeps between two of its steps.              *)
(*                                                                         *)
(* Everything kept per task lives in arrays of RING_SIZE entries indexed   *)
(* by task_id & RING_MASK, so an entry serves one task after another.  One *)
(* orchestrator, one cutter, one dispatcher and one executor thread run,   *)
(* as in the default configuration (conf.h).  Memory is sequentially       *)
(* consistent, and one step is one access to memory another thread uses.   *)
(***************************************************************************)
EXTENDS Integers, Sequences, FiniteSets, Functions, SequencesExt

CONSTANTS
  N,                  \* how many tasks the orchestration entry creates
  Preds,              \* Preds[t]: the targets passed to add_predecessors for t
  TypeOf,             \* TypeOf[t]: TASK_TYPE_CUBE or TASK_TYPE_VECTOR
  Count,              \* Count[t]: the number of SPMD blocks of t
  RING_SIZE, AIC_CNT, AIC_OSTD, CQ_BATCH_SIZE, PRE_BATCH_SIZE, CON_NODE_CNT,
  ED_ENABLE, ED_DRAIN_MAX_PER_ROUND, ED_SPMD_MAX_BLOCKS, ED_UNFIN_THRESHOLD,
  INVALID             \* no task, no record, no unit

TASK_TYPE_CUBE   == 0
TASK_TYPE_VECTOR == 1
TASK_TYPE_MIX    == 1   \* the enumeration gives MIX the value of VECTOR

Tasks == 0 .. N - 1
Types == {TASK_TYPE_CUBE, TASK_TYPE_VECTOR}
Cores == 0 .. AIC_CNT - 1
Slots == 0 .. AIC_OSTD - 1
Rings == 0 .. RING_SIZE - 1
Units == Types \X Cores \X Slots   \* one slot of one core

ASSUME ConfigAssumption ==
  /\ N \in Nat \ {0} /\ RING_SIZE \in Nat \ {0}
  /\ AIC_CNT \in Nat \ {0} /\ AIC_OSTD \in Nat \ {0}
  /\ CQ_BATCH_SIZE \in Nat \ {0} /\ PRE_BATCH_SIZE \in Nat \ {0}
  /\ CON_NODE_CNT \in Nat \ {0}
  /\ ED_ENABLE \in BOOLEAN
  /\ ED_DRAIN_MAX_PER_ROUND \in Nat /\ ED_SPMD_MAX_BLOCKS \in Nat
  /\ ED_UNFIN_THRESHOLD \in Nat

ASSUME GraphAssumption ==
  /\ TypeOf \in [Tasks -> Types]
  /\ Count \in [Tasks -> Nat \ {0}]
  /\ Preds \in [Tasks -> Seq(Tasks)]

ASSUME InvalidAssumption ==
  INVALID \notin Tasks \cup Units \cup [tag : Tasks, unit : Units]

Idx(t) == t % RING_SIZE

VARIABLES
  \* written by the orchestrator
  g_task_id, g_orch_is_done, g_basic_buf, g_predecessors,
  \* written by the cutter
  g_min_uncomplete_task, g_commit_task_id, g_state_buf, g_successor_buf,
  g_predecessor_cnt,
  \* Early Dispatch metadata of each ring entry, and its queue and core mask
  ed, g_ed_ready_queue, g_ed_gated_core_mask,
  \* the executor's slots and the dispatcher's control block
  exe, free_bitmap, msg_bitmap, task_id_map,
  ready_queue, completed_queue, g_completed_cnt, g_is_done,
  \* counters main prints, and how often each task has run (history)
  stats, runs,
  \* registers of the four threads
  orch, cut, disp, exec

orchVars  == <<g_task_id, g_orch_is_done, g_basic_buf>>
graphVars == <<g_commit_task_id, g_state_buf, g_successor_buf, g_predecessor_cnt>>
ctrlVars  == <<free_bitmap, task_id_map>>
vars == <<orchVars, g_predecessors, g_min_uncomplete_task, graphVars, ed,
          g_ed_ready_queue, g_ed_gated_core_mask, exe, ctrlVars, msg_bitmap,
          ready_queue, completed_queue, g_completed_cnt, g_is_done, stats,
          runs, orch, cut, disp, exec>>

(* The least element of a set of numbers: a set bit found by ctz, the next *)
(* position of a list.                                                     *)
LowestOf(S) == CHOOSE x \in S : \A z \in S : x <= z

Record(t, u) == [tag |-> t, unit |-> u]

CountOf(i) == IF g_basic_buf[i] = INVALID THEN 0 ELSE Count[g_basic_buf[i]]
BasicType(i) == IF g_basic_buf[i] = INVALID THEN TASK_TYPE_CUBE
                                            ELSE TypeOf[g_basic_buf[i]]

(* enqueue and batch_enqueue refuse what does not fit.                     *)
HasRoom(q, n) == Len(q) + n <= RING_SIZE

(* Bound.  A queue put to by batches never wraps its tail, so it is the    *)
(* sequence it is meant to be only until RING_SIZE items were put in all.  *)
(* The model ends there; what the code does from there on is RingQueue's.  *)
InsideArray(tail) == tail <= RING_SIZE

----------------------------------------------------------------------------
NoEdMeta ==
  [ring_task_tag |-> INVALID, dispatch_tag |-> INVALID, fanin |-> 0,
   target |-> 0, unfin |-> 0, spec |-> "NONE", next_block |-> 0,
   staged |-> INVALID, claimed |-> 0, dispatch |-> INVALID, snap |-> <<>>]

StateInit ==
  /\ g_task_id = 0 /\ g_orch_is_done = FALSE
  /\ g_basic_buf = [i \in Rings |-> INVALID]
  /\ g_predecessors = [i \in Rings |-> <<>>]
  /\ g_min_uncomplete_task = 0 /\ g_commit_task_id = 0
  /\ g_state_buf = [i \in Rings |->
       [task_id |-> 0, state |-> "CREATING", successor_cnt |-> 0]]
  /\ g_successor_buf = [i \in Rings |-> <<>>]
  /\ g_predecessor_cnt = [i \in Rings |-> 0]
  /\ ed = [i \in Rings |-> NoEdMeta]
  /\ g_ed_ready_queue = <<>> /\ g_ed_gated_core_mask = {}
  /\ exe = [u \in Units |-> [state |-> "EMPTY", task |-> 0, doorbell |-> 0]]
  /\ free_bitmap = Units /\ msg_bitmap = {}
  /\ task_id_map = [u \in Units |-> 0]
  /\ ready_queue = [y \in Types |-> <<>>] /\ completed_queue = <<>>
  /\ g_completed_cnt = 0 /\ g_is_done = FALSE
  /\ stats = [stage |-> 0, bell |-> 0, open |-> 0]
  /\ runs = [t \in Tasks |-> 0]
  /\ orch = "new"
  /\ cut = [pc |-> "take", batch |-> <<>>, end |-> 0, surv |-> <<>>,
            work |-> <<>>, ready |-> [y \in Types |-> <<>>],
            tail |-> [y \in Types |-> 0]]
  /\ disp = [pc |-> "round", pass |-> 1, batch |-> <<>>, avail |-> {},
             hook |-> INVALID, todo |-> <<>>, unit |-> INVALID, tries |-> 0,
             flush |-> 0]
  /\ exec = [pc |-> "scan", unit |-> INVALID, still |-> FALSE, pending |-> {},
             hook |-> INVALID, todo |-> <<>>,
             active |-> [c \in Types \X Cores |-> AIC_OSTD]]
=============================================================================
