---------------------------- MODULE Orchestrator -----------------------------
(***************************************************************************)
(* The orchestration thread: for every task new_task, then the case's      *)
(* add_predecessors, then the increment of g_task_id that publishes it.    *)
(***************************************************************************)
EXTENDS ProxyState

orchFrame == <<g_min_uncomplete_task, graphVars, ed, g_ed_ready_queue,
               g_ed_gated_core_mask, exe, ctrlVars, msg_bitmap, ready_queue,
               completed_queue, g_completed_cnt, g_is_done, stats, runs,
               cut, disp, exec>>

(* new_task spins until the previous holder of the ring entry is below the *)
(* completion watermark.                                                   *)
RingHasRoomOffByOne(t) == t - g_min_uncomplete_task <= RING_SIZE   \* mutant
RingHasRoom(t) == t - g_min_uncomplete_task < RING_SIZE

new_task ==
  /\ orch = "new" /\ g_task_id < N
  /\ RingHasRoom(g_task_id)
  /\ g_basic_buf' = [g_basic_buf EXCEPT ![Idx(g_task_id)] = g_task_id]
  /\ orch' = "preds"
  /\ UNCHANGED <<orchFrame, g_task_id, g_orch_is_done, g_predecessors>>

(* A target below the watermark is already complete and is left out.  The  *)
(* list is kept as a function of the positions in the target array.        *)
KeepTargetOffByOne(p) == p > g_min_uncomplete_task   \* mutant
KeepTarget(p) == p >= g_min_uncomplete_task

add_predecessors ==
  LET target == Preds[g_task_id] IN
  /\ orch = "preds"
  /\ g_predecessors' = [g_predecessors EXCEPT ![Idx(g_task_id)] =
                          Restrict(target, {k \in DOMAIN target : KeepTarget(target[k])})]
  /\ orch' = "publish"
  /\ UNCHANGED <<orchFrame, orchVars>>

publish ==
  /\ orch = "publish"
  /\ g_task_id' = g_task_id + 1
  /\ orch' = "new"
  /\ UNCHANGED <<orchFrame, g_orch_is_done, g_basic_buf, g_predecessors>>

orchestration_done ==
  /\ orch = "new" /\ g_task_id = N
  /\ g_orch_is_done' = TRUE
  /\ orch' = "done"
  /\ UNCHANGED <<orchFrame, g_task_id, g_basic_buf, g_predecessors>>

OrchestratorNext ==
  new_task \/ add_predecessors \/ publish \/ orchestration_done
=============================================================================
