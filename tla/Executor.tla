------------------------------ MODULE Executor -------------------------------
(***************************************************************************)
(* The executor thread.  It scans all cores in a loop; the order in which  *)
(* it visits them is left open here.  A core runs one RUNNABLE slot at a   *)
(* time (e->idx); how many ticks and SPMD blocks that takes is left open.  *)
(* A GATED slot is opened when its doorbell has rung.                      *)
(*                                                                         *)
(* Registers: `active' e->idx of every core; `pending' the cores with      *)
(* slots still gated (gated_pending); `unit' the slot being polled or      *)
(* completed; `still' whether a slot of the core polled stays gated.       *)
(***************************************************************************)
EXTENDS EarlyDispatch

exeFrame == <<orchVars, g_predecessors, g_min_uncomplete_task, graphVars,
              ctrlVars, ready_queue, completed_queue, g_completed_cnt,
              g_is_done, orch, cut, disp>>

CoreOf(u) == <<u[1], u[2]>>

(* The scan picks a RUNNABLE slot of an idle core.  It reads the slots one *)
(* after the other while the dispatcher fills them, so any may be first.   *)
start(u) ==
  /\ exec.pc = "scan"
  /\ exec.active[CoreOf(u)] = AIC_OSTD
  /\ exe[u].state = "RUNNABLE"
  /\ exec' = [exec EXCEPT !.active[CoreOf(u)] = u[3]]
  /\ UNCHANGED <<exeFrame, ed, g_ed_ready_queue, g_ed_gated_core_mask, exe,
                 msg_bitmap, stats, runs>>

(* complete_slot: clear the dispatch record of this generation, free the   *)
(* slot, and only then set its completion bit.                             *)
ClearedRecord(m, t) ==
  IF m.dispatch # INVALID /\ m.dispatch.tag = t THEN [m EXCEPT !.dispatch = INVALID]
                                                ELSE m

complete_slot(u) ==
  LET t == exe[u].task IN
  /\ exec.pc = "scan"
  /\ exec.active[CoreOf(u)] = u[3]
  /\ IF exe[u].state = "RUNNABLE"
     THEN /\ exe' = [exe EXCEPT ![u].state = "EMPTY"]
          /\ ed' = IF ED_ENABLE THEN [ed EXCEPT ![Idx(t)] = ClearedRecord(@, t)] ELSE ed
          /\ runs' = [runs EXCEPT ![t] = @ + 1]
          /\ exec' = [exec EXCEPT !.active[CoreOf(u)] = AIC_OSTD,
                                  !.pc = "signal", !.unit = u]
     ELSE /\ exec' = [exec EXCEPT !.active[CoreOf(u)] = AIC_OSTD]
          /\ UNCHANGED <<exe, ed, runs>>
  /\ UNCHANGED <<exeFrame, g_ed_ready_queue, g_ed_gated_core_mask, msg_bitmap, stats>>

signal ==
  /\ exec.pc = "signal"
  /\ msg_bitmap' = msg_bitmap \cup {exec.unit}
  /\ exec' = [exec EXCEPT !.pc = "scan", !.unit = INVALID]
  /\ UNCHANGED <<exeFrame, ed, g_ed_ready_queue, g_ed_gated_core_mask, exe,
                 stats, runs>>

----------------------------------------------------------------------------
(* ed_drain_gated_cores: first the mask is exchanged for the empty one ... *)
MaskOf(y) == {c \in g_ed_gated_core_mask : c[1] = y}

drain_mask(y) ==
  /\ exec.pc = "scan"
  /\ MaskOf(y) # {}
  /\ exec' = [exec EXCEPT !.pending = @ \cup MaskOf(y)]
  /\ g_ed_gated_core_mask' = g_ed_gated_core_mask \ MaskOf(y)
  /\ UNCHANGED <<exeFrame, ed, g_ed_ready_queue, exe, msg_bitmap, stats, runs>>

(* ... then every pending core is polled, slot by slot.                    *)
poll_core(c) ==
  /\ exec.pc = "scan"
  /\ c \in exec.pending
  /\ exec' = [exec EXCEPT !.pc = "poll", !.unit = <<c[1], c[2], 0>>, !.still = FALSE]
  /\ UNCHANGED <<exeFrame, ed, g_ed_ready_queue, g_ed_gated_core_mask, exe,
                 msg_bitmap, stats, runs>>

(* The slot after u; past the last one, a core with no gated slot left is  *)
(* no longer pending.                                                      *)
WatchOnNever(still) == FALSE  \* mutant: drops the core whatever it saw
WatchOn(still) == still

PollNext(e, u, still) ==
  IF u[3] + 1 < AIC_OSTD
  THEN [e EXCEPT !.pc = "poll", !.unit = <<u[1], u[2], u[3] + 1>>, !.still = still]
  ELSE [e EXCEPT !.pc = "scan", !.unit = INVALID, !.still = FALSE,
                 !.pending = IF WatchOn(still) THEN @ ELSE @ \ {CoreOf(u)}]

poll_not_rung ==
  LET u == exec.unit IN
  /\ exec.pc = "poll"
  /\ exe[u].state # "GATED" \/ exe[u].doorbell = 0
  /\ exec' = PollNext(exec, u, exec.still \/ exe[u].state = "GATED")
  /\ UNCHANGED <<exeFrame, ed, g_ed_ready_queue, g_ed_gated_core_mask, exe,
                 msg_bitmap, stats, runs>>

(* ed_poll_doorbell: open the gate, clear the doorbell, run Hook 0.        *)
Opened(slot) == [slot EXCEPT !.state = "RUNNABLE", !.doorbell = 0]

poll_open ==
  LET u == exec.unit IN
  /\ exec.pc = "poll"
  /\ exe[u].state = "GATED" /\ exe[u].doorbell = 1
  /\ exe' = [exe EXCEPT ![u] = Opened(@)]
  /\ stats' = [stats EXCEPT !.open = @ + 1]
  /\ exec' = [exec EXCEPT !.pc = "hook0"]
  /\ UNCHANGED <<exeFrame, ed, g_ed_ready_queue, g_ed_gated_core_mask,
                 msg_bitmap, runs>>

executor_hook0 ==
  LET t == exe[exec.unit].task IN
  /\ exec.pc = "hook0" /\ exec.hook = INVALID
  /\ Hook0Enter(t)
  /\ exec' = IF Hook0Todo(t) = <<>> THEN PollNext(exec, exec.unit, exec.still)
             ELSE [exec EXCEPT !.hook = t, !.todo = Hook0Todo(t)]
  /\ UNCHANGED <<exeFrame, g_ed_ready_queue, g_ed_gated_core_mask, exe,
                 msg_bitmap, stats, runs>>

executor_credit ==
  LET s == Head(exec.todo) IN
  /\ exec.hook # INVALID
  /\ AddFanin(s, ed[Idx(s)])
  /\ exec' = IF Len(exec.todo) > 1 THEN [exec EXCEPT !.todo = Tail(@)]
             ELSE PollNext([exec EXCEPT !.hook = INVALID, !.todo = <<>>],
                           exec.unit, exec.still)
  /\ UNCHANGED <<exeFrame, g_ed_gated_core_mask, exe, msg_bitmap, stats, runs>>

executor_exit ==
  /\ exec.pc = "scan" /\ g_is_done
  /\ exec' = [exec EXCEPT !.pc = "done"]
  /\ UNCHANGED <<exeFrame, ed, g_ed_ready_queue, g_ed_gated_core_mask, exe,
                 msg_bitmap, stats, runs>>

ExecutorNext ==
  \/ \E u \in Units : start(u) \/ complete_slot(u)
  \/ signal
  \/ \E y \in Types : drain_mask(y)
  \/ \E c \in Types \X Cores : poll_core(c)
  \/ poll_not_rung \/ poll_open \/ executor_hook0 \/ executor_credit
  \/ executor_exit
=============================================================================
