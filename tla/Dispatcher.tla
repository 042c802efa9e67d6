----------------------------- MODULE Dispatcher ------------------------------
(***************************************************************************)
(* The dispatcher thread.  One round drains the completion bits, recomputes*)
(* the MIX slots, sends ready tasks to free slots in three passes and, when*)
(* no ready task is waiting, stages early-dispatch tasks on gated slots.   *)
(*                                                                         *)
(* free_bitmap and task_id_map are this thread's own; what it computes from*)
(* them between two accesses to shared memory is one step.                 *)
(*                                                                         *)
(* Registers: `batch' the tasks dequeued in this pass, `avail' the cores it*)
(* has not used yet, `unit' the slot being staged, `tries' the stagings    *)
(* left, `flush' the rounds made by dispatch_finish.                       *)
(***************************************************************************)
EXTENDS EarlyDispatch

dispFrame == <<orchVars, g_predecessors, g_min_uncomplete_task, graphVars,
               runs, orch, cut, exec>>

PassType == <<TASK_TYPE_MIX, TASK_TYPE_VECTOR, TASK_TYPE_CUBE>>
Type == PassType[disp.pass]

(* The last pass is followed by the ED phase; its end starts a new round.  *)
NextPass(d) ==
  IF d.pass < Len(PassType)
  THEN [d EXCEPT !.pc = "dequeue", !.pass = @ + 1, !.batch = <<>>, !.avail = {}]
  ELSE [d EXCEPT !.pc = IF ED_ENABLE THEN "ed" ELSE "round",
                 !.pass = 1, !.batch = <<>>, !.avail = {}]

----------------------------------------------------------------------------
has_pending_normal_work == \E y \in Types : ready_queue[y] # <<>>
has_pending_ready_work == has_pending_normal_work \/ g_ed_ready_queue # <<>>

WindowClosedEarly == g_orch_is_done   \* mutant: completions not counted
WindowClosed == g_orch_is_done /\ g_completed_cnt >= g_task_id
Flushing == ED_ENABLE /\ has_pending_ready_work /\ disp.flush < RING_SIZE

(* The exchange order of the sweep: by type, then slot, then core.         *)
SweepsBefore(u, v) ==
  \/ u[1] < v[1]
  \/ u[1] = v[1] /\ u[3] < v[3]
  \/ u[1] = v[1] /\ u[3] = v[3] /\ u[2] < v[2]

(* set_mix: the free set of MIX, which is that of VECTOR, is cut down to   *)
(* the slots free in both types.                                           *)
set_mix(free) ==
  {u \in free : u[1] = TASK_TYPE_MIX =>
     \A y \in {TASK_TYPE_CUBE, TASK_TYPE_VECTOR} : <<y, u[2], u[3]>> \in free}

FreedWithoutMsg(done) == done \cup {u \in Units : exe[u].state # "EMPTY"}  \* mutant
FreedWhenEmpty(done) == done \cup {u \in Units : exe[u].state = "EMPTY"}   \* mutant
Freed(done) == done

(* The order of the completed batch, a sequence of the signalled slots.    *)
SweepOrder(S) == {f \in [1 .. Cardinality(S) -> S] :
                    \A j, k \in DOMAIN f : j < k => SweepsBefore(f[j], f[k])}

drain_completed_snapshot ==
  \E order \in SweepOrder(msg_bitmap) :
     LET done == [k \in DOMAIN order |-> task_id_map[order[k]]]
  IN /\ disp.pc = "round"
     /\ WindowClosed => Flushing
     /\ InsideArray(g_completed_cnt + Len(done))
     /\ msg_bitmap' = {}
     /\ free_bitmap' = set_mix(free_bitmap \cup Freed(msg_bitmap))
     /\ completed_queue' = IF HasRoom(completed_queue, Len(done))
                           THEN completed_queue \o done ELSE completed_queue
     /\ g_completed_cnt' = g_completed_cnt + Len(done)
     /\ disp' = [disp EXCEPT !.pc = "dequeue", !.pass = 1,
                             !.flush = IF WindowClosed THEN @ + 1 ELSE @]
     /\ UNCHANGED <<dispFrame, ed, g_ed_ready_queue, g_ed_gated_core_mask, exe,
                    task_id_map, ready_queue, g_is_done, stats>>

dispatch_finish ==
  /\ disp.pc = "round" /\ WindowClosed /\ ~Flushing
  /\ g_is_done' = TRUE
  /\ disp' = [disp EXCEPT !.pc = "done"]
  /\ UNCHANGED <<dispFrame, ed, g_ed_ready_queue, g_ed_gated_core_mask, exe,
                 ctrlVars, msg_bitmap, ready_queue, completed_queue,
                 g_completed_cnt, stats>>

----------------------------------------------------------------------------
FreeSlots(y, c) == {j \in Slots : <<y, c, j>> \in free_bitmap}
AvailAny(y) == {c \in Cores : FreeSlots(y, c) # {}}
AvailAll(y) == {c \in Cores : FreeSlots(y, c) = Slots}
FirstFree(y, c) == <<y, c, LowestOf(FreeSlots(y, c))>>

(* send_task takes one task per core that has a free slot.                 *)
send_task_dequeue ==
  LET avail == AvailAny(Type)
      q == ready_queue[Type]
      n == IF Len(q) < Cardinality(avail) THEN Len(q) ELSE Cardinality(avail)
  IN /\ disp.pc = "dequeue"
     /\ ready_queue' = [ready_queue EXCEPT ![Type] = SubSeq(q, n + 1, Len(q))]
     /\ disp' = IF n = 0 THEN NextPass(disp)
                ELSE [disp EXCEPT !.pc = "send", !.batch = SubSeq(q, 1, n),
                                  !.avail = avail]
     /\ UNCHANGED <<dispFrame, ed, g_ed_ready_queue, g_ed_gated_core_mask, exe,
                    ctrlVars, msg_bitmap, completed_queue, g_completed_cnt,
                    g_is_done, stats>>

AfterSend(d) == IF Len(d.batch) > 1 THEN [d EXCEPT !.pc = "send", !.batch = Tail(@)]
                                    ELSE NextPass(d)

ClaimableAlways(t) == TRUE   \* mutant: the claim is not tested
Claimable(t) == CountOf(Idx(t)) # 0 /\ ed[Idx(t)].next_block = 0

(* Wholly free cores first; each core takes one task of the pass.          *)
PickedCore ==
  LET all == AvailAll(Type) \cap disp.avail
  IN LowestOf(IF all # {} THEN all ELSE disp.avail)

(* Claim the whole task, publish it RUNNABLE, then run Hook 0 for it.  A   *)
(* task that ED has claimed is skipped and costs no core.                  *)
send_task ==
  LET t == Head(disp.batch)
      u == FirstFree(Type, PickedCore)
      skip == ED_ENABLE /\ ~Claimable(t)
  IN /\ disp.pc = "send"
     /\ IF skip
        THEN /\ disp' = AfterSend(disp)
             /\ UNCHANGED <<ed, exe, free_bitmap, task_id_map>>
        ELSE /\ free_bitmap' = free_bitmap \ {u}
             /\ exe' = [exe EXCEPT ![u].state = "RUNNABLE", ![u].task = t]
             /\ task_id_map' = [task_id_map EXCEPT ![u] = t]
             /\ ed' = IF ED_ENABLE
                      THEN [ed EXCEPT ![Idx(t)].next_block = CountOf(Idx(t)),
                                      ![Idx(t)].dispatch = Record(t, u)]
                      ELSE ed
             /\ disp' = LET d == [disp EXCEPT !.avail = @ \ {u[2]}]
                        IN IF ED_ENABLE THEN [d EXCEPT !.pc = "hook0"] ELSE AfterSend(d)
     /\ UNCHANGED <<dispFrame, g_ed_ready_queue, g_ed_gated_core_mask,
                    msg_bitmap, ready_queue, completed_queue, g_completed_cnt,
                    g_is_done, stats>>

hook0Frame == <<dispFrame, g_ed_gated_core_mask, exe, ctrlVars, msg_bitmap,
                ready_queue, completed_queue, g_completed_cnt, g_is_done, stats>>

dispatcher_hook0 ==
  LET t == Head(disp.batch) IN
  /\ disp.pc = "hook0" /\ disp.hook = INVALID
  /\ Hook0Enter(t)
  /\ disp' = IF Hook0Todo(t) = <<>> THEN AfterSend(disp)
             ELSE [disp EXCEPT !.hook = t, !.todo = Hook0Todo(t)]
  /\ UNCHANGED <<hook0Frame, g_ed_ready_queue>>

dispatcher_credit ==
  LET s == Head(disp.todo) IN
  /\ disp.hook # INVALID
  /\ AddFanin(s, ed[Idx(s)])
  /\ disp' = IF Len(disp.todo) > 1 THEN [disp EXCEPT !.todo = Tail(@)]
             ELSE AfterSend([disp EXCEPT !.hook = INVALID, !.todo = <<>>])
  /\ UNCHANGED hook0Frame

----------------------------------------------------------------------------
(* try_early_dispatch.  A predecessor still on a slot of the same type     *)
(* draws the task to its core.                                             *)
LivePredCores(t, y) ==
  {ed[Idx(p)].dispatch.unit[2] : p \in
     {q \in Range(ed[Idx(t)].snap) :
        /\ g_state_buf[Idx(q)].state # "COMPLETED"
        /\ ed[Idx(q)].dispatch # INVALID
        /\ ed[Idx(q)].dispatch.tag = q
        /\ ed[Idx(q)].dispatch.unit[1] = y}}

pick_stage_core(t, y) ==
  LET near == LivePredCores(t, y) \cap AvailAny(y)
  IN IF near # {} THEN near ELSE AvailAll(y)

StagingStill(t) ==
  /\ ed[Idx(t)].spec = "STAGING" /\ TagIs(t) /\ ed_count_admitted(CountOf(Idx(t)))

EndOfED(d) == [d EXCEPT !.pc = "round", !.tries = 0]

edFrame == <<dispFrame, msg_bitmap, ready_queue, completed_queue,
             g_completed_cnt, g_is_done>>

(* Ready work comes first; without any, ED_DRAIN_MAX_PER_ROUND tries.      *)
begin_ed ==
  /\ disp.pc = "ed"
  /\ disp' = IF has_pending_normal_work \/ ED_DRAIN_MAX_PER_ROUND = 0
             THEN EndOfED(disp)
             ELSE [disp EXCEPT !.pc = "try", !.tries = ED_DRAIN_MAX_PER_ROUND]
  /\ UNCHANGED <<edFrame, ed, g_ed_ready_queue, g_ed_gated_core_mask, exe,
                 ctrlVars, stats>>

(* Nothing to stage: the queue is empty, or the task at its head is stale  *)
(* or no longer STAGING and is dropped.                                    *)
try_nothing ==
  /\ disp.pc = "try"
  /\ IF g_ed_ready_queue = <<>>
     THEN UNCHANGED g_ed_ready_queue
     ELSE /\ ~StagingStill(Head(g_ed_ready_queue))
          /\ g_ed_ready_queue' = Tail(g_ed_ready_queue)
  /\ disp' = EndOfED(disp)
  /\ UNCHANGED <<edFrame, ed, g_ed_gated_core_mask, exe, ctrlVars, stats>>

TryHead ==
  /\ disp.pc = "try"
  /\ g_ed_ready_queue # <<>>
  /\ StagingStill(Head(g_ed_ready_queue))

(* No core will do: back to the end of the queue, for a later round.       *)
try_no_slot ==
  LET t == Head(g_ed_ready_queue) IN
  /\ TryHead
  /\ pick_stage_core(t, BasicType(Idx(t))) = {}
  /\ g_ed_ready_queue' = Append(Tail(g_ed_ready_queue), t)
  /\ disp' = EndOfED(disp)
  /\ UNCHANGED <<edFrame, ed, g_ed_gated_core_mask, exe, ctrlVars, stats>>

(* Claim the task and publish it GATED, its doorbell cleared first; one    *)
(* that is already claimed is dropped.                                     *)
UngatedSlot(t, slot) == [slot EXCEPT !.state = "RUNNABLE", !.task = t]  \* mutant
GatedSlot(t, slot) == [slot EXCEPT !.state = "GATED", !.task = t, !.doorbell = 0]

try_stage ==
  LET t == Head(g_ed_ready_queue)
      y == BasicType(Idx(t))
  IN /\ TryHead
     /\ \E c \in pick_stage_core(t, y) :
          LET u == FirstFree(y, c) IN
          IF ed[Idx(t)].next_block = 0
          THEN /\ free_bitmap' = free_bitmap \ {u}
               /\ exe' = [exe EXCEPT ![u] = GatedSlot(t, @)]
               /\ task_id_map' = [task_id_map EXCEPT ![u] = t]
               /\ ed' = [ed EXCEPT ![Idx(t)].next_block = CountOf(Idx(t))]
               /\ disp' = [disp EXCEPT !.pc = "mask", !.unit = u]
          ELSE /\ disp' = EndOfED(disp)
               /\ UNCHANGED <<free_bitmap, exe, task_id_map, ed>>
     /\ g_ed_ready_queue' = Tail(g_ed_ready_queue)
     /\ UNCHANGED <<edFrame, g_ed_gated_core_mask, stats>>

stage_mask ==
  /\ disp.pc = "mask"
  /\ g_ed_gated_core_mask' = g_ed_gated_core_mask \cup {<<disp.unit[1], disp.unit[2]>>}
  /\ disp' = [disp EXCEPT !.pc = "record"]
  /\ UNCHANGED <<edFrame, ed, g_ed_ready_queue, exe, ctrlVars, stats>>

stage_record ==
  LET t == exe[disp.unit].task IN
  /\ disp.pc = "record"
  /\ ed' = [ed EXCEPT ![Idx(t)].staged = Record(t, disp.unit)]
  /\ stats' = [stats EXCEPT !.stage = @ + 1]
  /\ disp' = [disp EXCEPT !.pc = "check"]
  /\ UNCHANGED <<edFrame, g_ed_ready_queue, g_ed_gated_core_mask, exe, ctrlVars>>

(* Hook 1: the last predecessor was resolved before the record was there.  *)
SelfNotifyNever(t) == FALSE   \* mutant
SelfNotify(t) == ed[Idx(t)].spec = "DISPATCHED"

stage_check ==
  LET t == exe[disp.unit].task IN
  /\ disp.pc = "check"
  /\ IF SelfNotify(t) THEN ed_notify_once(t, Record(t, disp.unit))
                      ELSE UNCHANGED <<ed, exe, stats>>
  /\ disp' = LET d == [disp EXCEPT !.unit = INVALID]
             IN IF disp.tries > 1 THEN [d EXCEPT !.pc = "try", !.tries = @ - 1]
                                  ELSE EndOfED(d)
  /\ UNCHANGED <<edFrame, g_ed_ready_queue, g_ed_gated_core_mask, ctrlVars>>

DispatcherNext ==
  \/ drain_completed_snapshot \/ dispatch_finish \/ send_task_dequeue \/ send_task
  \/ dispatcher_hook0 \/ dispatcher_credit
  \/ begin_ed \/ try_nothing \/ try_no_slot \/ try_stage
  \/ stage_mask \/ stage_record \/ stage_check
=============================================================================
