------------------------------ MODULE EslProxyInv ------------------------------
(***************************************************************************)
(* The inductive invariants of the proxy, beyond TypeOK and SlotInv: what  *)
(* has to be true of all four threads together for the properties of       *)
(* EslProxy to be kept by each of their steps.                             *)
(***************************************************************************)
EXTENDS EslProxy

----------------------------------------------------------------------------
(* No gated slot is forgotten (the Dekker argument of ed_gate.h).          *)

(* The core is in the mask, or the dispatcher is about to put it there.    *)
Announced(u) ==
  CoreOf(u) \in g_ed_gated_core_mask \/ (disp.pc = "mask" /\ disp.unit = u)
Watched(u) == CoreOf(u) \in exec.pending \/ Announced(u)

(* The walk is over a pending core.  A gated slot it has passed was seen   *)
(* (still), or was gated afterwards and is announced.                      *)
WalkInv ==
  exec.pc \in {"poll", "hook0"} =>
    /\ CoreOf(exec.unit) \in exec.pending
    /\ \A u \in InState("GATED") :
         CoreOf(u) = CoreOf(exec.unit) /\ u[3] < exec.unit[3] =>
           exec.still \/ Announced(u)
    /\ exec.pc = "hook0" => exe[exec.unit].state = "RUNNABLE"

GateInv == (\A u \in InState("GATED") : Watched(u)) /\ WalkInv

----------------------------------------------------------------------------
(* What says that a task has run, from the completion bit to the           *)
(* watermark, says so of tasks that have; and the entry of a task that has *)
(* not is its own.                                                         *)

RanTasks == {t \in Tasks : Ran(t)}

BitsRan ==
  /\ \A u \in msg_bitmap : task_id_map[u] \in RanTasks
  /\ exec.pc = "signal" => exe[exec.unit].task \in RanTasks
QueueRan == completed_queue \in Seq(RanTasks)
StatesRan ==
  \A i \in Rings :
    g_state_buf[i].state = "COMPLETED" => g_state_buf[i].task_id \in RanTasks
WatermarkRan == \A t \in Tasks : t < g_min_uncomplete_task => Ran(t)
CompletionsRan == BitsRan /\ QueueRan /\ StatesRan /\ WatermarkRan

(* The entry of a task that has not run is its own, from new_task on.      *)
EntriesHeld ==
  /\ \A t \in Tasks : t < g_task_id /\ ~Ran(t) => g_basic_buf[Idx(t)] = t
  /\ orch \in {"preds", "publish"} => g_basic_buf[Idx(g_task_id)] = g_task_id

WatermarkInv == CompletionsRan /\ EntriesHeld

----------------------------------------------------------------------------
(* Why every task runs once and after its predecessors, for graphs that    *)
(* fit into the ring: then the entry of a task is its own for the whole    *)
(* run, Idx(t) = t, and each array below is indexed by the task.           *)

(* The graph fits: a ring entry for every task (conf.h sizes it for cases),*)
(* predecessors created before the tasks that name them, and no list that  *)
(* the cutter would have to cut short.                                     *)
NoReuse ==
  /\ N <= RING_SIZE
  /\ \A t \in Tasks : /\ Len(Preds[t]) <= CON_NODE_CNT
                      /\ \A k \in DOMAIN Preds[t] : Preds[t][k] < t

Distinct(q) == \A j, k \in DOMAIN q : q[j] = q[k] => j = k

(* commit has written the task's entry.                                    *)
Committed(t) == t < g_commit_task_id \/ Committing(t)
Completed(t) == g_state_buf[t].state = "COMPLETED"

----------------------------------------------------------------------------
(* The orchestrator's part: the entry, and the list of predecessors with   *)
(* those left out that have run.                                           *)
Created(t) == t < g_task_id \/ (t = g_task_id /\ orch \in {"preds", "publish"})
Listed(t)  == t < g_task_id \/ (t = g_task_id /\ orch = "publish")
ListKeeps(t) ==
  /\ DOMAIN g_predecessors[t] \subseteq DOMAIN Preds[t]
  /\ \A k \in DOMAIN Preds[t] :
       IF k \in DOMAIN g_predecessors[t] THEN g_predecessors[t][k] = Preds[t][k]
       ELSE Ran(Preds[t][k])
CreationInv ==
  \A t \in Tasks : /\ Created(t) => g_basic_buf[t] = t
                   /\ Listed(t) /\ ~Committed(t) => ListKeeps(t)

(* The cutter's part: an entry is untouched until its task is committed,   *)
(* and from then on names it.                                              *)
Untouched(t) ==
  /\ g_state_buf[t].state = "CREATING" /\ g_successor_buf[t] = <<>>
EntryInv ==
  \A t \in Tasks :
    /\ g_state_buf[t].successor_cnt = Len(g_successor_buf[t])
    /\ Committed(t) => g_state_buf[t].task_id = t /\ g_state_buf[t].state # "CREATING"
    /\ ~Committed(t) => Untouched(t)
    /\ ED_ENABLE => (TagIs(t) <=> Committed(t))

(* Edges lead to committed tasks; those still to append come from tasks    *)
(* that have not completed.                                                *)
EdgeInv ==
  /\ \A p \in Tasks : \A t \in ToSet(g_successor_buf[p]) : Committed(t)
  /\ \A t \in ToSet(cut.work) : Committed(t)
  /\ cut.pc \in {"edge", "late"} =>
       /\ DOMAIN cut.surv \subseteq DOMAIN Preds[g_commit_task_id]
       /\ \A k \in DOMAIN cut.surv : cut.surv[k] = Preds[g_commit_task_id][k]
       /\ \A t \in ToSet(cut.surv) : ~Completed(t)

(* A round resolves each completed task once.                              *)
RoundInv ==
  /\ cut.pc \notin {"resolve", "hook2"} => cut.work = <<>>
  /\ cut.pc \in {"take", "send", "done"} => cut.batch = <<>>
  /\ cut.pc = "hook2" => ED_ENABLE
  /\ Distinct(cut.batch) /\ \A t \in ToSet(cut.batch) : Completed(t)

(* The counter is exact, and every predecessor that has not run is counted.*)
CountInv ==
  \A s \in Tasks : Committed(s) =>
    g_predecessor_cnt[s] =
      Cardinality(OpenEdges(s)) + Occurrences(s, WorkLeft) + EdgesLeft(s)

(* Early Dispatch keeps a second count of the same edges, unfin_pred_cnt.  *)
UnfinInv ==
  ED_ENABLE => \A s \in Tasks : Committed(s) => ed[s].unfin = g_predecessor_cnt[s]

Owed(p, s) ==
  \/ ~Completed(p) /\ s \in ToSet(g_successor_buf[p])
  \/ Committing(s) /\ \E k \in ToAppend : Preds[s][k] = p
ReasonInv ==
  \A s \in Tasks : Committed(s) => \A p \in PredSet[s] : Ran(p) \/ Owed(p, s)

----------------------------------------------------------------------------
(* All predecessors resolved.                                              *)
Due(t) == Committed(t) /\ g_predecessor_cnt[t] = 0

(* The way of a ready task from the cutter to a slot is one line per type. *)
Waiting == IF disp.pc = "hook0" THEN Tail(disp.batch) ELSE disp.batch
Lane(y) ==
  ((IF Type = y THEN Waiting ELSE <<>>) \o ready_queue[y]) \o cut.ready[y]
InLane(t) == \E y \in Types : t \in ToSet(Lane(y))
LaneInv ==
  /\ disp.pc \notin {"send", "hook0"} => disp.batch = <<>>
  /\ \A y \in Types : /\ Distinct(Lane(y))
                      /\ \A t \in ToSet(Lane(y)) : Due(t) /\ TypeOf[t] = y
  /\ cut.pc = "hook2" =>
       \A t \in Tasks : Head(cut.work) = t => Due(t) /\ ~InLane(t)

----------------------------------------------------------------------------
(* A task is claimed once: with Early Dispatch by its next_block, without  *)
(* it by leaving the line.  From then until its completion is recorded it  *)
(* is on one slot, or in completed_queue.                                  *)
Claimed(t) ==
  IF ED_ENABLE THEN Committed(t) /\ ed[t].next_block # 0 ELSE Due(t) /\ ~InLane(t)
Occupies(u, t) == exe[u].state # "EMPTY" /\ exe[u].task = t
Holds(u, t) ==
  \/ Occupies(u, t)
  \/ exe[u].task = t /\ (u \in msg_bitmap \/ (exec.pc = "signal" /\ exec.unit = u))
HeldOnce ==
  \A t \in Tasks : \A u \in Units : Holds(u, t) =>
    Claimed(t) /\ \A v \in Units : Holds(v, t) => v = u
RunOnce ==
  \A t \in Tasks : /\ runs[t] <= 1 /\ (Ran(t) => Claimed(t))
                   /\ \A u \in Units : Occupies(u, t) => ~Ran(t)
ToldOnce ==
  /\ Distinct(completed_queue)
  /\ \A t \in ToSet(completed_queue) : ~Completed(t)
  /\ \A t \in Tasks : \A u \in Units : Holds(u, t) =>
       t \notin ToSet(completed_queue) /\ ~Completed(t)
ClaimInv == HeldOnce /\ RunOnce /\ ToldOnce

----------------------------------------------------------------------------
(* A task runs when it is due, and a gate's doorbell rings when the task   *)
(* behind it is.                                                           *)
DueInv ==
  /\ \A u \in Units : exe[u].doorbell = 1 => exe[u].state = "GATED"
  /\ \A t \in Tasks :
       /\ \A u \in Units :
            exe[u].task = t /\ (exe[u].state = "RUNNABLE" \/ exe[u].doorbell = 1) => Due(t)
       /\ ED_ENABLE /\ Committed(t) /\ ed[t].spec = "DISPATCHED" => Due(t)

(* Staging publishes the gated slot, then its core, then its record; the   *)
(* one that sets claimed rings the doorbell of the recorded slot.          *)
Staging == disp.pc \in {"mask", "record"}
Recorded(t) ==
  LET m == ed[t] IN
  /\ m.next_block = 0 => m.staged = INVALID
  /\ IF m.staged = INVALID THEN m.claimed = 0 ELSE m.staged.tag = t
  /\ m.staged # INVALID /\ m.claimed = 0 =>
       exe[m.staged.unit].state = "GATED" /\ exe[m.staged.unit].task = t
Gated(u, t) ==
  LET m == ed[t] IN
  /\ ED_ENABLE /\ m.spec \in {"STAGING", "DISPATCHED"}
  /\ m.staged = INVALID => Staging /\ disp.unit = u
  /\ exe[u].doorbell = m.claimed
  /\ m.spec = "DISPATCHED" => exe[u].doorbell = 1 \/ NotifierOwed(t)
StageInv ==
  /\ disp.pc \in {"ed", "try", "mask", "record", "check"} => ED_ENABLE
  /\ \A t \in Tasks :
       /\ ED_ENABLE /\ Committed(t) => Recorded(t)
       /\ \A u \in Units : exe[u].state = "GATED" /\ exe[u].task = t => Gated(u, t)
       /\ Staging /\ exe[disp.unit].task = t =>
            exe[disp.unit].state = "GATED" /\ ed[t].staged = INVALID
       /\ disp.pc = "check" /\ exe[disp.unit].task = t =>
            Committed(t) /\ ed[t].staged = Record(t, disp.unit)

DagInv ==
  /\ CreationInv /\ EntryInv /\ EdgeInv /\ RoundInv /\ CountInv /\ ReasonInv
  /\ LaneInv /\ ClaimInv /\ DueInv /\ StageInv

----------------------------------------------------------------------------
(* Early Dispatch credits a task with each of its predecessors that holds  *)
(* a slot.  The credit comes from Hook 0 if the edge was there when it     *)
(* took the successor list, from the cutter if it was not.                 *)
Dispatched(p) == ed[p].dispatch_tag = p
Started(t)    == Running(t) \/ Ran(t)

(* The snapshot of a task: its predecessors, those left out that had run;  *)
(* and which of its edges are in a successor list by now.                  *)
SnapExact(s) ==
  /\ DOMAIN ed[s].snap \subseteq DOMAIN Preds[s]
  /\ \A k \in DOMAIN Preds[s] :
       IF k \in DOMAIN ed[s].snap THEN ed[s].snap[k] = Preds[s][k]
       ELSE Ran(Preds[s][k])
  /\ ed[s].target = Cardinality(DOMAIN ed[s].snap)
  /\ Committing(s) => DOMAIN cut.surv \subseteq DOMAIN ed[s].snap
Left(s)        == IF Committing(s) THEN ToAppend ELSE {}
Placed(s)      == DOMAIN ed[s].snap \ Left(s)
PlacedOf(s, p) == {k \in Placed(s) : Preds[s][k] = p}
EdgesExact(s) ==
  \A p \in Tasks : Occurrences(s, g_successor_buf[p]) = Cardinality(PlacedOf(s, p))

(* The credits written, those two threads have still to write and the one  *)
(* the cutter owes are one for each of them whose task is dispatched.      *)
Credited(s) == {k \in Placed(s) : Dispatched(Preds[s][k])}
Late(s)     == IF Committing(s) /\ cut.pc = "late" THEN 1 ELSE 0
CreditsExact(s) ==
  ed[s].fanin + Occurrences(s, disp.todo) + Occurrences(s, exec.todo) + Late(s)
    = Cardinality(Credited(s))

(* So a task is in staging only when all its predecessors are dispatched.  *)
StagedInTime(s) ==
  ed[s].spec = "STAGING" =>
    \A k \in DOMAIN Preds[s] : Dispatched(Preds[s][k]) \/ Ran(Preds[s][k])
TaskCredits(s) ==
  SnapExact(s) /\ EdgesExact(s) /\ CreditsExact(s) /\ StagedInTime(s)
CreditInv == \A s \in Tasks : Committed(s) => TaskCredits(s)
TodoInv ==
  /\ disp.hook = INVALID => disp.todo = <<>>
  /\ exec.hook = INVALID => exec.todo = <<>>
  /\ \A t \in ToSet(disp.todo) \cup ToSet(exec.todo) : Committed(t)

(* Hook 0 runs once for a task, after it got its runnable slot: by the     *)
(* dispatcher for a task that was never staged, by the executor for the    *)
(* one whose gate it opened.                                               *)
Hook0Due(t) == Claimed(t) /\ ~Dispatched(t)
DispatcherHooks(t) ==
  disp.pc = "hook0" /\ disp.hook = INVALID /\ Head(disp.batch) = t
ExecutorHooks(t) ==
  exec.pc = "hook0" /\ exec.hook = INVALID /\ exe[exec.unit].task = t
GateOf(u, t) == exe[u].state = "GATED" /\ exe[u].task = t
HookInv ==
  \A t \in Tasks :
    /\ Dispatched(t) => Claimed(t) /\ Started(t)
    /\ \A u \in Units : GateOf(u, t) => ~Dispatched(t)
    /\ DispatcherHooks(t) => Hook0Due(t) /\ Started(t) /\ ed[t].staged = INVALID
    /\ ExecutorHooks(t) => Hook0Due(t) /\ ed[t].staged # INVALID

FaninInv == ED_ENABLE => CreditInv /\ TodoInv /\ HookInv

----------------------------------------------------------------------------
(* What main finds when all threads have returned.  The dispatcher counts  *)
(* every completion it reports, and leaves when it has counted them all.   *)
CountedInv ==
  /\ g_completed_cnt =
       Len(completed_queue) + Cardinality({t \in Tasks : Completed(t)})
  /\ g_orch_is_done => g_task_id = N
  /\ disp.pc = "done" => g_completed_cnt >= N

(* A task that ran was due, was claimed whole, and told its successors.    *)
AtRest(t) == ed[t].spec = "DISPATCHED" \/ (ed[t].spec = "NONE" /\ ed[t].target = 0)
Settled(t) ==
  /\ Ran(t) => Due(t)
  /\ ED_ENABLE => /\ Committed(t) => ed[t].next_block \in {0, Count[t]}
                  /\ Due(t) => AtRest(t)
                  /\ Started(t) =>
                       Dispatched(t) \/ DispatcherHooks(t) \/ ExecutorHooks(t)

(* The counters main compares: stagings, doorbells rung, gates opened.     *)
Staged(t) == ed[t].staged # INVALID
Rung(t)   == ed[t].claimed = 1
Open(t)   == Rung(t) /\ ~\E u \in Units : GateOf(u, t)
StatsInv ==
  /\ stats.stage = Cardinality({t \in Tasks : Staged(t)})
  /\ stats.bell = Cardinality({t \in Tasks : Rung(t)})
  /\ stats.open = Cardinality({t \in Tasks : Open(t)})
  /\ \A t \in Tasks : Staged(t) \/ Rung(t) => ED_ENABLE /\ Committed(t)

EndInv == CountedInv /\ (\A t \in Tasks : Settled(t)) /\ StatsInv

(* The inductive invariant of the proxy: the hand-over of slots, the gate, *)
(* the watermark, and, where no entry is used twice, the whole way of a    *)
(* task from new_task to its completion and what main then finds.          *)
Inductive ==
  /\ SlotInv /\ GateInv /\ WatermarkInv
  /\ NoReuse => DagInv /\ UnfinInv /\ FaninInv /\ EndInv
=============================================================================
