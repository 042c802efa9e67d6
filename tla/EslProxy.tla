------------------------------ MODULE EslProxy -------------------------------
(***************************************************************************)
(* The algorithm proxy: orchestration, cutter, dispatcher and executor     *)
(* threads over their shared memory, and the properties of the whole.      *)
(***************************************************************************)
EXTENDS Orchestrator, Cutter, Dispatcher, Executor

Init == StateInit

(* Every thread has returned and main reports its self-check.              *)
Terminated == orch = "done" /\ cut.pc = "done" /\ disp.pc = "done" /\ exec.pc = "done"

Next ==
  \/ OrchestratorNext
  \/ CutterNext
  \/ DispatcherNext
  \/ ExecutorNext
  \/ Terminated /\ UNCHANGED vars

Spec == Init /\ [][Next]_vars

(* Each thread keeps running.  The executor's loop comes back to every     *)
(* core, to the mask and to every pending core, whatever the others do, so *)
(* it does not put off for ever a step that is offered again and again.    *)
Fairness ==
  /\ WF_vars(OrchestratorNext)
  /\ WF_vars(CutterNext)
  /\ WF_vars(DispatcherNext)
  /\ WF_vars(ExecutorNext)
  /\ SF_vars(\E u \in Units : start(u) \/ complete_slot(u))
  /\ SF_vars(executor_exit)
  /\ ED_ENABLE => /\ SF_vars(\E y \in Types : drain_mask(y))
                  /\ \A c \in Types \X Cores : SF_vars(poll_core(c))

FairSpec == Spec /\ Fairness

----------------------------------------------------------------------------
(* Vocabulary of the properties.                                           *)
InState(s) == {u \in Units : exe[u].state = s}
SlotsOf(t, s) == {u \in InState(s) : exe[u].task = t}
Running(t) == SlotsOf(t, "RUNNABLE") # {}
Ran(t) == runs[t] > 0
PredSet == [t \in Tasks |-> ToSet(Preds[t])]
Occurrences(x, seq) == Cardinality({k \in DOMAIN seq : seq[k] = x})

(* The task being committed: its edges still to append are in cut.surv.    *)
Committing(s) == cut.pc \in {"edge", "late"} /\ s = g_commit_task_id
ToAppend == DOMAIN (IF cut.pc = "late" THEN LaterEdges ELSE cut.surv)
EdgesLeft(s) == IF Committing(s) THEN Cardinality(ToAppend) ELSE 0
InRing(s) == g_state_buf[Idx(s)].task_id = s /\ g_state_buf[Idx(s)].state # "CREATING"
CommittedTasks == {s \in Tasks : InRing(s) /\ (s < g_commit_task_id \/ Committing(s))}

----------------------------------------------------------------------------
(* The values each thread may find in the memory it shares with the others *)
(* and in its own registers.  With them go the bounds that keep a thread's *)
(* next access inside its arrays: a successor count never exceeds the list *)
(* it counts (resolve_dep reads that many), the commit window never passes *)
(* the published tasks, and a thread that is about to use a unit, a batch  *)
(* or a list of edges has one.                                             *)
Positions == UNION {DOMAIN Preds[t] : t \in Tasks}
PredLists == UNION {[D -> Tasks] : D \in SUBSET Positions}
CoreIds == Types \X Cores
MaybeTask == Tasks \cup {INVALID}
MaybeUnit == Units \cup {INVALID}
MetaRecords == [tag : Tasks, unit : Units] \cup {INVALID}

TaskState == [task_id : Tasks, state : {"CREATING", "SUBMITTED", "COMPLETED"},
              successor_cnt : Nat]
Slot == [state : {"EMPTY", "GATED", "RUNNABLE"}, task : Tasks, doorbell : 0 .. 1]
EdMeta ==
  [ring_task_tag : MaybeTask, dispatch_tag : MaybeTask, fanin : Nat, target : Nat,
   unfin : Nat, spec : {"NONE", "STAGING", "DISPATCHED"}, next_block : Nat,
   staged : MetaRecords, claimed : 0 .. 1, dispatch : MetaRecords, snap : PredLists]

OrchTypes ==
  /\ g_task_id \in 0 .. N
  /\ orch \in {"new", "preds", "publish", "done"}
  /\ orch \in {"preds", "publish"} => g_task_id < N
  /\ g_orch_is_done \in BOOLEAN
  /\ g_basic_buf \in [Rings -> MaybeTask]
  /\ g_predecessors \in [Rings -> PredLists]
GraphTypes ==
  /\ g_min_uncomplete_task \in 0 .. g_task_id /\ g_commit_task_id \in 0 .. g_task_id
  /\ g_state_buf \in [Rings -> TaskState]
  /\ g_successor_buf \in [Rings -> Seq(Tasks)]
  /\ \A i \in Rings : g_state_buf[i].successor_cnt <= Len(g_successor_buf[i])
  /\ g_predecessor_cnt \in [Rings -> Nat]
EdTypes ==
  /\ ed \in [Rings -> EdMeta]
  /\ g_ed_ready_queue \in Seq(Tasks)
  /\ g_ed_gated_core_mask \subseteq CoreIds
  /\ stats \in [stage : Nat, bell : Nat, open : Nat]
SlotTypes ==
  /\ exe \in [Units -> Slot]
  /\ free_bitmap \subseteq Units /\ msg_bitmap \subseteq Units
  /\ task_id_map \in [Units -> Tasks]
QueueTypes ==
  /\ ready_queue \in [Types -> Seq(Tasks)] /\ completed_queue \in Seq(Tasks)
  /\ g_completed_cnt \in Nat /\ g_is_done \in BOOLEAN
  /\ runs \in [Tasks -> Nat]
CutRegs ==
  [pc : {"take", "enter", "commit", "edge", "late", "load", "resolve", "hook2",
         "send", "done"},
   batch : Seq(Tasks), end : 0 .. N, surv : PredLists, work : Seq(Tasks),
   ready : [Types -> Seq(Tasks)], tail : [Types -> Nat]]
CutTypes ==
  /\ cut \in CutRegs
  /\ cut.end <= g_task_id
  /\ cut.pc \in {"commit", "edge", "late"} => g_commit_task_id < cut.end
  /\ cut.pc \in {"edge", "late"} => DOMAIN cut.surv # {}
  /\ cut.pc = "load" => cut.batch # <<>>
  /\ cut.pc \in {"resolve", "hook2"} => cut.work # <<>>
  /\ cut.pc = "send" => \E y \in Types : cut.ready[y] # <<>>
DispRegs ==
  [pc : {"round", "dequeue", "send", "hook0", "ed", "try", "mask", "record",
         "check", "done"},
   pass : DOMAIN PassType, batch : Seq(Tasks), avail : SUBSET Cores,
   hook : MaybeTask, todo : Seq(Tasks), unit : MaybeUnit, tries : Nat, flush : Nat]
DispTypes ==
  /\ disp \in DispRegs
  /\ disp.pc \in {"send", "hook0"} => disp.batch # <<>>
  /\ disp.hook # INVALID => disp.pc = "hook0" /\ disp.todo # <<>>
  /\ disp.pc \in {"mask", "record", "check"} => disp.unit \in Units
ExecRegs ==
  [pc : {"scan", "signal", "poll", "hook0", "done"}, unit : MaybeUnit,
   still : BOOLEAN, pending : SUBSET CoreIds, hook : MaybeTask,
   todo : Seq(Tasks), active : [CoreIds -> 0 .. AIC_OSTD]]
ExecTypes ==
  /\ exec \in ExecRegs
  /\ exec.pc \in {"signal", "poll", "hook0"} => exec.unit \in Units
  /\ exec.hook # INVALID => exec.pc = "hook0" /\ exec.todo # <<>>

TypeOK ==
  /\ OrchTypes /\ GraphTypes /\ EdTypes /\ SlotTypes /\ QueueTypes
  /\ CutTypes /\ DispTypes /\ ExecTypes

(* A slot is in one hand at a time: the dispatcher may fill it only while  *)
(* it is empty with no completion outstanding, and a completion bit is set *)
(* only on an empty slot whose task is the one task_id_map remembers.      *)
(* Asserted piecewise at dispatch.c:110, dispatch.c:269, early_dispatch.c. *)
SlotHandoff ==
  /\ \A u \in free_bitmap : exe[u].state = "EMPTY" /\ u \notin msg_bitmap
  /\ \A u \in msg_bitmap : exe[u].state = "EMPTY"
  /\ \A u \in Units : exe[u].state # "EMPTY" \/ u \in msg_bitmap =>
                        task_id_map[u] = exe[u].task

(* What keeps it so: the slot whose bit the executor is about to set is in *)
(* nobody else's hands, and the dispatcher has a core with a free slot for *)
(* every task of the batch it has still to send.                           *)
SignalOwed ==
  exec.pc = "signal" =>
    /\ exe[exec.unit].state = "EMPTY"
    /\ exec.unit \notin free_bitmap \cup msg_bitmap
    /\ task_id_map[exec.unit] = exe[exec.unit].task
ToSend == IF disp.pc = "hook0" THEN Len(disp.batch) - 1 ELSE Len(disp.batch)
BatchHasCores ==
  disp.pc \in {"send", "hook0"} =>
    disp.avail \subseteq AvailAny(Type) /\ ToSend <= Cardinality(disp.avail)
SlotInv == SlotHandoff /\ SignalOwed /\ BatchHasCores

(* What every queue towards the executor may hold: a task reaches a ready  *)
(* queue when all it depends on has run, and is there at most once; a slot *)
(* never holds a task a second slot holds or that already ran.             *)
ReadyCopies(t) ==
  Occurrences(t, ready_queue[0]) + Occurrences(t, ready_queue[1])
  + Occurrences(t, cut.ready[0]) + Occurrences(t, cut.ready[1])
ReadyIsReady ==
  \A t \in Tasks :
    /\ ReadyCopies(t) <= 1
    /\ ReadyCopies(t) = 1 => \A p \in PredSet[t] : Ran(p)
OneSlotPerTask ==
  \A t \in Tasks :
    Cardinality(SlotsOf(t, "GATED") \cup SlotsOf(t, "RUNNABLE"))
      + runs[t] <= 1

(* The watermark that lets new_task reuse ring entries covers only tasks   *)
(* that ran, and a task's entry stays its own until then.  (That a task    *)
(* runs only once is not the watermark's affair: see OneSlotPerTask.)      *)
WatermarkSafe ==
  \A t \in Tasks :
    /\ t < g_min_uncomplete_task => Ran(t)
    /\ t < g_task_id /\ ~Ran(t) => g_basic_buf[Idx(t)] = t

(* resolve_dep counts down exactly: the counter of a committed task is the *)
(* number of its edges that are not resolved yet, those still to append    *)
(* included, so it never wraps and reaches zero once.  With Early Dispatch *)
(* unfin_pred_cnt, whose zero rings the doorbell, counts the same.         *)
Unresolved(p) ==
  InRing(p) /\ (g_state_buf[Idx(p)].state # "COMPLETED" \/ p \in ToSet(cut.batch))
WorkLeft == IF cut.pc = "hook2" THEN Tail(cut.work) ELSE cut.work
OpenEdges(s) ==
  UNION {{p} \X {k \in DOMAIN g_successor_buf[Idx(p)] : g_successor_buf[Idx(p)][k] = s} :
           p \in {q \in Tasks : Unresolved(q)}}
PredecessorCntExact ==
  \A s \in CommittedTasks :
    /\ g_predecessor_cnt[Idx(s)] =
         Cardinality(OpenEdges(s)) + Occurrences(s, WorkLeft) + EdgesLeft(s)
    /\ ED_ENABLE => ed[Idx(s)].unfin = g_predecessor_cnt[Idx(s)]

(* Dispatch credits are neither lost nor counted twice, whichever of Hook  *)
(* 0 and the append of the edge comes first: fanin, with the credits a     *)
(* thread has taken on but not written yet, is the number of appended      *)
(* edges whose predecessor has been dispatched.                            *)
FaninExact ==
  ED_ENABLE => \A s \in CommittedTasks :
    LET m == ed[Idx(s)] IN
    m.fanin + Occurrences(s, disp.todo) + Occurrences(s, exec.todo)
      + (IF Committing(s) /\ cut.pc = "late" THEN 1 ELSE 0)
    = Cardinality({k \in DOMAIN m.snap :
                     /\ Committing(s) => k \notin ToAppend
                     /\ ed[Idx(m.snap[k])].dispatch_tag = m.snap[k]})

(* A doorbell rings only at a gated slot, and only when every predecessor  *)
(* of the task behind the gate has run: no gate opens early.               *)
DoorbellMeansReady ==
  \A u \in Units : exe[u].doorbell = 1 =>
    exe[u].state = "GATED" /\ \A p \in PredSet[exe[u].task] : Ran(p)

(* A gated slot waits only for tasks that hold a runnable slot or have     *)
(* run, so gated tasks cannot block each other out of the slots.           *)
GatedWaitsForDispatched ==
  \A u \in InState("GATED") : \A p \in PredSet[exe[u].task] : Running(p) \/ Ran(p)

(* No gated slot is forgotten (ed_gate.h, the Dekker argument): its core   *)
(* is in the mask, in the executor's pending set, or about to be put in    *)
(* the mask by the dispatcher.                                             *)
GatedIsWatched ==
  \A u \in InState("GATED") :
    \/ CoreOf(u) \in g_ed_gated_core_mask \cup exec.pending
    \/ disp.pc = "mask" /\ disp.unit = u

(* A staged task whose predecessors are all resolved is released, or one   *)
(* of the two notifiers is still on its way to its doorbell.               *)
NotifierOwed(t) ==
  \/ cut.pc = "hook2" /\ Head(cut.work) = t
  \/ disp.pc \in {"mask", "record", "check"} /\ exe[disp.unit].task = t
ReleasedOrOwed ==
  \A u \in InState("GATED") :
    LET t == exe[u].task IN
    ed[Idx(t)].spec = "DISPATCHED" => exe[u].doorbell = 1 \/ NotifierOwed(t)

(* What main prints after the joins: every task ran once, no slot is left  *)
(* occupied, no entry is left STAGING or unclaimed, every staged task was  *)
(* notified once and every notice opened one gate, and fanin met target.   *)
SelfCheck ==
  Terminated =>
    /\ \A t \in Tasks : runs[t] = 1
    /\ InState("EMPTY") = Units
    /\ stats.stage = stats.bell /\ stats.bell = stats.open
    /\ ED_ENABLE => \A t \in Tasks : ed[Idx(t)].ring_task_tag = t =>
         /\ ed[Idx(t)].spec # "STAGING"
         /\ ed[Idx(t)].next_block = Count[t]
         /\ ed[Idx(t)].fanin = ed[Idx(t)].target

(* The proxy does what DagExec promises: a task runs after all its         *)
(* predecessors, and once.  A task runs while it holds a runnable slot.    *)
DagStatus ==
  [t \in Tasks |-> IF Running(t) THEN "running" ELSE IF Ran(t) THEN "done"
                   ELSE IF t < g_task_id THEN "waiting" ELSE "absent"]
Dag == INSTANCE DagExec WITH Task <- Tasks, status <- DagStatus

ImplementsDag == Dag!DagSpec

(* A committed task whose predecessors have all run is identified as ready *)
(* (specs/006-cutter/spec.md, user story 3, scenario 2).                   *)
IdentifiedReady ==
  \A t \in Tasks :
    (t < g_commit_task_id /\ \A p \in PredSet[t] : Ran(p))
      ~> (ReadyCopies(t) > 0 \/ Running(t) \/ Ran(t))

(* Every task runs and every thread returns.                               *)
EventuallyDone == <>Terminated
=============================================================================
