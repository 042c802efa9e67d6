------------------------------- MODULE Cutter --------------------------------
(***************************************************************************)
(* The cutter thread.  One round takes the completed tasks, advances the   *)
(* completion watermark, commits newly published tasks and their edges,    *)
(* resolves the completed tasks' successors and sends what became ready.   *)
(*                                                                         *)
(* Registers: `batch' the completed tasks of this round whose successors   *)
(* are not resolved, `work' the successors left of the one being resolved; *)
(* `end' the commit window; `surv' the survivors, by their position in the *)
(* predecessor list of the task being committed, whose edges are not       *)
(* appended yet; `ready' the rq_buf of each type; `tail' that of each      *)
(* ready queue, which no other thread writes.                              *)
(***************************************************************************)
EXTENDS EarlyDispatch

cutFrame == <<orchVars, ctrlVars, msg_bitmap, completed_queue,
              g_completed_cnt, g_is_done, g_ed_gated_core_mask, runs, orch,
              disp, exec>>

Dec(n, max) == IF n = 0 THEN max ELSE n - 1   \* unsigned n - 1
UINT16_MAX == 65535
UINT32_MAX == 2147483647   \* any value no counter reaches (TLC has 31 bits)

(* update_task_state: tasks still owning their entry become COMPLETED ...  *)
MarkCompleted(done) ==
  [i \in Rings |->
     IF \E k \in DOMAIN done : Idx(done[k]) = i /\ g_state_buf[i].task_id = done[k]
     THEN [g_state_buf[i] EXCEPT !.state = "COMPLETED"] ELSE g_state_buf[i]]

(* ... and the watermark moves over the completed prefix.                  *)
CompletedIn(sb, t) == sb[Idx(t)].task_id = t /\ sb[Idx(t)].state = "COMPLETED"
Watermark(sb) ==
  CHOOSE m \in g_min_uncomplete_task .. g_task_id :
    /\ \A t \in g_min_uncomplete_task .. m - 1 : CompletedIn(sb, t)
    /\ m = g_task_id \/ ~CompletedIn(sb, m)

take_completed ==
  LET n == IF Len(completed_queue) <= CQ_BATCH_SIZE THEN Len(completed_queue)
                                                    ELSE CQ_BATCH_SIZE
      done == SubSeq(completed_queue, 1, n)
      sb == MarkCompleted(done)
  IN /\ cut.pc = "take"
     /\ ~(g_is_done /\ g_commit_task_id >= g_task_id)
     /\ completed_queue' = SubSeq(completed_queue, n + 1, Len(completed_queue))
     /\ g_state_buf' = sb
     /\ g_min_uncomplete_task' = IF n > 0 THEN Watermark(sb) ELSE g_min_uncomplete_task
     /\ cut' = [cut EXCEPT !.pc = "enter", !.batch = done]
     /\ UNCHANGED <<orchVars, g_predecessors, g_commit_task_id, g_successor_buf,
                    g_predecessor_cnt, ed, g_ed_ready_queue, exe, ctrlVars,
                    g_ed_gated_core_mask, msg_bitmap, ready_queue,
                    g_completed_cnt, g_is_done, stats, runs, orch, disp, exec>>

cutter_exit ==
  /\ cut.pc = "take" /\ g_is_done /\ g_commit_task_id >= g_task_id
  /\ cut' = [cut EXCEPT !.pc = "done"]
  /\ UNCHANGED <<cutFrame, g_predecessors, g_min_uncomplete_task, graphVars,
                 ed, g_ed_ready_queue, exe, ready_queue, stats>>

----------------------------------------------------------------------------
(* After the commits the round resolves its batch, then sends.             *)
PcOfRest(batch, work, ready) ==
  IF work # <<>> THEN "resolve"
  ELSE IF batch # <<>> THEN "load"
  ELSE IF \E y \in Types : ready[y] # <<>> THEN "send" ELSE "take"

(* The commit loop goes on to the next task, or the round resolves.        *)
CommitLoop(next, end, ready) ==
  cut' = [cut EXCEPT !.surv = <<>>, !.ready = ready,
            !.end = IF next < end THEN end ELSE 0,
            !.pc = IF next < end THEN "commit" ELSE PcOfRest(cut.batch, <<>>, ready)]

(* add_successors reads g_task_id once, for the window of this round.      *)
CommitWindowInclusive ==   \* mutant: also commits the task still being built
  IF g_commit_task_id + PRE_BATCH_SIZE > g_task_id
  THEN g_task_id + (IF g_task_id < N THEN 1 ELSE 0)
  ELSE g_commit_task_id + PRE_BATCH_SIZE
CommitWindow ==
  IF g_commit_task_id + PRE_BATCH_SIZE > g_task_id THEN g_task_id
  ELSE g_commit_task_id + PRE_BATCH_SIZE

add_successors_enter ==
  /\ cut.pc = "enter"
  /\ CommitLoop(g_commit_task_id, CommitWindow, cut.ready)
  /\ UNCHANGED <<cutFrame, g_predecessors, g_min_uncomplete_task, graphVars,
                 ed, g_ed_ready_queue, exe, ready_queue, stats>>

(* First pass: a predecessor is left out when its entry belongs to another *)
(* task, or it has completed; past CON_NODE_CNT it is dropped.             *)
SurvivesCompleted(p) ==   \* mutant: completed predecessors are kept
  g_state_buf[Idx(p)].task_id \in {p, 0} \/ TagIs(p)
Survives(p) ==
  LET st == g_state_buf[Idx(p)] IN
  /\ st.task_id = p \/ st.task_id = 0 \/ TagIs(p)
  /\ st.state # "COMPLETED"

Survivors(s) ==
  LET ptr == g_predecessors[Idx(s)]
      all == {k \in DOMAIN ptr : Survives(ptr[k])}
  IN Restrict(ptr, {k \in all : Cardinality({j \in all : j < k}) < CON_NODE_CNT})

(* ed_init_task_meta, and the predecessor snapshot ED selects cores from.  *)
FreshMeta(s, surv) ==
  [NoEdMeta EXCEPT !.ring_task_tag = s,
                   !.target = Cardinality(DOMAIN surv),
                   !.unfin = Cardinality(DOMAIN surv), !.snap = surv]

PushReady(ready, s) == [ready EXCEPT ![BasicType(Idx(s))] = Append(@, s)]

commit ==
  LET s == g_commit_task_id
      i == Idx(s)
      surv == Survivors(s)
  IN /\ cut.pc = "commit"
     /\ EdgeLockFree(i)
     /\ ed' = IF ED_ENABLE THEN [ed EXCEPT ![i] = FreshMeta(s, surv)] ELSE ed
     /\ g_successor_buf' = IF ED_ENABLE THEN [g_successor_buf EXCEPT ![i] = <<>>]
                                        ELSE g_successor_buf
     /\ g_state_buf' = [g_state_buf EXCEPT ![i] =
          [task_id |-> s, state |-> "SUBMITTED", successor_cnt |-> 0]]
     /\ g_predecessor_cnt' = [g_predecessor_cnt EXCEPT ![i] = Cardinality(DOMAIN surv)]
     /\ IF DOMAIN surv = {}
        THEN /\ g_predecessors' = [g_predecessors EXCEPT ![i] = <<>>]
             /\ g_commit_task_id' = s + 1
             /\ CommitLoop(s + 1, cut.end, PushReady(cut.ready, s))
        ELSE /\ cut' = [cut EXCEPT !.pc = "edge", !.surv = surv]
             /\ UNCHANGED <<g_predecessors, g_commit_task_id>>
     /\ UNCHANGED <<cutFrame, g_min_uncomplete_task, g_ed_ready_queue, exe,
                    ready_queue, stats>>

(* Second pass, one edge at a time.  The last one ends the commit.         *)
NextEdge == LowestOf(DOMAIN cut.surv)
LaterEdges == Restrict(cut.surv, DOMAIN cut.surv \ {NextEdge})

EdgeDone ==
  LET s == g_commit_task_id IN
  IF DOMAIN LaterEdges # {}
  THEN /\ cut' = [cut EXCEPT !.pc = "edge", !.surv = LaterEdges]
       /\ UNCHANGED <<g_predecessors, g_commit_task_id>>
  ELSE /\ g_predecessors' = [g_predecessors EXCEPT ![Idx(s)] = <<>>]
       /\ g_commit_task_id' = s + 1
       /\ CommitLoop(s + 1, cut.end, cut.ready)

(* Has Hook 0 of p already run in this generation?  Then it did not see    *)
(* this edge, and the cutter owes s the credit (late arrival).             *)
NeverLate(p) == FALSE   \* mutant
IsLate(p) == ED_ENABLE /\ ed[Idx(p)].dispatch_tag = p

edge ==
  LET s == g_commit_task_id
      p == cut.surv[NextEdge]
      i == Idx(p)
  IN /\ cut.pc = "edge"
     /\ EdgeLockFree(i)
     /\ IF ED_ENABLE /\ ~TagIs(p)
        THEN /\ IF ed[Idx(s)].unfin > 0
                THEN AddFanin(s, [ed[Idx(s)] EXCEPT !.unfin = @ - 1])
                ELSE /\ ed' = [ed EXCEPT ![Idx(s)].unfin = UINT16_MAX]
                     /\ UNCHANGED g_ed_ready_queue
             /\ UNCHANGED <<g_successor_buf, g_state_buf>>
             /\ EdgeDone
        ELSE /\ g_successor_buf' = [g_successor_buf EXCEPT ![i] = Append(@, s)]
             /\ g_state_buf' = [g_state_buf EXCEPT ![i].successor_cnt = @ + 1]
             /\ IF IsLate(p)
                THEN /\ cut' = [cut EXCEPT !.pc = "late"]
                     /\ UNCHANGED <<g_predecessors, g_commit_task_id>>
                ELSE EdgeDone
             /\ UNCHANGED <<ed, g_ed_ready_queue>>
     /\ UNCHANGED <<cutFrame, g_min_uncomplete_task, g_predecessor_cnt, exe,
                    ready_queue, stats>>

late_arrival ==
  /\ cut.pc = "late"
  /\ AddFanin(g_commit_task_id, ed[Idx(g_commit_task_id)])
  /\ EdgeDone
  /\ UNCHANGED <<cutFrame, g_min_uncomplete_task, g_state_buf, g_successor_buf,
                 g_predecessor_cnt, exe, ready_queue, stats>>

----------------------------------------------------------------------------
(* resolve_dep walks, of every completed task, the first successor_cnt     *)
(* entries of its successor list ...                                       *)
SuccessorsOf(p) ==
  SubSeq(g_successor_buf[Idx(p)], 1, g_state_buf[Idx(p)].successor_cnt)

resolve_dep_load ==
  LET work == SuccessorsOf(Head(cut.batch)) IN
  /\ cut.pc = "load"
  /\ cut' = [cut EXCEPT !.batch = Tail(@), !.work = work,
                        !.pc = PcOfRest(Tail(cut.batch), work, cut.ready)]
  /\ UNCHANGED <<cutFrame, g_predecessors, g_min_uncomplete_task, graphVars,
                 ed, g_ed_ready_queue, exe, ready_queue, stats>>

(* ... and counts each of them down.                                       *)
BecomesReadyEarly(n) == n <= 1   \* mutant
BecomesReady(n) == n = 0

(* s is put in its rq_buf and the walk goes on.                            *)
Resolved(ready) ==
  cut' = [cut EXCEPT !.work = Tail(@), !.ready = ready,
                     !.pc = PcOfRest(cut.batch, Tail(cut.work), ready)]

resolve_dep ==
  LET s == Head(cut.work)
      i == Idx(s)
      n == Dec(g_predecessor_cnt[i], UINT32_MAX)
  IN /\ cut.pc = "resolve"
     /\ g_predecessor_cnt' = [g_predecessor_cnt EXCEPT ![i] = n]
     /\ ed' = IF ED_ENABLE
              THEN [ed EXCEPT ![i].unfin = Dec(@, UINT16_MAX),
                              ![i].spec = IF BecomesReady(n) THEN "DISPATCHED" ELSE @]
              ELSE ed
     /\ IF BecomesReady(n)
        THEN IF ED_ENABLE /\ ed[i].spec = "STAGING"
             THEN cut' = [cut EXCEPT !.pc = "hook2"]
             ELSE Resolved(PushReady(cut.ready, s))
        ELSE Resolved(cut.ready)
     /\ UNCHANGED <<cutFrame, g_predecessors, g_min_uncomplete_task,
                    g_commit_task_id, g_state_buf, g_successor_buf,
                    g_ed_ready_queue, exe, ready_queue, stats>>

(* Hook 2: s was STAGING when its last predecessor was resolved.  If its   *)
(* slot is recorded, ring its doorbell; if not, the dispatcher will.       *)
hook2 ==
  LET s == Head(cut.work)
      r == ed[Idx(s)].staged
  IN /\ cut.pc = "hook2"
     /\ IF r # INVALID /\ r.tag = s THEN ed_notify_once(s, r)
                                     ELSE UNCHANGED <<ed, exe, stats>>
     /\ Resolved(PushReady(cut.ready, s))
     /\ UNCHANGED <<cutFrame, g_predecessors, g_min_uncomplete_task, graphVars,
                    g_ed_ready_queue, ready_queue>>

(* send_2_ready_queue: a batch that does not fit is dropped whole.         *)
send_2_ready_queue ==
  /\ cut.pc = "send"
  /\ LET y == CHOOSE z \in Types : cut.ready[z] # <<>> /\
                \A x \in Types : x < z => cut.ready[x] = <<>>
         rest == [cut.ready EXCEPT ![y] = <<>>]
         n == Len(cut.ready[y])
         fits == HasRoom(ready_queue[y], n)
     IN /\ fits => InsideArray(cut.tail[y] + n)
        /\ ready_queue' = IF fits THEN [ready_queue EXCEPT ![y] = @ \o cut.ready[y]]
                                  ELSE ready_queue
        /\ cut' = [cut EXCEPT !.ready = rest, !.pc = PcOfRest(<<>>, <<>>, rest),
                              !.tail[y] = IF fits THEN @ + n ELSE @]
  /\ UNCHANGED <<cutFrame, g_predecessors, g_min_uncomplete_task, graphVars,
                 ed, g_ed_ready_queue, exe, stats>>

CutterNext ==
  \/ take_completed \/ cutter_exit \/ add_successors_enter \/ commit \/ edge
  \/ late_arrival \/ resolve_dep_load \/ resolve_dep \/ hook2 \/ send_2_ready_queue
=============================================================================
