-------------------------- MODULE EslProxyFaninProofs --------------------------
(***************************************************************************)
(* The credits of Early Dispatch are exact, whichever of Hook 0 and the    *)
(* append of an edge comes first, so a task is staged behind a gate only   *)
(* when all it waits for holds a runnable slot or has run. At the end the  *)
(* counts main compares agree.                                             *)
(***************************************************************************)
EXTENDS EslProxyDagProofs

----------------------------------------------------------------------------
(* Predecessors, positions of edges, and what counts them.                 *)
LEMMA PredecessorFacts ==
  ASSUME NEW s \in Tasks
  PROVE  /\ \A k \in DOMAIN Preds[s] : Preds[s][k] \in Tasks
         /\ \A p \in PredSet[s] : p \in Tasks /\ \E k \in DOMAIN Preds[s] : Preds[s][k] = p
         /\ \A S : S \subseteq DOMAIN Preds[s] => IsFiniteSet(S) /\ Cardinality(S) \in Nat
<1>1. Preds[s] \in Seq(Tasks)
  BY GraphAssumption
<1>2. Len(Preds[s]) \in Nat /\ DOMAIN Preds[s] = 1 .. Len(Preds[s])
  BY <1>1, ListFacts
<1>3. ASSUME NEW S, S \subseteq DOMAIN Preds[s]
      PROVE  IsFiniteSet(S) /\ Cardinality(S) \in Nat
  <2>1. IsFiniteSet(S)
    BY <1>2, <1>3, PositionsOfList
  <2> QED BY <2>1, FS_CardinalityType
<1>4. \A k \in DOMAIN Preds[s] : Preds[s][k] \in Tasks
  BY <1>1, ListFacts
<1>5. \A p \in PredSet[s] : p \in Tasks /\ \E k \in DOMAIN Preds[s] : Preds[s][k] = p
  BY <1>1, ListFacts DEF PredSet
<1> QED BY <1>3, <1>4, <1>5

(* A part of a finite set that is as large as the set is all of it.        *)
LEMMA WholeSet ==
  ASSUME NEW S, IsFiniteSet(S), NEW C, C \subseteq S, NEW n \in Nat,
         n = Cardinality(S), n <= Cardinality(C)
  PROVE  C = S
<1>1. IsFiniteSet(C) /\ Cardinality(C) <= Cardinality(S)
  BY FS_Subset
<1>2. Cardinality(C) \in Nat
  BY <1>1, FS_CardinalityType
<1>3. Cardinality(C) = Cardinality(S)
  BY <1>1, <1>2
<1> QED BY <1>3, FS_Subset

(* What a step that writes no credit leaves alone of a task's metadata.    *)
CreditHeld(t) ==
  /\ ed'[t].snap = ed[t].snap /\ ed'[t].target = ed[t].target
  /\ ed'[t].fanin = ed[t].fanin /\ ed'[t].dispatch_tag = ed[t].dispatch_tag
  /\ ed'[t].spec = "STAGING" => ed[t].spec = "STAGING"
(* And one that appends no edge.                                           *)
CutHeld(t) ==
  /\ Left(t)' = Left(t) /\ Late(t)' = Late(t)
  /\ Committing(t)' => Committing(t) /\ DOMAIN cut'.surv \subseteq DOMAIN cut.surv

(* Both sides of the equation are numbers.                                 *)
LEMMA CreditTypes ==
  ASSUME NoReuse, TypeOK, NEW s \in Tasks, SnapExact(s)
  PROVE  /\ Placed(s) \subseteq DOMAIN ed[s].snap /\ Credited(s) \subseteq Placed(s)
         /\ \A S : S \subseteq DOMAIN ed[s].snap => IsFiniteSet(S) /\ Cardinality(S) \in Nat
         /\ ed[s] \in EdMeta /\ ed[s].fanin \in Nat /\ ed[s].target \in Nat
         /\ Occurrences(s, disp.todo) \in Nat /\ Occurrences(s, exec.todo) \in Nat
         /\ Late(s) \in Nat
<1>1. DOMAIN ed[s].snap \subseteq DOMAIN Preds[s]
  BY DEF SnapExact
<1>2. \A S : S \subseteq DOMAIN ed[s].snap => IsFiniteSet(S) /\ Cardinality(S) \in Nat
  BY <1>1, PredecessorFacts
<1>3. ed[s] \in EdMeta
  BY IdxSame DEF TypeOK, EdTypes
<1>4. ed[s].fanin \in Nat /\ ed[s].target \in Nat
  BY <1>3 DEF EdMeta
<1>5. disp.todo \in Seq(Tasks) /\ exec.todo \in Seq(Tasks)
  BY DEF TypeOK, DispTypes, DispRegs, ExecTypes, ExecRegs
<1>6. Occurrences(s, disp.todo) \in Nat /\ Occurrences(s, exec.todo) \in Nat
  BY <1>5, OccurrencesType
<1>7. Late(s) \in Nat
  BY DEF Late
<1>8. Placed(s) \subseteq DOMAIN ed[s].snap /\ Credited(s) \subseteq Placed(s)
  BY DEF Placed, Credited
<1> QED BY <1>2, <1>3, <1>4, <1>6, <1>7, <1>8

(* The snapshot of a committed task does not change, and its edges are     *)
(* placed where they were unless one is appended.                          *)
LEMMA SnapStands ==
  ASSUME NEW s \in Tasks, SnapExact(s), RunsGrow,
         ed'[s].snap = ed[s].snap, ed'[s].target = ed[s].target,
         Committing(s)' => Committing(s) /\ DOMAIN cut'.surv \subseteq DOMAIN cut.surv
  PROVE  /\ SnapExact(s)'
         /\ Left(s)' = Left(s) =>
              /\ Placed(s)' = Placed(s)
              /\ \A p \in Tasks : PlacedOf(s, p)' = PlacedOf(s, p)
<1>1. \A k \in DOMAIN Preds[s] : Preds[s][k] \in Tasks
  BY PredecessorFacts
<1>2. SnapExact(s)'
  BY <1>1 DEF SnapExact, RunsGrow
<1>3. Left(s)' = Left(s) => Placed(s)' = Placed(s)
  BY DEF Placed
<1>4. Left(s)' = Left(s) => \A p \in Tasks : PlacedOf(s, p)' = PlacedOf(s, p)
  BY <1>3 DEF PlacedOf
<1> QED BY <1>2, <1>3, <1>4

(* The credits of a task stay exact in a step that does not concern them.  *)
LEMMA CreditsStand ==
  ASSUME NEW s \in Tasks, TaskCredits(s), RunsGrow, CreditHeld(s), CutHeld(s),
         \A p \in Tasks : Dispatched(p)' <=> Dispatched(p),
         \A p \in Tasks :
           Occurrences(s, g_successor_buf[p])' = Occurrences(s, g_successor_buf[p]),
         Occurrences(s, disp.todo)' = Occurrences(s, disp.todo),
         Occurrences(s, exec.todo)' = Occurrences(s, exec.todo)
  PROVE  TaskCredits(s)'
<1>1. SnapExact(s) /\ EdgesExact(s) /\ CreditsExact(s) /\ StagedInTime(s)
  BY DEF TaskCredits
<1>2. /\ SnapExact(s)' /\ Placed(s)' = Placed(s)
      /\ \A p \in Tasks : PlacedOf(s, p)' = PlacedOf(s, p)
  BY <1>1, SnapStands DEF CreditHeld, CutHeld
<1>3. EdgesExact(s)'
  BY <1>1, <1>2 DEF EdgesExact
<1>4. \A k \in DOMAIN Preds[s] : Preds[s][k] \in Tasks
  BY PredecessorFacts
<1>5. Placed(s) \subseteq DOMAIN Preds[s]
  BY <1>1 DEF Placed, SnapExact
<1>6. Credited(s)' = Credited(s)
  BY <1>2, <1>4, <1>5 DEF Credited
<1>7. CreditsExact(s)'
  BY <1>1, <1>6 DEF CreditsExact, CreditHeld, CutHeld
<1>8. StagedInTime(s)'
  BY <1>1, <1>4 DEF StagedInTime, CreditHeld, RunsGrow
<1> QED BY <1>2, <1>3, <1>7, <1>8 DEF TaskCredits

(* Every step that appends no edge, writes no credit and runs no Hook 0    *)
(* keeps the credits exact.                                                *)
LEMMA QuietCredits ==
  ASSUME NoReuse, CreditInv, TodoInv, RunsGrow,
         \A t \in Tasks : CreditHeld(t) /\ CutHeld(t) /\ (Committed(t)' <=> Committed(t)),
         UNCHANGED g_successor_buf,
         disp'.todo = disp.todo, exec'.todo = exec.todo,
         disp'.hook = INVALID => disp.hook = INVALID,
         exec'.hook = INVALID => exec.hook = INVALID,
         disp.todo \in Seq(Tasks), exec.todo \in Seq(Tasks)
  PROVE  CreditInv' /\ TodoInv'
<1>1. \A p \in Tasks : Dispatched(p)' <=> Dispatched(p)
  BY DEF CreditHeld, Dispatched
<1>2. ASSUME NEW s \in Tasks, Committed(s)'
      PROVE  TaskCredits(s)'
  <2>1. TaskCredits(s)
    BY <1>2 DEF CreditInv
  <2>2. /\ \A p \in Tasks :
             Occurrences(s, g_successor_buf[p])' = Occurrences(s, g_successor_buf[p])
        /\ Occurrences(s, disp.todo)' = Occurrences(s, disp.todo)
        /\ Occurrences(s, exec.todo)' = Occurrences(s, exec.todo)
    BY DEF Occurrences
  <2> QED BY <1>1, <2>1, <2>2, CreditsStand
<1>3. TodoInv'
  <2>1. ToSet(disp.todo) \subseteq Tasks /\ ToSet(exec.todo) \subseteq Tasks
    BY ListFacts
  <2> QED BY <2>1 DEF TodoInv
<1> QED BY <1>2, <1>3 DEF CreditInv

----------------------------------------------------------------------------
(* The cutter's steps that commit nothing.                                 *)
LEMMA CutterQuiet ==
  ASSUME NoReuse, TypeOK, CreationInv, EntryInv, EdgeInv, RoundInv,
         CutterNext, ~commit, ~edge, ~late_arrival
  PROVE  /\ \A t \in Tasks : CreditHeld(t) /\ CutHeld(t)
         /\ UNCHANGED <<g_successor_buf, disp, exec, runs, g_commit_task_id>>
<1> DEFINE Plain == \/ take_completed \/ cutter_exit \/ add_successors_enter
                    \/ resolve_dep_load \/ send_2_ready_queue
<1>1. Plain \/ resolve_dep \/ hook2
  BY DEF CutterNext
<1>2. cut.pc \notin {"edge", "late"} /\ cut'.pc \notin {"edge", "late"}
  <2>1. CASE Plain
    BY <2>1, RoundFields
  <2>2. CASE resolve_dep \/ hook2
    BY <2>2, WalkedList
  <2> QED BY <1>1, <2>1, <2>2
<1>3. \A t \in Tasks : CutHeld(t)
  BY <1>2 DEF CutHeld, Left, Late, Committing
<1>4. UNCHANGED <<g_successor_buf, disp, exec, runs, g_commit_task_id>>
  <2>1. CASE take_completed
    BY <2>1 DEF take_completed
  <2>2. CASE cutter_exit
    BY <2>2 DEF cutter_exit, cutFrame, graphVars
  <2>3. CASE add_successors_enter
    BY <2>3 DEF add_successors_enter, cutFrame, graphVars
  <2>4. CASE resolve_dep_load
    BY <2>4 DEF resolve_dep_load, cutFrame, graphVars
  <2>5. CASE send_2_ready_queue
    BY <2>5 DEF send_2_ready_queue, cutFrame, graphVars
  <2>6. CASE resolve_dep
    BY <2>6 DEF resolve_dep, cutFrame
  <2>7. CASE hook2
    BY <2>7 DEF hook2, cutFrame, graphVars
  <2> QED BY <1>1, <2>1, <2>2, <2>3, <2>4, <2>5, <2>6, <2>7
<1>5. \A t \in Tasks : CreditHeld(t)
  <2>1. CASE Plain
    <3>1. UNCHANGED ed
      BY <2>1 DEF take_completed, cutter_exit, add_successors_enter, resolve_dep_load,
         send_2_ready_queue
    <3> QED BY <3>1 DEF CreditHeld
  <2>2. CASE resolve_dep
    <3>1. PICK s \in Tasks : s = Head(cut.work)
      BY <2>2, ResolveStep
    <3>2. Idx(s) = s /\ s \in Rings /\ ed \in [Rings -> EdMeta] /\ Tasks \subseteq Rings
      BY IdxSame DEF TypeOK, EdTypes
    <3> DEFINE n == Dec(g_predecessor_cnt[s], UINT32_MAX)
               m2 == [ed[s] EXCEPT !.unfin = Dec(@, UINT16_MAX),
                                   !.spec = IF BecomesReady(n) THEN "DISPATCHED" ELSE @]
    <3>3. ed' = ed \/ ed' = [ed EXCEPT ![s] = m2]
      BY <2>2, <3>1, <3>2 DEF resolve_dep
    <3>4. /\ m2.snap = ed[s].snap /\ m2.target = ed[s].target
          /\ m2.fanin = ed[s].fanin /\ m2.dispatch_tag = ed[s].dispatch_tag
          /\ m2.spec = "STAGING" => ed[s].spec = "STAGING"
      BY <3>2 DEF EdMeta
    <3> HIDE DEF m2
    <3> QED BY <3>2, <3>3, <3>4 DEF CreditHeld
  <2>3. CASE hook2
    <3>1. PICK s \in Tasks : s = Head(cut.work)
      BY <2>3, WalkedList, TailOfList
    <3>2. Idx(s) = s /\ s \in Rings /\ ed \in [Rings -> EdMeta] /\ Tasks \subseteq Rings
      BY IdxSame DEF TypeOK, EdTypes
    <3> DEFINE m2 == [ed[s] EXCEPT !.claimed = 1]
    <3>3. ed' = ed \/ ed' = [ed EXCEPT ![s] = m2]
      BY <2>3, <3>1, <3>2 DEF hook2, ed_notify_once
    <3>4. /\ m2.snap = ed[s].snap /\ m2.target = ed[s].target
          /\ m2.fanin = ed[s].fanin /\ m2.dispatch_tag = ed[s].dispatch_tag
          /\ m2.spec = ed[s].spec
      BY <3>2 DEF EdMeta
    <3> HIDE DEF m2
    <3> QED BY <3>2, <3>3, <3>4 DEF CreditHeld
  <2> QED BY <1>1, <2>1, <2>2, <2>3
<1> QED BY <1>3, <1>4, <1>5

----------------------------------------------------------------------------
(* A commit.  The new task has no credit, no edge is placed yet, and no    *)
(* one has credited it or runs Hook 0 of it.                               *)
LEMMA CommitMeta ==
  ASSUME NoReuse, TypeOK, commit, ED_ENABLE, NEW s \in Tasks, s = g_commit_task_id
  PROVE  /\ ed'[s].fanin = 0 /\ ed'[s].dispatch_tag = INVALID /\ ed'[s].spec = "NONE"
         /\ ed'[s].snap = Survivors(s) /\ ed'[s].target = Cardinality(DOMAIN Survivors(s))
         /\ ed'[s].staged = INVALID /\ ed'[s].next_block = 0
         /\ \A t \in Tasks : t # s => ed'[t] = ed[t]
<1>1. Idx(s) = s /\ s \in Rings /\ ed \in [Rings -> EdMeta] /\ Tasks \subseteq Rings
  BY IdxSame DEF TypeOK, EdTypes
<1> DEFINE surv == Survivors(s)
           m2 == FreshMeta(s, surv)
<1>2. ed' = [ed EXCEPT ![s] = m2]
  BY <1>1 DEF commit
<1>3. /\ m2.fanin = 0 /\ m2.dispatch_tag = INVALID /\ m2.spec = "NONE"
      /\ m2.snap = surv /\ m2.target = Cardinality(DOMAIN surv)
      /\ m2.staged = INVALID /\ m2.next_block = 0
  <2> HIDE DEF surv
  <2> QED BY DEF FreshMeta, NoEdMeta
<1> HIDE DEF m2, surv
<1>4. ed'[s] = m2 /\ \A t \in Tasks : t # s => ed'[t] = ed[t]
  BY <1>1, <1>2
<1> QED BY <1>3, <1>4 DEF surv

(* The credits are exact after a commit.                                   *)
LEMMA CommitCredits ==
  ASSUME NoReuse, TypeOK, WatermarkInv, DagInv, CreditInv, TodoInv, HookInv,
         commit, ED_ENABLE
  PROVE  CreditInv' /\ TodoInv' /\ \A p \in Tasks : Dispatched(p)' <=> Dispatched(p)
<1>1. CreationInv /\ EntryInv /\ EdgeInv /\ CutterNext
  BY DEF DagInv, CutterNext
<1>2. PICK s \in Tasks : s = g_commit_task_id
  BY <1>1, CommitStep
<1>3. /\ cut.pc = "commit" /\ s < g_task_id /\ ~Committed(s)
      /\ g_successor_buf'[s] = <<>>
      /\ \A t \in Tasks : t # s => g_successor_buf'[t] = g_successor_buf[t]
      /\ \/ DOMAIN Survivors(s) = {} /\ cut'.pc \notin {"edge", "late"}
         \/ cut'.pc = "edge" /\ cut'.surv = Survivors(s) /\ g_commit_task_id' = s
  BY <1>1, <1>2, CommitStep
<1>4. /\ ed'[s].fanin = 0 /\ ed'[s].dispatch_tag = INVALID /\ ed'[s].spec = "NONE"
      /\ ed'[s].snap = Survivors(s) /\ ed'[s].target = Cardinality(DOMAIN Survivors(s))
      /\ \A t \in Tasks : t # s => ed'[t] = ed[t]
  BY <1>2, CommitMeta
<1>5. g_successor_buf[s] = <<>>
  BY <1>1, <1>3 DEF EntryInv, Untouched
<1>6. UNCHANGED <<disp, exec, runs>> /\ RunsGrow
  BY DEF commit, cutFrame, RunsGrow, Ran
<1>7. \A t \in Tasks : Committed(t)' <=> Committed(t) \/ t = s
  BY <1>1, <1>2, CommittedMoves
<1>8. disp.todo \in Seq(Tasks) /\ exec.todo \in Seq(Tasks)
  BY DEF TypeOK, DispTypes, DispRegs, ExecTypes, ExecRegs
<1>9. \A p \in Tasks : Dispatched(p)' <=> Dispatched(p)
  <2>1. ~Dispatched(s)
    BY <1>3 DEF HookInv, Claimed
  <2>2. ~Dispatched(s)'
    BY <1>4, InvalidAssumption DEF Dispatched
  <2> QED BY <1>4, <2>1, <2>2 DEF Dispatched
<1>10. ASSUME NEW t \in Tasks, t # s, Committed(t)'
       PROVE  TaskCredits(t)'
  <2>1. TaskCredits(t)
    BY <1>7, <1>10 DEF CreditInv
  <2>2. CreditHeld(t)
    BY <1>4, <1>10 DEF CreditHeld
  <2>3. CutHeld(t)
    <3>1. ~Committing(t)
      BY <1>3 DEF Committing
    <3>2. ~Committing(t)'
      BY <1>3, <1>10 DEF Committing
    <3> QED BY <3>1, <3>2 DEF CutHeld, Left, Late
  <2>4. \A p \in Tasks : g_successor_buf'[p] = g_successor_buf[p]
    BY <1>3, <1>5
  <2>5. /\ \A p \in Tasks :
             Occurrences(t, g_successor_buf[p])' = Occurrences(t, g_successor_buf[p])
        /\ Occurrences(t, disp.todo)' = Occurrences(t, disp.todo)
        /\ Occurrences(t, exec.todo)' = Occurrences(t, exec.todo)
    BY <1>6, <2>4 DEF Occurrences
  <2> QED BY <1>6, <1>9, <2>1, <2>2, <2>3, <2>5, CreditsStand
<1>11. TaskCredits(s)'
  <2>1. \A p \in Tasks : p < s => Committed(p)
    BY <1>2 DEF Committed
  <2>2. /\ DOMAIN Survivors(s) \subseteq DOMAIN Preds[s]
        /\ \A k \in DOMAIN Survivors(s) : Survivors(s)[k] = Preds[s][k]
        /\ \A k \in DOMAIN Preds[s] :
             k \notin DOMAIN Survivors(s) => Ran(Preds[s][k]) \/ Completed(Preds[s][k])
    BY <1>1, <1>3, <2>1, SurvivorsAre
  <2>3. \A t \in Tasks : Completed(t) => Ran(t)
    BY ToldRan DEF DagInv
  <2>4. \A k \in DOMAIN Preds[s] : Preds[s][k] \in Tasks
    BY PredecessorFacts
  <2>5. SnapExact(s)'
    BY <1>3, <1>4, <1>6, <2>2, <2>3, <2>4 DEF SnapExact, RunsGrow, Committing
  <2>6. Placed(s)' = {}
    <3>1. CASE DOMAIN Survivors(s) = {}
      BY <1>4, <3>1 DEF Placed
    <3>2. CASE cut'.pc = "edge" /\ cut'.surv = Survivors(s) /\ g_commit_task_id' = s
      <4>1. Left(s)' = DOMAIN Survivors(s)
        BY <3>2 DEF Left, Committing, ToAppend
      <4> QED BY <1>4, <4>1 DEF Placed
    <3> QED BY <1>3, <3>1, <3>2
  <2>7. EdgesExact(s)'
    <3> SUFFICES ASSUME NEW p \in Tasks
                 PROVE  Occurrences(s, g_successor_buf[p])' = Cardinality(PlacedOf(s, p)')
      BY DEF EdgesExact
    <3>1. PlacedOf(s, p)' = {}
      BY <2>6 DEF PlacedOf
    <3>2. s \notin ToSet(g_successor_buf[p])
      BY <1>1, <1>3 DEF EdgeInv
    <3>3. g_successor_buf[p] \in Seq(Tasks)
      BY IdxSame DEF TypeOK, GraphTypes
    <3>4. Occurrences(s, g_successor_buf[p]) = 0
      BY <3>2, <3>3, OccurrencesType
    <3>5. g_successor_buf'[p] = g_successor_buf[p]
      BY <1>3, <1>5
    <3>6. Occurrences(s, g_successor_buf[p])' = 0
      BY <3>4, <3>5 DEF Occurrences
    <3> QED BY <3>1, <3>6, FS_EmptySet
  <2>8. CreditsExact(s)'
    <3>1. Credited(s)' = {}
      BY <2>6 DEF Credited
    <3>2. Occurrences(s, disp.todo) = 0 /\ Occurrences(s, exec.todo) = 0
      BY <1>3, <1>8, OccurrencesType DEF TodoInv
    <3>3. Occurrences(s, disp.todo)' = 0 /\ Occurrences(s, exec.todo)' = 0
      BY <1>6, <3>2 DEF Occurrences
    <3>4. Late(s)' = 0
      BY <1>3 DEF Late
    <3> QED BY <1>4, <3>1, <3>3, <3>4, FS_EmptySet DEF CreditsExact
  <2>9. StagedInTime(s)'
    BY <1>4 DEF StagedInTime
  <2> QED BY <2>5, <2>7, <2>8, <2>9 DEF TaskCredits
<1>12. TodoInv'
  <2>1. ToSet(disp.todo) \subseteq Tasks /\ ToSet(exec.todo) \subseteq Tasks
    BY <1>8, ListFacts
  <2> QED BY <1>6, <1>7, <2>1 DEF TodoInv
<1> QED BY <1>9, <1>10, <1>11, <1>12 DEF CreditInv

----------------------------------------------------------------------------
(* The append of an edge.  What is left to append loses the position of it.*)
LEMMA LeftMoves ==
  ASSUME NoReuse, TypeOK, EntryInv, EdgeInv, edge \/ late_arrival,
         NEW s \in Tasks, s = g_commit_task_id
  PROVE  /\ Left(s)' = DOMAIN cut.surv \ {NextEdge}
         /\ edge => Left(s) = DOMAIN cut.surv
         /\ late_arrival => Left(s) = DOMAIN cut.surv \ {NextEdge}
         /\ cut'.pc = "late" => edge
         /\ \A t \in Tasks :
              /\ Committing(t)' => Committing(t) /\ DOMAIN cut'.surv \subseteq DOMAIN cut.surv
              /\ Committing(t) => t = s
<1>1. cut.pc \in {"edge", "late"} /\ (edge => cut.pc = "edge") /\ (late_arrival => cut.pc = "late")
  BY DEF edge, late_arrival
<1>2. DOMAIN LaterEdges = DOMAIN cut.surv \ {NextEdge} /\ NextEdge \in DOMAIN cut.surv
  BY <1>1, EdgesToAppend
<1>3. \A t \in Tasks : Committing(t) <=> t = s
  BY <1>1 DEF Committing
<1>4. \/ /\ edge /\ cut'.pc = "late" /\ cut'.surv = cut.surv
         /\ UNCHANGED g_commit_task_id
      \/ EdgeDone
  <2>1. CASE edge
    BY <2>1, EdgeStep
  <2>2. CASE late_arrival
    BY <2>2 DEF late_arrival
  <2> QED BY <2>1, <2>2
<1>5. CASE /\ edge /\ cut'.pc = "late" /\ cut'.surv = cut.surv
           /\ UNCHANGED g_commit_task_id
  <2>1. ToAppend' = DOMAIN cut.surv \ {NextEdge}
    BY <1>2, <1>5 DEF ToAppend, LaterEdges, NextEdge
  <2>2. \A t \in Tasks : Committing(t)' <=> t = s
    BY <1>5 DEF Committing
  <2>3. Left(s)' = DOMAIN cut.surv \ {NextEdge}
    BY <2>1, <2>2 DEF Left
  <2>4. edge => Left(s) = DOMAIN cut.surv
    BY <1>1, <1>3 DEF Left, ToAppend
  <2>5. late_arrival => Left(s) = DOMAIN cut.surv \ {NextEdge}
    BY <1>1, <1>2, <1>3 DEF Left, ToAppend
  <2> QED BY <1>3, <1>5, <2>2, <2>3, <2>4, <2>5
<1>6. CASE EdgeDone
  <2>1. \/ /\ cut'.pc = "edge" /\ cut'.surv = LaterEdges /\ UNCHANGED g_commit_task_id
        \/ cut'.pc \notin {"edge", "late"} /\ DOMAIN LaterEdges = {}
    BY <1>1, <1>6, EdgeDoneFields
  <2>2. Left(s)' = DOMAIN cut.surv \ {NextEdge}
    <3>1. CASE cut'.pc = "edge" /\ cut'.surv = LaterEdges /\ UNCHANGED g_commit_task_id
      <4>1. Committing(s)'
        BY <3>1 DEF Committing
      <4> QED BY <1>2, <3>1, <4>1 DEF Left, ToAppend
    <3>2. CASE cut'.pc \notin {"edge", "late"} /\ DOMAIN LaterEdges = {}
      <4>1. ~Committing(s)'
        BY <3>2 DEF Committing
      <4> QED BY <1>2, <3>2, <4>1 DEF Left
    <3> QED BY <2>1, <3>1, <3>2
  <2>3. \A t \in Tasks : Committing(t)' => t = s /\ cut'.surv = LaterEdges
    BY <2>1 DEF Committing
  <2>4. edge => Left(s) = DOMAIN cut.surv
    BY <1>1, <1>3 DEF Left, ToAppend
  <2>5. late_arrival => Left(s) = DOMAIN cut.surv \ {NextEdge}
    BY <1>1, <1>2, <1>3 DEF Left, ToAppend
  <2> QED BY <1>2, <1>3, <2>1, <2>2, <2>3, <2>4, <2>5
<1> QED BY <1>4, <1>5, <1>6

(* The credits are exact after the append of an edge: one to a task that   *)
(* has been dispatched is owed by the cutter, and only that one.           *)
LEMMA EdgeCredits ==
  ASSUME NoReuse, TypeOK, DagInv, CreditInv, TodoInv, edge, ED_ENABLE
  PROVE  CreditInv' /\ TodoInv' /\ UNCHANGED <<ed, disp, exec, runs>>
<1>1. CreationInv /\ EntryInv /\ EdgeInv /\ CutterNext
  BY DEF DagInv, CutterNext
<1>2. cut.pc = "edge"
  BY DEF edge
<1>3. PICK s \in Tasks : s = g_commit_task_id
  BY <1>1, <1>2, EdgesToAppend
<1>4. PICK k \in DOMAIN Preds[s] : k = NextEdge
  BY <1>1, <1>2, <1>3, EdgesToAppend
<1>5. PICK p \in Tasks : p = Preds[s][k]
  BY <1>4, PredecessorFacts
<1>6. p = cut.surv[NextEdge] /\ Committed(p) /\ Committed(s) /\ k \in DOMAIN cut.surv
  BY <1>1, <1>2, <1>3, <1>4, <1>5, EdgesToAppend
<1>7. /\ ed' = ed /\ g_successor_buf'[p] = Append(g_successor_buf[p], s)
      /\ \A t \in Tasks : t # p => g_successor_buf'[t] = g_successor_buf[t]
  BY <1>1, <1>3, <1>6, EdgeStep
<1>8. UNCHANGED <<disp, exec, runs>> /\ RunsGrow
  BY DEF edge, cutFrame, RunsGrow, Ran
<1>9. \A t \in Tasks : Committed(t)' <=> Committed(t)
  BY <1>1, <1>2, CommittedMoves DEF commit
<1>10. \A q \in Tasks : g_successor_buf[q] \in Seq(Tasks)
  BY IdxSame DEF TypeOK, GraphTypes
<1>11. \A t \in Tasks : /\ \A q \in Tasks : Occurrences(t, g_successor_buf[q])' =
                             Occurrences(t, g_successor_buf[q])
                               + (IF q = p /\ t = s THEN 1 ELSE 0)
                        /\ Occurrences(t, disp.todo)' = Occurrences(t, disp.todo)
                        /\ Occurrences(t, exec.todo)' = Occurrences(t, exec.todo)
  <2> TAKE t \in Tasks
  <2>1. ASSUME NEW q \in Tasks
        PROVE  Occurrences(t, g_successor_buf[q])' =
                 Occurrences(t, g_successor_buf[q]) + (IF q = p /\ t = s THEN 1 ELSE 0)
    <3>1. Occurrences(t, g_successor_buf[q]) \in Nat
      BY <1>10, OccurrencesType
    <3>2. CASE q = p
      <4>1. Occurrences(t, Append(g_successor_buf[q], s)) =
              Occurrences(t, g_successor_buf[q]) + (IF s = t THEN 1 ELSE 0)
        BY <1>10, OccurrencesAppend
      <4>2. Occurrences(t, g_successor_buf[q])' = Occurrences(t, Append(g_successor_buf[q], s))
        BY <1>7, <3>2 DEF Occurrences
      <4> QED BY <3>2, <4>1, <4>2
    <3>3. CASE q # p
      <4>1. Occurrences(t, g_successor_buf[q])' = Occurrences(t, g_successor_buf[q])
        BY <1>7, <3>3 DEF Occurrences
      <4> QED BY <3>1, <3>3, <4>1
    <3> QED BY <3>2, <3>3
  <2> QED BY <1>8, <2>1 DEF Occurrences
<1>12. \A q \in Tasks : Dispatched(q)' <=> Dispatched(q)
  BY <1>7 DEF Dispatched
<1>13. \A t \in Tasks : CreditHeld(t)
  BY <1>7 DEF CreditHeld
<1>14. /\ Left(s)' = DOMAIN cut.surv \ {k} /\ Left(s) = DOMAIN cut.surv
       /\ \A t \in Tasks :
            /\ Committing(t)' => Committing(t) /\ DOMAIN cut'.surv \subseteq DOMAIN cut.surv
            /\ Committing(t) => t = s
  BY <1>1, <1>3, <1>4, LeftMoves
<1>15. ASSUME NEW t \in Tasks, t # s, Committed(t)'
       PROVE  TaskCredits(t)'
  <2>1. TaskCredits(t)
    BY <1>9, <1>15 DEF CreditInv
  <2>2. CutHeld(t)
    BY <1>14, <1>15 DEF CutHeld, Left, Late
  <2>3. \A q \in Tasks : Occurrences(t, g_successor_buf[q])' = Occurrences(t, g_successor_buf[q])
    <3> TAKE q \in Tasks
    <3>1. Occurrences(t, g_successor_buf[q]) \in Nat
      BY <1>10, OccurrencesType
    <3> QED BY <1>11, <1>15, <3>1
  <2> QED BY <1>8, <1>11, <1>12, <1>13, <2>1, <2>2, <2>3, CreditsStand
<1>16. TaskCredits(s)'
  <2>1. SnapExact(s) /\ EdgesExact(s) /\ CreditsExact(s) /\ StagedInTime(s)
    BY <1>6 DEF CreditInv, TaskCredits
  <2>2. SnapExact(s)'
    BY <1>7, <1>8, <1>14, <2>1, SnapStands
  <2>3. k \in DOMAIN ed[s].snap
    <3>1. Committing(s)
      BY <1>2, <1>3 DEF Committing
    <3> QED BY <1>6, <2>1, <3>1 DEF SnapExact
  <2>4. k \notin Placed(s) /\ Placed(s)' = Placed(s) \cup {k}
    BY <1>6, <1>7, <1>14, <2>3 DEF Placed
  <2>5. /\ \A S : S \subseteq DOMAIN ed[s].snap => IsFiniteSet(S) /\ Cardinality(S) \in Nat
        /\ Placed(s) \subseteq DOMAIN ed[s].snap /\ Credited(s) \subseteq Placed(s)
    BY <2>1, CreditTypes
  <2>6. EdgesExact(s)'
    <3> SUFFICES ASSUME NEW q \in Tasks
                 PROVE  Occurrences(s, g_successor_buf[q])' = Cardinality(PlacedOf(s, q)')
      BY DEF EdgesExact
    <3>1. Occurrences(s, g_successor_buf[q]) = Cardinality(PlacedOf(s, q))
      BY <2>1 DEF EdgesExact
    <3>2. /\ PlacedOf(s, q)' = PlacedOf(s, q) \cup (IF q = p THEN {k} ELSE {})
          /\ PlacedOf(s, q) \subseteq Placed(s)
      BY <1>5, <2>4 DEF PlacedOf
    <3>3. IsFiniteSet(PlacedOf(s, q)) /\ Cardinality(PlacedOf(s, q)) \in Nat
      BY <2>5, <3>2
    <3>4. Cardinality(PlacedOf(s, q)') =
            Cardinality(PlacedOf(s, q)) + (IF q = p THEN 1 ELSE 0)
      <4>1. CASE q = p
        <5>1. k \notin PlacedOf(s, q)
          BY <2>4, <3>2
        <5> QED BY <3>2, <3>3, <4>1, <5>1, FS_AddElement
      <4>2. CASE q # p
        BY <3>2, <3>3, <4>2
      <4> QED BY <4>1, <4>2
    <3> QED BY <1>11, <3>1, <3>4
  <2>7. CreditsExact(s)'
    <3>1. Late(s) = 0 /\ Late(s)' = IF Dispatched(p) THEN 1 ELSE 0
      <4>1. Late(s) = 0
        BY <1>2 DEF Late
      <4>2. TagIs(p) /\ Idx(p) = p
        BY <1>1, <1>6, IdxSame DEF EntryInv
      <4>3. CASE Dispatched(p)
        <5>1. cut' = [cut EXCEPT !.pc = "late"] /\ UNCHANGED g_commit_task_id
          BY <1>6, <4>2, <4>3 DEF edge, IsLate, Dispatched
        <5>2. cut'.pc = "late"
          BY <5>1 DEF TypeOK, CutTypes, CutRegs
        <5>3. Committing(s)'
          BY <1>3, <5>1, <5>2 DEF Committing
        <5> QED BY <4>1, <4>3, <5>2, <5>3 DEF Late
      <4>4. CASE ~Dispatched(p)
        <5>1. EdgeDone
          BY <1>6, <4>2, <4>4 DEF edge, IsLate, Dispatched
        <5>2. cut'.pc # "late"
          BY <1>2, <5>1, EdgeDoneFields
        <5> QED BY <4>1, <4>4, <5>2 DEF Late
      <4> QED BY <4>3, <4>4
    <3>2. Credited(s)' = Credited(s) \cup (IF Dispatched(p) THEN {k} ELSE {})
      <4>1. \A j \in Placed(s) : Preds[s][j] \in Tasks
        BY <2>1, PredecessorFacts DEF Placed, SnapExact
      <4> QED BY <1>5, <1>12, <2>4, <4>1 DEF Credited
    <3>3. k \notin Credited(s) /\ IsFiniteSet(Credited(s)) /\ Cardinality(Credited(s)) \in Nat
      BY <2>4, <2>5
    <3>4. Cardinality(Credited(s)') =
            Cardinality(Credited(s)) + (IF Dispatched(p) THEN 1 ELSE 0)
      <4>1. CASE Dispatched(p)
        BY <3>2, <3>3, <4>1, FS_AddElement
      <4>2. CASE ~Dispatched(p)
        BY <3>2, <3>3, <4>2
      <4> QED BY <4>1, <4>2
    <3>5. /\ ed[s].fanin \in Nat /\ Occurrences(s, disp.todo) \in Nat
          /\ Occurrences(s, exec.todo) \in Nat
      BY <2>1, CreditTypes
    <3>6. /\ ed'[s].fanin = ed[s].fanin
          /\ Occurrences(s, disp.todo)' = Occurrences(s, disp.todo)
          /\ Occurrences(s, exec.todo)' = Occurrences(s, exec.todo)
      BY <1>7, <1>11
    <3> QED BY <2>1, <3>1, <3>4, <3>5, <3>6 DEF CreditsExact
  <2>8. StagedInTime(s)'
    <3>1. \A j \in DOMAIN Preds[s] : Preds[s][j] \in Tasks
      BY PredecessorFacts
    <3> QED BY <1>7, <1>8, <1>12, <2>1, <3>1 DEF StagedInTime, RunsGrow
  <2> QED BY <2>2, <2>6, <2>7, <2>8 DEF TaskCredits
<1>17. TodoInv'
  <2>1. disp.todo \in Seq(Tasks) /\ exec.todo \in Seq(Tasks)
    BY DEF TypeOK, DispTypes, DispRegs, ExecTypes, ExecRegs
  <2>2. ToSet(disp.todo) \subseteq Tasks /\ ToSet(exec.todo) \subseteq Tasks
    BY <2>1, ListFacts
  <2> QED BY <1>8, <1>9, <2>2 DEF TodoInv
<1>18. CreditInv'
  BY <1>15, <1>16 DEF CreditInv
<1> QED BY <1>7, <1>8, <1>17, <1>18

----------------------------------------------------------------------------
(* One credit, written by Hook 0 or by the cutter.                         *)
LEMMA CreditMeta ==
  ASSUME NoReuse, TypeOK, NEW s \in Tasks, AddFanin(s, ed[Idx(s)])
  PROVE  /\ ed'[s].fanin = ed[s].fanin + 1
         /\ ed'[s].snap = ed[s].snap /\ ed'[s].target = ed[s].target
         /\ ed'[s].dispatch_tag = ed[s].dispatch_tag
         /\ ed'[s].spec = "STAGING" =>
              ed[s].spec = "STAGING" \/ ed[s].fanin + 1 = ed[s].target
         /\ \A t \in Tasks : t # s => ed'[t] = ed[t]
<1> DEFINE m == ed[s]
           stage == EntersStaging(m, s)
           sp == IF stage THEN "STAGING" ELSE m.spec
           fan == m.fanin + 1
           m2 == [m EXCEPT !.fanin = fan, !.spec = sp]
<1>1. /\ Idx(s) = s /\ s \in Rings /\ ed \in [Rings -> EdMeta] /\ Tasks \subseteq Rings
  BY IdxSame DEF TypeOK, EdTypes
<1>2. m \in EdMeta
  BY <1>1
<1>3. sp = "STAGING" => m.spec = "STAGING" \/ m.fanin + 1 = m.target
  BY DEF EntersStaging, FaninReached
<1>4. ed' = [ed EXCEPT ![s] = m2]
  <2>1. ed' = [ed EXCEPT ![s] = [m EXCEPT !.fanin = @ + 1,
                                          !.spec = IF stage THEN "STAGING" ELSE @]]
    BY <1>1 DEF AddFanin
  <2>2. [m EXCEPT !.fanin = @ + 1, !.spec = IF stage THEN "STAGING" ELSE @] = m2
    <3> HIDE DEF stage, m
    <3> QED BY <1>2 DEF EdMeta
  <2> QED BY <2>1, <2>2
<1>5. /\ m2.fanin = fan /\ m2.snap = m.snap /\ m2.target = m.target
      /\ m2.dispatch_tag = m.dispatch_tag /\ m2.spec = sp
  <2> HIDE DEF m, sp, fan
  <2> QED BY <1>2 DEF EdMeta
<1> HIDE DEF m2, sp
<1>6. ed'[s] = m2 /\ \A t \in Tasks : t # s => ed'[t] = ed[t]
  BY <1>1, <1>4
<1> QED BY <1>3, <1>5, <1>6

(* A thread that writes a credit it has taken on, or owes, keeps them      *)
(* exact; it puts the task into staging when all are dispatched.           *)
LEMMA CreditWritten ==
  ASSUME NoReuse, TypeOK, CreditInv, NEW s \in Tasks, Committed(s),
         AddFanin(s, ed[Idx(s)]), RunsGrow, UNCHANGED g_successor_buf,
         \A t \in Tasks : Committed(t)' <=> Committed(t),
         Left(s)' = Left(s),
         \A t \in Tasks : t # s => CutHeld(t),
         Committing(s)' => Committing(s) /\ DOMAIN cut'.surv \subseteq DOMAIN cut.surv,
         \A t \in Tasks : t # s =>
           /\ Occurrences(t, disp.todo)' = Occurrences(t, disp.todo)
           /\ Occurrences(t, exec.todo)' = Occurrences(t, exec.todo),
         Occurrences(s, disp.todo) + Occurrences(s, exec.todo) + Late(s) =
           Occurrences(s, disp.todo)' + Occurrences(s, exec.todo)' + Late(s)' + 1,
         Occurrences(s, disp.todo)' \in Nat, Occurrences(s, exec.todo)' \in Nat
  PROVE  CreditInv' /\ \A p \in Tasks : Dispatched(p)' <=> Dispatched(p)
<1>1. /\ ed'[s].fanin = ed[s].fanin + 1
      /\ ed'[s].snap = ed[s].snap /\ ed'[s].target = ed[s].target
      /\ ed'[s].dispatch_tag = ed[s].dispatch_tag
      /\ ed'[s].spec = "STAGING" =>
           ed[s].spec = "STAGING" \/ ed[s].fanin + 1 = ed[s].target
      /\ \A t \in Tasks : t # s => ed'[t] = ed[t]
  BY CreditMeta
<1>2. \A p \in Tasks : Dispatched(p)' <=> Dispatched(p)
  BY <1>1 DEF Dispatched
<1>3. ASSUME NEW t \in Tasks, t # s, Committed(t)'
      PROVE  TaskCredits(t)'
  <2>1. TaskCredits(t) /\ CreditHeld(t) /\ CutHeld(t)
    BY <1>1, <1>3 DEF CreditInv, CreditHeld
  <2>2. \A p \in Tasks : Occurrences(t, g_successor_buf[p])' = Occurrences(t, g_successor_buf[p])
    BY DEF Occurrences
  <2> QED BY <1>2, <1>3, <2>1, <2>2, CreditsStand
<1>4. TaskCredits(s)'
  <2>1. SnapExact(s) /\ EdgesExact(s) /\ CreditsExact(s) /\ StagedInTime(s)
    BY DEF CreditInv, TaskCredits
  <2>2. /\ SnapExact(s)' /\ Placed(s)' = Placed(s)
        /\ \A p \in Tasks : PlacedOf(s, p)' = PlacedOf(s, p)
    BY <1>1, <2>1, SnapStands
  <2>3. EdgesExact(s)'
    BY <2>1, <2>2 DEF EdgesExact, Occurrences
  <2>4. \A k \in DOMAIN Preds[s] : Preds[s][k] \in Tasks
    BY PredecessorFacts
  <2>5. Credited(s)' = Credited(s)
    <3>1. Placed(s) \subseteq DOMAIN Preds[s]
      BY <2>1 DEF Placed, SnapExact
    <3> QED BY <1>2, <2>2, <2>4, <3>1 DEF Credited
  <2>6. /\ \A S : S \subseteq DOMAIN ed[s].snap => IsFiniteSet(S) /\ Cardinality(S) \in Nat
        /\ Placed(s) \subseteq DOMAIN ed[s].snap /\ Credited(s) \subseteq Placed(s)
        /\ ed[s].fanin \in Nat /\ ed[s].target \in Nat
        /\ Occurrences(s, disp.todo) \in Nat /\ Occurrences(s, exec.todo) \in Nat
        /\ Late(s) \in Nat
    BY <2>1, CreditTypes
  <2>7. Late(s)' \in Nat
    BY DEF Late
  <2>8. ed[s].fanin + Occurrences(s, disp.todo) + Occurrences(s, exec.todo) + Late(s)
          = Cardinality(Credited(s))
    BY <2>1 DEF CreditsExact
  <2>9. CreditsExact(s)'
    <3>1. ed'[s].fanin + Occurrences(s, disp.todo)' + Occurrences(s, exec.todo)' + Late(s)'
            = Cardinality(Credited(s))
      BY <1>1, <2>6, <2>7, <2>8
    <3> QED BY <2>5, <3>1 DEF CreditsExact
  <2>10. ed[s].fanin + 1 = ed[s].target => \A k \in DOMAIN ed[s].snap : Dispatched(Preds[s][k])
    <3> HAVE ed[s].fanin + 1 = ed[s].target
    <3>1. Cardinality(Credited(s)) \in Nat /\ IsFiniteSet(DOMAIN ed[s].snap)
      BY <2>6
    <3>2. ed[s].target <= Cardinality(Credited(s))
      BY <2>6, <2>7, <2>8, <3>1
    <3>3. ed[s].target = Cardinality(DOMAIN ed[s].snap)
      BY <2>1 DEF SnapExact
    <3>4. Credited(s) = DOMAIN ed[s].snap
      BY <2>6, <3>1, <3>2, <3>3, WholeSet
    <3> QED BY <3>4 DEF Credited
  <2>11. StagedInTime(s)'
    <3>1. \A k \in DOMAIN Preds[s] : k \notin DOMAIN ed[s].snap => Ran(Preds[s][k])
      BY <2>1 DEF SnapExact
    <3>2. ed'[s].spec = "STAGING" =>
            \A k \in DOMAIN Preds[s] : Dispatched(Preds[s][k]) \/ Ran(Preds[s][k])
      BY <1>1, <2>1, <2>10, <3>1 DEF StagedInTime
    <3> QED BY <1>2, <2>4, <3>2 DEF StagedInTime, RunsGrow
  <2> QED BY <2>2, <2>3, <2>9, <2>11 DEF TaskCredits
<1> QED BY <1>2, <1>3, <1>4 DEF CreditInv

(* The cutter writes the credit it owes for an edge appended too late.     *)
LEMMA LateCredits ==
  ASSUME NoReuse, TypeOK, DagInv, CreditInv, TodoInv, late_arrival
  PROVE  /\ CreditInv' /\ TodoInv' /\ UNCHANGED <<disp, exec, runs>>
         /\ \A p \in Tasks : Dispatched(p)' <=> Dispatched(p)
<1>1. CreationInv /\ EntryInv /\ EdgeInv /\ CutterNext
  BY DEF DagInv, CutterNext
<1>2. cut.pc = "late"
  BY DEF late_arrival
<1>3. PICK s \in Tasks : s = g_commit_task_id /\ Committed(s)
  BY <1>1, <1>2, EdgesToAppend
<1>4. /\ UNCHANGED <<disp, exec, runs, g_successor_buf>> /\ RunsGrow
      /\ AddFanin(s, ed[Idx(s)])
  BY <1>3 DEF late_arrival, cutFrame, RunsGrow, Ran
<1>5. \A t \in Tasks : Committed(t)' <=> Committed(t)
  BY <1>1, <1>2, CommittedMoves DEF commit
<1>6. /\ Left(s)' = Left(s) /\ cut'.pc # "late"
      /\ \A t \in Tasks :
           /\ Committing(t)' => Committing(t) /\ DOMAIN cut'.surv \subseteq DOMAIN cut.surv
           /\ Committing(t) => t = s
  <2>1. cut'.pc = "late" => edge
    BY <1>1, <1>3, LeftMoves
  <2>2. ~edge
    BY <1>2 DEF edge
  <2> QED BY <1>1, <1>3, <2>1, <2>2, LeftMoves
<1>7. \A t \in Tasks : t # s => CutHeld(t)
  BY <1>6 DEF CutHeld, Left, Late
<1>8. /\ \A t \in Tasks :
           /\ Occurrences(t, disp.todo)' = Occurrences(t, disp.todo)
           /\ Occurrences(t, exec.todo)' = Occurrences(t, exec.todo)
  BY <1>4 DEF Occurrences
<1>9. disp.todo \in Seq(Tasks) /\ exec.todo \in Seq(Tasks)
  BY DEF TypeOK, DispTypes, DispRegs, ExecTypes, ExecRegs
<1>10. Occurrences(s, disp.todo) \in Nat /\ Occurrences(s, exec.todo) \in Nat
  BY <1>9, OccurrencesType
<1>11. Late(s) = 1 /\ Late(s)' = 0
  BY <1>2, <1>3, <1>6 DEF Late, Committing
<1>12. /\ Occurrences(s, disp.todo) + Occurrences(s, exec.todo) + Late(s) =
            Occurrences(s, disp.todo)' + Occurrences(s, exec.todo)' + Late(s)' + 1
       /\ Occurrences(s, disp.todo)' \in Nat /\ Occurrences(s, exec.todo)' \in Nat
  BY <1>8, <1>10, <1>11
<1>13. CreditInv' /\ \A p \in Tasks : Dispatched(p)' <=> Dispatched(p)
  BY <1>3, <1>4, <1>5, <1>6, <1>7, <1>8, <1>12, CreditWritten
<1>14. TodoInv'
  <2>1. ToSet(disp.todo) \subseteq Tasks /\ ToSet(exec.todo) \subseteq Tasks
    BY <1>9, ListFacts
  <2> QED BY <1>4, <1>5, <2>1 DEF TodoInv
<1> QED BY <1>4, <1>13, <1>14

----------------------------------------------------------------------------
(* The two threads that run Hook 0 leave the graph alone.                  *)
LEMMA HeldGraph ==
  ASSUME UNCHANGED graphHeld
  PROVE  /\ UNCHANGED g_successor_buf
         /\ \A t \in Tasks :
              /\ CutHeld(t) /\ Left(t)' = Left(t) /\ Late(t)' = Late(t)
              /\ Committing(t)' => Committing(t) /\ DOMAIN cut'.surv \subseteq DOMAIN cut.surv
              /\ (Committed(t)' <=> Committed(t))
<1>1. UNCHANGED <<g_commit_task_id, g_successor_buf, cut>>
  BY DEF graphHeld
<1>2. \A t : /\ (Committing(t)' <=> Committing(t)) /\ (Committed(t)' <=> Committed(t))
             /\ Late(t)' = Late(t)
  BY <1>1 DEF Committing, Committed, Late
<1>3. ToAppend' = ToAppend
  BY <1>1 DEF ToAppend, LaterEdges, NextEdge
<1> QED BY <1>1, <1>2, <1>3 DEF CutHeld, Left

(* Going on to the next task or pass does not touch the registers of Hook  *)
(* 0, and leaves it.                                                       *)
LEMMA AfterSendHook ==
  ASSUME NEW d \in DispRegs, d.batch # <<>>
  PROVE  LET x == AfterSend(d) IN
         x.todo = d.todo /\ x.hook = d.hook /\ x.pc # "hook0"
<1> DEFINE x == AfterSend(d)
<1>1. x.pc # "hook0" /\ x.hook = d.hook
  BY AfterSendTypes
<1>2. x.todo = d.todo
  <2>1. NextPass(d).todo = d.todo
    BY DEF NextPass, DispRegs
  <2> QED BY <2>1 DEF AfterSend, DispRegs
<1> QED BY <1>1, <1>2

(* Nothing is left behind the last one.                                    *)
LEMMA LastOfList ==
  ASSUME NEW q \in Seq(Tasks), q # <<>>, ~(Len(q) > 1)
  PROVE  Tail(q) = <<>>
<1>1. PICK n \in Nat : n = Len(q)
  BY ListFacts
<1>2. Len(q) = 1
  <2>1. n # 0 /\ ~(n > 1)
    BY <1>1, EmptySeq
  <2>2. n = 1
    BY <2>1
  <2> QED BY <1>1, <2>2
<1>3. Tail(q) \in Seq(Tasks) /\ Len(Tail(q)) = 0
  BY <1>2, HeadTailProperties
<1> QED BY <1>3, EmptySeq

(* The credit the dispatcher writes next, and what is left to write.       *)
LEMMA DispatcherCreditStep ==
  ASSUME TypeOK, dispatcher_credit
  PROVE  /\ disp.todo \in Seq(Tasks) /\ disp.todo # <<>> /\ disp.pc = "hook0"
         /\ disp'.todo = Tail(disp.todo)
         /\ disp'.hook = INVALID => disp'.todo = <<>> /\ disp'.pc # "hook0"
<1>1. /\ disp \in DispRegs /\ disp.hook # INVALID /\ disp.pc = "hook0"
      /\ disp.todo # <<>> /\ disp.batch # <<>>
  BY DEF dispatcher_credit, TypeOK, DispTypes
<1>2. disp.todo \in Seq(Tasks)
  BY <1>1 DEF DispRegs
<1>3. CASE Len(disp.todo) > 1
  BY <1>1, <1>2, <1>3 DEF dispatcher_credit, DispRegs
<1>4. CASE ~(Len(disp.todo) > 1)
  <2> DEFINE d == [disp EXCEPT !.hook = INVALID, !.todo = <<>>]
  <2>1. d \in DispRegs /\ d.batch # <<>> /\ d.todo = <<>> /\ d.hook = INVALID
    BY <1>1, EmptyList DEF DispRegs, MaybeTask
  <2>2. disp' = AfterSend(d)
    BY <1>4 DEF dispatcher_credit
  <2> HIDE DEF d
  <2>3. disp'.todo = <<>> /\ disp'.pc # "hook0"
    BY <2>1, <2>2, AfterSendHook
  <2>4. Tail(disp.todo) = <<>>
    BY <1>1, <1>2, <1>4, LastOfList
  <2> QED BY <1>1, <1>2, <2>3, <2>4
<1> QED BY <1>3, <1>4

(* The dispatcher keeps the credits exact when it writes one.              *)
LEMMA DispatcherCredits ==
  ASSUME NoReuse, TypeOK, CreditInv, TodoInv, dispatcher_credit
  PROVE  CreditInv' /\ TodoInv' /\ \A p \in Tasks : Dispatched(p)' <=> Dispatched(p)
<1>1. /\ disp.todo \in Seq(Tasks) /\ disp.todo # <<>>
      /\ disp'.todo = Tail(disp.todo)
      /\ disp'.hook = INVALID => disp'.todo = <<>>
  BY DispatcherCreditStep
<1>2. UNCHANGED graphHeld /\ UNCHANGED <<exec, runs>> /\ RunsGrow
  BY DispatcherHolds DEF DispatcherNext, RunsGrow, Ran
<1>3. PICK s \in Tasks : s = Head(disp.todo)
  BY <1>1, TailOfList
<1>4. Committed(s) /\ ToSet(Tail(disp.todo)) \subseteq ToSet(disp.todo)
  BY <1>1, <1>3, TailOfList DEF TodoInv
<1>5. \A t \in Tasks :
        /\ Occurrences(t, disp.todo) =
             Occurrences(t, disp.todo)' + (IF t = s THEN 1 ELSE 0)
        /\ Occurrences(t, disp.todo)' \in Nat
        /\ Occurrences(t, exec.todo)' = Occurrences(t, exec.todo)
        /\ Occurrences(t, exec.todo) \in Nat
  <2> TAKE t \in Tasks
  <2>1. Occurrences(t, disp.todo)' = Occurrences(t, Tail(disp.todo))
    BY <1>1 DEF Occurrences
  <2>2. Occurrences(t, Tail(disp.todo)) \in Nat
    BY <1>1, TailOfList, OccurrencesType
  <2>3. Occurrences(t, disp.todo) =
          Occurrences(t, Tail(disp.todo)) + (IF Head(disp.todo) = t THEN 1 ELSE 0)
    BY <1>1, OccurrencesTail
  <2>4. Occurrences(t, exec.todo)' = Occurrences(t, exec.todo)
    BY <1>2 DEF Occurrences
  <2>5. Occurrences(t, exec.todo) \in Nat
    BY OccurrencesType DEF TypeOK, ExecTypes, ExecRegs
  <2> QED BY <1>3, <2>1, <2>2, <2>3, <2>4, <2>5
<1>6. AddFanin(s, ed[Idx(s)])
  BY <1>3 DEF dispatcher_credit
<1>7. /\ UNCHANGED g_successor_buf
      /\ \A t \in Tasks :
           /\ CutHeld(t) /\ Left(t)' = Left(t) /\ Late(t)' = Late(t)
           /\ Committing(t)' => Committing(t) /\ DOMAIN cut'.surv \subseteq DOMAIN cut.surv
           /\ (Committed(t)' <=> Committed(t))
  BY <1>2, HeldGraph
<1>8. Late(s) \in Nat
  BY DEF Late
<1>9. /\ \A t \in Tasks : t # s =>
           /\ Occurrences(t, disp.todo)' = Occurrences(t, disp.todo)
           /\ Occurrences(t, exec.todo)' = Occurrences(t, exec.todo)
      /\ Occurrences(s, disp.todo) + Occurrences(s, exec.todo) + Late(s) =
           Occurrences(s, disp.todo)' + Occurrences(s, exec.todo)' + Late(s)' + 1
      /\ Occurrences(s, disp.todo)' \in Nat /\ Occurrences(s, exec.todo)' \in Nat
  BY <1>5, <1>7, <1>8
<1>10. CreditInv' /\ \A p \in Tasks : Dispatched(p)' <=> Dispatched(p)
  BY <1>2, <1>4, <1>6, <1>7, <1>9, CreditWritten
<1>11. TodoInv'
  <2>1. exec.todo \in Seq(Tasks)
    BY DEF TypeOK, ExecTypes, ExecRegs
  <2>2. ToSet(disp.todo) \subseteq Tasks /\ ToSet(exec.todo) \subseteq Tasks
    BY <1>1, <2>1, ListFacts
  <2> QED BY <1>1, <1>2, <1>4, <1>7, <2>2 DEF TodoInv
<1> QED BY <1>10, <1>11

(* So does the executor.                                                   *)
LEMMA ExecutorCredits ==
  ASSUME NoReuse, TypeOK, CreditInv, TodoInv, executor_credit
  PROVE  CreditInv' /\ TodoInv' /\ \A p \in Tasks : Dispatched(p)' <=> Dispatched(p)
<1>1. /\ exec.todo \in Seq(Tasks) /\ exec.todo # <<>>
      /\ exec'.todo = Tail(exec.todo)
      /\ exec'.hook = INVALID => exec'.todo = <<>>
  <2>1. exec.todo \in Seq(Tasks)
    BY DEF TypeOK, ExecTypes, ExecRegs
  <2>2. /\ exec.todo # <<>> /\ exec.hook # INVALID
        /\ IF Len(exec.todo) > 1 THEN exec'.hook = exec.hook /\ exec'.todo = Tail(exec.todo)
           ELSE exec'.hook = INVALID /\ exec'.todo = <<>>
    BY WalkStep
  <2>3. ~(Len(exec.todo) > 1) => Tail(exec.todo) = <<>>
    BY <2>1, <2>2, LastOfList
  <2> QED BY <2>1, <2>2, <2>3
<1>2. UNCHANGED graphHeld /\ UNCHANGED disp
  BY ExecutorHolds DEF ExecutorNext
<1>3. PICK s \in Tasks : s = Head(exec.todo)
  BY <1>1, TailOfList
<1>4. Committed(s) /\ ToSet(Tail(exec.todo)) \subseteq ToSet(exec.todo)
  BY <1>1, <1>3, TailOfList DEF TodoInv
<1>5. \A t \in Tasks :
        /\ Occurrences(t, exec.todo) =
             Occurrences(t, exec.todo)' + (IF t = s THEN 1 ELSE 0)
        /\ Occurrences(t, exec.todo)' \in Nat
        /\ Occurrences(t, disp.todo)' = Occurrences(t, disp.todo)
        /\ Occurrences(t, disp.todo) \in Nat
  <2> TAKE t \in Tasks
  <2>1. Occurrences(t, exec.todo)' = Occurrences(t, Tail(exec.todo))
    BY <1>1 DEF Occurrences
  <2>2. Occurrences(t, Tail(exec.todo)) \in Nat
    BY <1>1, TailOfList, OccurrencesType
  <2>3. Occurrences(t, exec.todo) =
          Occurrences(t, Tail(exec.todo)) + (IF Head(exec.todo) = t THEN 1 ELSE 0)
    BY <1>1, OccurrencesTail
  <2>4. Occurrences(t, disp.todo)' = Occurrences(t, disp.todo)
    BY <1>2 DEF Occurrences
  <2>5. Occurrences(t, disp.todo) \in Nat
    BY OccurrencesType DEF TypeOK, DispTypes, DispRegs
  <2> QED BY <1>3, <2>1, <2>2, <2>3, <2>4, <2>5
<1>6. AddFanin(s, ed[Idx(s)]) /\ RunsGrow
  BY <1>3 DEF executor_credit, RunsGrow, Ran
<1>7. /\ UNCHANGED g_successor_buf
      /\ \A t \in Tasks :
           /\ CutHeld(t) /\ Left(t)' = Left(t) /\ Late(t)' = Late(t)
           /\ Committing(t)' => Committing(t) /\ DOMAIN cut'.surv \subseteq DOMAIN cut.surv
           /\ (Committed(t)' <=> Committed(t))
  BY <1>2, HeldGraph
<1>8. Late(s) \in Nat
  BY DEF Late
<1>9. /\ \A t \in Tasks : t # s =>
           /\ Occurrences(t, disp.todo)' = Occurrences(t, disp.todo)
           /\ Occurrences(t, exec.todo)' = Occurrences(t, exec.todo)
      /\ Occurrences(s, disp.todo) + Occurrences(s, exec.todo) + Late(s) =
           Occurrences(s, disp.todo)' + Occurrences(s, exec.todo)' + Late(s)' + 1
      /\ Occurrences(s, disp.todo)' \in Nat /\ Occurrences(s, exec.todo)' \in Nat
  BY <1>5, <1>7, <1>8
<1>10. CreditInv' /\ \A p \in Tasks : Dispatched(p)' <=> Dispatched(p)
  BY <1>4, <1>6, <1>7, <1>9, CreditWritten
<1>11. TodoInv'
  <2>1. disp.todo \in Seq(Tasks)
    BY DEF TypeOK, DispTypes, DispRegs
  <2>2. ToSet(disp.todo) \subseteq Tasks /\ ToSet(exec.todo) \subseteq Tasks
    BY <1>1, <2>1, ListFacts
  <2> QED BY <1>1, <1>2, <1>4, <1>7, <2>2 DEF TodoInv
<1> QED BY <1>10, <1>11

----------------------------------------------------------------------------
(* An entry rewritten with other fields than those of the credits.         *)
LEMMA EntryRewritten ==
  ASSUME NoReuse, TypeOK, NEW t \in Tasks, NEW m2, ed' = [ed EXCEPT ![t] = m2],
         m2.snap = ed[t].snap, m2.target = ed[t].target, m2.fanin = ed[t].fanin,
         m2.dispatch_tag = ed[t].dispatch_tag, m2.spec = ed[t].spec
  PROVE  \A s \in Tasks : CreditHeld(s)
<1>1. t \in Rings /\ ed \in [Rings -> EdMeta] /\ Tasks \subseteq Rings
  BY IdxSame DEF TypeOK, EdTypes
<1>2. ed'[t] = m2 /\ \A s \in Tasks : s # t => ed'[s] = ed[s]
  BY <1>1
<1> QED BY <1>2 DEF CreditHeld

(* The steps of the dispatcher that are not of Hook 0 write no credit and  *)
(* leave its registers of Hook 0 alone.                                    *)
LEMMA DispatcherQuiet ==
  ASSUME NoReuse, TypeOK, SlotInv, ED_ENABLE, DispatcherNext,
         ~dispatcher_hook0, ~dispatcher_credit
  PROVE  /\ \A t \in Tasks : CreditHeld(t)
         /\ disp'.todo = disp.todo /\ disp'.hook = disp.hook
<1>1. disp \in DispRegs
  BY DEF TypeOK, DispTypes
<1>2. \A d \in DispRegs : EndOfED(d).todo = d.todo /\ EndOfED(d).hook = d.hook
  BY DEF EndOfED, DispRegs
<1>3. \A d \in DispRegs : NextPass(d).todo = d.todo /\ NextPass(d).hook = d.hook
  BY DEF NextPass, DispRegs
<1>4. CASE drain_completed_snapshot
  <2>1. UNCHANGED ed
    BY <1>4 DEF drain_completed_snapshot
  <2>2. \E k : disp' = [disp EXCEPT !.pc = "dequeue", !.pass = 1, !.flush = k]
    BY <1>4 DEF drain_completed_snapshot
  <2> QED BY <1>1, <2>1, <2>2 DEF CreditHeld, DispRegs
<1>5. CASE dispatch_finish \/ stage_mask
  <2>1. UNCHANGED ed
    BY <1>5 DEF dispatch_finish, stage_mask
  <2>2. \E k : disp' = [disp EXCEPT !.pc = k]
    BY <1>5 DEF dispatch_finish, stage_mask
  <2> QED BY <1>1, <2>1, <2>2 DEF CreditHeld, DispRegs
<1>6. CASE begin_ed \/ try_nothing \/ try_no_slot
  <2>1. /\ UNCHANGED ed
        /\ \/ disp' = EndOfED(disp)
           \/ disp' = [disp EXCEPT !.pc = "try", !.tries = ED_DRAIN_MAX_PER_ROUND]
    BY <1>6 DEF begin_ed, try_nothing, try_no_slot
  <2> QED BY <1>1, <1>2, <2>1 DEF CreditHeld, DispRegs
<1>7. CASE send_task_dequeue
  <2>1. UNCHANGED ed
    BY <1>7 DEF send_task_dequeue
  <2>2. \/ disp' = NextPass(disp)
        \/ \E b, a : disp' = [disp EXCEPT !.pc = "send", !.batch = b, !.avail = a]
    BY <1>7 DEF send_task_dequeue
  <2> QED BY <1>1, <1>3, <2>1, <2>2 DEF CreditHeld, DispRegs
<1>8. CASE send_task
  <2> DEFINE t == Head(disp.batch)
             u == FirstFree(Type, PickedCore)
             k == CountOf(Idx(t))
             r == Record(t, u)
             m2 == [ed[t] EXCEPT !.next_block = k, !.dispatch = r]
  <2>1. t \in Tasks /\ Idx(t) = t /\ disp.pc = "send"
    BY <1>8, SendTaskStep, IdxSame
  <2>2. t \in Rings /\ ed \in [Rings -> EdMeta]
    BY <2>1, IdxSame DEF TypeOK, EdTypes
  <2>3. CASE ~Claimable(t)
    <3>1. UNCHANGED ed /\ disp' = AfterSend(disp)
      BY <1>8, <2>3 DEF send_task
    <3>2. disp.batch # <<>>
      BY <2>1 DEF TypeOK, DispTypes
    <3> QED BY <1>1, <3>1, <3>2, AfterSendHook DEF CreditHeld
  <2>4. CASE Claimable(t)
    <3>1. /\ ed' = [ed EXCEPT ![Idx(t)].next_block = k, ![Idx(t)].dispatch = r]
          /\ disp' = [[disp EXCEPT !.avail = @ \ {u[2]}] EXCEPT !.pc = "hook0"]
      BY <1>8, <2>4 DEF send_task
    <3>2. ed' = [ed EXCEPT ![t] = m2]
      BY <2>1, <2>2, <3>1
    <3>3. /\ m2.snap = ed[t].snap /\ m2.target = ed[t].target /\ m2.fanin = ed[t].fanin
          /\ m2.dispatch_tag = ed[t].dispatch_tag /\ m2.spec = ed[t].spec
      <4>1. ed[t] \in EdMeta
        BY <2>2
      <4> HIDE DEF k, r
      <4> QED BY <4>1 DEF EdMeta
    <3>4. \A s \in Tasks : CreditHeld(s)
      <4> HIDE DEF m2
      <4> QED BY <2>1, <3>2, <3>3, EntryRewritten
    <3> QED BY <1>1, <3>1, <3>4 DEF DispRegs
  <2> QED BY <2>3, <2>4
<1>9. CASE try_stage
  <2> DEFINE t == Head(g_ed_ready_queue)
             k == CountOf(Idx(t))
             m2 == [ed[t] EXCEPT !.next_block = k]
  <2>1. t \in Tasks /\ Idx(t) = t
    BY <1>9, TryStageStep, IdxSame
  <2>2. t \in Rings /\ ed \in [Rings -> EdMeta]
    BY <2>1, IdxSame DEF TypeOK, EdTypes
  <2>3. \/ disp' = EndOfED(disp) /\ UNCHANGED ed
        \/ /\ ed' = [ed EXCEPT ![Idx(t)].next_block = k]
           /\ disp'.hook = disp.hook /\ disp'.todo = disp.todo
    BY <1>9, TryStageStep
  <2>4. CASE disp' = EndOfED(disp) /\ UNCHANGED ed
    BY <1>1, <1>2, <2>4 DEF CreditHeld
  <2>5. CASE /\ ed' = [ed EXCEPT ![Idx(t)].next_block = k]
             /\ disp'.hook = disp.hook /\ disp'.todo = disp.todo
    <3>1. ed' = [ed EXCEPT ![t] = m2]
      BY <2>1, <2>2, <2>5
    <3>2. /\ m2.snap = ed[t].snap /\ m2.target = ed[t].target /\ m2.fanin = ed[t].fanin
          /\ m2.dispatch_tag = ed[t].dispatch_tag /\ m2.spec = ed[t].spec
      <4>1. ed[t] \in EdMeta
        BY <2>2
      <4> HIDE DEF k
      <4> QED BY <4>1 DEF EdMeta
    <3> HIDE DEF m2
    <3>3. \A s \in Tasks : CreditHeld(s)
      BY <2>1, <3>1, <3>2, EntryRewritten
    <3> QED BY <2>5, <3>3
  <2> QED BY <2>3, <2>4, <2>5
<1>10. CASE stage_record
  <2> DEFINE t == exe[disp.unit].task
             r == Record(t, disp.unit)
             m2 == [ed[t] EXCEPT !.staged = r]
  <2>1. t \in Tasks
    BY <1>10 DEF stage_record, TypeOK, DispTypes, SlotTypes, Slot
  <2>2. Idx(t) = t /\ t \in Rings /\ ed \in [Rings -> EdMeta]
    BY <2>1, IdxSame DEF TypeOK, EdTypes
  <2>3. ed' = [ed EXCEPT ![t] = m2] /\ disp' = [disp EXCEPT !.pc = "check"]
    BY <1>10, <2>2 DEF stage_record
  <2>4. /\ m2.snap = ed[t].snap /\ m2.target = ed[t].target /\ m2.fanin = ed[t].fanin
        /\ m2.dispatch_tag = ed[t].dispatch_tag /\ m2.spec = ed[t].spec
    <3>1. ed[t] \in EdMeta
      BY <2>2
    <3> HIDE DEF r
    <3> QED BY <3>1 DEF EdMeta
  <2>5. \A s \in Tasks : CreditHeld(s)
    <3> HIDE DEF m2
    <3> QED BY <2>1, <2>3, <2>4, EntryRewritten
  <2> QED BY <1>1, <2>3, <2>5 DEF DispRegs
<1>11. CASE stage_check
  <2> DEFINE t == exe[disp.unit].task
             m2 == [ed[t] EXCEPT !.claimed = 1]
  <2>1. t \in Tasks
    BY <1>11 DEF stage_check, TypeOK, DispTypes, SlotTypes, Slot
  <2>2. Idx(t) = t /\ t \in Rings /\ ed \in [Rings -> EdMeta]
    BY <2>1, IdxSame DEF TypeOK, EdTypes
  <2>3. UNCHANGED ed \/ ed' = [ed EXCEPT ![t] = m2]
    BY <1>11, <2>2 DEF stage_check, ed_notify_once
  <2>4. /\ m2.snap = ed[t].snap /\ m2.target = ed[t].target /\ m2.fanin = ed[t].fanin
        /\ m2.dispatch_tag = ed[t].dispatch_tag /\ m2.spec = ed[t].spec
    <3>1. ed[t] \in EdMeta
      BY <2>2
    <3> QED BY <3>1 DEF EdMeta
  <2>5. \A s \in Tasks : CreditHeld(s)
    <3>1. CASE UNCHANGED ed
      BY <3>1 DEF CreditHeld
    <3>2. CASE ed' = [ed EXCEPT ![t] = m2]
      <4> HIDE DEF m2
      <4> QED BY <2>1, <2>4, <3>2, EntryRewritten
    <3> QED BY <2>3, <3>1, <3>2
  <2>6. disp'.todo = disp.todo /\ disp'.hook = disp.hook
    <3> DEFINE d == [disp EXCEPT !.unit = INVALID]
    <3>1. d \in DispRegs /\ d.todo = disp.todo /\ d.hook = disp.hook
      BY <1>1 DEF DispRegs, MaybeUnit
    <3>2. disp' = IF disp.tries > 1 THEN [d EXCEPT !.pc = "try", !.tries = @ - 1] ELSE EndOfED(d)
      BY <1>11 DEF stage_check
    <3> HIDE DEF d
    <3> QED BY <1>2, <3>1, <3>2 DEF DispRegs
  <2> QED BY <2>5, <2>6
<1> QED BY <1>4, <1>5, <1>6, <1>7, <1>8, <1>9, <1>10, <1>11 DEF DispatcherNext

(* So do those of the executor.                                            *)
LEMMA ExecutorQuiet ==
  ASSUME NoReuse, TypeOK, ExecutorNext, ~executor_hook0, ~executor_credit
  PROVE  /\ \A t \in Tasks : CreditHeld(t)
         /\ exec'.todo = exec.todo /\ exec'.hook = exec.hook
<1>1. exec \in ExecRegs
  BY DEF TypeOK, ExecTypes
<1>2. ASSUME NEW u \in Units, complete_slot(u)
      PROVE  /\ \A t \in Tasks : CreditHeld(t)
             /\ exec'.todo = exec.todo /\ exec'.hook = exec.hook
  <2> DEFINE t == exe[u].task
             m2 == ClearedRecord(ed[t], t)
  <2>1. t \in Tasks /\ exec'.todo = exec.todo /\ exec'.hook = exec.hook
    BY <1>2, CompleteSlotStep
  <2>2. Idx(t) = t /\ t \in Rings /\ ed \in [Rings -> EdMeta]
    BY <2>1, IdxSame DEF TypeOK, EdTypes
  <2>3. UNCHANGED ed \/ ed' = [ed EXCEPT ![t] = m2]
    BY <1>2, <2>2 DEF complete_slot
  <2>4. /\ m2.snap = ed[t].snap /\ m2.target = ed[t].target /\ m2.fanin = ed[t].fanin
        /\ m2.dispatch_tag = ed[t].dispatch_tag /\ m2.spec = ed[t].spec
    <3>1. ed[t] \in EdMeta
      BY <2>2
    <3> QED BY <3>1 DEF EdMeta, ClearedRecord
  <2>5. CASE UNCHANGED ed
    BY <2>1, <2>5 DEF CreditHeld
  <2>6. CASE ed' = [ed EXCEPT ![t] = m2]
    <3> HIDE DEF m2
    <3>1. \A s \in Tasks : CreditHeld(s)
      BY <2>1, <2>4, <2>6, EntryRewritten
    <3> QED BY <2>1, <3>1
  <2> QED BY <2>3, <2>5, <2>6
<1>3. CASE poll_open
  <2>1. exec'.todo = exec.todo /\ exec'.hook = exec.hook
    BY <1>3, PollOpenStep
  <2>2. UNCHANGED ed
    BY <1>3 DEF poll_open
  <2> QED BY <2>1, <2>2 DEF CreditHeld
<1>4. CASE poll_not_rung
  <2>1. exec'.todo = exec.todo /\ exec'.hook = exec.hook
    BY <1>4, WalkStep
  <2>2. UNCHANGED ed
    BY <1>4 DEF poll_not_rung
  <2> QED BY <2>1, <2>2 DEF CreditHeld
<1>5. CASE \/ \E u \in Units : start(u)
           \/ signal \/ executor_exit
           \/ \E y \in Types : drain_mask(y)
           \/ \E c \in Types \X Cores : poll_core(c)
  <2>1. UNCHANGED ed
    BY <1>5 DEF start, signal, drain_mask, poll_core, executor_exit
  <2>2. exec'.todo = exec.todo /\ exec'.hook = exec.hook
    <3>1. CASE \E u \in Units : start(u)
      BY <1>1, <3>1 DEF start, ExecRegs
    <3>2. CASE signal \/ executor_exit
      BY <1>1, <3>2 DEF signal, executor_exit, ExecRegs
    <3>3. CASE \E y \in Types : drain_mask(y)
      BY <1>1, <3>3 DEF drain_mask, ExecRegs
    <3>4. CASE \E c \in Types \X Cores : poll_core(c)
      BY <1>1, <3>4 DEF poll_core, ExecRegs
    <3> QED BY <1>5, <3>1, <3>2, <3>3, <3>4
  <2> QED BY <2>1, <2>2 DEF CreditHeld
<1> QED BY <1>2, <1>3, <1>4, <1>5 DEF ExecutorNext

----------------------------------------------------------------------------
(* Hook 0 marks the task as dispatched and does nothing else to it.        *)
LEMMA Hook0Meta ==
  ASSUME NoReuse, TypeOK, NEW p \in Tasks, TagIs(p), Hook0Enter(p)
  PROVE  /\ Dispatched(p)'
         /\ \A t \in Tasks : t # p => (Dispatched(t)' <=> Dispatched(t))
         /\ \A t \in Tasks :
              /\ ed'[t].snap = ed[t].snap /\ ed'[t].target = ed[t].target
              /\ ed'[t].fanin = ed[t].fanin /\ ed'[t].spec = ed[t].spec
              /\ ed'[t].staged = ed[t].staged
<1> DEFINE m2 == MarkDispatched(ed[p], p)
<1>1. /\ Idx(p) = p /\ p \in Rings /\ ed \in [Rings -> EdMeta] /\ Tasks \subseteq Rings
  BY IdxSame DEF TypeOK, EdTypes
<1>2. ed' = [ed EXCEPT ![p] = m2]
  BY <1>1 DEF Hook0Enter
<1>3. /\ m2.snap = ed[p].snap /\ m2.target = ed[p].target /\ m2.fanin = ed[p].fanin
      /\ m2.spec = ed[p].spec /\ m2.staged = ed[p].staged /\ m2.dispatch_tag = p
  BY <1>1 DEF MarkDispatched, EdMeta
<1> HIDE DEF m2
<1>4. ed'[p] = m2 /\ \A t \in Tasks : t # p => ed'[t] = ed[t]
  BY <1>1, <1>2
<1> QED BY <1>3, <1>4 DEF Dispatched

(* The credits are exact after the entry into Hook 0: each edge that is in *)
(* the list of the task now counts, and is one of those to write.          *)
LEMMA Hook0Credits ==
  ASSUME NoReuse, TypeOK, TypeOK', CreditInv, NEW p \in Tasks, TagIs(p), ~Dispatched(p),
         Hook0Enter(p), UNCHANGED graphHeld, RunsGrow,
         \A t \in Tasks :
           Occurrences(t, disp.todo)' + Occurrences(t, exec.todo)' =
             Occurrences(t, disp.todo) + Occurrences(t, exec.todo)
               + Occurrences(t, g_successor_buf[p])
  PROVE  CreditInv'
<1>1. /\ Dispatched(p)'
      /\ \A t \in Tasks : t # p => (Dispatched(t)' <=> Dispatched(t))
      /\ \A t \in Tasks :
           /\ ed'[t].snap = ed[t].snap /\ ed'[t].target = ed[t].target
           /\ ed'[t].fanin = ed[t].fanin /\ ed'[t].spec = ed[t].spec
  BY Hook0Meta
<1>2. /\ UNCHANGED g_successor_buf
      /\ \A t \in Tasks :
           /\ CutHeld(t) /\ Left(t)' = Left(t) /\ Late(t)' = Late(t)
           /\ Committing(t)' => Committing(t) /\ DOMAIN cut'.surv \subseteq DOMAIN cut.surv
           /\ (Committed(t)' <=> Committed(t))
  BY HeldGraph
<1> SUFFICES ASSUME NEW s \in Tasks, Committed(s)'
             PROVE  TaskCredits(s)'
  BY DEF CreditInv
<1>3. SnapExact(s) /\ EdgesExact(s) /\ CreditsExact(s) /\ StagedInTime(s)
  BY <1>2 DEF CreditInv, TaskCredits
<1>4. /\ SnapExact(s)' /\ Placed(s)' = Placed(s)
      /\ \A q \in Tasks : PlacedOf(s, q)' = PlacedOf(s, q)
  BY <1>1, <1>2, <1>3, SnapStands
<1>5. EdgesExact(s)'
  BY <1>2, <1>3, <1>4 DEF EdgesExact, Occurrences
<1>6. /\ \A S : S \subseteq DOMAIN ed[s].snap => IsFiniteSet(S) /\ Cardinality(S) \in Nat
      /\ Placed(s) \subseteq DOMAIN ed[s].snap /\ Credited(s) \subseteq Placed(s)
      /\ ed[s].fanin \in Nat /\ Late(s) \in Nat
      /\ Occurrences(s, disp.todo) \in Nat /\ Occurrences(s, exec.todo) \in Nat
  BY <1>3, CreditTypes
<1>7. \A k \in DOMAIN Preds[s] : Preds[s][k] \in Tasks
  BY PredecessorFacts
<1>8. Credited(s)' = Credited(s) \cup PlacedOf(s, p) /\ Credited(s) \cap PlacedOf(s, p) = {}
  <2>1. Placed(s) \subseteq DOMAIN Preds[s]
    BY <1>3, <1>6 DEF SnapExact
  <2>2. \A k \in Placed(s) : Dispatched(Preds[s][k])' <=>
                               Dispatched(Preds[s][k]) \/ Preds[s][k] = p
    BY <1>1, <1>7, <2>1
  <2>3. Credited(s)' = {k \in Placed(s) : Dispatched(Preds[s][k])'}
    BY <1>4 DEF Credited
  <2>4. Credited(s)' = Credited(s) \cup PlacedOf(s, p)
    BY <2>2, <2>3 DEF Credited, PlacedOf
  <2> QED BY <2>4 DEF Credited, PlacedOf
<1>9. Cardinality(Credited(s)') = Cardinality(Credited(s)) + Cardinality(PlacedOf(s, p))
  <2>1. PlacedOf(s, p) \subseteq DOMAIN ed[s].snap /\ Credited(s) \subseteq DOMAIN ed[s].snap
    BY <1>6 DEF PlacedOf
  <2>2. IsFiniteSet(Credited(s)) /\ IsFiniteSet(PlacedOf(s, p))
    BY <1>6, <2>1
  <2>3. Cardinality(Credited(s)) \in Nat /\ Cardinality(PlacedOf(s, p)) \in Nat
    BY <1>6, <2>1
  <2>4. Cardinality(Credited(s) \cup PlacedOf(s, p)) =
          Cardinality(Credited(s)) + Cardinality(PlacedOf(s, p)) - Cardinality({})
    BY <1>8, <2>2, FS_Union
  <2> QED BY <1>8, <2>3, <2>4, FS_EmptySet
<1>10. CreditsExact(s)'
  <2>1. Occurrences(s, g_successor_buf[p]) = Cardinality(PlacedOf(s, p))
    BY <1>3 DEF EdgesExact
  <2>2. g_successor_buf[p] \in Seq(Tasks)
    BY IdxSame DEF TypeOK, GraphTypes
  <2>3. Occurrences(s, g_successor_buf[p]) \in Nat
    BY <2>2, OccurrencesType
  <2>4. Occurrences(s, disp.todo)' \in Nat /\ Occurrences(s, exec.todo)' \in Nat
    <3>1. disp'.todo \in Seq(Tasks) /\ exec'.todo \in Seq(Tasks)
      BY DEF TypeOK, DispTypes, DispRegs, ExecTypes, ExecRegs
    <3>2. Occurrences(s, disp'.todo) \in Nat /\ Occurrences(s, exec'.todo) \in Nat
      BY <3>1, OccurrencesType
    <3> QED BY <3>2 DEF Occurrences
  <2>5. ed[s].fanin + Occurrences(s, disp.todo) + Occurrences(s, exec.todo) + Late(s)
          = Cardinality(Credited(s))
    BY <1>3 DEF CreditsExact
  <2>6. Occurrences(s, disp.todo)' + Occurrences(s, exec.todo)' =
          Occurrences(s, disp.todo) + Occurrences(s, exec.todo)
            + Occurrences(s, g_successor_buf[p])
    OBVIOUS
  <2>7. ed'[s].fanin + Occurrences(s, disp.todo)' + Occurrences(s, exec.todo)' + Late(s)'
          = Cardinality(Credited(s)')
    BY <1>1, <1>2, <1>6, <1>9, <2>1, <2>3, <2>4, <2>5, <2>6
  <2> QED BY <2>7 DEF CreditsExact
<1>11. StagedInTime(s)'
  <2>1. \A k \in DOMAIN Preds[s] : Dispatched(Preds[s][k]) => Dispatched(Preds[s][k])'
    BY <1>1, <1>7
  <2> QED BY <1>1, <1>3, <1>7, <2>1 DEF StagedInTime, RunsGrow
<1> QED BY <1>4, <1>5, <1>10, <1>11 DEF TaskCredits

(* The dispatcher enters Hook 0 of the task it has just sent.              *)
LEMMA DispatcherHook0Credits ==
  ASSUME NoReuse, TypeOK, TypeOK', EntryInv, EdgeInv, CreditInv, TodoInv, HookInv, ED_ENABLE,
         dispatcher_hook0, NEW p \in Tasks, p = Head(disp.batch)
  PROVE  /\ CreditInv' /\ TodoInv' /\ DispatcherHooks(p)
         /\ Hook0Enter(p) /\ TagIs(p) /\ \A t \in Tasks : ~DispatcherHooks(t)'
<1>1. DispatcherHooks(p) /\ Hook0Enter(p)
  BY DEF dispatcher_hook0, DispatcherHooks
<1>2. Committed(p) /\ ~Dispatched(p) /\ TagIs(p)
  BY <1>1 DEF HookInv, Hook0Due, Claimed, EntryInv
<1>3. UNCHANGED graphHeld /\ UNCHANGED <<exec, runs>> /\ RunsGrow
  BY DispatcherHolds DEF DispatcherNext, RunsGrow, Ran
<1>4. disp \in DispRegs /\ disp.batch # <<>> /\ disp.hook = INVALID /\ disp.todo = <<>>
  BY DEF dispatcher_hook0, TypeOK, DispTypes, TodoInv
<1>5. Hook0Todo(p) = g_successor_buf[p] /\ g_successor_buf[p] \in Seq(Tasks)
  BY <1>2, IdxSame DEF Hook0Todo, TypeOK, GraphTypes
<1>6. /\ disp'.todo = g_successor_buf[p]
      /\ disp'.hook = INVALID => disp'.todo = <<>> /\ disp'.pc # "hook0"
  <2> DEFINE w == g_successor_buf[p]
  <2>1. disp' = IF w = <<>> THEN AfterSend(disp) ELSE [disp EXCEPT !.hook = p, !.todo = w]
    BY <1>5 DEF dispatcher_hook0
  <2> HIDE DEF w
  <2>2. CASE w = <<>>
    BY <1>4, <2>1, <2>2, AfterSendHook DEF w
  <2>3. CASE w # <<>>
    <3>1. disp'.hook = p /\ disp'.todo = w
      BY <1>4, <2>1, <2>3 DEF DispRegs
    <3> QED BY <3>1, InvalidAssumption DEF w
  <2> QED BY <2>2, <2>3
<1>7. \A t \in Tasks :
        Occurrences(t, disp.todo)' + Occurrences(t, exec.todo)' =
          Occurrences(t, disp.todo) + Occurrences(t, exec.todo)
            + Occurrences(t, g_successor_buf[p])
  <2> TAKE t \in Tasks
  <2>1. Occurrences(t, disp.todo)' = Occurrences(t, g_successor_buf[p])
    BY <1>6 DEF Occurrences
  <2>2. Occurrences(t, disp.todo) = 0
    BY <1>4, OccurrencesEmpty
  <2>3. Occurrences(t, exec.todo)' = Occurrences(t, exec.todo)
    BY <1>3 DEF Occurrences
  <2>4. exec.todo \in Seq(Tasks)
    BY DEF TypeOK, ExecTypes, ExecRegs
  <2>5. Occurrences(t, exec.todo) \in Nat /\ Occurrences(t, g_successor_buf[p]) \in Nat
    BY <1>5, <2>4, OccurrencesType
  <2> QED BY <2>1, <2>2, <2>3, <2>5
<1>8. CreditInv'
  BY <1>1, <1>2, <1>3, <1>7, Hook0Credits
<1>9. TodoInv'
  <2>1. \A t \in Tasks : Committed(t)' <=> Committed(t)
    BY <1>3, HeldGraph
  <2>2. ToSet(g_successor_buf[p]) \subseteq Tasks
    BY <1>5, ListFacts
  <2>3. \A t \in ToSet(g_successor_buf[p]) : Committed(t)'
    BY <2>1, <2>2 DEF EdgeInv
  <2>4. exec.todo \in Seq(Tasks)
    BY DEF TypeOK, ExecTypes, ExecRegs
  <2>5. ToSet(exec.todo) \subseteq Tasks
    BY <2>4, ListFacts
  <2>6. \A t \in ToSet(exec.todo) : Committed(t)'
    BY <2>1, <2>5 DEF TodoInv
  <2> QED BY <1>3, <1>6, <2>3, <2>6 DEF TodoInv
<1> QED BY <1>1, <1>2, <1>6, <1>8, <1>9 DEF DispatcherHooks

(* The executor enters Hook 0 of the task whose gate it has opened.        *)
LEMMA ExecutorHook0Credits ==
  ASSUME NoReuse, TypeOK, TypeOK', EntryInv, EdgeInv, CreditInv, TodoInv, HookInv, ED_ENABLE,
         executor_hook0, NEW p \in Tasks, p = exe[exec.unit].task
  PROVE  /\ CreditInv' /\ TodoInv' /\ ExecutorHooks(p)
         /\ Hook0Enter(p) /\ TagIs(p)
<1>1. ExecutorHooks(p) /\ Hook0Enter(p)
  BY DEF executor_hook0, ExecutorHooks
<1>2. Committed(p) /\ ~Dispatched(p) /\ TagIs(p)
  BY <1>1 DEF HookInv, Hook0Due, Claimed, EntryInv
<1>3. UNCHANGED graphHeld /\ UNCHANGED disp
  BY ExecutorHolds DEF ExecutorNext
<1>4. RunsGrow /\ exec.todo = <<>>
  BY DEF executor_hook0, RunsGrow, Ran, TodoInv
<1>5. Hook0Todo(p) = g_successor_buf[p] /\ g_successor_buf[p] \in Seq(Tasks)
  BY <1>2, IdxSame DEF Hook0Todo, TypeOK, GraphTypes
<1>6. /\ exec'.todo = g_successor_buf[p]
      /\ exec'.hook = INVALID => exec'.todo = <<>>
  <2>1. IF g_successor_buf[p] = <<>> THEN exec'.hook = INVALID /\ exec'.todo = exec.todo
        ELSE exec'.hook = p /\ exec'.todo = g_successor_buf[p]
    BY <1>5, WalkStep
  <2> QED BY <1>4, <2>1, InvalidAssumption
<1>7. \A t \in Tasks :
        Occurrences(t, disp.todo)' + Occurrences(t, exec.todo)' =
          Occurrences(t, disp.todo) + Occurrences(t, exec.todo)
            + Occurrences(t, g_successor_buf[p])
  <2> TAKE t \in Tasks
  <2>1. Occurrences(t, exec.todo)' = Occurrences(t, g_successor_buf[p])
    BY <1>6 DEF Occurrences
  <2>2. Occurrences(t, exec.todo) = 0
    BY <1>4, OccurrencesEmpty
  <2>3. Occurrences(t, disp.todo)' = Occurrences(t, disp.todo)
    BY <1>3 DEF Occurrences
  <2>4. disp.todo \in Seq(Tasks)
    BY DEF TypeOK, DispTypes, DispRegs
  <2>5. Occurrences(t, disp.todo) \in Nat /\ Occurrences(t, g_successor_buf[p]) \in Nat
    BY <1>5, <2>4, OccurrencesType
  <2> QED BY <2>1, <2>2, <2>3, <2>5
<1>8. CreditInv'
  BY <1>1, <1>2, <1>3, <1>4, <1>7, Hook0Credits
<1>9. TodoInv'
  <2>1. \A t \in Tasks : Committed(t)' <=> Committed(t)
    BY <1>3, HeldGraph
  <2>2. ToSet(g_successor_buf[p]) \subseteq Tasks
    BY <1>5, ListFacts
  <2>3. \A t \in ToSet(g_successor_buf[p]) : Committed(t)'
    BY <2>1, <2>2 DEF EdgeInv
  <2>4. disp.todo \in Seq(Tasks)
    BY DEF TypeOK, DispTypes, DispRegs
  <2>5. ToSet(disp.todo) \subseteq Tasks
    BY <2>4, ListFacts
  <2>6. \A t \in ToSet(disp.todo) : Committed(t)'
    BY <2>1, <2>5 DEF TodoInv
  <2> QED BY <1>3, <1>6, <2>3, <2>6 DEF TodoInv
<1> QED BY <1>1, <1>2, <1>8, <1>9

----------------------------------------------------------------------------
(* What the records of Hook 0 say stays true, as the task goes on from its *)
(* claim to its end and is never put back.                                 *)
LEMMA StartedStays ==
  ASSUME NoReuse, TypeOK, SlotInv, WatermarkInv, DagInv, [Next]_vars
  PROVE  \A t \in Tasks : Started(t) => Started(t)'
<1>1. [Dag!DagNext]_DagStatus
  BY StepRefines
<1> SUFFICES ASSUME NEW t \in Tasks, Started(t)
             PROVE  Started(t)'
  OBVIOUS
<1>2. DagStatus[t] \in {"running", "done"}
  BY DEF DagStatus, Started
<1>3. DagStatus'[t] \in {"running", "done"}
  <2>1. CASE UNCHANGED DagStatus
    BY <1>2, <2>1
  <2>2. CASE Dag!DagNext
    <3>1. PICK x \in Tasks : Dag!Submit(x) \/ Dag!Start(x) \/ Dag!Finish(x)
      BY <2>2 DEF Dag!DagNext
    <3>2. PICK s : DagStatus' = [DagStatus EXCEPT ![x] = s] /\ (x = t => s = "done")
      BY <1>2, <3>1 DEF Dag!Submit, Dag!Start, Dag!Finish
    <3>3. DOMAIN DagStatus = Tasks
      BY DEF DagStatus
    <3> QED BY <1>2, <3>2, <3>3
  <2> QED BY <1>1, <2>1, <2>2
<1>4. DagStatus'[t] = IF Running(t)' THEN "running" ELSE IF Ran(t)' THEN "done"
                      ELSE IF t < g_task_id' THEN "waiting" ELSE "absent"
  BY DEF DagStatus
<1> QED BY <1>3, <1>4 DEF Started

(* A step that stages no task and has none in front of Hook 0 that was not *)
(* there before.                                                           *)
LEMMA HooksStand ==
  ASSUME HookInv,
         \A t \in Tasks :
           /\ Dispatched(t)' => Dispatched(t)
           /\ Claimed(t) => Claimed(t)'
           /\ Started(t) => Started(t)'
           /\ \A u \in Units : GateOf(u, t)' => GateOf(u, t)
           /\ DispatcherHooks(t)' =>
                /\ DispatcherHooks(t)
                /\ Claimed(t) => ed'[t].staged = ed[t].staged
           /\ ExecutorHooks(t)' =>
                /\ ExecutorHooks(t)
                /\ Claimed(t) /\ ed[t].staged # INVALID => ed'[t].staged # INVALID
  PROVE  HookInv'
<1> SUFFICES ASSUME NEW t \in Tasks
             PROVE  /\ Dispatched(t)' => Claimed(t)' /\ Started(t)'
                    /\ \A u \in Units : GateOf(u, t)' => ~Dispatched(t)'
                    /\ DispatcherHooks(t)' =>
                         Hook0Due(t)' /\ Started(t)' /\ ed'[t].staged = INVALID
                    /\ ExecutorHooks(t)' => Hook0Due(t)' /\ ed'[t].staged # INVALID
  BY DEF HookInv
<1>1. Dispatched(t)' => Claimed(t)' /\ Started(t)'
  BY DEF HookInv
<1>2. \A u \in Units : GateOf(u, t)' => ~Dispatched(t)'
  BY DEF HookInv
<1>3. Hook0Due(t) => Hook0Due(t)'
  BY DEF Hook0Due
<1>4. DispatcherHooks(t)' => Hook0Due(t)' /\ Started(t)' /\ ed'[t].staged = INVALID
  BY <1>3 DEF HookInv, Hook0Due
<1>5. ExecutorHooks(t)' => Hook0Due(t)' /\ ed'[t].staged # INVALID
  BY <1>3 DEF HookInv, Hook0Due
<1> QED BY <1>1, <1>2, <1>4, <1>5

(* A thread that does not commit keeps the claims its step does not undo.  *)
LEMMA ClaimsHeld ==
  ASSUME ED_ENABLE, UNCHANGED graphHeld, NEW t \in Tasks,
         ed[t].next_block # 0 => ed'[t].next_block # 0
  PROVE  Claimed(t) => Claimed(t)'
<1>1. Committed(t)' <=> Committed(t)
  BY HeldGraph
<1> QED BY <1>1 DEF Claimed

(* The cutter neither claims nor stages.                                   *)
LEMMA CutterKeepsHooks ==
  ASSUME NoReuse, TypeOK, DagInv, HookInv, ED_ENABLE, CutterNext,
         \A t \in Tasks : Dispatched(t)' <=> Dispatched(t),
         \A t \in Tasks : Started(t) => Started(t)'
  PROVE  HookInv'
<1>1. CreationInv /\ EntryInv /\ EdgeInv /\ RoundInv /\ StageInv
  BY DEF DagInv
<1>2. CutterHolds
  BY CutterHoldsSlots
<1>3. \A t \in Tasks : Committed(t) => Committed(t)'
  BY <1>1, CommittedMoves
<1>4. \A t \in Tasks : Committed(t) =>
        ed'[t].next_block = ed[t].next_block /\ ed'[t].staged = ed[t].staged
  <2>1. CASE hook2
    <3>1. PICK s \in Tasks : s = Head(cut.work)
      BY <1>1, <2>1, Hook2Step
    <3>2. /\ \A t \in Tasks : t # s => ed'[t] = ed[t]
          /\ ed'[s].next_block = ed[s].next_block /\ ed'[s].staged = ed[s].staged
      BY <1>1, <2>1, <3>1, Hook2Step
    <3> QED BY <3>2
  <2>2. CASE ~hook2
    BY <1>1, <2>2, CutterMeta
  <2> QED BY <2>1, <2>2
<1>5. \A t \in Tasks : Claimed(t) => Claimed(t)' /\ ed'[t].staged = ed[t].staged
  BY <1>3, <1>4 DEF Claimed
<1>6. \A t \in Tasks : /\ \A u \in Units : GateOf(u, t)' => GateOf(u, t)
                       /\ DispatcherHooks(t)' => DispatcherHooks(t)
                       /\ ExecutorHooks(t)' => ExecutorHooks(t)
  <2>1. exec.pc = "hook0" => exec.unit \in Units
    BY DEF TypeOK, ExecTypes
  <2> QED BY <1>2, <2>1 DEF CutterHolds, GateOf, DispatcherHooks, ExecutorHooks
<1> QED BY <1>5, <1>6, HooksStand

(* Only send_task puts the dispatcher in front of Hook 0.                  *)
LEMMA DispatcherAtHook ==
  ASSUME NoReuse, TypeOK, SlotInv, StageInv, EntryInv, DispatcherNext, ED_ENABLE,
         ~dispatcher_hook0, send_task => SkipsTask
  PROVE  \A t \in Tasks : ~DispatcherHooks(t)'
<1>1. disp \in DispRegs
  BY DEF TypeOK, DispTypes
<1>2. CASE dispatcher_credit
  BY <1>2, DispatcherCreditStep DEF DispatcherHooks
<1>3. CASE SkipsTask
  <2>1. disp' = AfterSend(disp) /\ disp.pc = "send"
    BY <1>3 DEF SkipsTask, send_task
  <2>2. disp.batch # <<>>
    BY <2>1 DEF TypeOK, DispTypes
  <2> QED BY <1>1, <2>1, <2>2, AfterSendHook DEF DispatcherHooks
<1>4. CASE send_task_dequeue
  <2>1. \/ disp' = NextPass(disp)
        \/ \E b, a : disp' = [disp EXCEPT !.pc = "send", !.batch = b, !.avail = a]
    BY <1>4 DEF send_task_dequeue
  <2>2. NextPass(disp).pc \in {"dequeue", "ed", "round"}
    BY <1>1, NextPassTypes
  <2> QED BY <1>1, <2>1, <2>2 DEF DispRegs, DispatcherHooks
<1>5. CASE try_stage
  <2>1. disp' = EndOfED(disp) \/ disp'.pc = "mask"
    BY <1>5, TryStageStep
  <2> QED BY <1>1, <2>1 DEF EndOfED, DispRegs, DispatcherHooks
<1>6. CASE begin_ed \/ try_nothing \/ try_no_slot
  <2>1. \/ disp' = EndOfED(disp)
        \/ disp' = [disp EXCEPT !.pc = "try", !.tries = ED_DRAIN_MAX_PER_ROUND]
    BY <1>6 DEF begin_ed, try_nothing, try_no_slot
  <2> QED BY <1>1, <2>1 DEF EndOfED, DispRegs, DispatcherHooks
<1>7. CASE stage_check
  <2>1. exe[disp.unit].task \in Tasks
    BY <1>7 DEF stage_check, TypeOK, DispTypes, SlotTypes, Slot
  <2>2. disp'.pc \in {"try", "round"}
    BY <1>7, <2>1, CheckStep
  <2> QED BY <2>2 DEF DispatcherHooks
<1>8. CASE drain_completed_snapshot \/ dispatch_finish \/ stage_mask \/ stage_record
  <2>1. \E k \in {"dequeue", "done", "record", "check"} : disp'.pc = k
    <3>1. CASE drain_completed_snapshot
      <4>1. \E f : disp' = [disp EXCEPT !.pc = "dequeue", !.pass = 1, !.flush = f]
        BY <3>1 DEF drain_completed_snapshot
      <4> QED BY <1>1, <4>1 DEF DispRegs
    <3>2. CASE dispatch_finish \/ stage_mask \/ stage_record
      BY <1>1, <3>2 DEF dispatch_finish, stage_mask, stage_record, DispRegs
    <3> QED BY <1>8, <3>1, <3>2
  <2> QED BY <2>1 DEF DispatcherHooks
<1> QED BY <1>2, <1>3, <1>4, <1>5, <1>6, <1>7, <1>8 DEF DispatcherNext

(* The dispatcher's steps that neither claim a task nor enter Hook 0.      *)
LEMMA DispatcherQuietHooks ==
  ASSUME NoReuse, TypeOK, SlotInv, DagInv, HookInv, ED_ENABLE, DispatcherNext,
         ~dispatcher_hook0, send_task => SkipsTask, try_stage => DropsTask,
         \A t \in Tasks : Dispatched(t)' => Dispatched(t),
         \A t \in Tasks : Started(t) => Started(t)'
  PROVE  HookInv'
<1>1. EntryInv /\ StageInv
  BY DEF DagInv
<1>2. UNCHANGED graphHeld /\ UNCHANGED exec
  BY DispatcherHolds
<1>3. \A t \in Tasks : ~DispatcherHooks(t)'
  BY <1>1, DispatcherAtHook
<1>4. \A t \in Tasks : /\ ed'[t].next_block = ed[t].next_block
                       /\ ed[t].staged # INVALID => ed'[t].staged # INVALID
  <2>1. CASE DispatcherWalks
    BY <2>1, WalkMeta DEF MetaHeld
  <2>2. CASE drain_completed_snapshot
    <3>1. UNCHANGED ed
      BY <2>2 DEF drain_completed_snapshot
    <3> QED BY <3>1
  <2>3. CASE stage_record
    <3>1. PICK s \in Tasks : s = exe[disp.unit].task
      BY <2>3 DEF stage_record, TypeOK, DispTypes, SlotTypes, Slot
    <3>2. disp.unit \in Units
      BY <2>3 DEF stage_record, TypeOK, DispTypes
    <3>3. ed' = [ed EXCEPT ![Idx(s)].staged = Record(s, disp.unit)]
      BY <2>3, <3>1 DEF stage_record
    <3>4. ed'[s].staged = Record(s, disp.unit) /\ Record(s, disp.unit) # INVALID
      BY <3>2, <3>3, RecordMeta
    <3>5. /\ ed'[s].next_block = ed[s].next_block
          /\ \A t \in Tasks : t # s => ed'[t] = ed[t]
      BY <3>2, <3>3, RecordMeta
    <3> QED BY <3>4, <3>5
  <2>4. CASE stage_check
    <3>1. PICK s \in Tasks : s = exe[disp.unit].task
      BY <2>4 DEF stage_check, TypeOK, DispTypes, SlotTypes, Slot
    <3>2. \A t \in Tasks :
            /\ t # s => ed'[t] = ed[t]
            /\ ed'[t].next_block = ed[t].next_block /\ ed'[t].staged = ed[t].staged
      BY <1>1, <2>4, <3>1, CheckStep
    <3> QED BY <3>2
  <2> QED BY <2>1, <2>2, <2>3, <2>4 DEF DispatcherNext, DispatcherWalks
<1>5. \A u \in Units : exe'[u].state = exe[u].state /\ exe'[u].task = exe[u].task
  <2>1. CASE DispatcherWalks
    BY <2>1, WalkMeta
  <2>2. CASE drain_completed_snapshot \/ stage_record
    <3>1. UNCHANGED exe
      BY <2>2 DEF drain_completed_snapshot, stage_record
    <3> QED BY <3>1
  <2>3. CASE stage_check
    <3>1. PICK s \in Tasks : s = exe[disp.unit].task
      BY <2>3 DEF stage_check, TypeOK, DispTypes, SlotTypes, Slot
    <3>2. \/ /\ exe'[disp.unit].state = exe[disp.unit].state /\ exe'[disp.unit].task = s
             /\ \A v \in Units : v # disp.unit => exe'[v] = exe[v]
          \/ exe' = exe
      BY <1>1, <2>3, <3>1, CheckStep
    <3> QED BY <3>1, <3>2
  <2> QED BY <2>1, <2>2, <2>3 DEF DispatcherNext, DispatcherWalks
<1>6. \A t \in Tasks : Claimed(t) => Claimed(t)'
  BY <1>2, <1>4, ClaimsHeld
<1>7. \A t \in Tasks : /\ \A u \in Units : GateOf(u, t)' => GateOf(u, t)
                       /\ ExecutorHooks(t)' => ExecutorHooks(t)
  <2>1. exec.pc = "hook0" => exec.unit \in Units
    BY DEF TypeOK, ExecTypes
  <2> QED BY <1>2, <1>5, <2>1 DEF GateOf, ExecutorHooks
<1> QED BY <1>3, <1>4, <1>6, <1>7, HooksStand

(* send_task claims the task and has it run before Hook 0.                 *)
LEMMA SendKeepsHooks ==
  ASSUME NoReuse, TypeOK, SlotInv, GateInv, DagInv, HookInv, ED_ENABLE, send_task, ~SkipsTask,
         \A t \in Tasks : Dispatched(t)' <=> Dispatched(t),
         \A t \in Tasks : Started(t) => Started(t)'
  PROVE  HookInv'
<1>1. EntryInv /\ StageInv /\ LaneInv
  BY DEF DagInv
<1>2. UNCHANGED graphHeld /\ UNCHANGED exec
  BY DispatcherHolds DEF DispatcherNext
<1>3. disp.pc = "send"
  BY DEF send_task
<1>4. PICK t \in Tasks : t = Head(disp.batch) /\ Due(t)
  BY <1>1, <1>3, HeadLeaves
<1>5. /\ ed[t].next_block = 0 /\ CountOf(Idx(t)) # 0 /\ ed'[t].next_block = CountOf(Idx(t))
      /\ \A s \in Tasks : (s # t => ed'[s] = ed[s]) /\ ed'[s].staged = ed[s].staged
      /\ disp'.pc = "hook0" /\ disp'.batch = disp.batch
  BY <1>3, <1>4, SendTaskMeta
<1>6. PICK u \in Units :
        /\ exe[u].state = "EMPTY" /\ exe'[u].state = "RUNNABLE" /\ exe'[u].task = t
        /\ \A v \in Units \ {u} : exe'[v] = exe[v]
  BY <1>4, SendTaskStep DEF SkipsTask
<1>7. ~Claimed(t) /\ Claimed(t)' /\ \A s \in Tasks : Claimed(s) => Claimed(s)'
  <2>1. \A s \in Tasks : Committed(s)' <=> Committed(s)
    BY <1>2, HeldGraph
  <2> QED BY <1>4, <1>5, <2>1 DEF Claimed, Due
<1>8. ~Dispatched(t) /\ Started(t)' /\ ed[t].staged = INVALID
  <2>1. Recorded(t)
    BY <1>1, <1>4 DEF StageInv, Due
  <2>2. u \in SlotsOf(t, "RUNNABLE")'
    BY <1>6 DEF SlotsOf, InState
  <2> QED BY <1>5, <1>7, <2>1, <2>2 DEF HookInv, Recorded, Started, Running
<1>9. \A s \in Tasks : \A v \in Units : GateOf(v, s)' => GateOf(v, s)
  BY <1>6 DEF GateOf
<1>10. \A s \in Tasks : ExecutorHooks(s)' => ExecutorHooks(s)
  <2>1. exec.pc = "hook0" => exec.unit \in Units /\ exe[exec.unit].state = "RUNNABLE"
    BY DEF TypeOK, ExecTypes, GateInv, WalkInv
  <2>2. exec.pc = "hook0" => exe'[exec.unit] = exe[exec.unit]
    BY <1>6, <2>1
  <2> QED BY <1>2, <2>2 DEF ExecutorHooks
<1>11. \A s \in Tasks : DispatcherHooks(s)' => s = t
  BY <1>4, <1>5 DEF DispatcherHooks
<1> SUFFICES ASSUME NEW s \in Tasks
             PROVE  /\ Dispatched(s)' => Claimed(s)' /\ Started(s)'
                    /\ \A v \in Units : GateOf(v, s)' => ~Dispatched(s)'
                    /\ DispatcherHooks(s)' =>
                         Hook0Due(s)' /\ Started(s)' /\ ed'[s].staged = INVALID
                    /\ ExecutorHooks(s)' => Hook0Due(s)' /\ ed'[s].staged # INVALID
  BY DEF HookInv
<1>12. Dispatched(s)' => Claimed(s)' /\ Started(s)'
  BY <1>7 DEF HookInv
<1>13. \A v \in Units : GateOf(v, s)' => ~Dispatched(s)'
  BY <1>9 DEF HookInv
<1>14. DispatcherHooks(s)' => Hook0Due(s)' /\ Started(s)' /\ ed'[s].staged = INVALID
  BY <1>5, <1>7, <1>8, <1>11 DEF Hook0Due
<1>15. ExecutorHooks(s)' => Hook0Due(s)' /\ ed'[s].staged # INVALID
  BY <1>5, <1>7, <1>10 DEF HookInv, Hook0Due
<1> QED BY <1>12, <1>13, <1>14, <1>15

(* try_stage gates a task nobody has claimed, so none that is dispatched.  *)
LEMMA StageKeepsHooks ==
  ASSUME NoReuse, TypeOK, SlotInv, GateInv, DagInv, HookInv, ED_ENABLE, try_stage, ~DropsTask,
         \A t \in Tasks : Dispatched(t)' <=> Dispatched(t),
         \A t \in Tasks : Started(t) => Started(t)'
  PROVE  HookInv'
<1>1. EntryInv /\ StageInv /\ CreationInv
  BY DEF DagInv
<1>2. UNCHANGED graphHeld /\ UNCHANGED exec
  BY DispatcherHolds DEF DispatcherNext
<1>3. PICK t \in Tasks : t = Head(g_ed_ready_queue)
  BY TryStageStep
<1>4. Idx(t) = t
  BY IdxSame
<1>5. /\ ed[t].next_block = 0 /\ ed' = [ed EXCEPT ![Idx(t)].next_block = CountOf(Idx(t))]
      /\ \E u \in Units :
           /\ exe[u].state = "EMPTY" /\ exe'[u].state = "GATED" /\ exe'[u].task = t
           /\ \A v \in Units \ {u} : exe'[v] = exe[v]
  BY <1>3, <1>4, TryStageStep DEF DropsTask
<1>6. PICK u \in Units :
        /\ exe[u].state = "EMPTY" /\ exe'[u].state = "GATED" /\ exe'[u].task = t
        /\ \A v \in Units \ {u} : exe'[v] = exe[v]
  BY <1>5
<1>7. \A s \in Tasks : (s # t => ed'[s] = ed[s]) /\ ed'[s].staged = ed[s].staged
  <2>1. CountOf(Idx(t)) \in Nat
    <3>1. t \in Rings /\ g_basic_buf \in [Rings -> MaybeTask]
      BY IdxSame DEF TypeOK, OrchTypes
    <3> QED BY <1>4, <3>1, GraphAssumption DEF CountOf, MaybeTask
  <2>2. PICK n \in Nat : ed' = [ed EXCEPT ![Idx(t)].next_block = n]
    BY <1>5, <2>1
  <2>3. \A s \in Tasks : /\ s # t => ed'[s] = ed[s]
                         /\ ed'[s].ring_task_tag = ed[s].ring_task_tag /\ ed'[s].spec = ed[s].spec
                         /\ ed'[s].staged = ed[s].staged /\ ed'[s].claimed = ed[s].claimed
    BY <2>2, StageMeta
  <2> QED BY <2>3
<1>8. ~Claimed(t) /\ \A s \in Tasks : Claimed(s) => Claimed(s)'
  <2>1. ~Claimed(t)
    BY <1>5 DEF Claimed
  <2>2. \A s \in Tasks : s # t => (Claimed(s) => Claimed(s)')
    BY <1>2, <1>7, ClaimsHeld
  <2> QED BY <2>1, <2>2
<1>9. ~Dispatched(t)'
  BY <1>8 DEF HookInv
<1>10. \A s \in Tasks : ~DispatcherHooks(s)'
  <2>1. ~dispatcher_hook0 /\ ~send_task
    BY TryStageStep DEF dispatcher_hook0, send_task
  <2> QED BY <1>1, <2>1, DispatcherAtHook DEF DispatcherNext
<1>11. \A s \in Tasks : ExecutorHooks(s)' => ExecutorHooks(s)
  <2>1. exec.pc = "hook0" => exec.unit \in Units /\ exe[exec.unit].state = "RUNNABLE"
    BY DEF TypeOK, ExecTypes, GateInv, WalkInv
  <2>2. exec.pc = "hook0" => exe'[exec.unit] = exe[exec.unit]
    BY <1>6, <2>1
  <2> QED BY <1>2, <2>2 DEF ExecutorHooks
<1> SUFFICES ASSUME NEW s \in Tasks
             PROVE  /\ Dispatched(s)' => Claimed(s)' /\ Started(s)'
                    /\ \A v \in Units : GateOf(v, s)' => ~Dispatched(s)'
                    /\ DispatcherHooks(s)' =>
                         Hook0Due(s)' /\ Started(s)' /\ ed'[s].staged = INVALID
                    /\ ExecutorHooks(s)' => Hook0Due(s)' /\ ed'[s].staged # INVALID
  BY DEF HookInv
<1>12. Dispatched(s)' => Claimed(s)' /\ Started(s)'
  BY <1>8 DEF HookInv
<1>13. \A v \in Units : GateOf(v, s)' => ~Dispatched(s)'
  <2> SUFFICES ASSUME NEW v \in Units, GateOf(v, s)'
               PROVE  ~Dispatched(s)'
    OBVIOUS
  <2>1. CASE v = u
    BY <1>6, <1>9, <2>1 DEF GateOf
  <2>2. CASE v # u
    BY <1>6, <2>2 DEF GateOf, HookInv
  <2> QED BY <2>1, <2>2
<1>14. ExecutorHooks(s)' => Hook0Due(s)' /\ ed'[s].staged # INVALID
  BY <1>7, <1>8, <1>11 DEF HookInv, Hook0Due
<1> QED BY <1>10, <1>12, <1>13, <1>14

(* Hook 0 of the dispatcher marks a task that runs, is behind no gate, and *)
(* is not the one the executor has in front of its own Hook 0.             *)
LEMMA DispatcherHook0Hooks ==
  ASSUME NoReuse, TypeOK, DagInv, HookInv, ED_ENABLE, dispatcher_hook0,
         NEW p \in Tasks, DispatcherHooks(p), Hook0Enter(p), TagIs(p),
         \A t \in Tasks : ~DispatcherHooks(t)',
         \A t \in Tasks : Started(t) => Started(t)'
  PROVE  HookInv'
<1>1. UNCHANGED graphHeld /\ UNCHANGED <<exec, exe>>
  BY DispatcherHolds DEF DispatcherNext, dispatcher_hook0, hook0Frame
<1>2. /\ \A t \in Tasks : t # p => (Dispatched(t)' <=> Dispatched(t))
      /\ \A t \in Tasks : ed'[t].staged = ed[t].staged
  BY Hook0Meta
<1>3. \A t \in Tasks : Claimed(t) => Claimed(t)'
  BY <1>1, Hook0MetaHeld, ClaimsHeld DEF MetaHeld
<1>4. Claimed(p) /\ Started(p) /\ ed[p].staged = INVALID
  BY DEF HookInv, Hook0Due
<1>5. \A u \in Units : ~GateOf(u, p)
  <2>1. ~Staging
    BY DEF Staging, DispatcherHooks
  <2>2. \A u \in Units : GateOf(u, p) => Gated(u, p)
    BY DEF DagInv, StageInv, GateOf
  <2> QED BY <1>4, <2>1, <2>2 DEF Gated
<1>6. ~ExecutorHooks(p)
  BY <1>4 DEF HookInv
<1>7. \A t \in Tasks : /\ ExecutorHooks(t)' => ExecutorHooks(t)
                       /\ \A u \in Units : GateOf(u, t)' => GateOf(u, t)
  BY <1>1 DEF ExecutorHooks, GateOf
<1> SUFFICES ASSUME NEW s \in Tasks
             PROVE  /\ Dispatched(s)' => Claimed(s)' /\ Started(s)'
                    /\ \A v \in Units : GateOf(v, s)' => ~Dispatched(s)'
                    /\ DispatcherHooks(s)' =>
                         Hook0Due(s)' /\ Started(s)' /\ ed'[s].staged = INVALID
                    /\ ExecutorHooks(s)' => Hook0Due(s)' /\ ed'[s].staged # INVALID
  BY DEF HookInv
<1>8. Dispatched(s)' => Claimed(s)' /\ Started(s)'
  BY <1>2, <1>3, <1>4 DEF HookInv
<1>9. \A v \in Units : GateOf(v, s)' => ~Dispatched(s)'
  BY <1>2, <1>5, <1>7 DEF HookInv
<1>10. ExecutorHooks(s)' => Hook0Due(s)' /\ ed'[s].staged # INVALID
  BY <1>2, <1>3, <1>6, <1>7 DEF HookInv, Hook0Due
<1> QED BY <1>8, <1>9, <1>10

(* The dispatcher keeps all of the account.                                *)
LEMMA DispatcherKeepsFanin ==
  ASSUME NoReuse, TypeOK, TypeOK', SlotInv, GateInv, DagInv, ED_ENABLE,
         CreditInv, TodoInv, HookInv, DispatcherNext,
         \A t \in Tasks : Started(t) => Started(t)'
  PROVE  CreditInv' /\ TodoInv' /\ HookInv'
<1>1. EntryInv /\ EdgeInv /\ CreationInv /\ StageInv
  BY DEF DagInv
<1>2. CASE dispatcher_hook0
  <2>1. PICK p \in Tasks : p = Head(disp.batch)
    <3>1. disp.batch \in Seq(Tasks) /\ disp.batch # <<>>
      BY <1>2 DEF dispatcher_hook0, TypeOK, DispTypes, DispRegs
    <3> QED BY <3>1, TailOfList
  <2>2. /\ CreditInv' /\ TodoInv' /\ DispatcherHooks(p)
        /\ Hook0Enter(p) /\ TagIs(p) /\ \A t \in Tasks : ~DispatcherHooks(t)'
    BY <1>1, <1>2, <2>1, DispatcherHook0Credits
  <2> QED BY <1>2, <2>2, DispatcherHook0Hooks
<1>3. CASE dispatcher_credit
  <2>1. CreditInv' /\ TodoInv' /\ \A p \in Tasks : Dispatched(p)' <=> Dispatched(p)
    BY <1>3, DispatcherCredits
  <2>2. ~dispatcher_hook0 /\ ~send_task /\ ~try_stage
    BY <1>3, DispatcherCreditStep DEF dispatcher_hook0, dispatcher_credit, send_task,
       try_stage, TryHead
  <2> QED BY <2>1, <2>2, DispatcherQuietHooks
<1>4. CASE ~dispatcher_hook0 /\ ~dispatcher_credit
  <2>1. /\ \A t \in Tasks : CreditHeld(t)
        /\ disp'.todo = disp.todo /\ disp'.hook = disp.hook
    BY <1>4, DispatcherQuiet
  <2>2. UNCHANGED graphHeld /\ UNCHANGED <<exec, runs>>
    BY DispatcherHolds
  <2>3. RunsGrow
    BY <2>2 DEF RunsGrow, Ran
  <2>4. disp.todo \in Seq(Tasks) /\ exec.todo \in Seq(Tasks)
    BY DEF TypeOK, DispTypes, DispRegs, ExecTypes, ExecRegs
  <2>5. /\ UNCHANGED g_successor_buf
        /\ \A t \in Tasks : CutHeld(t) /\ (Committed(t)' <=> Committed(t))
    BY <2>2, HeldGraph
  <2>6. CreditInv' /\ TodoInv'
    BY <2>1, <2>2, <2>3, <2>4, <2>5, QuietCredits
  <2>7. \A t \in Tasks : Dispatched(t)' <=> Dispatched(t)
    BY <2>1 DEF CreditHeld, Dispatched
  <2>8. HookInv'
    <3>1. CASE send_task /\ ~SkipsTask
      BY <2>7, <3>1, SendKeepsHooks
    <3>2. CASE try_stage /\ ~DropsTask
      BY <2>7, <3>2, StageKeepsHooks
    <3>3. CASE (send_task => SkipsTask) /\ (try_stage => DropsTask)
      BY <1>4, <2>7, <3>3, DispatcherQuietHooks
    <3> QED BY <3>1, <3>2, <3>3
  <2> QED BY <2>6, <2>8
<1> QED BY <1>2, <1>3, <1>4

----------------------------------------------------------------------------
(* Only poll_open puts the executor in front of Hook 0.                    *)
LEMMA ExecutorAtHook ==
  ASSUME TypeOK, ExecutorNext, ~poll_open
  PROVE  \A t \in Tasks : ~ExecutorHooks(t)'
<1>1. exec \in ExecRegs
  BY DEF TypeOK, ExecTypes
<1>2. \A e \in ExecRegs, u \in Units, still \in BOOLEAN : PollNext(e, u, still).pc # "hook0"
  BY PollNextTypes
<1>3. CASE executor_hook0
  <2> DEFINE t == exe[exec.unit].task
             w == Hook0Todo(t)
  <2>1. exec' = IF w = <<>> THEN PollNext(exec, exec.unit, exec.still)
                ELSE [exec EXCEPT !.hook = t, !.todo = w]
    BY <1>3 DEF executor_hook0
  <2>2. exec.unit \in Units /\ exec.still \in BOOLEAN /\ t \in Tasks
    BY <1>3 DEF executor_hook0, TypeOK, ExecTypes, ExecRegs, SlotTypes, Slot
  <2> HIDE DEF t, w
  <2>3. CASE w = <<>>
    BY <1>1, <1>2, <2>1, <2>2, <2>3 DEF ExecutorHooks
  <2>4. CASE w # <<>>
    <3>1. exec'.hook = t
      BY <1>1, <2>1, <2>4 DEF ExecRegs
    <3> QED BY <2>2, <3>1, InvalidAssumption DEF ExecutorHooks
  <2> QED BY <2>3, <2>4
<1>4. CASE executor_credit
  <2> DEFINE e == [exec EXCEPT !.hook = INVALID, !.todo = <<>>]
             w == Tail(exec.todo)
  <2>1. /\ exec.hook # INVALID
        /\ exec' = IF Len(exec.todo) > 1 THEN [exec EXCEPT !.todo = w]
                   ELSE PollNext(e, exec.unit, exec.still)
    BY <1>4 DEF executor_credit
  <2>2. exec.unit \in Units /\ exec.still \in BOOLEAN
    BY <2>1 DEF TypeOK, ExecTypes, ExecRegs
  <2>3. e \in ExecRegs
    BY <1>1, EmptyList DEF ExecRegs, MaybeTask
  <2> HIDE DEF e, w
  <2>4. CASE Len(exec.todo) > 1
    <3>1. exec'.hook = exec.hook
      BY <1>1, <2>1, <2>4 DEF ExecRegs
    <3> QED BY <2>1, <3>1 DEF ExecutorHooks
  <2>5. CASE ~(Len(exec.todo) > 1)
    BY <1>2, <2>1, <2>2, <2>3, <2>5 DEF ExecutorHooks
  <2> QED BY <2>4, <2>5
<1>5. CASE poll_not_rung
  <2> DEFINE b == exec.still \/ exe[exec.unit].state = "GATED"
  <2>1. exec' = PollNext(exec, exec.unit, b) /\ exec.unit \in Units
    BY <1>5 DEF poll_not_rung, TypeOK, ExecTypes
  <2>2. b \in BOOLEAN
    BY <1>1 DEF ExecRegs
  <2> HIDE DEF b
  <2> QED BY <1>1, <1>2, <2>1, <2>2 DEF ExecutorHooks
<1>6. ASSUME NEW u \in Units, complete_slot(u)
      PROVE  \A t \in Tasks : ~ExecutorHooks(t)'
  BY <1>6, CompleteSlotStep DEF ExecutorHooks
<1>7. CASE \/ \E u \in Units : start(u)
           \/ signal \/ executor_exit
           \/ \E y \in Types : drain_mask(y)
           \/ \E c \in Types \X Cores : poll_core(c)
  <2>1. exec'.pc # "hook0"
    <3>1. CASE \E u \in Units : start(u)
      BY <1>1, <3>1 DEF start, ExecRegs
    <3>2. CASE signal \/ executor_exit
      BY <1>1, <3>2 DEF signal, executor_exit, ExecRegs
    <3>3. CASE \E y \in Types : drain_mask(y)
      BY <1>1, <3>3 DEF drain_mask, ExecRegs
    <3>4. CASE \E c \in Types \X Cores : poll_core(c)
      BY <1>1, <3>4 DEF poll_core, ExecRegs
    <3> QED BY <1>7, <3>1, <3>2, <3>3, <3>4
  <2> QED BY <2>1 DEF ExecutorHooks
<1> QED BY <1>3, <1>4, <1>5, <1>6, <1>7 DEF ExecutorNext

(* The executor's steps that neither open a gate nor enter Hook 0.         *)
LEMMA ExecutorQuietHooks ==
  ASSUME NoReuse, TypeOK, HookInv, ED_ENABLE, ExecutorNext, ~poll_open, ~executor_hook0,
         \A t \in Tasks : Dispatched(t)' => Dispatched(t),
         \A t \in Tasks : Started(t) => Started(t)'
  PROVE  HookInv'
<1>1. UNCHANGED graphHeld /\ UNCHANGED disp
  BY ExecutorHolds
<1>2. \A t \in Tasks : ~ExecutorHooks(t)'
  BY ExecutorAtHook
<1>3. /\ \A t \in Tasks : MetaHeld(t)
      /\ \A u \in Units : exe'[u].state = "GATED" => exe'[u] = exe[u]
  <2>1. CASE ExecutorWalks
    BY <2>1, ExecutorWalkMeta
  <2>2. ASSUME NEW u \in Units, complete_slot(u)
        PROVE  /\ \A t \in Tasks : MetaHeld(t)
               /\ \A v \in Units : exe'[v].state = "GATED" => exe'[v] = exe[v]
    <3>1. PICK t \in Tasks : t = exe[u].task
      BY <2>2, CompleteSlotStep
    <3>2. CASE UNCHANGED <<exe, ed>>
      BY <3>2 DEF MetaHeld
    <3>3. CASE /\ exe'[u].state = "EMPTY"
               /\ \A v \in Units \ {u} : exe'[v] = exe[v]
      <4>1. ed' = (IF ED_ENABLE THEN [ed EXCEPT ![Idx(t)] = ClearedRecord(@, t)] ELSE ed)
              \/ UNCHANGED ed
        BY <2>2, <3>1 DEF complete_slot
      <4>2. \A s \in Tasks : MetaHeld(s)
        BY <3>1, <4>1, ClearMeta DEF MetaHeld
      <4> QED BY <3>3, <4>2
    <3> QED BY <2>2, <3>2, <3>3, CompleteSlotStep
  <2> QED BY <2>1, <2>2 DEF ExecutorNext, ExecutorWalks
<1>4. \A t \in Tasks : Claimed(t) => Claimed(t)'
  BY <1>1, <1>3, ClaimsHeld DEF MetaHeld
<1>5. \A t \in Tasks : /\ \A u \in Units : GateOf(u, t)' => GateOf(u, t)
                       /\ DispatcherHooks(t)' => DispatcherHooks(t)
                       /\ ed'[t].staged = ed[t].staged
  BY <1>1, <1>3 DEF GateOf, DispatcherHooks, MetaHeld
<1> QED BY <1>2, <1>4, <1>5, HooksStand

(* The gate that opens has a record, and its task is not dispatched yet.   *)
LEMMA OpenKeepsHooks ==
  ASSUME NoReuse, TypeOK, DagInv, HookInv, ED_ENABLE, poll_open,
         \A t \in Tasks : Started(t) => Started(t)'
  PROVE  HookInv'
<1>1. UNCHANGED graphHeld /\ UNCHANGED disp
  BY ExecutorHolds DEF ExecutorNext
<1>2. UNCHANGED ed
  BY DEF poll_open
<1>3. PICK u \in Units :
        /\ exe[u].state = "GATED" /\ exe[u].doorbell = 1
        /\ exe'[u].state = "RUNNABLE" /\ exe'[u].task = exe[u].task
        /\ \A v \in Units \ {u} : exe'[v] = exe[v]
        /\ exec'.unit = u
  BY PollOpenStep
<1>4. PICK t \in Tasks : exe[u].task = t
  BY DEF TypeOK, SlotTypes, Slot
<1>5. Claimed(t)
  BY <1>3, <1>4 DEF DagInv, ClaimInv, HeldOnce, Holds, Occupies
<1>6. ed[t].staged # INVALID
  <2>1. Gated(u, t) /\ Recorded(t)
    BY <1>3, <1>4, <1>5 DEF DagInv, StageInv, Claimed
  <2> QED BY <1>3, <2>1 DEF Gated, Recorded
<1>7. ~Dispatched(t)
  BY <1>3, <1>4 DEF HookInv, GateOf
<1>8. \A s \in Tasks : /\ Claimed(s) => Claimed(s)'
                       /\ (Dispatched(s)' <=> Dispatched(s))
                       /\ \A v \in Units : GateOf(v, s)' => GateOf(v, s)
                       /\ DispatcherHooks(s)' => DispatcherHooks(s)
                       /\ ExecutorHooks(s)' => s = t
  <2>1. \A s \in Tasks : Claimed(s) => Claimed(s)'
    BY <1>1, <1>2, ClaimsHeld
  <2> QED BY <1>1, <1>2, <1>3, <1>4, <2>1 DEF Dispatched, GateOf, DispatcherHooks, ExecutorHooks
<1> SUFFICES ASSUME NEW s \in Tasks
             PROVE  /\ Dispatched(s)' => Claimed(s)' /\ Started(s)'
                    /\ \A v \in Units : GateOf(v, s)' => ~Dispatched(s)'
                    /\ DispatcherHooks(s)' =>
                         Hook0Due(s)' /\ Started(s)' /\ ed'[s].staged = INVALID
                    /\ ExecutorHooks(s)' => Hook0Due(s)' /\ ed'[s].staged # INVALID
  BY DEF HookInv
<1>9. Dispatched(s)' => Claimed(s)' /\ Started(s)'
  BY <1>8 DEF HookInv
<1>10. \A v \in Units : GateOf(v, s)' => ~Dispatched(s)'
  BY <1>8 DEF HookInv
<1>11. DispatcherHooks(s)' => Hook0Due(s)' /\ Started(s)' /\ ed'[s].staged = INVALID
  BY <1>2, <1>8 DEF HookInv, Hook0Due
<1>12. ExecutorHooks(s)' => Hook0Due(s)' /\ ed'[s].staged # INVALID
  BY <1>2, <1>5, <1>6, <1>7, <1>8 DEF Hook0Due
<1> QED BY <1>9, <1>10, <1>11, <1>12

(* Hook 0 of the executor marks the task behind the gate it has opened.    *)
LEMMA ExecutorHook0Hooks ==
  ASSUME NoReuse, TypeOK, GateInv, DagInv, HookInv, ED_ENABLE, executor_hook0,
         NEW p \in Tasks, ExecutorHooks(p), Hook0Enter(p), TagIs(p),
         \A t \in Tasks : Started(t) => Started(t)'
  PROVE  HookInv'
<1>1. UNCHANGED graphHeld /\ UNCHANGED <<disp, exe>>
  BY ExecutorHolds DEF ExecutorNext, executor_hook0
<1>2. /\ \A t \in Tasks : t # p => (Dispatched(t)' <=> Dispatched(t))
      /\ \A t \in Tasks : ed'[t].staged = ed[t].staged
  BY Hook0Meta
<1>3. \A t \in Tasks : Claimed(t) => Claimed(t)'
  BY <1>1, Hook0MetaHeld, ClaimsHeld DEF MetaHeld
<1>4. Claimed(p) /\ ed[p].staged # INVALID
  BY DEF HookInv, Hook0Due
<1>5. PICK u \in Units : u = exec.unit /\ exe[u].state = "RUNNABLE" /\ exe[u].task = p
  BY DEF TypeOK, ExecTypes, GateInv, WalkInv, ExecutorHooks
<1>6. Started(p)
  BY <1>5 DEF Started, Running, SlotsOf, InState
<1>7. \A v \in Units : ~GateOf(v, p)
  <2>1. Holds(u, p)
    BY <1>5 DEF Holds, Occupies
  <2>2. \A v \in Units : Holds(v, p) => v = u
    BY <2>1 DEF DagInv, ClaimInv, HeldOnce
  <2>3. \A v \in Units : GateOf(v, p) => Holds(v, p)
    BY DEF GateOf, Holds, Occupies
  <2> QED BY <1>5, <2>2, <2>3 DEF GateOf
<1>8. ~DispatcherHooks(p)
  BY <1>4 DEF HookInv
<1>9. \A t \in Tasks : /\ DispatcherHooks(t)' => DispatcherHooks(t)
                       /\ \A v \in Units : GateOf(v, t)' => GateOf(v, t)
                       /\ ~ExecutorHooks(t)'
  <2>1. ~poll_open
    BY DEF poll_open, executor_hook0
  <2>2. \A t \in Tasks : ~ExecutorHooks(t)'
    BY <2>1, ExecutorAtHook DEF ExecutorNext
  <2> QED BY <1>1, <2>2 DEF DispatcherHooks, GateOf
<1> SUFFICES ASSUME NEW s \in Tasks
             PROVE  /\ Dispatched(s)' => Claimed(s)' /\ Started(s)'
                    /\ \A v \in Units : GateOf(v, s)' => ~Dispatched(s)'
                    /\ DispatcherHooks(s)' =>
                         Hook0Due(s)' /\ Started(s)' /\ ed'[s].staged = INVALID
                    /\ ExecutorHooks(s)' => Hook0Due(s)' /\ ed'[s].staged # INVALID
  BY DEF HookInv
<1>10. Dispatched(s)' => Claimed(s)' /\ Started(s)'
  BY <1>2, <1>3, <1>4, <1>6 DEF HookInv
<1>11. \A v \in Units : GateOf(v, s)' => ~Dispatched(s)'
  BY <1>2, <1>7, <1>9 DEF HookInv
<1>12. DispatcherHooks(s)' => Hook0Due(s)' /\ Started(s)' /\ ed'[s].staged = INVALID
  BY <1>2, <1>3, <1>8, <1>9 DEF HookInv, Hook0Due
<1> QED BY <1>9, <1>10, <1>11, <1>12

(* The executor keeps all of the account.                                  *)
LEMMA ExecutorKeepsFanin ==
  ASSUME NoReuse, TypeOK, TypeOK', GateInv, DagInv, ED_ENABLE,
         CreditInv, TodoInv, HookInv, ExecutorNext,
         \A t \in Tasks : Started(t) => Started(t)', RunsGrow
  PROVE  CreditInv' /\ TodoInv' /\ HookInv'
<1>1. EntryInv /\ EdgeInv
  BY DEF DagInv
<1>2. CASE executor_hook0
  <2>1. PICK p \in Tasks : p = exe[exec.unit].task
    BY <1>2 DEF executor_hook0, TypeOK, ExecTypes, SlotTypes, Slot
  <2>2. CreditInv' /\ TodoInv' /\ ExecutorHooks(p) /\ Hook0Enter(p) /\ TagIs(p)
    BY <1>1, <1>2, <2>1, ExecutorHook0Credits
  <2> QED BY <1>2, <2>2, ExecutorHook0Hooks
<1>3. CASE executor_credit
  <2>1. CreditInv' /\ TodoInv' /\ \A p \in Tasks : Dispatched(p)' <=> Dispatched(p)
    BY <1>3, ExecutorCredits
  <2>2. ~poll_open /\ ~executor_hook0
    <3>1. exec.hook # INVALID /\ exec.pc = "hook0"
      BY <1>3, WalkStep
    <3> QED BY <3>1 DEF poll_open, executor_hook0
  <2> QED BY <2>1, <2>2, ExecutorQuietHooks
<1>4. CASE ~executor_hook0 /\ ~executor_credit
  <2>1. /\ \A t \in Tasks : CreditHeld(t)
        /\ exec'.todo = exec.todo /\ exec'.hook = exec.hook
    BY <1>4, ExecutorQuiet
  <2>2. UNCHANGED graphHeld /\ UNCHANGED disp
    BY ExecutorHolds
  <2>3. disp.todo \in Seq(Tasks) /\ exec.todo \in Seq(Tasks)
    BY DEF TypeOK, DispTypes, DispRegs, ExecTypes, ExecRegs
  <2>4. /\ UNCHANGED g_successor_buf
        /\ \A t \in Tasks : CutHeld(t) /\ (Committed(t)' <=> Committed(t))
    BY <2>2, HeldGraph
  <2>5. CreditInv' /\ TodoInv'
    BY <2>1, <2>2, <2>3, <2>4, QuietCredits
  <2>6. \A t \in Tasks : Dispatched(t)' <=> Dispatched(t)
    BY <2>1 DEF CreditHeld, Dispatched
  <2>7. HookInv'
    <3>1. CASE poll_open
      BY <3>1, OpenKeepsHooks
    <3>2. CASE ~poll_open
      BY <1>4, <2>6, <3>2, ExecutorQuietHooks
    <3> QED BY <3>1, <3>2
  <2> QED BY <2>5, <2>7
<1> QED BY <1>2, <1>3, <1>4

----------------------------------------------------------------------------
(* The cutter writes no mark of Hook 0, and the credits it owes.           *)
LEMMA CutterCredits ==
  ASSUME NoReuse, TypeOK, WatermarkInv, DagInv, ED_ENABLE,
         CreditInv, TodoInv, HookInv, CutterNext
  PROVE  CreditInv' /\ TodoInv' /\ \A t \in Tasks : Dispatched(t)' <=> Dispatched(t)
<1>1. CreationInv /\ EntryInv /\ EdgeInv /\ RoundInv
  BY DEF DagInv
<1>2. CASE commit
  BY <1>2, CommitCredits
<1>3. CASE edge
  <2>1. CreditInv' /\ TodoInv' /\ UNCHANGED ed
    BY <1>3, EdgeCredits
  <2> QED BY <2>1 DEF Dispatched
<1>4. CASE late_arrival
  BY <1>4, LateCredits
<1>5. CASE ~commit /\ ~edge /\ ~late_arrival
  <2>1. /\ \A t \in Tasks : CreditHeld(t) /\ CutHeld(t)
        /\ UNCHANGED <<g_successor_buf, disp, exec, runs, g_commit_task_id>>
    BY <1>1, <1>5, CutterQuiet
  <2>2. \A t \in Tasks : Committed(t)' <=> Committed(t)
    BY <1>1, <1>5, CommittedMoves
  <2>3. RunsGrow
    BY <2>1 DEF RunsGrow, Ran
  <2>4. disp.todo \in Seq(Tasks) /\ exec.todo \in Seq(Tasks)
    BY DEF TypeOK, DispTypes, DispRegs, ExecTypes, ExecRegs
  <2>5. CreditInv' /\ TodoInv'
    BY <2>1, <2>2, <2>3, <2>4, QuietCredits
  <2> QED BY <2>1, <2>5 DEF CreditHeld, Dispatched
<1> QED BY <1>2, <1>3, <1>4, <1>5

(* So it keeps the account.                                                *)
LEMMA CutterKeepsFanin ==
  ASSUME NoReuse, TypeOK, WatermarkInv, DagInv, ED_ENABLE,
         CreditInv, TodoInv, HookInv, CutterNext,
         \A t \in Tasks : Started(t) => Started(t)'
  PROVE  CreditInv' /\ TodoInv' /\ HookInv'
BY CutterCredits, CutterKeepsHooks

(* The orchestrator touches nothing of it.                                 *)
LEMMA FaninFrame ==
  ASSUME NoReuse, TypeOK, ED_ENABLE, CreditInv, TodoInv, HookInv,
         UNCHANGED graphHeld, UNCHANGED runHeld
  PROVE  CreditInv' /\ TodoInv' /\ HookInv'
<1>1. UNCHANGED <<disp, ed, exe, exec, runs>> /\ RunsGrow
  BY DEF runHeld, RunsGrow, Ran
<1>2. /\ UNCHANGED g_successor_buf
      /\ \A t \in Tasks : CutHeld(t) /\ (Committed(t)' <=> Committed(t))
  BY HeldGraph
<1>3. \A t \in Tasks : CreditHeld(t) /\ (Dispatched(t)' <=> Dispatched(t))
  BY <1>1 DEF CreditHeld, Dispatched
<1>4. disp.todo \in Seq(Tasks) /\ exec.todo \in Seq(Tasks)
  BY DEF TypeOK, DispTypes, DispRegs, ExecTypes, ExecRegs
<1>5. CreditInv' /\ TodoInv'
  BY <1>1, <1>2, <1>3, <1>4, QuietCredits
<1>6. \A t \in Tasks : /\ Started(t) => Started(t)'
                       /\ \A u \in Units : GateOf(u, t)' => GateOf(u, t)
                       /\ DispatcherHooks(t)' => DispatcherHooks(t)
                       /\ ExecutorHooks(t)' => ExecutorHooks(t)
                       /\ Claimed(t) => Claimed(t)'
  BY <1>1, <1>2 DEF Started, Running, SlotsOf, InState, Ran, GateOf, DispatcherHooks,
     ExecutorHooks, Claimed
<1>7. HookInv'
  BY <1>1, <1>3, <1>6, HooksStand
<1> QED BY <1>5, <1>7

(* At the start no task is committed, and none is dispatched.              *)
LEMMA FaninInit ==
  ASSUME NoReuse, Init
  PROVE  FaninInv
<1>1. \A t \in Tasks : t \in Rings /\ t \in Nat
  BY IdxSame
<1>2. /\ g_commit_task_id = 0 /\ cut.pc = "take"
      /\ disp.todo = <<>> /\ exec.todo = <<>> /\ disp.pc = "round" /\ exec.pc = "scan"
      /\ \A u \in Units : exe[u].state = "EMPTY"
      /\ \A i \in Rings : ed[i] = NoEdMeta
  BY DEF Init, StateInit
<1>3. \A t \in Tasks : ~Committed(t)
  BY <1>1, <1>2 DEF Committed, Committing
<1>4. \A t \in Tasks : ~Dispatched(t)
  BY <1>1, <1>2, InvalidAssumption DEF Dispatched, NoEdMeta
<1>5. TodoInv
  BY <1>2, EmptyList DEF TodoInv
<1>6. HookInv
  BY <1>2, <1>4 DEF HookInv, GateOf, DispatcherHooks, ExecutorHooks
<1> QED BY <1>3, <1>5, <1>6 DEF FaninInv, CreditInv

(* Every step keeps the account.                                           *)
LEMMA FaninStep ==
  ASSUME NoReuse, TypeOK, TypeOK', SlotInv, GateInv, WatermarkInv, DagInv, FaninInv,
         [Next]_vars
  PROVE  FaninInv'
<1> SUFFICES ASSUME ED_ENABLE
             PROVE  CreditInv' /\ TodoInv' /\ HookInv'
  BY DEF FaninInv
<1>1. CreditInv /\ TodoInv /\ HookInv
  BY DEF FaninInv
<1>2. \A t \in Tasks : Started(t) => Started(t)'
  BY StartedStays
<1>3. CASE OrchestratorNext
  <2>1. UNCHANGED graphHeld /\ UNCHANGED runHeld
    BY <1>3 DEF OrchestratorNext, new_task, add_predecessors, publish, orchestration_done,
       orchFrame, graphVars, graphHeld, runHeld
  <2> QED BY <1>1, <2>1, FaninFrame
<1>4. CASE CutterNext
  BY <1>1, <1>2, <1>4, CutterKeepsFanin
<1>5. CASE DispatcherNext
  BY <1>1, <1>2, <1>5, DispatcherKeepsFanin
<1>6. CASE ExecutorNext
  <2>1. UNCHANGED runs \/ \E t \in Tasks : runs' = [runs EXCEPT ![t] = @ + 1]
    <3>1. CASE \E u \in Units : complete_slot(u)
      BY <3>1, CompleteSlotStep
    <3>2. CASE ~\E u \in Units : complete_slot(u)
      BY <1>6, <3>2 DEF ExecutorNext, start, signal, drain_mask, poll_core,
         poll_not_rung, poll_open, executor_hook0, executor_credit, executor_exit
    <3> QED BY <3>1, <3>2
  <2>2. RunsGrow
    BY <2>1, RanGrows DEF RunsGrow
  <2> QED BY <1>1, <1>2, <1>6, <2>2, ExecutorKeepsFanin
<1>7. CASE UNCHANGED vars
  <2>1. UNCHANGED graphHeld /\ UNCHANGED runHeld
    BY <1>7 DEF vars, orchVars, graphVars, ctrlVars, graphHeld, runHeld
  <2> QED BY <1>1, <2>1, FaninFrame
<1> QED BY <1>3, <1>4, <1>5, <1>6, <1>7 DEF Next

(* For a graph that fits into the ring, the account of the dispatch        *)
(* credits is exact in every state: edges, marks and credits, and the ones *)
(* that two threads have taken on and the cutter owes.                     *)
THEOREM FaninHolds ==
  ASSUME NoReuse
  PROVE  Spec => []FaninInv
<1>1. Init => FaninInv
  BY FaninInit
<1>2. /\ TypeOK /\ TypeOK' /\ SlotInv /\ GateInv /\ WatermarkInv /\ DagInv /\ FaninInv
      /\ [Next]_vars
      => FaninInv'
  BY FaninStep
<1> QED BY <1>1, <1>2, InvariantHolds, GatesWatched, CompletionsTold, DagHolds, PTL DEF Spec

----------------------------------------------------------------------------
(* Dispatch credits are neither lost nor counted twice, whether Hook 0     *)
(* (early_dispatch.c) or the append of the edge (cutter.c) comes first: a  *)
(* task is credited once with each predecessor that holds a slot.          *)
THEOREM CreditsNeitherLostNorDoubled ==
  ASSUME NoReuse
  PROVE  Spec => []FaninExact
<1>1. ASSUME TypeOK, DagInv, FaninInv
      PROVE  FaninExact
  <2> SUFFICES ASSUME ED_ENABLE, NEW s \in CommittedTasks
               PROVE  LET m == ed[Idx(s)] IN
                      m.fanin + Occurrences(s, disp.todo) + Occurrences(s, exec.todo)
                        + (IF Committing(s) /\ cut.pc = "late" THEN 1 ELSE 0)
                      = Cardinality({k \in DOMAIN m.snap :
                          /\ Committing(s) => k \notin ToAppend
                          /\ ed[Idx(m.snap[k])].dispatch_tag = m.snap[k]})
    BY DEF FaninExact
  <2>1. s \in Tasks /\ Idx(s) = s
    BY IdxSame DEF CommittedTasks
  <2>2. Committed(s)
    BY <1>1, <2>1, CommittedInRing DEF DagInv
  <2>3. SnapExact(s) /\ CreditsExact(s)
    BY <1>1, <2>1, <2>2 DEF FaninInv, CreditInv, TaskCredits
  <2>4. \A k \in DOMAIN ed[s].snap :
          /\ ed[s].snap[k] = Preds[s][k] /\ Preds[s][k] \in Tasks
          /\ Idx(Preds[s][k]) = Preds[s][k]
    BY <2>1, <2>3, PredecessorFacts, IdxSame DEF SnapExact
  <2>5. Credited(s) = {k \in DOMAIN ed[s].snap :
                         /\ Committing(s) => k \notin ToAppend
                         /\ ed[Idx(ed[s].snap[k])].dispatch_tag = ed[s].snap[k]}
    BY <2>4 DEF Credited, Placed, Left, Dispatched
  <2> QED BY <2>1, <2>3, <2>5 DEF CreditsExact, Late
<1> QED BY <1>1, InvariantHolds, DagHolds, FaninHolds, PTL

(* A task behind a gate waits only for tasks that run or have run, so      *)
(* gated tasks cannot fill the slots the ones they wait for still need.    *)
THEOREM GatesWaitForRunners ==
  ASSUME NoReuse
  PROVE  Spec => []GatedWaitsForDispatched
<1>1. ASSUME TypeOK, DagInv, FaninInv
      PROVE  GatedWaitsForDispatched
  <2> SUFFICES ASSUME NEW u \in InState("GATED"), NEW p \in PredSet[exe[u].task]
               PROVE  Running(p) \/ Ran(p)
    BY DEF GatedWaitsForDispatched
  <2>1. PICK t \in Tasks : t = exe[u].task
    BY <1>1 DEF InState, TypeOK, SlotTypes, Slot
  <2>2. u \in Units /\ exe[u].state = "GATED"
    BY DEF InState
  <2>3. Gated(u, t) /\ ED_ENABLE
    BY <1>1, <2>1, <2>2 DEF DagInv, StageInv, Gated
  <2>4. Committed(t)
    BY <1>1, <2>1, <2>2, <2>3 DEF DagInv, ClaimInv, HeldOnce, Holds, Occupies, Claimed
  <2>5. CASE ed[t].spec = "STAGING"
    <3>1. PICK k \in DOMAIN Preds[t] : Preds[t][k] = p
      BY <2>1, PredecessorFacts
    <3>2. p \in Tasks
      BY <2>1, PredecessorFacts
    <3>3. Dispatched(p) \/ Ran(p)
      BY <1>1, <2>3, <2>4, <2>5, <3>1 DEF FaninInv, CreditInv, TaskCredits, StagedInTime
    <3> QED BY <1>1, <2>3, <3>2, <3>3 DEF FaninInv, HookInv, Started
  <2>6. CASE ed[t].spec = "DISPATCHED"
    <3>1. Due(t)
      BY <1>1, <2>3, <2>4, <2>6 DEF DagInv, DueInv
    <3> QED BY <1>1, <2>1, <3>1, DueMeansReady DEF DagInv
  <2> QED BY <2>3, <2>5, <2>6 DEF Gated
<1> QED BY <1>1, InvariantHolds, DagHolds, FaninHolds, PTL

----------------------------------------------------------------------------
(* What main finds at the end.                                             *)

(* The sets main's counters are the sizes of are finite.                   *)
LEMMA TaskSets ==
  /\ IsFiniteSet(Tasks) /\ Cardinality(Tasks) = N /\ N \in Nat \ {0}
  /\ \A S : S \subseteq Tasks => IsFiniteSet(S) /\ Cardinality(S) \in Nat
<1>1. \A a, b \in Int : IsFiniteSet(a .. b) /\ Cardinality(a .. b) = IF a > b THEN 0 ELSE b - a + 1
  BY FS_Interval
<1>2. N \in Nat \ {0}
  BY ConfigAssumption
<1>3. IsFiniteSet(0 .. N - 1) /\ Cardinality(0 .. N - 1) = N
  BY <1>1, <1>2
<1>4. IsFiniteSet(Tasks) /\ Cardinality(Tasks) = N
  BY <1>3 DEF Tasks
<1>5. \A S : S \subseteq Tasks => IsFiniteSet(S)
  BY <1>4, FS_Subset
<1> QED BY <1>2, <1>4, <1>5, FS_CardinalityType

(* The cutter moves what it takes from the queue to the completed tasks.   *)
LEMMA TakeCounts ==
  ASSUME NoReuse, TypeOK, WatermarkInv, DagInv, CountedInv, take_completed
  PROVE  g_completed_cnt' =
           Len(completed_queue') + Cardinality({t \in Tasks : Completed(t)'})
<1> DEFINE C == {t \in Tasks : Completed(t)}
           D == {t \in Tasks : Completed(t)'}
           B == ToSet(cut'.batch)
<1>1. /\ \A t \in ToSet(completed_queue) : t \in Tasks /\ Committed(t) /\ ~Completed(t)
      /\ Distinct(completed_queue)
  BY ToldRan DEF DagInv
<1>2. /\ cut'.batch \in Seq(Tasks) /\ completed_queue' \in Seq(Tasks)
      /\ completed_queue = cut'.batch \o completed_queue'
      /\ \A t \in Tasks : IF t \in B THEN Completed(t)' ELSE g_state_buf'[t] = g_state_buf[t]
  BY <1>1, TakeStep DEF DagInv
<1>3. Distinct(cut'.batch) /\ B \subseteq ToSet(completed_queue)
  BY <1>1, <1>2, ConcatLists
<1>4. IsFiniteSet(B) /\ Cardinality(B) = Len(cut'.batch)
  BY <1>2, <1>3, DistinctLength
<1>5. D = C \cup B /\ C \cap B = {}
  BY <1>1, <1>2, <1>3 DEF Completed
<1>6. IsFiniteSet(C) /\ Cardinality(C) \in Nat
  BY TaskSets
<1>7. Cardinality(D) = Cardinality(C) + Cardinality(B)
  <2>1. /\ Cardinality(C \cup B) = Cardinality(C) + Cardinality(B) - Cardinality(C \cap B)
        /\ Cardinality(C \cap B) = 0 /\ Cardinality(B) \in Nat
    BY <1>4, <1>5, <1>6, FS_Union, FS_EmptySet, FS_CardinalityType
  <2>2. D = C \cup B
    BY <1>5
  <2>3. Cardinality(C) \in Nat
    BY <1>6
  <2> HIDE DEF C, D, B
  <2>4. Cardinality(C \cup B) = Cardinality(C) + Cardinality(B)
    BY <2>1, <2>3
  <2> QED BY <2>2, <2>4
<1>8. Len(completed_queue) = Len(cut'.batch) + Len(completed_queue')
  BY <1>2, ConcatProperties
<1>9. g_completed_cnt = Len(completed_queue) + Cardinality(C) /\ g_completed_cnt' = g_completed_cnt
  BY DEF CountedInv, take_completed
<1>10. Len(cut'.batch) \in Nat /\ Len(completed_queue') \in Nat
  BY <1>2, LenProperties
<1> HIDE DEF C, D, B
<1>11. g_completed_cnt' = Len(completed_queue') + Cardinality(D)
  BY <1>4, <1>6, <1>7, <1>8, <1>9, <1>10
<1> QED BY <1>11 DEF D

(* The count of completions is exact, and the dispatcher leaves with all.  *)
LEMMA CountedStep ==
  ASSUME NoReuse, TypeOK, SlotInv, WatermarkInv, DagInv, CountedInv, [Next]_vars
  PROVE  CountedInv'
<1> DEFINE Counted == g_completed_cnt =
             Len(completed_queue) + Cardinality({t \in Tasks : Completed(t)})
<1>1. Counted /\ (g_orch_is_done => g_task_id = N) /\ (disp.pc = "done" => g_completed_cnt >= N)
  BY DEF CountedInv
<1>2. CASE OrchestratorNext
  <2>1. UNCHANGED <<g_completed_cnt, completed_queue, g_state_buf, disp>>
    BY <1>2 DEF OrchestratorNext, new_task, add_predecessors, publish, orchestration_done,
       orchFrame, graphVars
  <2>2. g_orch_is_done' => g_task_id' = N
    <3>1. CASE publish
      BY <1>1, <3>1 DEF publish, TypeOK, OrchTypes
    <3>2. CASE orchestration_done
      BY <3>2 DEF orchestration_done
    <3>3. CASE ~publish /\ ~orchestration_done
      BY <1>1, <1>2, <3>3 DEF OrchestratorNext, new_task, add_predecessors, orchVars
    <3> QED BY <3>1, <3>2, <3>3
  <2> QED BY <1>1, <2>1, <2>2 DEF CountedInv, Completed
<1>3. CASE CutterNext
  <2>1. UNCHANGED <<g_completed_cnt, g_orch_is_done, g_task_id, disp>>
    BY <1>3 DEF CutterNext, take_completed, cutter_exit, add_successors_enter, commit, edge,
       late_arrival, resolve_dep_load, resolve_dep, hook2, send_2_ready_queue, cutFrame, orchVars
  <2>2. CASE take_completed
    BY <1>1, <2>1, <2>2, TakeCounts DEF CountedInv
  <2>3. CASE ~take_completed
    <3>1. \A t \in ToSet(completed_queue) : Committed(t)
      BY ToldRan DEF DagInv
    <3>2. \A t \in Tasks : Completed(t)' <=> Completed(t)
      BY <1>3, <2>3, <3>1, CompletedMoves DEF DagInv
    <3>3. completed_queue' = completed_queue
      BY <1>3, <2>3 DEF CutterNext, cutter_exit, add_successors_enter, commit, edge,
         late_arrival, resolve_dep_load, resolve_dep, hook2, send_2_ready_queue, cutFrame
    <3>4. {t \in Tasks : Completed(t)'} = {t \in Tasks : Completed(t)}
      BY <3>2
    <3> QED BY <1>1, <2>1, <3>3, <3>4 DEF CountedInv
  <2> QED BY <2>2, <2>3
<1>4. CASE DispatcherNext
  <2>1. UNCHANGED <<g_state_buf, g_orch_is_done, g_task_id>>
    BY <1>4 DEF DispatcherNext, drain_completed_snapshot, dispatch_finish, send_task_dequeue,
       send_task, dispatcher_hook0, dispatcher_credit, begin_ed, try_nothing, try_no_slot, try_stage,
       stage_mask, stage_record, stage_check, hook0Frame, edFrame, dispFrame, orchVars, graphVars
  <2>2. \A t \in Tasks : Completed(t)' <=> Completed(t)
    BY <2>1 DEF Completed
  <2>3. CASE drain_completed_snapshot
    <3>1. PICK done \in Seq(Tasks) : /\ completed_queue' = completed_queue \o done
                                     /\ g_completed_cnt' = g_completed_cnt + Len(done)
      BY <2>3, SweepStep DEF DagInv, RunInv
    <3>2. disp'.pc = "dequeue"
      BY <2>3 DEF drain_completed_snapshot, TypeOK, DispTypes, DispRegs
    <3>3. /\ completed_queue \in Seq(Tasks) /\ Len(completed_queue) \in Nat /\ Len(done) \in Nat
          /\ Len(completed_queue') = Len(completed_queue) + Len(done)
      BY <3>1, LenProperties, ConcatProperties DEF TypeOK, QueueTypes
    <3> DEFINE C == {t \in Tasks : Completed(t)}
    <3>4. Cardinality(C) \in Nat /\ C' = C
      BY <2>2, TaskSets
    <3>5. g_completed_cnt = Len(completed_queue) + Cardinality(C)
      BY <1>1
    <3> HIDE DEF C
    <3>6. g_completed_cnt' = Len(completed_queue') + Cardinality(C')
      BY <3>1, <3>3, <3>4, <3>5
    <3> QED BY <1>1, <2>1, <3>2, <3>6 DEF CountedInv, C
  <2>4. CASE ~drain_completed_snapshot
    <3>1. UNCHANGED <<g_completed_cnt, completed_queue>>
      BY <1>4, <2>4 DEF DispatcherNext, dispatch_finish, send_task_dequeue,
         send_task, dispatcher_hook0, dispatcher_credit, begin_ed, try_nothing, try_no_slot, try_stage,
         stage_mask, stage_record, stage_check, hook0Frame, edFrame
    <3>2. disp'.pc = "done" => disp.pc = "done" \/ dispatch_finish
      <4>1. CASE dispatcher_credit
        BY <4>1 DEF dispatcher_credit, AfterSend, NextPass, TypeOK, DispTypes, DispRegs
      <4>2. CASE ~dispatcher_credit
        BY <1>4, <2>4, <4>2 DEF DispatcherNext, dispatch_finish, send_task_dequeue,
           send_task, dispatcher_hook0, begin_ed, try_nothing, try_no_slot, try_stage,
           stage_mask, stage_record, stage_check, AfterSend, NextPass, EndOfED, TypeOK, DispTypes, DispRegs
      <4> QED BY <4>1, <4>2
    <3>3. dispatch_finish => g_completed_cnt >= N
      BY <1>1 DEF dispatch_finish, WindowClosed
    <3>4. {t \in Tasks : Completed(t)'} = {t \in Tasks : Completed(t)}
      BY <2>2
    <3> QED BY <1>1, <2>1, <3>1, <3>2, <3>3, <3>4 DEF CountedInv
  <2> QED BY <2>3, <2>4
<1>5. CASE ExecutorNext
  <2>1. UNCHANGED <<g_completed_cnt, completed_queue, g_state_buf, g_orch_is_done, g_task_id, disp>>
    BY <1>5 DEF ExecutorNext, start, complete_slot, signal, drain_mask, poll_core,
       poll_not_rung, poll_open, executor_hook0, executor_credit, executor_exit, exeFrame,
       orchVars, graphVars
  <2> QED BY <1>1, <2>1 DEF CountedInv, Completed
<1>6. CASE UNCHANGED vars
  BY <1>1, <1>6 DEF vars, orchVars, graphVars, CountedInv, Completed
<1> QED BY <1>2, <1>3, <1>4, <1>5, <1>6 DEF Next
----------------------------------------------------------------------------
(* What a step does to the slots, the records of the tasks and the         *)
(* counters: nothing, fill a slot, record a staging, ring a doorbell.      *)
SlotHeld(u) == exe'[u].state = exe[u].state /\ exe'[u].task = exe[u].task
RecordHeld(t) == ed'[t].staged = ed[t].staged /\ ed'[t].claimed = ed[t].claimed
StatsHeld == UNCHANGED stats /\ \A t \in Tasks : RecordHeld(t)

Quiet == StatsHeld /\ \A u \in Units : SlotHeld(u)
Fills(u, t, s) ==
  /\ StatsHeld
  /\ exe[u].state = "EMPTY" /\ exe'[u].state = s /\ exe'[u].task = t
  /\ \A v \in Units \ {u} : SlotHeld(v)
  /\ s = "GATED" => ~Rung(t)
RecordsIt(t) ==
  /\ ~Staged(t) /\ ed'[t].staged # INVALID /\ ed'[t].claimed = ed[t].claimed
  /\ \A s \in Tasks \ {t} : RecordHeld(s)
  /\ \A u \in Units : SlotHeld(u)
  /\ stats' = [stats EXCEPT !.stage = @ + 1]
RingsIt(t) ==
  /\ ~Rung(t) /\ ed'[t].claimed = 1 /\ ed'[t].staged = ed[t].staged
  /\ \E u \in Units : GateOf(u, t)
  /\ \A s \in Tasks \ {t} : RecordHeld(s)
  /\ \A u \in Units : SlotHeld(u)
  /\ stats' = [stats EXCEPT !.bell = @ + 1]

(* Who rings a doorbell counts it.                                         *)
LEMMA NotifyCounts ==
  ASSUME NoReuse, TypeOK, NEW t \in Tasks, NEW r, ed_notify_once(t, r)
  PROVE  \/ ed[t].claimed = 0 /\ ed'[t].claimed = 1 /\ stats' = [stats EXCEPT !.bell = @ + 1]
         \/ UNCHANGED <<ed, exe, stats>>
<1>1. Idx(t) = t /\ t \in Rings /\ ed \in [Rings -> EdMeta]
  BY IdxSame DEF TypeOK, EdTypes
<1>2. CASE NotifyLive(t, r)
  <2>1. /\ ed' = [ed EXCEPT ![t].claimed = 1] /\ stats' = [stats EXCEPT !.bell = @ + 1]
        /\ ed[t].claimed = 0
    BY <1>1, <1>2 DEF ed_notify_once, NotifyLive, Unclaimed
  <2>2. ed'[t].claimed = 1
    BY <1>1, <2>1 DEF EdMeta
  <2> QED BY <2>1, <2>2
<1>3. CASE ~NotifyLive(t, r)
  BY <1>3 DEF ed_notify_once
<1> QED BY <1>2, <1>3

(* Each step of the dispatcher is one of these.                            *)
LEMMA DispatcherDoes ==
  ASSUME NoReuse, TypeOK, SlotInv, DagInv, DispatcherNext
  PROVE  \/ Quiet
         \/ send_task /\ ~SkipsTask /\ \E u \in Units : Fills(u, Head(disp.batch), "RUNNABLE")
         \/ \E u \in Units, t \in Tasks : Fills(u, t, "GATED")
         \/ \E t \in Tasks : RecordsIt(t) /\ ED_ENABLE /\ Committed(t)
         \/ \E t \in Tasks : RingsIt(t) /\ ED_ENABLE /\ Committed(t)
<1>1. EntryInv /\ StageInv /\ CreationInv /\ ClaimInv
  BY DEF DagInv
<1>2. CASE DispatcherWalks
  <2>1. UNCHANGED stats
    BY <1>2 DEF DispatcherWalks, dispatch_finish, send_task_dequeue, SkipsTask, send_task,
       dispatcher_hook0, dispatcher_credit, begin_ed, try_nothing, try_no_slot, DropsTask, try_stage,
       stage_mask, hook0Frame
  <2> QED BY <1>2, <2>1, WalkMeta DEF Quiet, StatsHeld, RecordHeld, SlotHeld, MetaHeld
<1>3. CASE drain_completed_snapshot
  <2>1. UNCHANGED <<ed, exe, stats>>
    BY <1>3 DEF drain_completed_snapshot
  <2> QED BY <2>1 DEF Quiet, StatsHeld, RecordHeld, SlotHeld
<1>4. CASE send_task /\ ~SkipsTask
  <2> DEFINE t == Head(disp.batch)
  <2>1. disp.pc = "send" /\ t \in Tasks
    BY <1>4, SendTaskStep
  <2>2. \A s \in Tasks : RecordHeld(s)
    <3>1. \A s \in Tasks : ed'[s].staged = ed[s].staged /\ ed'[s].claimed = ed[s].claimed
      BY <1>4, <2>1, SendTaskMeta
    <3> QED BY <3>1 DEF RecordHeld
  <2>3. PICK u \in Units : /\ exe[u].state = "EMPTY" /\ exe'[u].state = "RUNNABLE"
                           /\ exe'[u].task = t
                           /\ \A v \in Units \ {u} : exe'[v] = exe[v]
    BY <1>4, <2>1, SendTaskStep DEF SkipsTask
  <2>4. UNCHANGED stats
    BY <1>4 DEF send_task
  <2>5. Fills(u, t, "RUNNABLE")
    BY <2>2, <2>3, <2>4 DEF Fills, StatsHeld, SlotHeld
  <2> QED BY <1>4, <2>5
<1>5. CASE try_stage /\ ~DropsTask
  <2>1. PICK t \in Tasks : t = Head(g_ed_ready_queue) /\ StagingStill(t) /\ disp.pc \in {"ed", "try"}
    BY <1>5, TryStageStep
  <2>2. Idx(t) = t /\ t \in Rings /\ g_basic_buf \in [Rings -> MaybeTask]
    BY IdxSame DEF TypeOK, OrchTypes
  <2>3. /\ ed[t].next_block = 0 /\ ed' = [ed EXCEPT ![Idx(t)].next_block = CountOf(Idx(t))]
        /\ \E u \in Units :
             /\ exe[u].state = "EMPTY" /\ exe'[u].state = "GATED" /\ exe'[u].task = t
             /\ \A v \in Units \ {u} : exe'[v] = exe[v]
    BY <1>5, <2>1, <2>2, TryStageStep DEF DropsTask
  <2>4. PICK u \in Units :
             /\ exe[u].state = "EMPTY" /\ exe'[u].state = "GATED" /\ exe'[u].task = t
             /\ \A v \in Units \ {u} : exe'[v] = exe[v]
    BY <2>3
  <2>5. PICK n \in Nat : ed' = [ed EXCEPT ![Idx(t)].next_block = n]
    <3>1. CountOf(Idx(t)) \in Nat
      BY <2>2, GraphAssumption DEF CountOf, MaybeTask
    <3> HIDE DEF CountOf
    <3> QED BY <2>3, <3>1
  <2>6. \A s \in Tasks : ed'[s].staged = ed[s].staged /\ ed'[s].claimed = ed[s].claimed
    BY <2>5, StageMeta
  <2>7. ~Rung(t)
    <3>1. ED_ENABLE /\ Committed(t)
      BY <1>1, <2>1, <2>2 DEF StageInv, StagingStill, EntryInv
    <3> QED BY <1>1, <2>3, <3>1 DEF StageInv, Recorded, Rung
  <2>8. UNCHANGED stats
    BY <1>5 DEF try_stage
  <2>9. Fills(u, t, "GATED")
    BY <2>4, <2>6, <2>7, <2>8 DEF Fills, StatsHeld, RecordHeld, SlotHeld
  <2> QED BY <2>9
<1>6. CASE stage_record
  <2>1. PICK t \in Tasks : t = exe[disp.unit].task
    BY <1>6 DEF stage_record, TypeOK, DispTypes, SlotTypes, Slot
  <2>2. disp.unit \in Units /\ disp.pc = "record"
    BY <1>6 DEF stage_record, TypeOK, DispTypes
  <2>3. /\ ed' = [ed EXCEPT ![Idx(t)].staged = Record(t, disp.unit)]
        /\ stats' = [stats EXCEPT !.stage = @ + 1] /\ UNCHANGED exe
    BY <1>6, <2>1 DEF stage_record
  <2>4. ed'[t].staged = Record(t, disp.unit) /\ Record(t, disp.unit) # INVALID
    BY <2>2, <2>3, RecordMeta
  <2>5. ed'[t].claimed = ed[t].claimed /\ \A s \in Tasks : s # t => ed'[s] = ed[s]
    BY <2>2, <2>3, RecordMeta
  <2>6. ed[t].staged = INVALID /\ GateOf(disp.unit, t)
    BY <1>1, <2>1, <2>2 DEF StageInv, Staging, GateOf
  <2>7. ED_ENABLE /\ Committed(t)
    <3>1. Claimed(t) /\ ED_ENABLE
      BY <1>1, <2>2, <2>6 DEF StageInv, ClaimInv, HeldOnce, Holds, Occupies, GateOf
    <3> QED BY <3>1 DEF Claimed
  <2>8. RecordsIt(t)
    BY <2>3, <2>4, <2>5, <2>6 DEF RecordsIt, Staged, RecordHeld, SlotHeld
  <2> QED BY <2>7, <2>8
<1>7. CASE stage_check
  <2>1. PICK t \in Tasks : t = exe[disp.unit].task
    BY <1>7 DEF stage_check, TypeOK, DispTypes, SlotTypes, Slot
  <2>2. /\ disp.pc = "check" /\ ED_ENABLE /\ Committed(t) /\ ed[t].staged = Record(t, disp.unit)
        /\ \A s \in Tasks : /\ s # t => ed'[s] = ed[s]
                            /\ ed'[s].staged = ed[s].staged
        /\ \/ /\ ed[t].claimed = 0 /\ ed'[t].claimed = 1
              /\ exe'[disp.unit].state = exe[disp.unit].state /\ exe'[disp.unit].task = t
              /\ \A v \in Units : v # disp.unit => exe'[v] = exe[v]
           \/ ed' = ed /\ exe' = exe
    BY <1>1, <1>7, <2>1, CheckStep
  <2>3. \/ ed[t].claimed = 0 /\ ed'[t].claimed = 1 /\ stats' = [stats EXCEPT !.bell = @ + 1]
        \/ UNCHANGED <<ed, exe, stats>>
    <3>1. ed_notify_once(t, Record(t, disp.unit)) \/ UNCHANGED <<ed, exe, stats>>
      BY <1>7, <2>1 DEF stage_check
    <3> QED BY <3>1, NotifyCounts
  <2>4. CASE UNCHANGED <<ed, exe, stats>>
    BY <2>4 DEF Quiet, StatsHeld, RecordHeld, SlotHeld
  <2>5. CASE ed[t].claimed = 0 /\ ed'[t].claimed = 1 /\ stats' = [stats EXCEPT !.bell = @ + 1]
    <3>1. disp.unit \in Units
      BY <2>2 DEF TypeOK, DispTypes
    <3>2. Record(t, disp.unit) # INVALID /\ Record(t, disp.unit).unit = disp.unit
      BY <3>1, InvalidAssumption DEF Record
    <3>3. GateOf(disp.unit, t)
      BY <1>1, <2>2, <2>5, <3>2 DEF StageInv, Recorded, GateOf
    <3>4. \A u \in Units : SlotHeld(u)
      BY <2>1, <2>2, <2>5 DEF SlotHeld
    <3>5. RingsIt(t)
      BY <2>2, <2>5, <3>1, <3>3, <3>4 DEF RingsIt, Rung, RecordHeld
    <3> QED BY <2>2, <3>5
  <2> QED BY <2>3, <2>4, <2>5
<1> QED BY <1>2, <1>3, <1>4, <1>5, <1>6, <1>7 DEF DispatcherNext, DispatcherWalks, DropsTask

(* The cutter touches them only in Hook 2, where it may ring a doorbell,   *)
(* and when it makes the entry of the task it commits.                     *)
LEMMA CutterDoes ==
  ASSUME NoReuse, TypeOK, DagInv, CutterNext,
         \A t \in Tasks : ~Committed(t) => ~Staged(t) /\ ~Rung(t)
  PROVE  Quiet \/ \E t \in Tasks : RingsIt(t) /\ ED_ENABLE /\ Committed(t)
<1>1. CreationInv /\ EntryInv /\ EdgeInv /\ RoundInv /\ StageInv
  BY DEF DagInv
<1>2. \A u \in Units : SlotHeld(u)
  BY CutterHoldsSlots DEF CutterHolds, SlotHeld
<1>3. CASE hook2
  <2> DEFINE r == ed[Idx(Head(cut.work))].staged
  <2>1. PICK t \in Tasks : t = Head(cut.work) /\ ED_ENABLE /\ Committed(t)
    BY <1>1, <1>3, Hook2Step
  <2>2. /\ \A s \in Tasks : s # t => ed'[s] = ed[s]
        /\ ed'[t].staged = ed[t].staged
        /\ \/ /\ ed[t].claimed = 0 /\ ed'[t].claimed = 1
              /\ ed[t].staged.unit \in Units /\ GateOf(ed[t].staged.unit, t)
           \/ ed' = ed /\ exe' = exe
    BY <1>1, <1>3, <2>1, Hook2Step DEF GateOf
  <2>3. ed_notify_once(t, r) \/ UNCHANGED <<ed, exe, stats>>
    BY <1>3, <2>1 DEF hook2
  <2>4. \/ ed[t].claimed = 0 /\ ed'[t].claimed = 1 /\ stats' = [stats EXCEPT !.bell = @ + 1]
        \/ UNCHANGED <<ed, exe, stats>>
    BY <2>3, NotifyCounts
  <2>5. CASE UNCHANGED <<ed, exe, stats>>
    BY <1>2, <2>5 DEF Quiet, StatsHeld, RecordHeld
  <2>6. CASE ed[t].claimed = 0 /\ ed'[t].claimed = 1 /\ stats' = [stats EXCEPT !.bell = @ + 1]
    BY <1>2, <2>1, <2>2, <2>6 DEF RingsIt, Rung, RecordHeld
  <2> QED BY <2>4, <2>5, <2>6
<1>4. CASE ~hook2
  <2>1. UNCHANGED stats
    BY <1>4 DEF CutterNext, take_completed, cutter_exit, add_successors_enter, commit, edge,
       late_arrival, resolve_dep_load, resolve_dep, send_2_ready_queue
  <2>2. \A t \in Tasks : RecordHeld(t)
    <3>1. CASE commit
      <4> DEFINE s == g_commit_task_id
      <4>1. /\ s \in Tasks /\ ~Committed(s)
            /\ \A t \in Tasks : t # s => ed'[t] = ed[t]
            /\ ~ED_ENABLE => ed' = ed
            /\ ED_ENABLE => ed'[s].staged = INVALID /\ ed'[s].claimed = 0
        BY <1>1, <3>1, CommitStep
      <4>2. ~Staged(s) /\ ~Rung(s)
        BY <4>1
      <4>3. ed[s].claimed \in 0 .. 1
        BY <4>1, IdxSame DEF TypeOK, EdTypes, EdMeta
      <4>4. ED_ENABLE => RecordHeld(s)
        BY <4>1, <4>2, <4>3 DEF RecordHeld, Staged, Rung
      <4> QED BY <4>1, <4>4 DEF RecordHeld
    <3>2. CASE edge
      BY <1>1, <3>2, EdgeStep DEF RecordHeld
    <3>3. CASE late_arrival
      <4>1. g_commit_task_id \in Tasks
        BY <3>3, CommittedTask DEF late_arrival, TypeOK
      <4>2. AddFanin(g_commit_task_id, ed[Idx(g_commit_task_id)])
        BY <3>3 DEF late_arrival
      <4> QED BY <4>1, <4>2, CreditKeeps DEF MetaHeld, RecordHeld
    <3>4. CASE resolve_dep
      BY <1>1, <3>4, ResolveStep DEF RecordHeld
    <3>5. CASE take_completed \/ cutter_exit \/ add_successors_enter \/ resolve_dep_load
               \/ send_2_ready_queue
      BY <3>5 DEF take_completed, cutter_exit, add_successors_enter, resolve_dep_load,
         send_2_ready_queue, RecordHeld
    <3> QED BY <1>4, <3>1, <3>2, <3>3, <3>4, <3>5 DEF CutterNext
  <2> QED BY <1>2, <2>1, <2>2 DEF Quiet, StatsHeld
<1> QED BY <1>3, <1>4

(* The executor empties a slot, or opens a gate.                           *)
Empties(u) ==
  /\ StatsHeld
  /\ exe[u].state = "RUNNABLE" /\ exe'[u].state = "EMPTY" /\ exe'[u].task = exe[u].task
  /\ \A v \in Units \ {u} : SlotHeld(v)
Opens(u, t) ==
  /\ GateOf(u, t) /\ Rung(t) /\ exe'[u].state = "RUNNABLE" /\ exe'[u].task = t
  /\ \A v \in Units \ {u} : SlotHeld(v) /\ ~GateOf(v, t)
  /\ \A s \in Tasks : RecordHeld(s)
  /\ stats' = [stats EXCEPT !.open = @ + 1]

(* Each of its steps does one of these or nothing.                         *)
LEMMA ExecutorDoes ==
  ASSUME NoReuse, TypeOK, DagInv, ExecutorNext
  PROVE  \/ Quiet
         \/ \E u \in Units : Empties(u)
         \/ \E u \in Units, t \in Tasks : Opens(u, t)
<1>1. ClaimInv /\ StageInv
  BY DEF DagInv
<1>2. CASE ExecutorWalks
  <2>1. UNCHANGED stats
    BY <1>2 DEF ExecutorWalks, start, drain_mask, poll_core, poll_not_rung, executor_hook0,
       executor_credit, executor_exit, signal
  <2> QED BY <1>2, <2>1, ExecutorWalkMeta DEF Quiet, StatsHeld, RecordHeld, SlotHeld, MetaHeld
<1>3. CASE poll_open
  <2> DEFINE u == exec.unit
             t == exe[u].task
  <2>1. /\ u \in Units /\ exe[u].state = "GATED" /\ exe[u].doorbell = 1
        /\ exe'[u].state = "RUNNABLE" /\ exe'[u].task = t
        /\ \A v \in Units \ {u} : exe'[v] = exe[v]
    BY <1>3, PollOpenStep
  <2>2. t \in Tasks
    BY <2>1 DEF TypeOK, SlotTypes, Slot
  <2>3. UNCHANGED ed /\ stats' = [stats EXCEPT !.open = @ + 1]
    BY <1>3 DEF poll_open
  <2>4. GateOf(u, t) /\ Rung(t)
    BY <1>1, <2>1, <2>2 DEF StageInv, Gated, GateOf, Rung
  <2>5. \A v \in Units \ {u} : ~GateOf(v, t)
    BY <1>1, <2>1, <2>2, <2>4 DEF ClaimInv, HeldOnce, Holds, Occupies, GateOf
  <2>6. Opens(u, t)
    BY <2>1, <2>3, <2>4, <2>5 DEF Opens, SlotHeld, RecordHeld
  <2> QED BY <2>1, <2>2, <2>6
<1>4. ASSUME NEW u \in Units, complete_slot(u)
      PROVE  Quiet \/ Empties(u)
  <2>1. \/ UNCHANGED <<exe, ed>>
        \/ /\ exe[u].state = "RUNNABLE" /\ exe'[u].state = "EMPTY"
           /\ exe'[u].task = exe[u].task /\ \A v \in Units \ {u} : exe'[v] = exe[v]
    BY <1>4, CompleteSlotStep
  <2>2. \A s \in Tasks : RecordHeld(s)
    <3>1. CASE UNCHANGED ed
      BY <3>1 DEF RecordHeld
    <3>2. CASE ed' = IF ED_ENABLE THEN [ed EXCEPT ![Idx(exe[u].task)] = ClearedRecord(@, exe[u].task)]
                     ELSE ed
      <4>1. exe[u].task \in Tasks
        BY DEF TypeOK, SlotTypes, Slot
      <4> QED BY <3>2, <4>1, ClearMeta DEF MetaHeld, RecordHeld
    <3> QED BY <1>4, <3>1, <3>2 DEF complete_slot
  <2>3. UNCHANGED stats
    BY <1>4 DEF complete_slot
  <2> QED BY <2>1, <2>2, <2>3 DEF Quiet, Empties, StatsHeld, SlotHeld
<1> QED BY <1>2, <1>3, <1>4 DEF ExecutorNext, ExecutorWalks

(* One task more.                                                          *)
LEMMA OneMore ==
  ASSUME NEW S, S \subseteq Tasks, NEW t \in Tasks, t \notin S
  PROVE  Cardinality(S \cup {t}) = Cardinality(S) + 1
<1>1. IsFiniteSet(S)
  BY TaskSets
<1> QED BY <1>1, FS_AddElement

(* The counters stay the sizes of their sets.                              *)
LEMMA StatsMove ==
  ASSUME NoReuse, TypeOK, StatsInv, \A t \in Tasks : Committed(t) => Committed(t)',
         \/ Quiet
         \/ \E u \in Units, t \in Tasks : Fills(u, t, "RUNNABLE") \/ Fills(u, t, "GATED")
         \/ \E t \in Tasks : (RecordsIt(t) \/ RingsIt(t)) /\ ED_ENABLE /\ Committed(t)
         \/ \E u \in Units : Empties(u)
         \/ \E u \in Units, t \in Tasks : Opens(u, t)
  PROVE  StatsInv'
<1> DEFINE S == {t \in Tasks : Staged(t)}
           R == {t \in Tasks : Rung(t)}
           O == {t \in Tasks : Open(t)}
<1>1. /\ stats.stage = Cardinality(S) /\ stats.bell = Cardinality(R)
      /\ stats.open = Cardinality(O) /\ S \subseteq Tasks /\ R \subseteq Tasks /\ O \subseteq Tasks
      /\ \A t \in Tasks : Staged(t) \/ Rung(t) => ED_ENABLE /\ Committed(t)
  BY DEF StatsInv
<1>2. stats \in [stage : Nat, bell : Nat, open : Nat]
  BY DEF TypeOK, EdTypes
<1>3. ASSUME StatsHeld, \A t \in Tasks : Rung(t) =>
                 ((\E u \in Units : GateOf(u, t)) <=> \E u \in Units : GateOf(u, t)')
      PROVE  StatsInv'
  <2>1. UNCHANGED stats /\ \A t \in Tasks : /\ Staged(t)' <=> Staged(t)
                                            /\ Rung(t)' <=> Rung(t)
    BY <1>3 DEF StatsHeld, RecordHeld, Staged, Rung
  <2>2. \A t \in Tasks : Open(t)' <=> Open(t)
    BY <1>3, <2>1 DEF Open
  <2>3. S' = S /\ R' = R /\ O' = O
    BY <2>1, <2>2
  <2>4. \A t \in Tasks : Staged(t)' \/ Rung(t)' => ED_ENABLE /\ Committed(t)'
    BY <1>1, <2>1
  <2>5. /\ stats'.stage = Cardinality(S') /\ stats'.bell = Cardinality(R')
        /\ stats'.open = Cardinality(O')
    <3> HIDE DEF S, R, O
    <3> QED BY <1>1, <2>1, <2>3
  <2> QED BY <2>4, <2>5 DEF StatsInv
<1>4. CASE Quiet
  BY <1>3, <1>4 DEF Quiet, SlotHeld, GateOf
<1>5. ASSUME NEW u \in Units, NEW t \in Tasks, Fills(u, t, "RUNNABLE") \/ Fills(u, t, "GATED")
      PROVE  StatsInv'
  <2>1. \A x \in Tasks : \A v \in Units : Rung(x) => (GateOf(v, x)' <=> GateOf(v, x))
    BY <1>5 DEF Fills, SlotHeld, GateOf
  <2> QED BY <1>3, <1>5, <2>1 DEF Fills
<1>6. ASSUME NEW u \in Units, Empties(u)
      PROVE  StatsInv'
  <2>1. \A x \in Tasks : \A v \in Units : GateOf(v, x)' <=> GateOf(v, x)
    BY <1>6 DEF Empties, SlotHeld, GateOf
  <2> QED BY <1>3, <1>6, <2>1 DEF Empties
<1>7. ASSUME NEW t \in Tasks, RecordsIt(t), ED_ENABLE, Committed(t)
      PROVE  StatsInv'
  <2>1. /\ ~Staged(t) /\ Staged(t)' /\ \A s \in Tasks \ {t} : Staged(s)' <=> Staged(s)
        /\ \A s \in Tasks : Rung(s)' <=> Rung(s)
        /\ \A s \in Tasks : \A u \in Units : GateOf(u, s)' <=> GateOf(u, s)
    BY <1>7 DEF RecordsIt, RecordHeld, SlotHeld, Staged, Rung, GateOf
  <2>2. \A s \in Tasks : Open(s)' <=> Open(s)
    BY <2>1 DEF Open
  <2>3. S' = S \cup {t} /\ t \notin S /\ R' = R /\ O' = O
    BY <2>1, <2>2
  <2>4. \A s \in Tasks : Staged(s)' \/ Rung(s)' => ED_ENABLE /\ Committed(s)'
    BY <1>1, <1>7, <2>1
  <2>5. stats' = [stats EXCEPT !.stage = @ + 1]
    BY <1>7 DEF RecordsIt
  <2>6. /\ stats'.stage = Cardinality(S') /\ stats'.bell = Cardinality(R')
        /\ stats'.open = Cardinality(O')
    <3> HIDE DEF S, R, O
    <3>1. Cardinality(S') = Cardinality(S) + 1
      BY <1>1, <2>3, OneMore
    <3> QED BY <1>1, <1>2, <2>3, <2>5, <3>1
  <2> QED BY <2>4, <2>6 DEF StatsInv
<1>8. ASSUME NEW t \in Tasks, RingsIt(t), ED_ENABLE, Committed(t)
      PROVE  StatsInv'
  <2>1. /\ ~Rung(t) /\ Rung(t)' /\ \A s \in Tasks \ {t} : Rung(s)' <=> Rung(s)
        /\ \A s \in Tasks : Staged(s)' <=> Staged(s)
        /\ \A s \in Tasks : \A u \in Units : GateOf(u, s)' <=> GateOf(u, s)
        /\ \E u \in Units : GateOf(u, t)
    BY <1>8 DEF RingsIt, RecordHeld, SlotHeld, Staged, Rung, GateOf
  <2>2. \A s \in Tasks : Open(s)' <=> Open(s)
    BY <2>1 DEF Open
  <2>3. R' = R \cup {t} /\ t \notin R /\ S' = S /\ O' = O
    BY <2>1, <2>2
  <2>4. \A s \in Tasks : Staged(s)' \/ Rung(s)' => ED_ENABLE /\ Committed(s)'
    BY <1>1, <1>8, <2>1
  <2>5. stats' = [stats EXCEPT !.bell = @ + 1]
    BY <1>8 DEF RingsIt
  <2>6. /\ stats'.stage = Cardinality(S') /\ stats'.bell = Cardinality(R')
        /\ stats'.open = Cardinality(O')
    <3> HIDE DEF S, R, O
    <3>1. Cardinality(R') = Cardinality(R) + 1
      BY <1>1, <2>3, OneMore
    <3> QED BY <1>1, <1>2, <2>3, <2>5, <3>1
  <2> QED BY <2>4, <2>6 DEF StatsInv
<1>9. ASSUME NEW u \in Units, NEW t \in Tasks, Opens(u, t)
      PROVE  StatsInv'
  <2>1. /\ \A s \in Tasks : (Rung(s)' <=> Rung(s)) /\ (Staged(s)' <=> Staged(s))
        /\ \A s \in Tasks \ {t} : \A v \in Units : GateOf(v, s)' <=> GateOf(v, s)
        /\ Rung(t) /\ GateOf(u, t) /\ \A v \in Units : ~GateOf(v, t)'
    BY <1>9 DEF Opens, RecordHeld, SlotHeld, Staged, Rung, GateOf
  <2>2. /\ ~Open(t) /\ Open(t)'
        /\ \A s \in Tasks \ {t} : Open(s)' <=> Open(s)
    BY <2>1 DEF Open
  <2>3. O' = O \cup {t} /\ t \notin O /\ S' = S /\ R' = R
    BY <2>1, <2>2
  <2>4. \A s \in Tasks : Staged(s)' \/ Rung(s)' => ED_ENABLE /\ Committed(s)'
    BY <1>1, <2>1
  <2>5. stats' = [stats EXCEPT !.open = @ + 1]
    BY <1>9 DEF Opens
  <2>6. /\ stats'.stage = Cardinality(S') /\ stats'.bell = Cardinality(R')
        /\ stats'.open = Cardinality(O')
    <3> HIDE DEF S, R, O
    <3>1. Cardinality(O') = Cardinality(O) + 1
      BY <1>1, <2>3, OneMore
    <3> QED BY <1>1, <1>2, <2>3, <2>5, <3>1
  <2> QED BY <2>4, <2>6 DEF StatsInv
<1> QED BY <1>4, <1>5, <1>6, <1>7, <1>8, <1>9

(* No step of the proxy leaves the counters behind.                        *)
LEMMA StatsStep ==
  ASSUME NoReuse, TypeOK, SlotInv, DagInv, StatsInv, [Next]_vars
  PROVE  StatsInv'
<1>1. CreationInv /\ EntryInv /\ EdgeInv
  BY DEF DagInv
<1>2. CASE OrchestratorNext
  <2>1. UNCHANGED <<stats, ed, exe, g_commit_task_id, cut>>
    BY <1>2 DEF OrchestratorNext, new_task, add_predecessors, publish, orchestration_done,
       orchFrame, graphVars
  <2>2. Quiet /\ \A t \in Tasks : Committed(t) => Committed(t)'
    BY <2>1 DEF Quiet, StatsHeld, RecordHeld, SlotHeld, Committed, Committing
  <2> QED BY <2>2, StatsMove
<1>3. CASE CutterNext
  <2>1. \A t \in Tasks : Committed(t) => Committed(t)'
    BY <1>1, <1>3, CommittedMoves
  <2>2. \A t \in Tasks : ~Committed(t) => ~Staged(t) /\ ~Rung(t)
    BY DEF StatsInv
  <2>3. Quiet \/ \E t \in Tasks : RingsIt(t) /\ ED_ENABLE /\ Committed(t)
    BY <1>3, <2>2, CutterDoes
  <2> QED BY <2>1, <2>3, StatsMove
<1>4. CASE DispatcherNext
  <2>1. UNCHANGED graphHeld
    BY <1>4, DispatcherHolds
  <2>2. \A t \in Tasks : Committed(t) => Committed(t)'
    BY <2>1 DEF graphHeld, Committed, Committing
  <2>3. CASE send_task /\ ~SkipsTask /\ \E u \in Units : Fills(u, Head(disp.batch), "RUNNABLE")
    <3>1. Head(disp.batch) \in Tasks
      BY <2>3, SendTaskStep
    <3> QED BY <2>2, <2>3, <3>1, StatsMove
  <2> QED BY <1>4, <2>2, <2>3, DispatcherDoes, StatsMove
<1>5. CASE ExecutorNext
  <2>1. UNCHANGED graphHeld
    BY <1>5, ExecutorHolds
  <2>2. \A t \in Tasks : Committed(t) => Committed(t)'
    BY <2>1 DEF graphHeld, Committed, Committing
  <2> QED BY <1>5, <2>2, ExecutorDoes, StatsMove
<1>6. CASE UNCHANGED vars
  <2>1. UNCHANGED <<stats, ed, exe, g_commit_task_id, cut>>
    BY <1>6 DEF vars, graphVars
  <2>2. Quiet /\ \A t \in Tasks : Committed(t) => Committed(t)'
    BY <2>1 DEF Quiet, StatsHeld, RecordHeld, SlotHeld, Committed, Committing
  <2> QED BY <2>2, StatsMove
<1> QED BY <1>2, <1>3, <1>4, <1>5, <1>6 DEF Next

----------------------------------------------------------------------------
(* A task that ran was due, and a task that is due stays so.               *)
LEMMA DueStays ==
  ASSUME NoReuse, TypeOK, SlotInv, DagInv, [Next]_vars
  PROVE  /\ \A t \in Tasks : Due(t) => Due(t)'
         /\ ~CutterNext => \A t \in Tasks : /\ Due(t)' <=> Due(t)
                                            /\ Committed(t)' <=> Committed(t)
<1>1. CASE CutterNext
  BY <1>1, DueMoves DEF DagInv
<1>2. CASE ~CutterNext
  <2>1. UNCHANGED <<g_commit_task_id, g_predecessor_cnt, cut>>
    <3>1. CASE OrchestratorNext
      BY <3>1 DEF OrchestratorNext, new_task, add_predecessors, publish, orchestration_done,
         orchFrame, graphVars
    <3>2. CASE DispatcherNext
      BY <3>2, DispatcherHolds DEF graphHeld
    <3>3. CASE ExecutorNext
      BY <3>3, ExecutorHolds DEF graphHeld
    <3>4. CASE UNCHANGED vars
      BY <3>4 DEF vars, graphVars
    <3> QED BY <1>2, <3>1, <3>2, <3>3, <3>4 DEF Next
  <2>2. \A t \in Tasks : (Committed(t)' <=> Committed(t)) /\ (Due(t)' <=> Due(t))
    BY <2>1 DEF Due, Committed, Committing
  <2> QED BY <1>2, <2>2
<1> QED BY <1>1, <1>2

(* A task has run only when a slot was emptied that held it RUNNABLE.      *)
LEMMA RanMoves ==
  ASSUME NoReuse, TypeOK, SlotInv, [Next]_vars
  PROVE  \A t \in Tasks : Ran(t)' =>
           Ran(t) \/ (ExecutorNext /\ \E u \in Units : Holding(u, t))
<1>1. CASE UNCHANGED runs
  BY <1>1 DEF Ran
<1>2. ASSUME NEW u \in Units, complete_slot(u), ~UNCHANGED runs
      PROVE  \A t \in Tasks : Ran(t)' => Ran(t) \/ Holding(u, t)
  <2> DEFINE x == exe[u].task
  <2>1. x \in Tasks /\ exe[u].state = "RUNNABLE" /\ runs' = [runs EXCEPT ![x] = @ + 1]
    BY <1>2, CompleteSlotStep
  <2>2. \A t \in Tasks : t # x => runs'[t] = runs[t]
    BY <2>1 DEF TypeOK, QueueTypes
  <2> QED BY <2>1, <2>2 DEF Ran, Holding
<1>3. CASE OrchestratorNext
  <2>1. UNCHANGED runs
    BY <1>3 DEF OrchestratorNext, new_task, add_predecessors, publish, orchestration_done, orchFrame
  <2> QED BY <1>1, <2>1
<1>4. CASE CutterNext
  BY <1>1, <1>4, CutterHoldsSlots DEF CutterHolds
<1>5. CASE DispatcherNext
  BY <1>1, <1>5, DispatcherHolds
<1>6. CASE ExecutorNext
  <2>1. CASE ExecutorWalks
    BY <1>1, <2>1, ExecutorWalkMeta
  <2>2. CASE poll_open
    BY <1>1, <2>2 DEF poll_open
  <2> QED BY <1>1, <1>2, <1>6, <2>1, <2>2 DEF ExecutorNext, ExecutorWalks
<1>7. CASE UNCHANGED vars
  BY <1>1, <1>7 DEF vars
<1> QED BY <1>3, <1>4, <1>5, <1>6, <1>7 DEF Next

(* Every task that has run was released: it comes to run from a slot that  *)
(* holds it, and a slot holds released tasks only.                         *)
LEMMA RanWasDue ==
  ASSUME NoReuse, TypeOK, SlotInv, DagInv, [Next]_vars, \A t \in Tasks : Ran(t) => Due(t)
  PROVE  \A t \in Tasks : Ran(t)' => Due(t)'
<1>1. \A t \in Tasks : \A u \in Units : Holding(u, t) => Due(t)
  BY DEF DagInv, DueInv, Holding
<1> QED BY <1>1, DueStays, RanMoves

----------------------------------------------------------------------------
(* What the threads other than the cutter write into the entry of a task:  *)
(* its claim, which is of all its blocks, and its way into staging.        *)
Rewritten(t) ==
  /\ ed'[t].next_block \in {ed[t].next_block, Count[t]}
  /\ \/ ed'[t].spec = ed[t].spec
     \/ ed[t].spec = "NONE" /\ ed'[t].spec = "STAGING"

(* The dispatcher, through set_core, stage, ed_do_stage and Hook 0 ...     *)
LEMMA DispatcherRewrites ==
  ASSUME NoReuse, TypeOK, SlotInv, DagInv, DispatcherNext, ED_ENABLE,
         NEW t \in Tasks, Committed(t)
  PROVE  Rewritten(t)
<1>1. CreationInv /\ EntryInv /\ StageInv
  BY DEF DagInv
<1>2. CountOf(Idx(t)) = Count[t] /\ Idx(t) = t
  BY <1>1, CommittedIsCreated, IdxSame
<1>3. CASE DispatcherWalks
  BY <1>3, WalkMeta DEF MetaHeld, Rewritten
<1>4. CASE drain_completed_snapshot
  BY <1>4 DEF drain_completed_snapshot, Rewritten
<1>5. CASE send_task /\ ~SkipsTask
  <2>1. /\ ed'[Head(disp.batch)].next_block = CountOf(Idx(Head(disp.batch)))
        /\ \A s \in Tasks : /\ s # Head(disp.batch) => ed'[s] = ed[s]
                            /\ ed'[s].spec = ed[s].spec
    BY <1>5, SendTaskStep, SendTaskMeta
  <2> QED BY <1>2, <2>1 DEF Rewritten
<1>6. CASE try_stage /\ ~DropsTask
  <2>1. PICK x \in Tasks : x = Head(g_ed_ready_queue) /\ StagingStill(x)
    BY <1>6, TryStageStep
  <2>2. Idx(x) = x /\ x \in Rings /\ g_basic_buf \in [Rings -> MaybeTask]
    BY IdxSame DEF TypeOK, OrchTypes
  <2>3. ed' = [ed EXCEPT ![Idx(x)].next_block = CountOf(Idx(x))]
    BY <1>6, <2>1, <2>2, TryStageStep DEF DropsTask
  <2>4. CountOf(Idx(x)) \in Nat
    BY <2>2, GraphAssumption DEF CountOf, MaybeTask
  <2>5. /\ ed'[x].next_block = CountOf(Idx(x))
        /\ \A s \in Tasks : /\ s # x => ed'[s] = ed[s]
                            /\ ed'[s].spec = ed[s].spec
    BY <2>3, <2>4, StageMeta
  <2> QED BY <1>2, <2>5 DEF Rewritten
<1>7. CASE stage_record
  <2>1. PICK x \in Tasks : x = exe[disp.unit].task
    BY <1>7 DEF stage_record, TypeOK, DispTypes, SlotTypes, Slot
  <2>2. disp.unit \in Units /\ ed' = [ed EXCEPT ![Idx(x)].staged = Record(x, disp.unit)]
    BY <1>7, <2>1 DEF stage_record, TypeOK, DispTypes
  <2> QED BY <2>2, RecordMeta DEF Rewritten
<1>8. CASE stage_check
  <2>1. PICK x \in Tasks : x = exe[disp.unit].task
    BY <1>8 DEF stage_check, TypeOK, DispTypes, SlotTypes, Slot
  <2>2. \A s \in Tasks : ed'[s].spec = ed[s].spec /\ ed'[s].next_block = ed[s].next_block
    BY <1>1, <1>8, <2>1, CheckStep
  <2> QED BY <2>2 DEF Rewritten
<1> QED BY <1>3, <1>4, <1>5, <1>6, <1>7, <1>8 DEF DispatcherNext, DispatcherWalks, DropsTask

(* ... and the executor, through Hook 0, write no more.                    *)
LEMMA ExecutorRewrites ==
  ASSUME NoReuse, TypeOK, ExecutorNext, NEW t \in Tasks
  PROVE  Rewritten(t)
<1>1. CASE ExecutorWalks
  BY <1>1, ExecutorWalkMeta DEF MetaHeld, Rewritten
<1>2. CASE poll_open
  BY <1>2 DEF poll_open, Rewritten
<1>3. ASSUME NEW u \in Units, complete_slot(u)
      PROVE  Rewritten(t)
  <2>1. exe[u].task \in Tasks
    BY DEF TypeOK, SlotTypes, Slot
  <2>2. \/ UNCHANGED ed
        \/ ed' = IF ED_ENABLE THEN [ed EXCEPT ![Idx(exe[u].task)] = ClearedRecord(@, exe[u].task)]
                 ELSE ed
    BY <1>3 DEF complete_slot
  <2>3. CASE UNCHANGED ed
    BY <2>3 DEF Rewritten
  <2>4. CASE ed' = IF ED_ENABLE
                   THEN [ed EXCEPT ![Idx(exe[u].task)] = ClearedRecord(@, exe[u].task)]
                   ELSE ed
    BY <2>1, <2>4, ClearMeta DEF MetaHeld, Rewritten
  <2> QED BY <2>2, <2>3, <2>4
<1> QED BY <1>1, <1>2, <1>3 DEF ExecutorNext, ExecutorWalks

(* A claim takes all blocks of the task.                                   *)
ClaimWhole(t) == Committed(t) => ed[t].next_block \in {0, Count[t]}

(* So the next block of a committed task is its first or past its last.    *)
LEMMA ClaimsWhole ==
  ASSUME NoReuse, TypeOK, SlotInv, DagInv, [Next]_vars, ED_ENABLE,
         NEW t \in Tasks, ClaimWhole(t)
  PROVE  ClaimWhole(t)'
<1>1. CreationInv /\ EntryInv /\ EdgeInv /\ RoundInv /\ StageInv
  BY DEF DagInv
<1>2. CASE CutterNext
  <2>1. Committed(t)' <=> Committed(t) \/ (commit /\ t = g_commit_task_id)
    BY <1>1, <1>2, CommittedMoves
  <2>2. CASE commit /\ t = g_commit_task_id
    <3>1. ed'[t].next_block = 0
      BY <1>1, <2>2, CommitStep
    <3> QED BY <3>1 DEF ClaimWhole
  <2>3. CASE Committed(t) /\ hook2
    <3>1. ed'[t].next_block = ed[t].next_block
      BY <1>1, <2>3, Hook2Step
    <3> QED BY <2>3, <3>1 DEF ClaimWhole
  <2>4. CASE Committed(t) /\ ~hook2
    <3>1. ed'[t].next_block = ed[t].next_block
      BY <1>1, <1>2, <2>4, CutterMeta
    <3> QED BY <2>4, <3>1 DEF ClaimWhole
  <2> QED BY <2>1, <2>2, <2>3, <2>4 DEF ClaimWhole
<1>3. ASSUME ~CutterNext, Committed(t) => ed'[t].next_block \in {ed[t].next_block, Count[t]}
      PROVE  ClaimWhole(t)'
  BY <1>3, DueStays DEF ClaimWhole
<1>4. CASE OrchestratorNext /\ ~CutterNext
  <2>1. UNCHANGED ed
    BY <1>4 DEF OrchestratorNext, new_task, add_predecessors, publish, orchestration_done, orchFrame
  <2> QED BY <1>3, <1>4, <2>1
<1>5. CASE DispatcherNext /\ ~CutterNext
  BY <1>3, <1>5, DispatcherRewrites DEF Rewritten
<1>6. CASE ExecutorNext /\ ~CutterNext
  BY <1>3, <1>6, ExecutorRewrites DEF Rewritten
<1>7. CASE UNCHANGED vars /\ ~CutterNext
  BY <1>3, <1>7 DEF vars
<1> QED BY <1>2, <1>4, <1>5, <1>6, <1>7 DEF Next

----------------------------------------------------------------------------
(* The entry of a task that is due stays at rest: nothing brings it into   *)
(* staging any more.                                                       *)
LEMMA RestKept ==
  ASSUME NEW t \in Tasks, AtRest(t), ed'[t].target = ed[t].target,
         \/ ed'[t].spec \in {ed[t].spec, "DISPATCHED"}
         \/ ed[t].spec = "NONE" /\ ed'[t].spec = "STAGING" /\ ed[t].target # 0
  PROVE  AtRest(t)'
BY DEF AtRest

(* A credit that puts its task into staging makes the credits reach the    *)
(* target, which is not 0 then.                                            *)
LEMMA CreditRests ==
  ASSUME NoReuse, TypeOK, NEW s \in Tasks, AddFanin(s, ed[Idx(s)]),
         NEW t \in Tasks, AtRest(t)
  PROVE  AtRest(t)'
<1>1. /\ ed'[s].target = ed[s].target /\ \A x \in Tasks : x # s => ed'[x] = ed[x]
      /\ ed'[s].spec = "STAGING" => ed[s].spec = "STAGING" \/ ed[s].fanin + 1 = ed[s].target
  BY CreditMeta
<1>2. ed'[s].spec = ed[s].spec \/ (ed[s].spec = "NONE" /\ ed'[s].spec = "STAGING")
  BY CreditKeeps DEF MetaHeld
<1>3. ed[s].fanin \in Nat
  BY IdxSame DEF TypeOK, EdTypes, EdMeta
<1> QED BY <1>1, <1>2, <1>3, RestKept

(* The cutter, which releases a task, leaves its entry at rest: a task     *)
(* committed with no predecessor left to wait for has target 0, and one    *)
(* whose last predecessor completed becomes DISPATCHED.                    *)
LEMMA CutterRests ==
  ASSUME NoReuse, TypeOK, DagInv, CutterNext, ED_ENABLE,
         NEW t \in Tasks, Due(t) => AtRest(t), Due(t)'
  PROVE  AtRest(t)'
<1>1. CreationInv /\ EntryInv /\ EdgeInv /\ RoundInv /\ StageInv /\ CountInv
  BY DEF DagInv
<1>2. \/ Due(t)
      \/ /\ commit /\ t = g_commit_task_id
         /\ Cardinality(DOMAIN Survivors(t)) = 0
      \/ /\ resolve_dep /\ t = Head(cut.work)
         /\ g_predecessor_cnt[t] = 1
  BY <1>1, DueMoves
<1>3. CASE commit /\ t = g_commit_task_id /\ Cardinality(DOMAIN Survivors(t)) = 0
  <2>1. ed'[t].spec = "NONE" /\ ed'[t].target = Cardinality(DOMAIN Survivors(t))
    BY <1>3, CommitMeta
  <2> QED BY <1>3, <2>1 DEF AtRest
<1>4. CASE resolve_dep /\ t = Head(cut.work) /\ g_predecessor_cnt[t] = 1
  <2>1. Dec(g_predecessor_cnt[t], UINT32_MAX) = 0
    BY <1>4 DEF Dec
  <2>2. ed'[t].spec = "DISPATCHED"
    BY <1>1, <1>4, <2>1, ResolveStep
  <2> QED BY <2>2 DEF AtRest
<1>5. CASE Due(t)
  <2>1. AtRest(t) /\ Committed(t)
    BY <1>5 DEF Due
  <2>2. CASE commit
    <3>1. t # g_commit_task_id
      BY <1>1, <2>1, <2>2, CommitStep
    <3>2. ed'[t] = ed[t]
      BY <1>1, <2>2, <3>1, CommitStep
    <3> QED BY <2>1, <3>2, RestKept
  <2>3. CASE edge
    <3>1. ed' = ed
      BY <1>1, <2>3, EdgeStep
    <3> QED BY <2>1, <3>1, RestKept
  <2>4. CASE late_arrival
    <3>1. g_commit_task_id \in Tasks
      BY <2>4, CommittedTask DEF late_arrival, TypeOK
    <3>2. AddFanin(g_commit_task_id, ed[Idx(g_commit_task_id)])
      BY <2>4 DEF late_arrival
    <3> QED BY <2>1, <3>1, <3>2, CreditRests
  <2>5. CASE ~commit /\ ~edge /\ ~late_arrival
    <3>1. ed'[t].target = ed[t].target /\ (ed'[t].spec = "STAGING" => ed[t].spec = "STAGING")
      BY <1>1, <2>5, CutterQuiet DEF CreditHeld
    <3>2. CASE hook2
      <4>1. ed'[t].spec = ed[t].spec
        BY <1>1, <3>2, Hook2Step
      <4> QED BY <2>1, <3>1, <4>1, RestKept
    <3>3. CASE ~hook2
      <4>1. \/ ed'[t].spec = ed[t].spec
            \/ ed[t].spec = "NONE" /\ ed'[t].spec = "STAGING"
            \/ ed'[t].spec = "DISPATCHED"
        BY <1>1, <2>1, <3>3, CutterMeta
      <4>2. ed'[t].spec \in {ed[t].spec, "DISPATCHED"}
        BY <3>1, <4>1
      <4> QED BY <2>1, <3>1, <4>2, RestKept
    <3> QED BY <3>2, <3>3
  <2> QED BY <2>2, <2>3, <2>4, <2>5
<1> QED BY <1>2, <1>3, <1>4, <1>5

(* Once the entry is at rest the other threads leave it so.                *)
LEMMA RestsStep ==
  ASSUME NoReuse, TypeOK, SlotInv, DagInv, TodoInv, [Next]_vars, ED_ENABLE,
         NEW t \in Tasks, Due(t) => AtRest(t)
  PROVE  Due(t)' => AtRest(t)'
<1>1. CASE CutterNext
  BY <1>1, CutterRests
<1>2. CASE ~CutterNext /\ Due(t)
  <2>1. AtRest(t) /\ Committed(t)
    BY <1>2 DEF Due
  <2>2. CASE UNCHANGED ed
    BY <2>1, <2>2, RestKept
  <2>3. CASE dispatcher_credit
    <3>1. Head(disp.todo) \in Tasks
      BY <2>3, DispatcherCreditStep, TailOfList
    <3> QED BY <2>1, <2>3, <3>1, CreditRests DEF dispatcher_credit
  <2>4. CASE executor_credit
    <3>1. exec.todo \in Seq(Tasks) /\ exec.todo # <<>>
      BY <2>4 DEF executor_credit, TypeOK, ExecTypes, ExecRegs
    <3>2. Head(exec.todo) \in Tasks
      BY <3>1, TailOfList
    <3> QED BY <2>1, <2>4, <3>2, CreditRests DEF executor_credit
  <2>5. ASSUME ed'[t].target = ed[t].target, ed'[t].spec = "STAGING" => ed[t].spec = "STAGING",
               Rewritten(t)
        PROVE  AtRest(t)'
    <3>1. ed'[t].spec \in {ed[t].spec, "DISPATCHED"}
      BY <2>5 DEF Rewritten
    <3> QED BY <2>1, <2>5, <3>1, RestKept
  <2>6. CASE dispatcher_hook0
    <3>1. Head(disp.batch) \in Tasks /\ Hook0Enter(Head(disp.batch))
      <4>1. disp.batch \in Seq(Tasks) /\ disp.batch # <<>>
        BY <2>6 DEF dispatcher_hook0, TypeOK, DispTypes, DispRegs
      <4> QED BY <2>6, <4>1, TailOfList DEF dispatcher_hook0
    <3>2. ed'[t].target = ed[t].target /\ ed'[t].spec = ed[t].spec
      <4>1. CASE TagIs(Head(disp.batch))
        BY <3>1, <4>1, Hook0Meta
      <4>2. CASE ~TagIs(Head(disp.batch))
        BY <3>1, <4>2 DEF Hook0Enter
      <4> QED BY <4>1, <4>2
    <3> QED BY <2>1, <3>2, RestKept
  <2>7. CASE executor_hook0
    <3>1. exe[exec.unit].task \in Tasks /\ Hook0Enter(exe[exec.unit].task)
      BY <2>7 DEF executor_hook0, TypeOK, ExecTypes, SlotTypes, Slot
    <3>2. ed'[t].target = ed[t].target /\ ed'[t].spec = ed[t].spec
      <4>1. CASE TagIs(exe[exec.unit].task)
        BY <3>1, <4>1, Hook0Meta
      <4>2. CASE ~TagIs(exe[exec.unit].task)
        BY <3>1, <4>2 DEF Hook0Enter
      <4> QED BY <4>1, <4>2
    <3> QED BY <2>1, <3>2, RestKept
  <2>8. CASE DispatcherNext /\ ~dispatcher_hook0 /\ ~dispatcher_credit
    BY <2>1, <2>5, <2>8, DispatcherQuiet, DispatcherRewrites DEF CreditHeld
  <2>9. CASE ExecutorNext /\ ~executor_hook0 /\ ~executor_credit
    BY <2>1, <2>5, <2>9, ExecutorQuiet, ExecutorRewrites DEF CreditHeld
  <2>10. CASE OrchestratorNext
    <3>1. UNCHANGED ed
      BY <2>10 DEF OrchestratorNext, new_task, add_predecessors, publish, orchestration_done, orchFrame
    <3> QED BY <2>2, <3>1
  <2>11. CASE UNCHANGED vars
    BY <2>2, <2>11 DEF vars
  <2> QED BY <1>2, <2>3, <2>4, <2>6, <2>7, <2>8, <2>9, <2>10, <2>11 DEF Next
<1>3. CASE ~CutterNext /\ ~Due(t)
  BY <1>3, DueStays
<1> QED BY <1>1, <1>2, <1>3

----------------------------------------------------------------------------
(* A task that runs or has run is dispatched, or Hook 0 is next for it.    *)
Handed(t) == Started(t) => Dispatched(t) \/ DispatcherHooks(t) \/ ExecutorHooks(t)

(* Steps that start no task and run no Hook 0.                             *)
LEMMA HandedStays ==
  ASSUME NEW t \in Tasks, Handed(t),
         Started(t)' => Started(t), Dispatched(t) => Dispatched(t)',
         DispatcherHooks(t) => DispatcherHooks(t)' \/ Dispatched(t)',
         ExecutorHooks(t) => ExecutorHooks(t)' \/ Dispatched(t)'
  PROVE  Handed(t)'
BY DEF Handed

(* Whether a task has started is in its slots and in runs.                 *)
LEMMA StartedIs ==
  /\ \A t \in Tasks : Started(t) <=> Ran(t) \/ \E u \in Units : Holding(u, t)
  /\ \A t \in Tasks : Started(t)' <=> Ran(t)' \/ \E u \in Units : Holding(u, t)'
BY RunningIs DEF Started

(* The cutter starts no task and runs no Hook 0, ...                       *)
LEMMA CutterHands ==
  ASSUME NoReuse, TypeOK, WatermarkInv, DagInv, ED_ENABLE, CreditInv, TodoInv, HookInv,
         CutterNext, NEW t \in Tasks, Handed(t)
  PROVE  Handed(t)'
<1>1. /\ UNCHANGED <<disp, exec, runs>>
      /\ \A u \in Units : exe'[u].state = exe[u].state /\ exe'[u].task = exe[u].task
  BY CutterHoldsSlots DEF CutterHolds
<1>2. Dispatched(t)' <=> Dispatched(t)
  BY CutterCredits
<1>3. Started(t)' <=> Started(t)
  BY <1>1, StartedIs DEF Ran, Holding
<1>4. DispatcherHooks(t)' <=> DispatcherHooks(t)
  BY <1>1 DEF DispatcherHooks
<1>5. ExecutorHooks(t) => ExecutorHooks(t)'
  <2>1. exec.pc = "hook0" => exec.unit \in Units
    BY DEF TypeOK, ExecTypes
  <2> QED BY <1>1, <2>1 DEF ExecutorHooks
<1> QED BY <1>2, <1>3, <1>4, <1>5, HandedStays

(* ... the dispatcher runs Hook 0 for each task it starts, ...             *)
LEMMA DispatcherHands ==
  ASSUME NoReuse, TypeOK, TypeOK', SlotInv, GateInv, DagInv, ED_ENABLE,
         CreditInv, TodoInv, HookInv, DispatcherNext, NEW t \in Tasks, Handed(t)
  PROVE  Handed(t)'
<1>1. UNCHANGED <<exec, runs>> /\ EntryInv /\ EdgeInv
  BY DispatcherHolds DEF DagInv
<1>2. \A u \in Units : exe[u].state # "EMPTY" => SlotHeld(u)
  BY DispatcherDoes DEF Quiet, Fills, RecordsIt, RingsIt
<1>3. ExecutorHooks(t) => ExecutorHooks(t)'
  <2>1. exec.pc = "hook0" => exec.unit \in Units /\ exe[exec.unit].state = "RUNNABLE"
    BY DEF TypeOK, ExecTypes, GateInv, WalkInv
  <2> QED BY <1>1, <1>2, <2>1 DEF ExecutorHooks, SlotHeld
<1>4. CASE dispatcher_hook0
  <2>1. PICK p \in Tasks : p = Head(disp.batch)
    <3>1. disp.batch \in Seq(Tasks) /\ disp.batch # <<>>
      BY <1>4 DEF dispatcher_hook0, TypeOK, DispTypes, DispRegs
    <3> QED BY <3>1, TailOfList
  <2>2. Hook0Enter(p) /\ TagIs(p)
    BY <1>1, <1>4, <2>1, DispatcherHook0Credits
  <2>3. Dispatched(p)' /\ (t # p => (Dispatched(t)' <=> Dispatched(t)))
    BY <2>2, Hook0Meta
  <2>4. UNCHANGED exe
    BY <1>4 DEF dispatcher_hook0, hook0Frame
  <2>5. Started(t)' => Started(t)
    BY <1>1, <2>4, StartedIs DEF Ran, Holding
  <2>6. DispatcherHooks(t) => t = p
    BY <2>1 DEF DispatcherHooks
  <2> QED BY <1>3, <2>3, <2>5, <2>6, HandedStays
<1>5. CASE ~dispatcher_hook0
  <2>1. Dispatched(t)' <=> Dispatched(t)
    <3>1. CASE dispatcher_credit
      BY <3>1, DispatcherCredits
    <3>2. CASE ~dispatcher_credit
      BY <1>5, <3>2, DispatcherQuiet DEF CreditHeld, Dispatched
    <3> QED BY <3>1, <3>2
  <2>2. ~DispatcherHooks(t)
    BY <1>5 DEF DispatcherHooks, DispatcherNext, drain_completed_snapshot, dispatch_finish,
       send_task_dequeue, send_task, dispatcher_credit, begin_ed, try_nothing, try_no_slot, try_stage,
       TryHead, stage_mask, stage_record, stage_check
  <2>3. CASE send_task /\ ~SkipsTask /\ t = Head(disp.batch)
    <3>1. disp.pc = "send" /\ Head(disp.batch) \in Tasks
      BY <2>3, SendTaskStep
    <3>2. disp'.pc = "hook0" /\ disp'.batch = disp.batch
      BY <2>3, <3>1, SendTaskMeta
    <3>3. disp'.hook = INVALID
      <4>1. disp'.hook = disp.hook
        BY <2>3, <3>1, DispatcherQuiet DEF dispatcher_hook0, dispatcher_credit, TypeOK, DispTypes
      <4> QED BY <3>1, <4>1 DEF TypeOK, DispTypes
    <3> QED BY <2>3, <3>2, <3>3 DEF DispatcherHooks, Handed
  <2>4. CASE ~(send_task /\ ~SkipsTask /\ t = Head(disp.batch))
    <3>1. \A u \in Units : Holding(u, t)' => Holding(u, t)
      <4>1. CASE send_task /\ ~SkipsTask /\ \E u \in Units : Fills(u, Head(disp.batch), "RUNNABLE")
        BY <2>4, <4>1 DEF Fills, SlotHeld, Holding
      <4>2. CASE Quiet
        BY <4>2 DEF Quiet, SlotHeld, Holding
      <4>3. CASE \E u \in Units, x \in Tasks : Fills(u, x, "GATED")
        BY <4>3 DEF Fills, SlotHeld, Holding
      <4>4. CASE \E x \in Tasks : RecordsIt(x) \/ RingsIt(x)
        BY <4>4 DEF RecordsIt, RingsIt, SlotHeld, Holding
      <4> QED BY <4>1, <4>2, <4>3, <4>4, DispatcherDoes
    <3>2. Started(t)' => Started(t)
      BY <1>1, <3>1, StartedIs DEF Ran
    <3> QED BY <1>3, <2>1, <2>2, <3>2, HandedStays
  <2> QED BY <2>3, <2>4
<1> QED BY <1>4, <1>5

(* ... and the executor for each gate it opens.                            *)
LEMMA ExecutorHands ==
  ASSUME NoReuse, TypeOK, TypeOK', SlotInv, GateInv, DagInv, ED_ENABLE,
         CreditInv, TodoInv, HookInv, ExecutorNext, NEW t \in Tasks, Handed(t)
  PROVE  Handed(t)'
<1>1. UNCHANGED disp /\ EntryInv /\ EdgeInv
  BY ExecutorHolds DEF DagInv
<1>2. DispatcherHooks(t)' <=> DispatcherHooks(t)
  BY <1>1 DEF DispatcherHooks
<1>3. CASE executor_hook0
  <2>1. PICK p \in Tasks : p = exe[exec.unit].task
    BY <1>3 DEF executor_hook0, TypeOK, ExecTypes, SlotTypes, Slot
  <2>2. Hook0Enter(p) /\ TagIs(p)
    BY <1>1, <1>3, <2>1, ExecutorHook0Credits
  <2>3. Dispatched(p)' /\ (t # p => (Dispatched(t)' <=> Dispatched(t)))
    BY <2>2, Hook0Meta
  <2>4. UNCHANGED <<exe, runs>>
    BY <1>3 DEF executor_hook0
  <2>5. Started(t)' => Started(t)
    BY <2>4, StartedIs DEF Ran, Holding
  <2>6. ExecutorHooks(t) => t = p
    BY <2>1 DEF ExecutorHooks
  <2> QED BY <1>2, <2>3, <2>5, <2>6, HandedStays
<1>4. CASE ~executor_hook0
  <2>1. Dispatched(t)' <=> Dispatched(t)
    <3>1. CASE executor_credit
      BY <3>1, ExecutorCredits
    <3>2. CASE ~executor_credit
      BY <1>4, <3>2, ExecutorQuiet DEF CreditHeld, Dispatched
    <3> QED BY <3>1, <3>2
  <2>2. ~ExecutorHooks(t)
    BY <1>4 DEF ExecutorHooks, ExecutorNext, start, complete_slot, signal, drain_mask, poll_core,
       poll_not_rung, poll_open, executor_credit, executor_exit
  <2>3. Ran(t)' => Ran(t) \/ \E u \in Units : Holding(u, t)
    BY RanMoves DEF Next
  <2>4. CASE \E u \in Units : Opens(u, t)
    <3>1. PICK u \in Units : exe[u].state = "GATED" /\ exe'[u].state = "RUNNABLE" /\ exe[u].task = t
      BY <2>4 DEF Opens, GateOf
    <3>2. poll_open
      <4>1. CASE ExecutorWalks
        BY <3>1, <4>1, ExecutorWalkMeta
      <4>2. ASSUME NEW v \in Units, complete_slot(v) PROVE FALSE
        BY <3>1, <4>2, CompleteSlotStep
      <4> QED BY <4>1, <4>2 DEF ExecutorNext, ExecutorWalks
    <3>3. /\ exec.unit = u /\ exec'.unit = u /\ exec'.pc = "hook0" /\ exec'.hook = INVALID
          /\ exe'[u].task = t
      BY <3>1, <3>2, PollOpenStep
    <3> QED BY <3>3 DEF ExecutorHooks, Handed
  <2>5. CASE ~\E u \in Units : Opens(u, t)
    <3>1. \A u \in Units : Holding(u, t)' => Holding(u, t)
      <4>1. CASE Quiet
        BY <4>1 DEF Quiet, SlotHeld, Holding
      <4>2. CASE \E u \in Units : Empties(u)
        BY <4>2 DEF Empties, SlotHeld, Holding
      <4>3. CASE \E u \in Units, x \in Tasks : Opens(u, x)
        <5>1. PICK u \in Units, x \in Tasks : Opens(u, x) /\ x # t
          BY <2>5, <4>3
        <5> QED BY <5>1 DEF Opens, SlotHeld, Holding
      <4> QED BY <4>1, <4>2, <4>3, ExecutorDoes
    <3>2. Started(t)' => Started(t)
      BY <2>3, <3>1, StartedIs
    <3> QED BY <1>2, <2>1, <2>2, <3>2, HandedStays
  <2> QED BY <2>4, <2>5
<1> QED BY <1>3, <1>4

(* So it stays with every step.                                            *)
LEMMA HandedStep ==
  ASSUME NoReuse, TypeOK, TypeOK', SlotInv, GateInv, WatermarkInv, DagInv, ED_ENABLE,
         CreditInv, TodoInv, HookInv, [Next]_vars, NEW t \in Tasks, Handed(t)
  PROVE  Handed(t)'
<1>1. ASSUME UNCHANGED <<ed, exe, runs, disp, exec>>
      PROVE  Handed(t)'
  <2>1. (Dispatched(t)' <=> Dispatched(t)) /\ (Started(t)' <=> Started(t))
    BY <1>1, StartedIs DEF Dispatched, Ran, Holding
  <2>2. (DispatcherHooks(t)' <=> DispatcherHooks(t)) /\ (ExecutorHooks(t)' <=> ExecutorHooks(t))
    BY <1>1 DEF DispatcherHooks, ExecutorHooks
  <2> QED BY <2>1, <2>2, HandedStays
<1>2. CASE OrchestratorNext
  <2>1. UNCHANGED <<ed, exe, runs, disp, exec>>
    BY <1>2 DEF OrchestratorNext, new_task, add_predecessors, publish, orchestration_done, orchFrame
  <2> QED BY <1>1, <2>1
<1>3. CASE UNCHANGED vars
  BY <1>1, <1>3 DEF vars
<1> QED BY <1>2, <1>3, CutterHands, DispatcherHands, ExecutorHands DEF Next

----------------------------------------------------------------------------
(* The invariant holds at the start, when all counters are 0 ...           *)
LEMMA EndInit ==
  ASSUME NoReuse, Init
  PROVE  EndInv
<1>1. \A t \in Tasks : t \in Rings /\ t \in Nat
  BY IdxSame
<1>2. /\ g_commit_task_id = 0 /\ cut.pc = "take" /\ disp.pc = "round"
      /\ g_completed_cnt = 0 /\ completed_queue = <<>> /\ g_orch_is_done = FALSE
      /\ \A i \in Rings : g_state_buf[i].state = "CREATING"
      /\ \A u \in Units : exe[u].state = "EMPTY"
      /\ \A i \in Rings : ed[i] = NoEdMeta
      /\ \A t \in Tasks : runs[t] = 0
      /\ stats.stage = 0 /\ stats.bell = 0 /\ stats.open = 0
  BY DEF Init, StateInit
<1>3. \A t \in Tasks : /\ ~Committed(t) /\ ~Completed(t) /\ ~Ran(t) /\ ~Running(t)
                       /\ ~Staged(t) /\ ~Rung(t)
  BY <1>1, <1>2 DEF Committed, Committing, Completed, Ran, Running, SlotsOf, InState,
     Staged, Rung, NoEdMeta
<1>4. Cardinality({}) = 0
  BY FS_EmptySet
<1>5. CountedInv
  <2>1. {t \in Tasks : Completed(t)} = {}
    BY <1>3
  <2>2. Cardinality({t \in Tasks : Completed(t)}) = 0
    BY <1>4, <2>1
  <2>3. Len(completed_queue) = 0
    BY <1>2
  <2> QED BY <1>2, <2>2, <2>3 DEF CountedInv
<1>6. \A t \in Tasks : Settled(t)
  BY <1>3 DEF Settled, Due, Started
<1>7. StatsInv
  <2>1. /\ {t \in Tasks : Staged(t)} = {} /\ {t \in Tasks : Rung(t)} = {}
        /\ {t \in Tasks : Open(t)} = {}
    BY <1>3 DEF Open
  <2> QED BY <1>2, <1>3, <1>4, <2>1 DEF StatsInv
<1> QED BY <1>5, <1>6, <1>7 DEF EndInv

(* ... and every step keeps it.                                            *)
LEMMA EndStep ==
  ASSUME NoReuse, TypeOK, TypeOK', SlotInv, GateInv, WatermarkInv, DagInv, FaninInv, EndInv,
         [Next]_vars
  PROVE  EndInv'
<1>1. CountedInv /\ StatsInv /\ \A t \in Tasks : Settled(t)
  BY DEF EndInv
<1>2. CountedInv' /\ StatsInv'
  BY <1>1, CountedStep, StatsStep
<1>3. \A t \in Tasks : Ran(t)' => Due(t)'
  BY <1>1, RanWasDue DEF Settled
<1>4. ASSUME NEW t \in Tasks, ED_ENABLE
      PROVE  ClaimWhole(t)' /\ (Due(t)' => AtRest(t)') /\ Handed(t)'
  <2>1. ClaimWhole(t) /\ (Due(t) => AtRest(t)) /\ Handed(t)
    BY <1>1, <1>4 DEF Settled, ClaimWhole, Handed
  <2>2. CreditInv /\ TodoInv /\ HookInv
    BY <1>4 DEF FaninInv
  <2> QED BY <1>4, <2>1, <2>2, ClaimsWhole, RestsStep, HandedStep
<1>5. \A t \in Tasks : Settled(t)'
  BY <1>3, <1>4 DEF Settled, ClaimWhole, Handed
<1> QED BY <1>2, <1>5 DEF EndInv

(* For a graph that fits into the ring, the counts main compares are exact *)
(* in every state, and a task that ran was released, claimed whole and has *)
(* told its successors or is about to.                                     *)
THEOREM EndHolds ==
  ASSUME NoReuse
  PROVE  Spec => []EndInv
<1>1. Init => EndInv
  BY EndInit
<1>2. /\ TypeOK /\ TypeOK' /\ SlotInv /\ GateInv /\ WatermarkInv /\ DagInv /\ FaninInv /\ EndInv
      /\ [Next]_vars
      => EndInv'
  BY EndStep
<1> QED BY <1>1, <1>2, InvariantHolds, GatesWatched, CompletionsTold, DagHolds, FaninHolds, PTL
        DEF Spec

(* TypeOK and Inductive hold in every state, for every configuration; the  *)
(* part that is about single use of entries where the graph fits the ring. *)
THEOREM InductiveHolds == Spec => []Inductive
<1>1. Spec => [](SlotInv /\ GateInv /\ WatermarkInv)
  BY InvariantHolds, GatesWatched, CompletionsTold, PTL
<1>2. CASE NoReuse
  <2>1. Spec => [](DagInv /\ UnfinInv /\ FaninInv /\ EndInv)
    BY <1>2, DagHolds, UnfinHolds, FaninHolds, EndHolds, PTL
  <2>2. /\ SlotInv /\ GateInv /\ WatermarkInv
        /\ DagInv /\ UnfinInv /\ FaninInv /\ EndInv
        => Inductive
    BY DEF Inductive
  <2> QED BY <1>1, <2>1, <2>2, PTL
<1>3. CASE ~NoReuse
  <2>1. SlotInv /\ GateInv /\ WatermarkInv => Inductive
    BY <1>3 DEF Inductive
  <2> QED BY <1>1, <2>1, PTL
<1> QED BY <1>2, <1>3

----------------------------------------------------------------------------
(* When the dispatcher has returned, every task has run.                   *)
LEMMA AllRan ==
  ASSUME NoReuse, TypeOK, WatermarkInv, DagInv, CountedInv, disp.pc = "done"
  PROVE  \A t \in Tasks : Ran(t)
<1> DEFINE C == {t \in Tasks : Completed(t)}
           Q == ToSet(completed_queue)
<1>1. /\ \A t \in Q : t \in Tasks /\ Ran(t) /\ ~Completed(t)
      /\ Distinct(completed_queue) /\ \A t \in Tasks : Completed(t) => Ran(t)
  BY ToldRan DEF DagInv
<1>2. IsFiniteSet(Q) /\ Cardinality(Q) = Len(completed_queue)
  BY <1>1, DistinctLength DEF TypeOK, QueueTypes
<1>3. C \cap Q = {} /\ C \cup Q \subseteq Tasks
  BY <1>1
<1>4. IsFiniteSet(C) /\ Cardinality(C) \in Nat /\ Cardinality(Q) \in Nat
      /\ IsFiniteSet(Tasks) /\ Cardinality(Tasks) = N /\ N \in Nat
  BY <1>2, TaskSets, FS_CardinalityType
<1>5. N <= Len(completed_queue) + Cardinality(C)
  BY DEF CountedInv
<1>6. N <= Cardinality(C \cup Q)
  <2>1. Cardinality(C \cup Q) = Cardinality(C) + Cardinality(Q) - Cardinality(C \cap Q)
    BY <1>2, <1>4, FS_Union
  <2>2. Cardinality(C \cap Q) = 0
    BY <1>3, FS_EmptySet
  <2> HIDE DEF C, Q
  <2> QED BY <1>2, <1>4, <1>5, <2>1, <2>2
<1>7. C \cup Q = Tasks
  <2> HIDE DEF C, Q
  <2> QED BY <1>3, <1>4, <1>6, WholeSet
<1> QED BY <1>1, <1>7

(* What main then reads from the counters ...                              *)
LEMMA StatsAgree ==
  ASSUME NoReuse, TypeOK, DagInv, EndInv,
         \A t \in Tasks : Ran(t), \A u \in Units : exe[u].state = "EMPTY"
  PROVE  stats.stage = stats.bell /\ stats.bell = stats.open
<1>1. \A t \in Tasks : Open(t) <=> Rung(t)
  BY DEF Open, GateOf
<1>2. \A t \in Tasks : Committed(t)
  BY DEF EndInv, Settled, Due
<1>3. ASSUME NEW t \in Tasks
      PROVE  Staged(t) <=> Rung(t)
  <2>1. CASE ~ED_ENABLE
    BY <2>1 DEF EndInv, StatsInv
  <2>2. CASE ED_ENABLE
    <3>1. Recorded(t)
      BY <1>2, <2>2 DEF DagInv, StageInv
    <3>2. ed[t].claimed \in 0 .. 1 /\ ed[t].staged \in MetaRecords
      BY IdxSame DEF TypeOK, EdTypes, EdMeta
    <3>3. ed[t].staged # INVALID => ed[t].staged.unit \in Units
      BY <3>2 DEF MetaRecords
    <3> QED BY <3>1, <3>2, <3>3 DEF Recorded, Staged, Rung
  <2> QED BY <2>1, <2>2
<1>4. /\ {t \in Tasks : Staged(t)} = {t \in Tasks : Rung(t)}
      /\ {t \in Tasks : Open(t)} = {t \in Tasks : Rung(t)}
  BY <1>1, <1>3
<1> QED BY <1>4 DEF EndInv, StatsInv

(* ... and from the entry of a task.                                       *)
LEMMA EntryAgrees ==
  ASSUME NoReuse, TypeOK, DagInv, FaninInv, EndInv, Terminated, ED_ENABLE,
         \A t \in Tasks : Ran(t), NEW t \in Tasks
  PROVE  /\ ed[t].spec # "STAGING" /\ ed[t].next_block = Count[t]
         /\ ed[t].fanin = ed[t].target
<1>1. Due(t) /\ Committed(t) /\ AtRest(t)
  BY DEF EndInv, Settled, Due
<1>2. ed[t].next_block = Count[t]
  <2>1. Claimed(t)
    BY DEF DagInv, ClaimInv, RunOnce
  <2> QED BY <1>1, <2>1 DEF Claimed, EndInv, Settled
<1>3. CreditInv /\ TodoInv /\ HookInv
  BY DEF FaninInv
<1>4. /\ disp.pc = "done" /\ exec.pc = "done" /\ cut.pc = "done"
      /\ disp.todo = <<>> /\ exec.todo = <<>>
  BY <1>3 DEF Terminated, TodoInv, TypeOK, DispTypes, ExecTypes
<1>5. \A p \in Tasks : Dispatched(p)
  BY <1>4 DEF EndInv, Settled, Started, DispatcherHooks, ExecutorHooks
<1>6. SnapExact(t) /\ CreditsExact(t)
  BY <1>1, <1>3 DEF CreditInv, TaskCredits
<1>7. Late(t) = 0 /\ Left(t) = {}
  BY <1>4 DEF Late, Left, Committing
<1>8. Credited(t) = DOMAIN ed[t].snap
  BY <1>5, <1>6, <1>7, PredecessorFacts DEF Credited, Placed, SnapExact
<1>9. ed[t].fanin \in Nat /\ Occurrences(t, disp.todo) = 0 /\ Occurrences(t, exec.todo) = 0
  BY <1>4, <1>6, CreditTypes, OccurrencesEmpty
<1>10. ed[t].fanin = Cardinality(Credited(t))
  BY <1>6, <1>7, <1>9 DEF CreditsExact
<1>11. ed[t].target = Cardinality(DOMAIN ed[t].snap)
  BY <1>6 DEF SnapExact
<1> QED BY <1>1, <1>2, <1>8, <1>10, <1>11 DEF AtRest

(* The self-check main makes after the joins (esl_proxy.c) succeeds: all   *)
(* tasks ran once, no slot is left occupied, no entry is left in staging,  *)
(* unclaimed or short of a credit, and stagings, notices and opened gates  *)
(* are equally many.                                                       *)
THEOREM SelfCheckSucceeds ==
  ASSUME NoReuse
  PROVE  Spec => []SelfCheck
<1>1. ASSUME TypeOK, WatermarkInv, DagInv, FaninInv, EndInv
      PROVE  SelfCheck
  <2> SUFFICES ASSUME Terminated
               PROVE  /\ \A t \in Tasks : runs[t] = 1
                      /\ InState("EMPTY") = Units
                      /\ stats.stage = stats.bell /\ stats.bell = stats.open
                      /\ ED_ENABLE => \A t \in Tasks :
                           /\ ed[Idx(t)].spec # "STAGING"
                           /\ ed[Idx(t)].next_block = Count[t]
                           /\ ed[Idx(t)].fanin = ed[Idx(t)].target
    BY DEF SelfCheck
  <2>1. \A t \in Tasks : Ran(t)
    BY <1>1, AllRan DEF EndInv, Terminated
  <2>2. \A t \in Tasks : runs[t] = 1
    <3>1. \A t \in Tasks : runs[t] \in Nat /\ runs[t] <= 1
      BY <1>1 DEF TypeOK, QueueTypes, DagInv, ClaimInv, RunOnce
    <3> QED BY <2>1, <3>1 DEF Ran
  <2>3. \A u \in Units : exe[u].state = "EMPTY"
    <3>1. \A u \in Units : exe[u].task \in Tasks
      BY <1>1 DEF TypeOK, SlotTypes, Slot
    <3> QED BY <1>1, <2>1, <3>1 DEF DagInv, ClaimInv, RunOnce, Occupies
  <2>4. InState("EMPTY") = Units
    BY <2>3 DEF InState
  <2>5. stats.stage = stats.bell /\ stats.bell = stats.open
    BY <1>1, <2>1, <2>3, StatsAgree
  <2>6. ASSUME ED_ENABLE, NEW t \in Tasks
        PROVE  /\ ed[Idx(t)].spec # "STAGING" /\ ed[Idx(t)].next_block = Count[t]
               /\ ed[Idx(t)].fanin = ed[Idx(t)].target
    BY <1>1, <2>1, <2>6, EntryAgrees, IdxSame
  <2> QED BY <2>2, <2>4, <2>5, <2>6
<1> QED BY <1>1, InvariantHolds, CompletionsTold, DagHolds, FaninHolds, EndHolds, PTL
=============================================================================
