---------------------------- MODULE EslProxyProofs ----------------------------
(***************************************************************************)
(* Theorems about EslProxy, for every graph, ring size, number of cores    *)
(* and slots, batch size and Early Dispatch setting.                       *)
(***************************************************************************)
EXTENDS EslProxyInv, FiniteSetTheorems, SequenceTheorems, TLAPS

----------------------------------------------------------------------------
(* Facts about the data of the proxy: least elements, ring indices, finite *)
(* sets of slots, and sequences of tasks.                                  *)

(* A non-empty set of numbers has the least element LowestOf names: the    *)
(* bit ctz finds, the next position of a list.                             *)
LEMMA LowestExists ==
  ASSUME NEW S, S \subseteq Nat, S # {}
  PROVE  /\ LowestOf(S) \in S
         /\ \A z \in S : LowestOf(S) <= z
<1> DEFINE lt == OpToRel(<, Nat)
<1>1. IsWellFoundedOn(lt, Nat)
  BY NatLessThanWellFounded
<1>2. PICK x \in S : \A y \in S : <<y, x>> \notin lt
  <2> HIDE DEF lt
  <2> QED BY <1>1, WFMin
<1>3. \A y \in S : x <= y
  <2> TAKE y \in S
  <2>1. <<y, x>> \notin lt
    BY <1>2
  <2>2. ~(y < x)
    <3>1. <<y, x>> \in Nat \X Nat /\ <<y, x>>[1] = y /\ <<y, x>>[2] = x
      OBVIOUS
    <3> QED BY <2>1, <3>1 DEF OpToRel
  <2> QED BY <2>2
<1>4. \E w \in S : \A z \in S : w <= z
  BY <1>3
<1> QED BY <1>4 DEF LowestOf

(* task_id & RING_MASK is an index of the ring arrays.                     *)
LEMMA IdxInRings ==
  ASSUME NEW t \in Tasks
  PROVE  Idx(t) \in Rings
BY ConfigAssumption DEF Idx, Rings, Tasks

(* Task ids are numbers, and there is a task 0.                            *)
LEMMA TasksAreNat == Tasks \subseteq Nat /\ 0 \in Tasks
BY ConfigAssumption DEF Tasks

(* The two hardware types are 0 and 1; MIX shares the value of VECTOR.     *)
LEMMA TypesFacts ==
  /\ TASK_TYPE_CUBE \in Types /\ TASK_TYPE_VECTOR \in Types
  /\ Types = {0, 1} /\ Types \subseteq Nat
BY DEF Types, TASK_TYPE_CUBE, TASK_TYPE_VECTOR

(* The cores of a type, and all slots of all cores, are finitely many.     *)
LEMMA UnitsFinite ==
  /\ IsFiniteSet(Cores) /\ IsFiniteSet(Units)
<1>1. IsFiniteSet(Cores) /\ IsFiniteSet(Slots)
  <2>1. AIC_CNT - 1 \in Int /\ AIC_OSTD - 1 \in Int
    BY ConfigAssumption
  <2> QED BY <2>1, FS_Interval DEF Cores, Slots
<1>2. IsFiniteSet(Types)
  <2>1. IsFiniteSet({0})
    BY FS_Singleton
  <2>2. Types = {0} \cup {1}
    BY TypesFacts
  <2> QED BY <2>1, <2>2, FS_AddElement
<1>3. IsFiniteSet(Cores \X Slots)
  BY <1>1, FS_Product
<1>4. IsFiniteSet((Types \X Cores) \X Slots)
  BY <1>1, <1>2, FS_Product
<1>5. DEFINE f == [v \in (Types \X Cores) \X Slots |-> <<v[1][1], v[1][2], v[2]>>]
<1>6. f \in Surjection((Types \X Cores) \X Slots, Units)
  <2>1. \A v \in (Types \X Cores) \X Slots : f[v] \in Units
    BY DEF Units
  <2>2. ASSUME NEW u \in Units
        PROVE  \E v \in (Types \X Cores) \X Slots : f[v] = u
    <3>1. <<<<u[1], u[2]>>, u[3]>> \in (Types \X Cores) \X Slots
      BY DEF Units
    <3>2. f[<<<<u[1], u[2]>>, u[3]>>] = <<u[1], u[2], u[3]>>
      BY <3>1
    <3>3. u = <<u[1], u[2], u[3]>>
      BY DEF Units
    <3> QED BY <3>1, <3>2, <3>3
  <2> QED BY <2>1, <2>2 DEF Surjection
<1>7. IsFiniteSet(Units)
  BY <1>4, <1>6, FS_Surjection
<1> QED BY <1>1, <1>7

(* A list of predecessors has finitely many positions.                     *)
LEMMA PositionsFinite ==
  /\ Positions \subseteq Nat /\ IsFiniteSet(Positions)
  /\ \A t \in Tasks : DOMAIN Preds[t] \subseteq Positions
<1>1. \A t \in Tasks : Preds[t] \in Seq(Tasks)
  BY GraphAssumption
<1>2. \A t \in Tasks : /\ DOMAIN Preds[t] = 1 .. Len(Preds[t])
                       /\ Len(Preds[t]) \in Nat
  BY <1>1, LenProperties
<1>3. IsFiniteSet(Tasks)
  BY ConfigAssumption, FS_Interval DEF Tasks
<1> DEFINE f == [t \in Tasks |-> DOMAIN Preds[t]]
           R == {DOMAIN Preds[t] : t \in Tasks}
<1>4. f \in Surjection(Tasks, R)
  BY DEF Surjection
<1>5. IsFiniteSet(R)
  BY <1>3, <1>4, FS_Surjection
<1>6. \A D \in R : IsFiniteSet(D)
  BY <1>2, FS_Interval
<1>7. IsFiniteSet(UNION R)
  BY <1>5, <1>6, FS_UNION
<1>8. Positions = UNION R
  BY DEF Positions
<1>9. UNION R \subseteq Nat
  BY <1>2
<1> QED BY <1>7, <1>8, <1>9

(* So a set of positions, such as the surviving predecessors of a task,   *)
(* can be counted.                                                         *)
LEMMA SubsetCardinality ==
  ASSUME NEW D, D \subseteq Positions
  PROVE  /\ IsFiniteSet(D) /\ Cardinality(D) \in Nat
BY PositionsFinite, FS_Subset, FS_CardinalityType

(* The size of a set of cores: zero only for none, one less when a core is *)
(* used up.                                                                *)
LEMMA CoresCardinality ==
  ASSUME NEW D, D \subseteq Cores
  PROVE  /\ IsFiniteSet(D) /\ Cardinality(D) \in Nat
         /\ Cardinality(D) = 0 <=> D = {}
         /\ \A c \in D : Cardinality(D \ {c}) = Cardinality(D) - 1
<1>1. IsFiniteSet(D)
  BY UnitsFinite, FS_Subset
<1> QED BY <1>1, FS_CardinalityType, FS_EmptySet, FS_RemoveElement

----------------------------------------------------------------------------
(* The types and the hand-over of slots.                                   *)

(* A list kept of the targets of a task is one of its predecessor lists.   *)
LEMMA KeptTargets ==
  ASSUME NEW t \in Tasks, NEW D \in SUBSET DOMAIN Preds[t]
  PROVE  Restrict(Preds[t], D) \in PredLists
<1>1. Preds[t] \in Seq(Tasks)
  BY GraphAssumption
<1>2. \A k \in DOMAIN Preds[t] : Preds[t][k] \in Tasks
  BY <1>1, LenProperties, ElementOfSeq
<1>3. D \in SUBSET Positions
  BY PositionsFinite
<1>4. Restrict(Preds[t], D) \in [D -> Tasks]
  BY <1>2 DEF Restrict
<1> QED BY <1>3, <1>4 DEF PredLists

(* A part of the types holds on as long as its variables do not change.    *)
orchTyped == <<g_task_id, orch, g_orch_is_done, g_basic_buf, g_predecessors>>
graphTyped == <<g_task_id, g_min_uncomplete_task, graphVars>>
edTyped == <<ed, g_ed_ready_queue, g_ed_gated_core_mask, stats>>
slotTyped == <<exe, ctrlVars, msg_bitmap>>
queueTyped == <<ready_queue, completed_queue, g_completed_cnt, g_is_done, runs>>
cutTyped == <<g_task_id, g_commit_task_id, cut>>


(* A part of TypeOK stands while the variables it is about do.             *)
LEMMA Frames ==
  /\ OrchTypes /\ UNCHANGED orchTyped => OrchTypes'
  /\ GraphTypes /\ UNCHANGED graphTyped => GraphTypes'
  /\ EdTypes /\ UNCHANGED edTyped => EdTypes'
  /\ SlotTypes /\ UNCHANGED slotTyped => SlotTypes'
  /\ QueueTypes /\ UNCHANGED queueTyped => QueueTypes'
  /\ CutTypes /\ UNCHANGED cutTyped => CutTypes'
  /\ DispTypes /\ UNCHANGED disp => DispTypes'
  /\ ExecTypes /\ UNCHANGED exec => ExecTypes'
<1>1. OrchTypes /\ UNCHANGED orchTyped => OrchTypes'
  BY DEF OrchTypes, orchTyped
<1>2. GraphTypes /\ UNCHANGED graphTyped => GraphTypes'
  BY DEF GraphTypes, graphTyped, graphVars
<1>3. EdTypes /\ UNCHANGED edTyped => EdTypes'
  BY DEF EdTypes, edTyped
<1>4. SlotTypes /\ UNCHANGED slotTyped => SlotTypes'
  BY DEF SlotTypes, slotTyped, ctrlVars
<1>5. QueueTypes /\ UNCHANGED queueTyped => QueueTypes'
  BY DEF QueueTypes, queueTyped
<1>6. CutTypes /\ UNCHANGED cutTyped => CutTypes'
  BY DEF CutTypes, CutRegs, cutTyped
<1>7. DispTypes /\ UNCHANGED disp => DispTypes'
  BY DEF DispTypes
<1>8. ExecTypes /\ UNCHANGED exec => ExecTypes'
  BY DEF ExecTypes
<1> QED BY <1>1, <1>2, <1>3, <1>4, <1>5, <1>6, <1>7, <1>8

----------------------------------------------------------------------------
(* new_task, add_predecessors, publication and the end of the case keep    *)
(* the types.                                                              *)
LEMMA OrchestratorTypes ==
  ASSUME TypeOK, OrchestratorNext
  PROVE  TypeOK'
<1> USE DEF TypeOK
<1>0. UNCHANGED orchFrame =>
        EdTypes' /\ SlotTypes' /\ QueueTypes' /\ DispTypes' /\ ExecTypes'
  BY Frames
  DEF orchFrame, ctrlVars, edTyped, slotTyped, queueTyped
<1>1. g_task_id \in Nat /\ N \in Nat
  BY ConfigAssumption DEF OrchTypes
<1>2. CASE new_task
  <2>1. /\ g_task_id \in Tasks
        /\ orch' = "preds"
        /\ g_basic_buf' = [g_basic_buf EXCEPT ![Idx(g_task_id)] = g_task_id]
        /\ UNCHANGED <<orchFrame, g_task_id, g_orch_is_done, g_predecessors>>
    BY <1>1, <1>2 DEF new_task, Tasks
  <2>2. OrchTypes'
    BY <1>1, <1>2, <2>1, IdxInRings DEF OrchTypes, MaybeTask, new_task
  <2>3. GraphTypes' /\ CutTypes'
    BY <2>1, Frames DEF orchFrame, graphVars, graphTyped, cutTyped
  <2> QED BY <1>0, <2>1, <2>2, <2>3
<1>3. CASE add_predecessors
  <2> DEFINE kept == Restrict(Preds[g_task_id],
                       {k \in DOMAIN Preds[g_task_id] : KeepTarget(Preds[g_task_id][k])})
  <2>1. /\ orch = "preds" /\ orch' = "publish"
        /\ g_predecessors' = [g_predecessors EXCEPT ![Idx(g_task_id)] = kept]
        /\ UNCHANGED <<orchFrame, orchVars>>
    BY <1>3 DEF add_predecessors
  <2>2. g_task_id \in Tasks
    BY <1>1, <2>1 DEF OrchTypes, Tasks
  <2>3. kept \in PredLists
    BY <2>2, KeptTargets
  <2>4. OrchTypes'
    <3> HIDE DEF kept
    <3> QED BY <2>1, <2>3 DEF OrchTypes, orchVars
  <2>5. GraphTypes' /\ CutTypes'
    BY <2>1, Frames
    DEF orchFrame, orchVars, graphVars, graphTyped, cutTyped
  <2> QED BY <1>0, <2>1, <2>4, <2>5
<1>4. CASE publish
  <2>1. g_task_id' = g_task_id + 1 /\ g_task_id < N
    BY <1>4 DEF publish, OrchTypes
  <2>2. OrchTypes'
    BY <1>1, <1>4, <2>1 DEF publish, OrchTypes
  <2>3. UNCHANGED orchFrame
    BY <1>4 DEF publish
  <2>4. GraphTypes' /\ CutTypes'
    <3>1. UNCHANGED <<g_min_uncomplete_task, graphVars, cut>>
      BY <2>3 DEF orchFrame
    <3>2. GraphTypes'
      BY <1>1, <2>1, <3>1 DEF graphVars, GraphTypes
    <3>3. cut.end \in Nat /\ cut.end <= g_task_id'
      BY <1>1, <2>1 DEF CutTypes, CutRegs
    <3>4. CutTypes'
      BY <3>1, <3>3 DEF graphVars, CutTypes, CutRegs
    <3> QED BY <3>2, <3>4
  <2> QED BY <1>0, <2>2, <2>3, <2>4
<1>5. CASE orchestration_done
  <2>1. OrchTypes'
    BY <1>5 DEF orchestration_done, OrchTypes
  <2>2. UNCHANGED <<orchFrame, g_task_id>>
    BY <1>5 DEF orchestration_done
  <2>3. GraphTypes' /\ CutTypes'
    BY <2>2, Frames DEF orchFrame, graphVars, graphTyped, cutTyped
  <2> QED BY <1>0, <2>1, <2>2, <2>3
<1> QED BY <1>2, <1>3, <1>4, <1>5 DEF OrchestratorNext

----------------------------------------------------------------------------
(* Crediting a dispatched predecessor to a task keeps the ED metadata and  *)
(* the ED queue well formed.                                               *)
LEMMA AddFaninTypes ==
  ASSUME EdTypes, NEW t \in Tasks, NEW m \in EdMeta, AddFanin(t, m),
         UNCHANGED <<g_ed_gated_core_mask, stats>>
  PROVE  EdTypes'
<1> DEFINE stage == EntersStaging(m, Idx(t))
           m2 == [m EXCEPT !.fanin = @ + 1, !.spec = IF stage THEN "STAGING" ELSE @]
<1>1. m2 \in EdMeta
  <2> DEFINE sp == IF stage THEN "STAGING" ELSE m.spec
  <2>1. /\ m.fanin + 1 \in Nat
        /\ sp \in {"NONE", "STAGING", "DISPATCHED"}
    BY DEF EdMeta
  <2>2. m2 = [m EXCEPT !.fanin = m.fanin + 1, !.spec = sp]
    BY DEF EdMeta
  <2> HIDE DEF stage, sp, m2
  <2>3. [m EXCEPT !.fanin = m.fanin + 1, !.spec = sp] \in EdMeta
    BY <2>1 DEF EdMeta
  <2> QED BY <2>2, <2>3
<1>2. ed' = [ed EXCEPT ![Idx(t)] = m2]
  BY DEF AddFanin
<1>3. g_ed_ready_queue' \in Seq(Tasks)
  <2>1. g_ed_ready_queue \in Seq(Tasks)
    BY DEF EdTypes
  <2>2. Append(g_ed_ready_queue, t) \in Seq(Tasks)
    BY <2>1, AppendProperties
  <2> QED BY <2>1, <2>2 DEF AddFanin
<1>4. ed' \in [Rings -> EdMeta]
  <2> HIDE DEF m2
  <2> QED BY <1>1, <1>2 DEF EdTypes
<1> QED BY <1>3, <1>4 DEF EdTypes

(* Hook 0 leaves well-formed metadata and takes a list of tasks.           *)
LEMMA Hook0Types ==
  ASSUME EdTypes, GraphTypes, NEW p \in Tasks
  PROVE  /\ Hook0Todo(p) \in Seq(Tasks)
         /\ Hook0Enter(p) /\ UNCHANGED <<g_ed_ready_queue, g_ed_gated_core_mask, stats>>
              => EdTypes'
<1>1. Idx(p) \in Rings
  BY IdxInRings
<1>2. Hook0Todo(p) \in Seq(Tasks)
  <2>1. <<>> \in Seq(Tasks) /\ g_successor_buf[Idx(p)] \in Seq(Tasks)
    BY <1>1, EmptySeq DEF GraphTypes
  <2> QED BY <2>1 DEF Hook0Todo
<1>3. ASSUME Hook0Enter(p), UNCHANGED <<g_ed_ready_queue, g_ed_gated_core_mask, stats>>
      PROVE  EdTypes'
  <2> DEFINE m == MarkDispatched(ed[Idx(p)], p)
  <2>1. ed[Idx(p)] \in EdMeta
    BY <1>1 DEF EdTypes
  <2>2. m \in EdMeta
    BY <2>1 DEF MarkDispatched, EdMeta, MaybeTask
  <2>3. ed' = ed \/ ed' = [ed EXCEPT ![Idx(p)] = m]
    BY <1>3 DEF Hook0Enter
  <2>4. ed' \in [Rings -> EdMeta]
    <3> HIDE DEF m
    <3> QED BY <2>2, <2>3 DEF EdTypes
  <2> QED BY <1>3, <2>4 DEF EdTypes
<1> QED BY <1>2, <1>3

(* A notification claims the metadata and rings one doorbell, no more: no  *)
(* slot changes its state or its task.                                     *)
LEMMA NotifyTypes ==
  ASSUME EdTypes, SlotTypes, NEW t \in Tasks, NEW r, ed_notify_once(t, r),
         UNCHANGED <<g_ed_ready_queue, g_ed_gated_core_mask, ctrlVars, msg_bitmap>>
  PROVE  /\ EdTypes' /\ SlotTypes'
         /\ \A u \in Units : /\ exe'[u].state = exe[u].state
                              /\ exe'[u].task = exe[u].task
<1>1. CASE NotifyLive(t, r)
  <2> DEFINE m == [ed[Idx(t)] EXCEPT !.claimed = 1]
             sl == [exe[r.unit] EXCEPT !.doorbell = 1]
  <2>1. /\ ed' = [ed EXCEPT ![Idx(t)] = m]
        /\ exe' = [exe EXCEPT ![r.unit] = sl]
        /\ stats' = [stats EXCEPT !.bell = @ + 1]
    BY <1>1 DEF ed_notify_once
  <2>2. ed[Idx(t)] \in EdMeta
    BY IdxInRings DEF EdTypes
  <2>3. m \in EdMeta
    BY <2>2 DEF EdMeta
  <2>4. r \in [tag : Tasks, unit : Units]
    BY <1>1, <2>2 DEF NotifyLive, EdMeta, MetaRecords
  <2>5. r.unit \in Units
    BY <2>4
  <2>6. sl \in Slot /\ sl.state = exe[r.unit].state /\ sl.task = exe[r.unit].task
    <3>1. exe[r.unit] \in Slot
      BY <2>5 DEF SlotTypes
    <3> QED BY <3>1 DEF Slot
  <2>7. EdTypes'
    <3> HIDE DEF m
    <3>1. ed' \in [Rings -> EdMeta]
      BY <2>1, <2>3 DEF EdTypes
    <3>2. stats' \in [stage : Nat, bell : Nat, open : Nat]
      BY <2>1 DEF EdTypes
    <3> QED BY <3>1, <3>2 DEF EdTypes
  <2>8. exe' \in [Units -> Slot]
    <3> HIDE DEF sl
    <3> QED BY <2>1, <2>6 DEF SlotTypes
  <2>9. \A u \in Units : /\ exe'[u].state = exe[u].state
                         /\ exe'[u].task = exe[u].task
    <3> HIDE DEF sl
    <3>1. exe \in [Units -> Slot]
      BY DEF SlotTypes
    <3> QED BY <2>1, <2>5, <2>6, <3>1
  <2> QED BY <2>7, <2>8, <2>9 DEF SlotTypes, ctrlVars
<1>2. CASE ~NotifyLive(t, r)
  <2>1. UNCHANGED <<ed, exe, stats>>
    BY <1>2 DEF ed_notify_once
  <2>2. EdTypes' /\ SlotTypes'
    BY <2>1, Frames DEF edTyped, slotTyped
  <2> QED BY <2>1, <2>2
<1> QED BY <1>1, <1>2

----------------------------------------------------------------------------
(* The watermark update_task_state computes exists: the first task, from   *)
(* the old watermark on, that is not published or not completed.           *)
LEMMA WatermarkTypes ==
  ASSUME NEW sb, g_task_id \in Nat, g_min_uncomplete_task \in 0 .. g_task_id
  PROVE  /\ Watermark(sb) \in g_min_uncomplete_task .. g_task_id
         /\ \A t \in g_min_uncomplete_task .. Watermark(sb) - 1 : CompletedIn(sb, t)
<1> DEFINE S == {m \in g_min_uncomplete_task .. g_task_id :
                   m = g_task_id \/ ~CompletedIn(sb, m)}
           x == LowestOf(S)
<1>1. S \subseteq Nat /\ g_task_id \in S
  OBVIOUS
<1>2. x \in S /\ \A z \in S : x <= z
  <2> HIDE DEF S
  <2> QED BY <1>1, LowestExists
<1>3. ASSUME NEW t \in g_min_uncomplete_task .. x - 1
      PROVE  CompletedIn(sb, t)
  <2>1. t \in g_min_uncomplete_task .. g_task_id /\ ~(x <= t)
    <3> HIDE DEF x
    <3> QED BY <1>2
  <2>2. t \notin S
    BY <1>2, <2>1
  <2> QED BY <2>1, <2>2
<1>4. \E m \in g_min_uncomplete_task .. g_task_id :
        /\ \A t \in g_min_uncomplete_task .. m - 1 : CompletedIn(sb, t)
        /\ m = g_task_id \/ ~CompletedIn(sb, m)
  <2> HIDE DEF x
  <2> QED BY <1>2, <1>3
<1> QED BY <1>4 DEF Watermark

(* Marking tasks as completed changes the state of an entry, never its     *)
(* owner or its successor count.                                           *)
LEMMA MarkCompletedTypes ==
  ASSUME GraphTypes, NEW done
  PROVE  /\ MarkCompleted(done) \in [Rings -> TaskState]
         /\ \A i \in Rings :
              MarkCompleted(done)[i].successor_cnt = g_state_buf[i].successor_cnt
<1>1. \A i \in Rings : g_state_buf[i] \in TaskState
  BY DEF GraphTypes
<1>2. \A i \in Rings :
        /\ [g_state_buf[i] EXCEPT !.state = "COMPLETED"] \in TaskState
        /\ [g_state_buf[i] EXCEPT !.state = "COMPLETED"].successor_cnt
             = g_state_buf[i].successor_cnt
  BY <1>1 DEF TaskState
<1> QED BY <1>1, <1>2 DEF MarkCompleted

(* The cutter goes on to resolve, load or send only when there is          *)
(* something to resolve, load or send.                                     *)
LEMMA PcOfRestFacts ==
  ASSUME NEW batch, NEW work, NEW ready
  PROVE  LET pc == PcOfRest(batch, work, ready) IN
         /\ pc \in {"resolve", "load", "send", "take"}
         /\ pc = "resolve" => work # <<>>
         /\ pc = "load" => batch # <<>>
         /\ pc = "send" => \E y \in Types : ready[y] # <<>>
BY DEF PcOfRest

(* A task that became ready is put in the buffer of a type.                *)
LEMMA PushReadyTypes ==
  ASSUME OrchTypes, NEW ready \in [Types -> Seq(Tasks)], NEW s \in Tasks
  PROVE  PushReady(ready, s) \in [Types -> Seq(Tasks)]
<1>1. Idx(s) \in Rings
  BY IdxInRings
<1>2. g_basic_buf[Idx(s)] \in MaybeTask
  BY <1>1 DEF OrchTypes
<1>3. BasicType(Idx(s)) \in Types
  BY <1>2, GraphAssumption, TypesFacts DEF BasicType, MaybeTask
<1>4. Append(ready[BasicType(Idx(s))], s) \in Seq(Tasks)
  BY <1>3, AppendProperties
<1> QED BY <1>3, <1>4 DEF PushReady

(* The empty list is one of the predecessor lists, and the cutter's list   *)
(* of survivors loses one element at a time.                               *)
LEMMA SurvivorLists ==
  /\ <<>> \in PredLists
  /\ \A f \in PredLists : \A D \in SUBSET DOMAIN f :
       Restrict(f, D) \in PredLists /\ DOMAIN Restrict(f, D) = D
  /\ \A f \in PredLists : /\ DOMAIN f \subseteq Positions
                           /\ \A k \in DOMAIN f : f[k] \in Tasks
<1>1. <<>> \in [{} -> Tasks]
  OBVIOUS
<1>2. <<>> \in PredLists
  BY <1>1 DEF PredLists
<1>3. ASSUME NEW f \in PredLists
      PROVE  f \in [DOMAIN f -> Tasks] /\ DOMAIN f \subseteq Positions
  BY DEF PredLists
<1>4. ASSUME NEW f \in PredLists, NEW D \in SUBSET DOMAIN f
      PROVE  Restrict(f, D) \in PredLists /\ DOMAIN Restrict(f, D) = D
  <2>1. Restrict(f, D) \in [D -> Tasks]
    BY <1>3, <1>4 DEF Restrict
  <2>2. D \in SUBSET Positions
    BY <1>3, <1>4
  <2> QED BY <2>1, <2>2 DEF PredLists
<1> QED BY <1>2, <1>3, <1>4

(* The registers after one more turn of the commit loop.                   *)
LEMMA CommitLoopTypes ==
  ASSUME CutTypes, g_task_id \in 0 .. N, UNCHANGED g_task_id,
         NEW next \in Nat, g_commit_task_id' = next,
         NEW end \in 0 .. g_task_id, NEW ready \in [Types -> Seq(Tasks)],
         CommitLoop(next, end, ready)
  PROVE  CutTypes'
<1> DEFINE rest == PcOfRest(cut.batch, <<>>, ready)
           pc == IF next < end THEN "commit" ELSE rest
           e == IF next < end THEN end ELSE 0
<1>1. /\ rest \in {"load", "send", "take"}
      /\ rest = "load" => cut.batch # <<>>
      /\ rest = "send" => \E y \in Types : ready[y] # <<>>
  BY PcOfRestFacts
<1>2. cut' = [cut EXCEPT !.surv = <<>>, !.ready = ready, !.end = e, !.pc = pc]
  BY DEF CommitLoop
<1>3. e \in 0 .. N /\ e <= g_task_id /\ (pc = "commit" => next < e)
  BY <1>1, ConfigAssumption
<1>4. /\ pc \in {"commit", "load", "send", "take"}
      /\ pc = "load" => cut.batch # <<>>
      /\ pc = "send" => \E y \in Types : ready[y] # <<>>
  BY <1>1
<1> HIDE DEF rest, pc, e
<1>5. /\ cut'.pc = pc /\ cut'.end = e /\ cut'.ready = ready
      /\ cut'.batch = cut.batch
  BY <1>2 DEF CutTypes, CutRegs
<1>6. cut' \in CutRegs
  BY <1>2, <1>3, <1>4, SurvivorLists DEF CutTypes, CutRegs
<1> QED BY <1>3, <1>4, <1>5, <1>6 DEF CutTypes, CutRegs

(* What a step of the cutter leaves alone keeps its type.                  *)
LEMMA CutterFrame ==
  ASSUME TypeOK, UNCHANGED <<orchVars, orch, g_completed_cnt, g_is_done, runs, disp, exec>>
  PROVE  /\ DispTypes' /\ ExecTypes'
         /\ g_predecessors' \in [Rings -> PredLists] => OrchTypes'
         /\ ready_queue' \in [Types -> Seq(Tasks)] /\ completed_queue' \in Seq(Tasks)
              => QueueTypes'
<1>1. DispTypes' /\ ExecTypes'
  BY Frames DEF TypeOK
<1>2. g_predecessors' \in [Rings -> PredLists] => OrchTypes'
  BY DEF TypeOK, OrchTypes, orchVars
<1>3. ready_queue' \in [Types -> Seq(Tasks)] /\ completed_queue' \in Seq(Tasks)
        => QueueTypes'
  BY DEF TypeOK, QueueTypes
<1> QED BY <1>1, <1>2, <1>3

(* A step of the cutter that only moves its own registers.                 *)
LEMMA CutterStays ==
  ASSUME TypeOK, CutTypes', UNCHANGED <<cutFrame, g_predecessors, g_min_uncomplete_task, graphVars, ed,
                             g_ed_ready_queue, exe, ready_queue, stats>>
  PROVE  TypeOK'
<1>1. UNCHANGED <<orchVars, orch, g_completed_cnt, g_is_done, runs, disp, exec,
                  g_predecessors, ready_queue, completed_queue>>
  BY DEF cutFrame
<1>2. OrchTypes' /\ QueueTypes' /\ DispTypes' /\ ExecTypes'
  BY <1>1, CutterFrame DEF TypeOK, OrchTypes, QueueTypes
<1>3. GraphTypes' /\ EdTypes' /\ SlotTypes'
  BY Frames DEF cutFrame, orchVars, ctrlVars, TypeOK, graphTyped, edTyped, slotTyped
<1> QED BY <1>2, <1>3 DEF TypeOK

(* Taking completed tasks and moving the watermark.                        *)
LEMMA TakeCompletedTypes ==
  ASSUME TypeOK, take_completed
  PROVE  TypeOK'
<1> DEFINE n == IF Len(completed_queue) <= CQ_BATCH_SIZE THEN Len(completed_queue)
                                                         ELSE CQ_BATCH_SIZE
           done == SubSeq(completed_queue, 1, n)
           rest == SubSeq(completed_queue, n + 1, Len(completed_queue))
           sb == MarkCompleted(done)
           w == IF n > 0 THEN Watermark(sb) ELSE g_min_uncomplete_task
<1>1. /\ completed_queue' = rest /\ g_state_buf' = sb
      /\ g_min_uncomplete_task' = w
      /\ cut' = [cut EXCEPT !.pc = "enter", !.batch = done]
      /\ UNCHANGED <<orchVars, g_predecessors, g_commit_task_id, g_successor_buf,
                    g_predecessor_cnt, ed, g_ed_ready_queue, exe, ctrlVars,
                    g_ed_gated_core_mask, msg_bitmap, ready_queue,
                    g_completed_cnt, g_is_done, stats, runs, orch, disp, exec>>
  BY DEF take_completed
<1>2. /\ completed_queue \in Seq(Tasks) /\ Len(completed_queue) \in Nat
      /\ n \in 0 .. Len(completed_queue)
  BY ConfigAssumption, LenProperties DEF TypeOK, QueueTypes
<1>3. done \in Seq(Tasks) /\ rest \in Seq(Tasks)
  <2> HIDE DEF n
  <2> QED BY <1>2, SubSeqProperties
<1>4. /\ sb \in [Rings -> TaskState]
      /\ \A i \in Rings : sb[i].successor_cnt = g_state_buf[i].successor_cnt
  BY MarkCompletedTypes DEF TypeOK
<1>5. g_task_id \in Nat /\ g_min_uncomplete_task \in 0 .. g_task_id
  BY ConfigAssumption DEF TypeOK, OrchTypes, GraphTypes
<1>6. w \in 0 .. g_task_id
  <2> HIDE DEF sb, n
  <2>1. Watermark(sb) \in g_min_uncomplete_task .. g_task_id
    BY <1>5, WatermarkTypes
  <2> QED BY <1>5, <2>1
<1> HIDE DEF n, done, rest, sb, w
<1>7. GraphTypes'
  <2>1. UNCHANGED <<g_task_id, g_commit_task_id, g_successor_buf, g_predecessor_cnt>>
    BY <1>1 DEF orchVars
  <2> QED BY <1>1, <1>4, <1>6, <2>1 DEF TypeOK, GraphTypes
<1>8. CutTypes'
  <2>1. UNCHANGED <<g_task_id, g_commit_task_id>>
    BY <1>1 DEF orchVars
  <2>2. cut'.pc = "enter" /\ cut'.end = cut.end
    BY <1>1 DEF TypeOK, CutTypes, CutRegs
  <2>3. cut' \in CutRegs
    BY <1>1, <1>3 DEF TypeOK, CutTypes, CutRegs
  <2> QED BY <2>1, <2>2, <2>3 DEF TypeOK, CutTypes, CutRegs
<1>9. OrchTypes' /\ QueueTypes' /\ DispTypes' /\ ExecTypes'
  <2>1. ready_queue' \in [Types -> Seq(Tasks)] /\ completed_queue' \in Seq(Tasks)
    BY <1>1, <1>3 DEF TypeOK, QueueTypes
  <2>2. g_predecessors' \in [Rings -> PredLists]
    BY <1>1 DEF TypeOK, OrchTypes
  <2> QED BY <1>1, <2>1, <2>2, CutterFrame
<1>10. EdTypes' /\ SlotTypes'
  BY <1>1, Frames DEF TypeOK, ctrlVars, edTyped, slotTyped
<1> QED BY <1>7, <1>8, <1>9, <1>10 DEF TypeOK

(* The metadata and the survivors of a freshly committed task.             *)
LEMMA CommitData ==
  ASSUME TypeOK, NEW s \in Tasks
  PROVE  /\ Survivors(s) \in PredLists
         /\ Cardinality(DOMAIN Survivors(s)) \in Nat
         /\ FreshMeta(s, Survivors(s)) \in EdMeta
<1>1. g_predecessors[Idx(s)] \in PredLists
  BY IdxInRings DEF TypeOK, OrchTypes
<1>2. Survivors(s) \in PredLists
  <2> DEFINE ptr == g_predecessors[Idx(s)]
             all == {k \in DOMAIN ptr : Survives(ptr[k])}
             D == {k \in all : Cardinality({j \in all : j < k}) < CON_NODE_CNT}
  <2>1. D \in SUBSET DOMAIN ptr /\ Survivors(s) = Restrict(ptr, D)
    BY DEF Survivors
  <2> HIDE DEF D
  <2> QED BY <1>1, <2>1, SurvivorLists
<1>3. Cardinality(DOMAIN Survivors(s)) \in Nat
  BY <1>2, SurvivorLists, SubsetCardinality
<1> DEFINE surv == Survivors(s)
           c == Cardinality(DOMAIN surv)
           m == [NoEdMeta EXCEPT !.ring_task_tag = s, !.target = c, !.unfin = c,
                                 !.snap = surv]
<1>4. FreshMeta(s, surv) = m
  BY DEF FreshMeta
<1>5. NoEdMeta \in EdMeta
  BY SurvivorLists DEF NoEdMeta, EdMeta, MaybeTask, MetaRecords
<1>6. m \in EdMeta
  <2> HIDE DEF surv, c
  <2>1. s \in MaybeTask
    BY DEF MaybeTask
  <2>2. surv \in PredLists /\ c \in Nat
    BY <1>2, <1>3 DEF surv, c
  <2> QED BY <1>5, <2>1, <2>2 DEF EdMeta
<1> QED BY <1>2, <1>3, <1>4, <1>6

(* The task a commit is about is published, and has a ring entry.          *)
LEMMA CommittedTask ==
  ASSUME OrchTypes, GraphTypes, CutTypes, cut.pc \in {"commit", "edge", "late"}
  PROVE  /\ g_task_id \in 0 .. N /\ N \in Nat
         /\ g_commit_task_id \in Tasks /\ Idx(g_commit_task_id) \in Rings
         /\ g_commit_task_id + 1 \in 0 .. g_task_id
         /\ cut.end \in 0 .. g_task_id
<1>1. /\ g_task_id \in 0 .. N /\ N \in Nat
      /\ g_commit_task_id \in 0 .. g_task_id /\ g_commit_task_id < cut.end
      /\ cut.end \in 0 .. N /\ cut.end <= g_task_id
  BY ConfigAssumption DEF OrchTypes, GraphTypes, CutTypes, CutRegs
<1>2. g_commit_task_id \in Tasks
  BY <1>1 DEF Tasks
<1> QED BY <1>1, <1>2, IdxInRings

(* The commit of a task goes on to its next edge, or ends.                 *)
LEMMA EdgeDoneTypes ==
  ASSUME OrchTypes, GraphTypes, CutTypes, cut.pc \in {"edge", "late"},
         UNCHANGED g_task_id, EdgeDone
  PROVE  /\ CutTypes'
         /\ g_predecessors' \in [Rings -> PredLists]
         /\ g_commit_task_id' \in 0 .. g_task_id
<1>1. /\ g_task_id \in 0 .. N /\ N \in Nat
      /\ g_commit_task_id \in Tasks
      /\ Idx(g_commit_task_id) \in Rings
      /\ g_commit_task_id + 1 \in 0 .. g_task_id
      /\ cut.end \in 0 .. g_task_id
      /\ g_commit_task_id \in 0 .. g_task_id
      /\ g_predecessors \in [Rings -> PredLists]
  BY CommittedTask DEF OrchTypes, GraphTypes
<1>2. CASE DOMAIN LaterEdges # {}
  <2>1. /\ cut' = [cut EXCEPT !.pc = "edge", !.surv = LaterEdges]
        /\ UNCHANGED <<g_predecessors, g_commit_task_id>>
    BY <1>2 DEF EdgeDone
  <2>2. LaterEdges \in PredLists
    <3>1. cut.surv \in PredLists
      BY DEF CutTypes, CutRegs
    <3> QED BY <3>1, SurvivorLists DEF LaterEdges
  <2>3. /\ cut'.pc = "edge" /\ cut'.surv = LaterEdges /\ cut'.end = cut.end
    BY <2>1 DEF CutTypes, CutRegs
  <2>4. cut' \in CutRegs
    BY <2>1, <2>2 DEF CutTypes, CutRegs
  <2>5. cut.end <= g_task_id' /\ g_commit_task_id' < cut.end
    BY <2>1 DEF CutTypes, CutRegs
  <2>6. CutTypes'
    BY <1>2, <2>3, <2>4, <2>5 DEF CutTypes, CutRegs
  <2> QED BY <1>1, <2>1, <2>6
<1>3. CASE DOMAIN LaterEdges = {}
  <2>1. /\ g_predecessors' = [g_predecessors EXCEPT ![Idx(g_commit_task_id)] = <<>>]
        /\ g_commit_task_id' = g_commit_task_id + 1
        /\ CommitLoop(g_commit_task_id + 1, cut.end, cut.ready)
    BY <1>3 DEF EdgeDone
  <2>2. g_predecessors' \in [Rings -> PredLists]
    BY <1>1, <2>1, SurvivorLists
  <2>3. cut.ready \in [Types -> Seq(Tasks)] /\ g_commit_task_id + 1 \in Nat
    BY <1>1 DEF CutTypes, CutRegs
  <2>4. CutTypes'
    BY <1>1, <2>1, <2>3, CommitLoopTypes
  <2> QED BY <1>1, <2>1, <2>2, <2>4
<1> QED BY <1>2, <1>3

(* Committing a task keeps the types.                                      *)
LEMMA CommitTypes ==
  ASSUME TypeOK, commit
  PROVE  TypeOK'
<1> DEFINE s == g_commit_task_id
           i == Idx(s)
           surv == Survivors(s)
           c == Cardinality(DOMAIN surv)
           m == FreshMeta(s, surv)
           st == [task_id |-> s, state |-> "SUBMITTED", successor_cnt |-> 0]
<1>0. /\ OrchTypes /\ GraphTypes /\ EdTypes /\ SlotTypes /\ QueueTypes
      /\ CutTypes /\ cut.pc = "commit"
  BY DEF TypeOK, commit
<1>1. /\ g_task_id \in 0 .. N /\ N \in Nat
      /\ s \in Tasks /\ i \in Rings /\ s + 1 \in 0 .. g_task_id
      /\ s \in 0 .. g_task_id /\ cut.end \in 0 .. g_task_id
  BY <1>0, CommittedTask DEF GraphTypes
<1>2. /\ surv \in PredLists /\ c \in Nat /\ m \in EdMeta
  BY <1>1, CommitData
<1>3. /\ cut.pc = "commit"
      /\ ed' = IF ED_ENABLE THEN [ed EXCEPT ![i] = m] ELSE ed
      /\ g_successor_buf' = IF ED_ENABLE THEN [g_successor_buf EXCEPT ![i] = <<>>]
                                         ELSE g_successor_buf
      /\ g_state_buf' = [g_state_buf EXCEPT ![i] = st]
      /\ g_predecessor_cnt' = [g_predecessor_cnt EXCEPT ![i] = c]
      /\ IF DOMAIN surv = {}
         THEN /\ g_predecessors' = [g_predecessors EXCEPT ![i] = <<>>]
              /\ g_commit_task_id' = s + 1
              /\ CommitLoop(s + 1, cut.end, PushReady(cut.ready, s))
         ELSE /\ cut' = [cut EXCEPT !.pc = "edge", !.surv = surv]
              /\ UNCHANGED <<g_predecessors, g_commit_task_id>>
      /\ UNCHANGED <<cutFrame, g_min_uncomplete_task, g_ed_ready_queue, exe,
                     ready_queue, stats>>
  BY DEF commit
<1>4. st \in TaskState /\ st.successor_cnt = 0
  BY <1>1 DEF TaskState
<1> HIDE DEF surv, c, m, st
<1>5. UNCHANGED <<orchVars, orch, g_completed_cnt, g_is_done, runs, disp, exec,
                  g_task_id, completed_queue, g_ed_gated_core_mask, ctrlVars,
                  msg_bitmap>>
  BY <1>3 DEF cutFrame, orchVars
<1>6. EdTypes'
  BY <1>0, <1>1, <1>2, <1>3, <1>5 DEF EdTypes
<1>7. /\ g_successor_buf' \in [Rings -> Seq(Tasks)]
      /\ g_state_buf' \in [Rings -> TaskState]
      /\ g_predecessor_cnt' \in [Rings -> Nat]
  <2>1. <<>> \in Seq(Tasks)
    BY EmptySeq
  <2> QED BY <1>0, <1>1, <1>2, <1>3, <1>4, <2>1 DEF GraphTypes
<1>8. \A j \in Rings : g_state_buf'[j].successor_cnt <= Len(g_successor_buf'[j])
  <2> TAKE j \in Rings
  <2>1. CASE j = i
    <3>1. g_state_buf'[j].successor_cnt = 0
      BY <1>0, <1>1, <1>3, <1>4, <2>1 DEF GraphTypes
    <3>2. Len(g_successor_buf'[j]) \in Nat
      BY <1>7, LenProperties
    <3> QED BY <3>1, <3>2
  <2>2. CASE j # i
    <3>1. g_state_buf'[j] = g_state_buf[j] /\ g_successor_buf'[j] = g_successor_buf[j]
      BY <1>0, <1>3, <2>2 DEF GraphTypes
    <3> QED BY <1>0, <3>1 DEF GraphTypes
  <2> QED BY <2>1, <2>2
<1>9. CutTypes' /\ g_predecessors' \in [Rings -> PredLists]
      /\ g_commit_task_id' \in 0 .. g_task_id
  <2>1. CASE DOMAIN surv = {}
    <3>1. PushReady(cut.ready, s) \in [Types -> Seq(Tasks)]
      BY <1>0, <1>1, PushReadyTypes DEF CutTypes, CutRegs
    <3>2. CutTypes'
      BY <1>0, <1>1, <1>3, <1>5, <2>1, <3>1, CommitLoopTypes
    <3>3. g_predecessors' \in [Rings -> PredLists]
      BY <1>0, <1>1, <1>3, <2>1, SurvivorLists DEF OrchTypes
    <3> QED BY <1>1, <1>3, <2>1, <3>2, <3>3
  <2>2. CASE DOMAIN surv # {}
    <3>1. /\ cut' = [cut EXCEPT !.pc = "edge", !.surv = surv]
          /\ UNCHANGED <<g_predecessors, g_commit_task_id>>
      BY <1>3, <2>2
    <3>2. cut'.pc = "edge" /\ cut'.surv = surv /\ cut'.end = cut.end
      BY <1>0, <3>1 DEF CutTypes, CutRegs
    <3>3. cut' \in CutRegs
      BY <1>0, <1>2, <3>1 DEF CutTypes, CutRegs
    <3>4. cut.end <= g_task_id' /\ g_commit_task_id' < cut.end
      BY <1>0, <1>5, <3>1 DEF CutTypes, CutRegs
    <3>5. CutTypes'
      BY <2>2, <3>2, <3>3, <3>4 DEF CutTypes, CutRegs
    <3> QED BY <1>0, <1>1, <3>1, <3>5 DEF OrchTypes
  <2> QED BY <2>1, <2>2
<1>10. GraphTypes'
  <2>1. UNCHANGED <<g_task_id, g_min_uncomplete_task>>
    BY <1>3, <1>5
  <2> QED BY <1>0, <1>7, <1>8, <1>9, <2>1 DEF GraphTypes
<1>11. OrchTypes' /\ QueueTypes' /\ DispTypes' /\ ExecTypes'
  <2>1. UNCHANGED <<ready_queue, completed_queue>>
    BY <1>3, <1>5
  <2>2. ready_queue' \in [Types -> Seq(Tasks)] /\ completed_queue' \in Seq(Tasks)
    BY <1>0, <2>1 DEF QueueTypes
  <2> QED BY <1>5, <1>9, <2>2, CutterFrame
<1>12. SlotTypes'
  BY <1>0, <1>3, <1>5, Frames DEF slotTyped
<1> QED BY <1>6, <1>9, <1>10, <1>11, <1>12 DEF TypeOK

(* Appending one edge keeps the types: the successor count of an entry     *)
(* stays within its successor list.                                        *)
LEMMA EdgeTypes ==
  ASSUME TypeOK, edge
  PROVE  TypeOK'
<1> DEFINE s == g_commit_task_id
           p == cut.surv[NextEdge]
           i == Idx(p)
           st == [g_state_buf[i] EXCEPT !.successor_cnt = @ + 1]
           sl == Append(g_successor_buf[i], s)
           dropped == ED_ENABLE /\ ~TagIs(p)
<1>0. /\ OrchTypes /\ GraphTypes /\ EdTypes /\ SlotTypes /\ QueueTypes
      /\ CutTypes /\ cut.pc = "edge"
  BY DEF TypeOK, edge
<1>1. /\ s \in Tasks /\ s \in 0 .. g_task_id /\ Idx(s) \in Rings
  BY <1>0, CommittedTask DEF GraphTypes
<1>2. p \in Tasks /\ i \in Rings
  <2>1. cut.surv \in PredLists /\ DOMAIN cut.surv # {}
    BY <1>0 DEF CutTypes, CutRegs
  <2>2. DOMAIN cut.surv \subseteq Nat
    BY <2>1, SurvivorLists, PositionsFinite
  <2>3. NextEdge \in DOMAIN cut.surv
    BY <2>1, <2>2, LowestExists DEF NextEdge
  <2> QED BY <2>1, <2>3, SurvivorLists, IdxInRings
<1>3. /\ g_state_buf[i] \in TaskState /\ g_successor_buf[i] \in Seq(Tasks)
      /\ g_state_buf[i].successor_cnt \in Nat
      /\ g_state_buf[i].successor_cnt <= Len(g_successor_buf[i])
  BY <1>0, <1>2 DEF GraphTypes, TaskState
<1>4. /\ st \in TaskState /\ st.successor_cnt = g_state_buf[i].successor_cnt + 1
      /\ sl \in Seq(Tasks) /\ Len(sl) = Len(g_successor_buf[i]) + 1
  <2>1. st \in TaskState /\ st.successor_cnt = g_state_buf[i].successor_cnt + 1
    BY <1>3 DEF TaskState
  <2>2. sl \in Seq(Tasks) /\ Len(sl) = Len(g_successor_buf[i]) + 1
    BY <1>1, <1>3, AppendProperties
  <2> QED BY <2>1, <2>2
<1>5. UNCHANGED <<orchVars, orch, g_completed_cnt, g_is_done, runs, disp, exec,
                  g_task_id, completed_queue, g_ed_gated_core_mask, ctrlVars,
                  msg_bitmap, g_min_uncomplete_task, g_predecessor_cnt, exe,
                  ready_queue, stats>>
  BY DEF edge, cutFrame, orchVars
<1>6. /\ dropped => EdgeDone /\ UNCHANGED <<g_successor_buf, g_state_buf>>
      /\ ~dropped => /\ g_successor_buf' = [g_successor_buf EXCEPT ![i] = sl]
                     /\ g_state_buf' = [g_state_buf EXCEPT ![i] = st]
                     /\ EdgeDone \/ /\ cut' = [cut EXCEPT !.pc = "late"]
                                    /\ UNCHANGED <<g_predecessors, g_commit_task_id>>
                     /\ UNCHANGED <<ed, g_ed_ready_queue>>
  BY DEF edge
<1>7. EdTypes'
  <2>1. CASE ~dropped
    <3>1. UNCHANGED <<ed, g_ed_ready_queue>>
      BY <1>6, <2>1
    <3> QED BY <1>0, <1>5, <3>1, Frames DEF edTyped
  <2>2. CASE dropped /\ ed[Idx(s)].unfin > 0
    <3> DEFINE m == [ed[Idx(s)] EXCEPT !.unfin = @ - 1]
    <3>1. AddFanin(s, m)
      BY <2>2 DEF edge
    <3>2. m \in EdMeta
      <4>1. ed[Idx(s)] \in EdMeta
        BY <1>0, <1>1 DEF EdTypes
      <4>2. ed[Idx(s)].unfin - 1 \in Nat
        BY <2>2, <4>1 DEF EdMeta
      <4> QED BY <4>1, <4>2 DEF EdMeta
    <3> HIDE DEF m
    <3> QED BY <1>0, <1>1, <1>5, <3>1, <3>2, AddFaninTypes
  <2>3. CASE dropped /\ ~(ed[Idx(s)].unfin > 0)
    <3> DEFINE m == [ed[Idx(s)] EXCEPT !.unfin = UINT16_MAX]
    <3>1. ed' = [ed EXCEPT ![Idx(s)] = m] /\ UNCHANGED g_ed_ready_queue
      BY <2>3 DEF edge
    <3>2. m \in EdMeta
      <4>1. ed[Idx(s)] \in EdMeta /\ UINT16_MAX \in Nat
        BY <1>0, <1>1 DEF EdTypes, UINT16_MAX
      <4> HIDE DEF UINT16_MAX
      <4> QED BY <4>1 DEF EdMeta
    <3> HIDE DEF m
    <3> QED BY <1>0, <1>1, <1>5, <3>1, <3>2 DEF EdTypes
  <2> QED BY <2>1, <2>2, <2>3
<1>8. CutTypes' /\ g_predecessors' \in [Rings -> PredLists]
      /\ g_commit_task_id' \in 0 .. g_task_id
  <2>1. CASE EdgeDone
    BY <1>0, <1>5, <2>1, EdgeDoneTypes
  <2>2. CASE /\ cut' = [cut EXCEPT !.pc = "late"]
             /\ UNCHANGED <<g_predecessors, g_commit_task_id>>
    <3>1. cut'.pc = "late" /\ cut'.end = cut.end /\ cut'.surv = cut.surv
      BY <1>0, <2>2 DEF CutTypes, CutRegs
    <3>2. cut' \in CutRegs
      BY <1>0, <2>2 DEF CutTypes, CutRegs
    <3>3. /\ cut.end <= g_task_id' /\ g_commit_task_id' < cut.end
          /\ DOMAIN cut.surv # {}
      BY <1>0, <1>5, <2>2 DEF CutTypes, CutRegs
    <3>4. CutTypes'
      BY <3>1, <3>2, <3>3 DEF CutTypes, CutRegs
    <3> QED BY <1>0, <1>1, <2>2, <3>4 DEF OrchTypes
  <2> QED BY <1>6, <2>1, <2>2
<1> HIDE DEF sl, st, dropped, p, i
<1>9. /\ g_successor_buf' \in [Rings -> Seq(Tasks)]
      /\ g_state_buf' \in [Rings -> TaskState]
      /\ \A j \in Rings : g_state_buf'[j].successor_cnt <= Len(g_successor_buf'[j])
  <2>1. CASE dropped
    <3>1. UNCHANGED <<g_successor_buf, g_state_buf>>
      BY <1>6, <2>1
    <3> QED BY <1>0, <3>1 DEF GraphTypes
  <2>2. CASE ~dropped
    <3>1. /\ g_successor_buf' = [g_successor_buf EXCEPT ![i] = sl]
          /\ g_state_buf' = [g_state_buf EXCEPT ![i] = st]
      BY <1>6, <2>2
    <3>2. /\ g_successor_buf' \in [Rings -> Seq(Tasks)]
          /\ g_state_buf' \in [Rings -> TaskState]
      BY <1>0, <1>2, <1>4, <3>1 DEF GraphTypes
    <3>3. \A j \in Rings : g_state_buf'[j].successor_cnt <= Len(g_successor_buf'[j])
      <4> TAKE j \in Rings
      <4>1. CASE j = i
        <5>1. g_state_buf'[i] = st /\ g_successor_buf'[i] = sl
          BY <1>0, <1>2, <3>1 DEF GraphTypes
        <5>2. Len(g_successor_buf[i]) \in Nat
          BY <1>3, LenProperties
        <5>3. st.successor_cnt <= Len(sl)
          BY <1>3, <1>4, <5>2
        <5> QED BY <4>1, <5>1, <5>3
      <4>2. CASE j # i
        <5>1. g_state_buf'[j] = g_state_buf[j] /\ g_successor_buf'[j] = g_successor_buf[j]
          BY <1>0, <3>1, <4>2 DEF GraphTypes
        <5> QED BY <1>0, <5>1 DEF GraphTypes
      <4> QED BY <4>1, <4>2
    <3> QED BY <3>2, <3>3
  <2> QED BY <2>1, <2>2
<1>10. GraphTypes'
  BY <1>0, <1>5, <1>8, <1>9 DEF GraphTypes
<1>11. OrchTypes' /\ QueueTypes' /\ DispTypes' /\ ExecTypes'
  <2>1. ready_queue' \in [Types -> Seq(Tasks)] /\ completed_queue' \in Seq(Tasks)
    BY <1>0, <1>5 DEF QueueTypes
  <2> QED BY <1>5, <1>8, <2>1, CutterFrame
<1>12. SlotTypes'
  BY <1>0, <1>5, Frames DEF slotTyped
<1> QED BY <1>7, <1>8, <1>10, <1>11, <1>12 DEF TypeOK

(* The credit of a late arrival keeps the types.                           *)
LEMMA LateArrivalTypes ==
  ASSUME TypeOK, late_arrival
  PROVE  TypeOK'
<1> DEFINE s == g_commit_task_id
<1>0. /\ OrchTypes /\ GraphTypes /\ EdTypes /\ SlotTypes /\ QueueTypes
      /\ CutTypes /\ cut.pc = "late"
  BY DEF TypeOK, late_arrival
<1>1. s \in Tasks /\ Idx(s) \in Rings
  BY <1>0, CommittedTask
<1>2. UNCHANGED <<orchVars, orch, g_completed_cnt, g_is_done, runs, disp, exec,
                  g_task_id, completed_queue, g_ed_gated_core_mask, ctrlVars,
                  msg_bitmap, g_min_uncomplete_task, g_predecessor_cnt, exe,
                  ready_queue, stats, g_state_buf, g_successor_buf>>
  BY DEF late_arrival, cutFrame, orchVars
<1>3. EdTypes'
  <2>1. ed[Idx(s)] \in EdMeta /\ AddFanin(s, ed[Idx(s)])
    BY <1>0, <1>1 DEF EdTypes, late_arrival
  <2> QED BY <1>0, <1>1, <1>2, <2>1, AddFaninTypes
<1>4. CutTypes' /\ g_predecessors' \in [Rings -> PredLists]
      /\ g_commit_task_id' \in 0 .. g_task_id
  <2>1. EdgeDone
    BY DEF late_arrival
  <2> QED BY <1>0, <1>2, <2>1, EdgeDoneTypes
<1>5. GraphTypes'
  BY <1>0, <1>2, <1>4 DEF GraphTypes
<1>6. OrchTypes' /\ QueueTypes' /\ DispTypes' /\ ExecTypes'
  <2>1. ready_queue' \in [Types -> Seq(Tasks)] /\ completed_queue' \in Seq(Tasks)
    BY <1>0, <1>2 DEF QueueTypes
  <2> QED BY <1>2, <1>4, <2>1, CutterFrame
<1>7. SlotTypes'
  BY <1>0, <1>2, Frames DEF slotTyped
<1> QED BY <1>3, <1>4, <1>5, <1>6, <1>7 DEF TypeOK

(* The registers of the cutter between the steps of a round's resolution.  *)
LEMMA RestTypes ==
  ASSUME CutTypes, UNCHANGED <<g_task_id, g_commit_task_id>>, cut' \in CutRegs,
         cut'.end = cut.end, cut'.pc = PcOfRest(cut'.batch, cut'.work, cut'.ready)
  PROVE  CutTypes'
<1>1. /\ cut'.pc \in {"resolve", "load", "send", "take"}
      /\ cut'.pc = "resolve" => cut'.work # <<>>
      /\ cut'.pc = "load" => cut'.batch # <<>>
      /\ cut'.pc = "send" => \E y \in Types : cut'.ready[y] # <<>>
  BY PcOfRestFacts
<1> QED BY <1>1 DEF CutTypes

(* The registers after one successor has been dealt with.                  *)
LEMMA ResolvedTypes ==
  ASSUME CutTypes, UNCHANGED <<g_task_id, g_commit_task_id>>, cut.work # <<>>,
         NEW ready \in [Types -> Seq(Tasks)], Resolved(ready)
  PROVE  CutTypes'
<1> DEFINE pc == PcOfRest(cut.batch, Tail(cut.work), ready)
<1>1. cut' = [cut EXCEPT !.work = Tail(cut.work), !.ready = ready, !.pc = pc]
  BY DEF Resolved, CutTypes, CutRegs
<1>2. Tail(cut.work) \in Seq(Tasks)
  <2>1. cut.work \in Seq(Tasks)
    BY DEF CutTypes, CutRegs
  <2> QED BY <2>1, HeadTailProperties
<1>3. pc \in {"resolve", "load", "send", "take"}
  BY PcOfRestFacts
<1>4. /\ cut'.pc = pc /\ cut'.end = cut.end /\ cut'.batch = cut.batch
      /\ cut'.work = Tail(cut.work) /\ cut'.ready = ready
  <2> HIDE DEF pc
  <2> QED BY <1>1 DEF CutTypes, CutRegs
<1>5. cut' \in CutRegs
  <2> HIDE DEF pc
  <2> QED BY <1>1, <1>2, <1>3 DEF CutTypes, CutRegs
<1> QED BY <1>4, <1>5, RestTypes

(* The commit window, the load of a successor list, the end of the cutter. *)
LEMMA CutterRegisterTypes ==
  ASSUME TypeOK, add_successors_enter \/ resolve_dep_load \/ cutter_exit
  PROVE  TypeOK'
<1>0. /\ OrchTypes /\ GraphTypes /\ CutTypes
      /\ UNCHANGED <<cutFrame, g_predecessors, g_min_uncomplete_task, graphVars, ed,
                     g_ed_ready_queue, exe, ready_queue, stats>>
      /\ UNCHANGED <<g_task_id, g_commit_task_id>>
  BY DEF TypeOK, add_successors_enter, resolve_dep_load, cutter_exit, cutFrame,
         orchVars, graphVars
<1>1. /\ g_task_id \in 0 .. N /\ N \in Nat /\ g_commit_task_id \in 0 .. g_task_id
  BY <1>0, ConfigAssumption DEF OrchTypes, GraphTypes
<1>2. CASE add_successors_enter
  <2>1. CommitWindow \in 0 .. g_task_id
    BY <1>1, ConfigAssumption DEF CommitWindow
  <2>2. /\ CommitLoop(g_commit_task_id, CommitWindow, cut.ready)
        /\ g_commit_task_id' = g_commit_task_id /\ g_commit_task_id \in Nat
        /\ cut.ready \in [Types -> Seq(Tasks)]
    BY <1>0, <1>1, <1>2 DEF add_successors_enter, CutTypes, CutRegs
  <2>3. CutTypes'
    BY <1>0, <1>1, <2>1, <2>2, CommitLoopTypes
  <2> QED BY <1>0, <2>3, CutterStays
<1>3. CASE resolve_dep_load
  <2> DEFINE work == SuccessorsOf(Head(cut.batch))
             pc == PcOfRest(Tail(cut.batch), work, cut.ready)
  <2>1. /\ cut' = [cut EXCEPT !.batch = Tail(cut.batch), !.work = work, !.pc = pc]
        /\ cut.pc = "load"
    BY <1>0, <1>3 DEF resolve_dep_load, CutTypes, CutRegs
  <2>2. Head(cut.batch) \in Tasks /\ Tail(cut.batch) \in Seq(Tasks)
    <3>1. cut.batch \in Seq(Tasks) /\ cut.batch # <<>>
      BY <1>0, <2>1 DEF CutTypes, CutRegs
    <3> QED BY <3>1, HeadTailProperties
  <2>3. work \in Seq(Tasks)
    <3> DEFINE i == Idx(Head(cut.batch))
    <3>1. /\ i \in Rings /\ g_successor_buf[i] \in Seq(Tasks)
          /\ g_state_buf[i].successor_cnt \in Nat
          /\ g_state_buf[i].successor_cnt <= Len(g_successor_buf[i])
      BY <1>0, <2>2, IdxInRings DEF GraphTypes, TaskState
    <3>2. work = SubSeq(g_successor_buf[i], 1, g_state_buf[i].successor_cnt)
      BY DEF SuccessorsOf
    <3> HIDE DEF i, work
    <3>3. Len(g_successor_buf[i]) \in Nat
      BY <3>1, LenProperties
    <3>4. SubSeq(g_successor_buf[i], 1, g_state_buf[i].successor_cnt) \in Seq(Tasks)
      BY <3>1, <3>3, SubSeqProperties
    <3> QED BY <3>2, <3>4
  <2>4. pc \in {"resolve", "load", "send", "take"}
    BY PcOfRestFacts
  <2>5. /\ cut'.pc = pc /\ cut'.end = cut.end /\ cut'.batch = Tail(cut.batch)
        /\ cut'.work = work /\ cut'.ready = cut.ready
    <3> HIDE DEF pc, work
    <3> QED BY <1>0, <2>1 DEF CutTypes, CutRegs
  <2>6. cut' \in CutRegs
    <3> HIDE DEF pc, work
    <3> QED BY <1>0, <2>1, <2>2, <2>3, <2>4 DEF CutTypes, CutRegs
  <2>7. CutTypes'
    BY <1>0, <2>5, <2>6, RestTypes
  <2> QED BY <1>0, <2>7, CutterStays
<1>4. CASE cutter_exit
  <2>1. cut' = [cut EXCEPT !.pc = "done"]
    BY <1>4 DEF cutter_exit
  <2>2. cut'.pc = "done" /\ cut'.end = cut.end
    BY <1>0, <2>1 DEF CutTypes, CutRegs
  <2>3. cut' \in CutRegs
    BY <1>0, <2>1 DEF CutTypes, CutRegs
  <2>4. CutTypes'
    BY <1>0, <2>2, <2>3 DEF CutTypes
  <2> QED BY <1>0, <2>4, CutterStays
<1> QED BY <1>2, <1>3, <1>4

(* Counting one successor down keeps the types.                            *)
LEMMA ResolveDepTypes ==
  ASSUME TypeOK, resolve_dep
  PROVE  TypeOK'
<1> DEFINE s == Head(cut.work)
           i == Idx(s)
           n == Dec(g_predecessor_cnt[i], UINT32_MAX)
           m == [ed[i] EXCEPT !.unfin = Dec(@, UINT16_MAX),
                              !.spec = IF BecomesReady(n) THEN "DISPATCHED" ELSE @]
<1>0. /\ OrchTypes /\ GraphTypes /\ EdTypes /\ SlotTypes /\ QueueTypes
      /\ CutTypes /\ cut.pc = "resolve" /\ cut.work # <<>>
      /\ cut.ready \in [Types -> Seq(Tasks)]
  BY DEF TypeOK, resolve_dep, CutTypes, CutRegs
<1>1. s \in Tasks /\ i \in Rings
  <2>1. cut.work \in Seq(Tasks)
    BY <1>0 DEF CutTypes, CutRegs
  <2> QED BY <1>0, <2>1, HeadTailProperties, IdxInRings
<1>2. n \in Nat
  <2>1. g_predecessor_cnt[i] \in Nat
    BY <1>0, <1>1 DEF GraphTypes
  <2> QED BY <2>1 DEF Dec, UINT32_MAX
<1>3. m \in EdMeta
  <2> DEFINE u == Dec(ed[i].unfin, UINT16_MAX)
             sp == IF BecomesReady(n) THEN "DISPATCHED" ELSE ed[i].spec
  <2>1. ed[i] \in EdMeta
    BY <1>0, <1>1 DEF EdTypes
  <2>2. u \in Nat
    <3>1. ed[i].unfin \in Nat
      BY <2>1 DEF EdMeta
    <3> QED BY <3>1 DEF Dec, UINT16_MAX
  <2>3. sp \in {"NONE", "STAGING", "DISPATCHED"}
    <3> HIDE DEF n
    <3> QED BY <2>1 DEF EdMeta
  <2>4. m = [ed[i] EXCEPT !.unfin = u, !.spec = sp]
    <3> HIDE DEF n
    <3> QED BY <2>1 DEF EdMeta
  <2> HIDE DEF u, sp, m
  <2>5. [ed[i] EXCEPT !.unfin = u, !.spec = sp] \in EdMeta
    BY <2>1, <2>2, <2>3 DEF EdMeta
  <2> QED BY <2>4, <2>5
<1>4. /\ g_predecessor_cnt' = [g_predecessor_cnt EXCEPT ![i] = n]
      /\ ed' = ed \/ ed' = [ed EXCEPT ![i] = m]
      /\ UNCHANGED <<g_task_id, orchVars, orch, g_completed_cnt, g_is_done, runs, disp,
                     exec, completed_queue, g_ed_gated_core_mask, ctrlVars, msg_bitmap,
                     g_predecessors, g_min_uncomplete_task, g_commit_task_id,
                     g_state_buf, g_successor_buf, g_ed_ready_queue, exe,
                     ready_queue, stats>>
  <2>1. ED_ENABLE => ed' = [ed EXCEPT ![i] = m]
    <3>1. ED_ENABLE => ed' = [ed EXCEPT ![i].unfin = Dec(@, UINT16_MAX),
                                        ![i].spec = IF BecomesReady(n) THEN "DISPATCHED" ELSE @]
      BY DEF resolve_dep
    <3>2. ed \in [Rings -> EdMeta]
      BY <1>0 DEF EdTypes
    <3> HIDE DEF n
    <3> QED BY <1>1, <3>1, <3>2 DEF EdMeta
  <2> QED BY <2>1 DEF resolve_dep, cutFrame, orchVars
<1>5. cut' = [cut EXCEPT !.pc = "hook2"] \/ \E ready \in [Types -> Seq(Tasks)] : Resolved(ready)
  <2>1. PushReady(cut.ready, s) \in [Types -> Seq(Tasks)]
    BY <1>0, <1>1, PushReadyTypes
  <2> QED BY <1>0, <2>1 DEF resolve_dep
<1> HIDE DEF n, m, i, s
<1>6. EdTypes'
  BY <1>0, <1>1, <1>3, <1>4 DEF EdTypes
<1>7. GraphTypes'
  BY <1>0, <1>1, <1>2, <1>4 DEF GraphTypes
<1>8. CutTypes'
  <2>1. CASE cut' = [cut EXCEPT !.pc = "hook2"]
    <3>1. /\ cut'.pc = "hook2" /\ cut'.end = cut.end /\ cut'.work = cut.work
          /\ cut' \in CutRegs
      BY <1>0, <2>1 DEF CutTypes, CutRegs
    <3> QED BY <1>0, <1>4, <3>1 DEF CutTypes
  <2>2. CASE \E ready \in [Types -> Seq(Tasks)] : Resolved(ready)
    BY <1>0, <1>4, <2>2, ResolvedTypes
  <2> QED BY <1>5, <2>1, <2>2
<1>9. OrchTypes' /\ QueueTypes' /\ DispTypes' /\ ExecTypes'
  <2>1. /\ ready_queue' \in [Types -> Seq(Tasks)] /\ completed_queue' \in Seq(Tasks)
        /\ g_predecessors' \in [Rings -> PredLists]
    BY <1>0, <1>4 DEF QueueTypes, OrchTypes
  <2> QED BY <1>4, <2>1, CutterFrame
<1>10. SlotTypes'
  BY <1>0, <1>4, Frames DEF slotTyped
<1> QED BY <1>6, <1>7, <1>8, <1>9, <1>10 DEF TypeOK

(* Hook 2 keeps the types.                                                 *)
LEMMA Hook2Types ==
  ASSUME TypeOK, hook2
  PROVE  /\ TypeOK'
         /\ \A u \in Units : /\ exe'[u].state = exe[u].state
                              /\ exe'[u].task = exe[u].task
<1> DEFINE s == Head(cut.work)
           r == ed[Idx(s)].staged
<1>0. /\ OrchTypes /\ GraphTypes /\ EdTypes /\ SlotTypes /\ QueueTypes
      /\ CutTypes /\ cut.pc = "hook2" /\ cut.work # <<>>
      /\ cut.ready \in [Types -> Seq(Tasks)]
  BY DEF TypeOK, hook2, CutTypes, CutRegs
<1>1. s \in Tasks
  <2>1. cut.work \in Seq(Tasks)
    BY <1>0 DEF CutTypes, CutRegs
  <2> QED BY <1>0, <2>1, HeadTailProperties
<1>2. UNCHANGED <<g_task_id, orchVars, orch, g_completed_cnt, g_is_done, runs, disp,
                  exec, completed_queue, g_ed_gated_core_mask, ctrlVars, msg_bitmap,
                  g_predecessors, g_min_uncomplete_task, graphVars, g_commit_task_id,
                  g_ed_ready_queue, ready_queue>>
  BY DEF hook2, cutFrame, orchVars, graphVars
<1>3. /\ EdTypes' /\ SlotTypes'
      /\ \A u \in Units : /\ exe'[u].state = exe[u].state
                           /\ exe'[u].task = exe[u].task
  <2>1. CASE ed_notify_once(s, r)
    BY <1>0, <1>1, <1>2, <2>1, NotifyTypes
  <2>2. CASE UNCHANGED <<ed, exe, stats>>
    BY <1>0, <1>2, <2>2, Frames DEF edTyped, slotTyped
  <2> QED BY <2>1, <2>2 DEF hook2
<1>4. CutTypes'
  <2>1. PushReady(cut.ready, s) \in [Types -> Seq(Tasks)]
    BY <1>0, <1>1, PushReadyTypes
  <2>2. Resolved(PushReady(cut.ready, s))
    BY DEF hook2
  <2> QED BY <1>0, <1>2, <2>1, <2>2, ResolvedTypes
<1>5. OrchTypes' /\ QueueTypes' /\ DispTypes' /\ ExecTypes'
  <2>1. /\ ready_queue' \in [Types -> Seq(Tasks)] /\ completed_queue' \in Seq(Tasks)
        /\ g_predecessors' \in [Rings -> PredLists]
    BY <1>0, <1>2 DEF QueueTypes, OrchTypes
  <2> QED BY <1>2, <2>1, CutterFrame
<1>6. GraphTypes'
  BY <1>0, <1>2, Frames DEF graphTyped
<1> QED BY <1>3, <1>4, <1>5, <1>6 DEF TypeOK

(* Sending a buffer of ready tasks keeps the types.                        *)
LEMMA SendReadyTypes ==
  ASSUME TypeOK, send_2_ready_queue
  PROVE  TypeOK'
<1> DEFINE y == CHOOSE z \in Types : cut.ready[z] # <<>> /\
                  \A x \in Types : x < z => cut.ready[x] = <<>>
           rest == [cut.ready EXCEPT ![y] = <<>>]
           pc == PcOfRest(<<>>, <<>>, rest)
           n == Len(cut.ready[y])
           fits == HasRoom(ready_queue[y], n)
           tails == [cut.tail EXCEPT ![y] = IF fits THEN cut.tail[y] + n ELSE cut.tail[y]]
<1>0. /\ OrchTypes /\ GraphTypes /\ EdTypes /\ SlotTypes /\ QueueTypes /\ CutTypes
      /\ cut.pc = "send" /\ cut.ready \in [Types -> Seq(Tasks)]
      /\ ready_queue \in [Types -> Seq(Tasks)]
  BY DEF TypeOK, send_2_ready_queue, CutTypes, CutRegs, QueueTypes
<1>1. y \in Types
  <2>1. \E z \in Types : cut.ready[z] # <<>>
    BY <1>0 DEF CutTypes
  <2>2. \E z \in Types : cut.ready[z] # <<>> /\
                  \A x \in Types : x < z => cut.ready[x] = <<>>
    <3>1. CASE cut.ready[0] # <<>>
      BY <3>1, TypesFacts
    <3>2. CASE cut.ready[0] = <<>>
      BY <2>1, <3>2, TypesFacts
    <3> QED BY <3>1, <3>2
  <2> QED BY <2>2
<1>2. /\ \/ ready_queue' = ready_queue
         \/ ready_queue' = [ready_queue EXCEPT ![y] = ready_queue[y] \o cut.ready[y]]
      /\ cut' = [cut EXCEPT !.ready = rest, !.pc = pc, !.tail = tails]
  <2>1. /\ ready_queue' = IF fits THEN [ready_queue EXCEPT ![y] = @ \o cut.ready[y]]
                          ELSE ready_queue
        /\ cut' = [cut EXCEPT !.ready = rest, !.pc = pc, !.tail = tails]
    BY DEF send_2_ready_queue
  <2> HIDE DEF y, rest, pc, fits, tails
  <2> QED BY <1>0, <1>1, <2>1
<1>3. UNCHANGED <<g_task_id, orchVars, orch, g_completed_cnt, g_is_done, runs, disp,
                  exec, completed_queue, g_ed_gated_core_mask, ctrlVars, msg_bitmap,
                  g_predecessors, g_min_uncomplete_task, graphVars, g_commit_task_id,
                  g_ed_ready_queue, ed, exe, stats>>
  BY DEF send_2_ready_queue, cutFrame, orchVars, graphVars
<1>4. pc \in {"resolve", "load", "send", "take"} /\ pc \notin {"resolve", "load"}
      /\ (pc = "send" => \E z \in Types : rest[z] # <<>>)
  BY PcOfRestFacts
<1>a. tails \in [Types -> Nat]
  <2>1. n \in Nat
    BY <1>0, <1>1, LenProperties
  <2>2. cut.tail \in [Types -> Nat]
    BY <1>0 DEF CutTypes, CutRegs
  <2> HIDE DEF y, n, fits
  <2> QED BY <1>1, <2>1, <2>2
<1> HIDE DEF y, rest, pc, n, fits, tails
<1>5. rest \in [Types -> Seq(Tasks)]
  <2>1. <<>> \in Seq(Tasks)
    BY EmptySeq
  <2> QED BY <1>0, <1>1, <2>1 DEF rest
<1>6. ready_queue' \in [Types -> Seq(Tasks)]
  <2>1. ready_queue[y] \o cut.ready[y] \in Seq(Tasks)
    BY <1>0, <1>1, ConcatProperties
  <2> QED BY <1>0, <1>1, <1>2, <2>1
<1>7. CutTypes'
  <2>1. cut'.pc = pc /\ cut'.ready = rest /\ cut'.end = cut.end
    BY <1>0, <1>2 DEF CutTypes, CutRegs
  <2>2. cut' \in CutRegs
    BY <1>0, <1>2, <1>4, <1>5, <1>a DEF CutTypes, CutRegs
  <2> QED BY <1>0, <1>3, <1>4, <2>1, <2>2 DEF CutTypes
<1>8. OrchTypes' /\ QueueTypes' /\ DispTypes' /\ ExecTypes'
  <2>1. completed_queue' \in Seq(Tasks) /\ g_predecessors' \in [Rings -> PredLists]
    BY <1>0, <1>3 DEF QueueTypes, OrchTypes
  <2> QED BY <1>3, <1>6, <2>1, CutterFrame
<1>9. GraphTypes' /\ EdTypes' /\ SlotTypes'
  BY <1>0, <1>3, Frames DEF graphTyped, edTyped, slotTyped
<1> QED BY <1>7, <1>8, <1>9 DEF TypeOK

(* Every step of the cutter keeps the types.                               *)
LEMMA CutterTypes ==
  ASSUME TypeOK, CutterNext
  PROVE  TypeOK'
BY TakeCompletedTypes, CommitTypes, EdgeTypes, LateArrivalTypes,
   CutterRegisterTypes, ResolveDepTypes, Hook2Types, SendReadyTypes DEF CutterNext

----------------------------------------------------------------------------
(* Steps that neither fill, empty nor free a slot nor touch the dispatcher *)
(* keep the hand-over of slots.                                            *)
LEMMA SlotInvFrame ==
  ASSUME TypeOK, SlotInv, UNCHANGED <<free_bitmap, task_id_map, msg_bitmap, disp>>,
         \A u \in Units : exe'[u].state = exe[u].state /\ exe'[u].task = exe[u].task,
         exec' = exec \/ exec'.pc # "signal"
  PROVE  SlotInv'
<1>1. SlotHandoff'
  <2>1. free_bitmap \subseteq Units /\ msg_bitmap \subseteq Units
    BY DEF TypeOK, SlotTypes
  <2> QED BY <2>1 DEF SlotInv, SlotHandoff
<1>2. SignalOwed'
  <2>1. exec.pc = "signal" => exec.unit \in Units
    BY DEF TypeOK, ExecTypes
  <2> QED BY <2>1 DEF SlotInv, SignalOwed
<1>3. BatchHasCores'
  BY DEF SlotInv, BatchHasCores, AvailAny, FreeSlots, Type, ToSend
<1> QED BY <1>1, <1>2, <1>3 DEF SlotInv

(* The orchestrator and the cutter have no hand in the slots: Hook 2 rings *)
(* a doorbell, and that is all.                                            *)
LEMMA OrchestratorSlots ==
  ASSUME TypeOK, SlotInv, OrchestratorNext
  PROVE  SlotInv'
<1>1. UNCHANGED <<free_bitmap, task_id_map, msg_bitmap, disp, exe, exec>>
  BY DEF OrchestratorNext, new_task, add_predecessors, publish, orchestration_done,
         orchFrame, ctrlVars
<1> QED BY <1>1, SlotInvFrame

(* So too the cutter.                                                      *)
LEMMA CutterSlots ==
  ASSUME TypeOK, SlotInv, CutterNext
  PROVE  SlotInv'
<1>1. CASE hook2
  <2>1. UNCHANGED <<free_bitmap, task_id_map, msg_bitmap, disp, exec>>
    BY <1>1 DEF hook2, cutFrame, ctrlVars
  <2> QED BY <1>1, <2>1, Hook2Types, SlotInvFrame
<1>2. CASE ~hook2
  <2>1. UNCHANGED <<free_bitmap, task_id_map, msg_bitmap, disp, exec, exe>>
    BY <1>2 DEF CutterNext, take_completed, cutter_exit, add_successors_enter, commit,
         edge, late_arrival, resolve_dep_load, resolve_dep, send_2_ready_queue,
         cutFrame, ctrlVars
  <2> QED BY <2>1, SlotInvFrame
<1> QED BY <1>1, <1>2

----------------------------------------------------------------------------
(* The walk over the slots of a core stays on that core's slots.           *)
LEMMA PollNextTypes ==
  ASSUME NEW e \in ExecRegs, NEW u \in Units, NEW still \in BOOLEAN
  PROVE  LET x == PollNext(e, u, still) IN
         /\ x \in ExecRegs /\ x.pc \in {"poll", "scan"}
         /\ x.pc = "poll" => x.unit \in Units
         /\ x.hook = e.hook /\ x.todo = e.todo
<1>1. CASE u[3] + 1 < AIC_OSTD
  <2>1. u = <<u[1], u[2], u[3]>> /\ u[1] \in Types /\ u[2] \in Cores /\ u[3] \in Slots
    BY DEF Units
  <2>2. u[3] + 1 \in Slots
    BY <1>1, <2>1, ConfigAssumption DEF Slots
  <2>3. <<u[1], u[2], u[3] + 1>> \in Units
    BY <2>1, <2>2 DEF Units
  <2> DEFINE v == <<u[1], u[2], u[3] + 1>>
  <2>4. v \in Units /\ v \in MaybeUnit
    BY <2>3 DEF MaybeUnit
  <2>5. PollNext(e, u, still) = [e EXCEPT !.pc = "poll", !.unit = v, !.still = still]
    BY <1>1 DEF PollNext
  <2> HIDE DEF v
  <2> QED BY <2>4, <2>5 DEF ExecRegs
<1>2. CASE ~(u[3] + 1 < AIC_OSTD)
  <2> DEFINE left == IF WatchOn(still) THEN e.pending ELSE e.pending \ {CoreOf(u)}
  <2>1. left \in SUBSET CoreIds
    BY DEF ExecRegs
  <2>2. PollNext(e, u, still) = [e EXCEPT !.pc = "scan", !.unit = INVALID,
                                          !.still = FALSE, !.pending = left]
    BY <1>2 DEF PollNext, ExecRegs
  <2>3. INVALID \in MaybeUnit
    BY DEF MaybeUnit
  <2> HIDE DEF left
  <2> QED BY <2>1, <2>2, <2>3 DEF ExecRegs
<1> QED BY <1>1, <1>2

(* What a step of the executor leaves alone keeps its type.                *)
LEMMA ExecutorFrame ==
  ASSUME TypeOK, UNCHANGED exeFrame
  PROVE  /\ OrchTypes' /\ GraphTypes' /\ CutTypes' /\ DispTypes'
         /\ UNCHANGED runs => QueueTypes'
         /\ UNCHANGED <<free_bitmap, task_id_map, disp>>
<1>1. UNCHANGED <<orchTyped, graphTyped, cutTyped, disp, free_bitmap, task_id_map,
                  ready_queue, completed_queue, g_completed_cnt, g_is_done>>
  BY DEF exeFrame, orchVars, graphVars, ctrlVars, orchTyped, graphTyped, cutTyped
<1> QED BY <1>1, Frames DEF TypeOK, queueTyped

(* Completing a slot keeps the types and hands the slot to the executor    *)
(* alone, until its bit is set.                                            *)
LEMMA CompleteSlotKeeps ==
  ASSUME TypeOK, SlotInv, NEW u \in Units, complete_slot(u)
  PROVE  TypeOK' /\ SlotInv'
<1> DEFINE t == exe[u].task
           m == ClearedRecord(ed[Idx(t)], t)
           c == CoreOf(u)
<1>0. /\ EdTypes /\ SlotTypes /\ QueueTypes /\ ExecTypes /\ exec.pc = "scan"
      /\ UNCHANGED <<exeFrame, g_ed_ready_queue, g_ed_gated_core_mask, msg_bitmap, stats>>
  BY DEF TypeOK, complete_slot
<1>1. /\ OrchTypes' /\ GraphTypes' /\ CutTypes' /\ DispTypes'
      /\ UNCHANGED runs => QueueTypes'
      /\ UNCHANGED <<free_bitmap, task_id_map, disp>>
  BY <1>0, ExecutorFrame
<1>2. /\ exe[u] \in Slot /\ t \in Tasks /\ Idx(t) \in Rings
      /\ free_bitmap \subseteq Units /\ msg_bitmap \subseteq Units
  BY <1>0, IdxInRings DEF SlotTypes, Slot
<1>3. AIC_OSTD \in 0 .. AIC_OSTD
  BY ConfigAssumption
<1>4. CASE exe[u].state = "RUNNABLE"
  <2>1. /\ exe' = [exe EXCEPT ![u].state = "EMPTY"]
        /\ ed' = IF ED_ENABLE THEN [ed EXCEPT ![Idx(t)] = m] ELSE ed
        /\ runs' = [runs EXCEPT ![t] = @ + 1]
        /\ exec' = [exec EXCEPT !.active[c] = AIC_OSTD, !.pc = "signal", !.unit = u]
    BY <1>4 DEF complete_slot
  <2>2. EdTypes'
    <3>1. m \in EdMeta
      <4>1. ed[Idx(t)] \in EdMeta /\ INVALID \in MetaRecords
        BY <1>0, <1>2 DEF EdTypes, MetaRecords
      <4> QED BY <4>1 DEF ClearedRecord, EdMeta
    <3> HIDE DEF m
    <3> QED BY <1>0, <1>2, <2>1, <3>1 DEF EdTypes
  <2>3. /\ exe' \in [Units -> Slot]
        /\ exe'[u].state = "EMPTY"
        /\ \A v \in Units : exe'[v].task = exe[v].task
        /\ \A v \in Units \ {u} : exe'[v].state = exe[v].state
    BY <1>0, <1>2, <2>1 DEF SlotTypes, Slot
  <2>4. SlotTypes'
    BY <1>0, <1>1, <2>3 DEF SlotTypes
  <2>5. QueueTypes'
    <3>1. runs' \in [Tasks -> Nat]
      BY <1>0, <1>2, <2>1 DEF QueueTypes
    <3>2. UNCHANGED <<ready_queue, completed_queue, g_completed_cnt, g_is_done>>
      BY <1>0 DEF exeFrame
    <3> QED BY <1>0, <3>1, <3>2 DEF QueueTypes
  <2>6. ExecTypes' /\ exec'.pc = "signal" /\ exec'.unit = u
    <3>1. u \in MaybeUnit /\ [exec.active EXCEPT ![c] = AIC_OSTD] \in [CoreIds -> 0 .. AIC_OSTD]
      BY <1>0, <1>3 DEF MaybeUnit, ExecTypes, ExecRegs
    <3> DEFINE a == [exec.active EXCEPT ![c] = AIC_OSTD]
    <3>2. exec' = [exec EXCEPT !.active = a, !.pc = "signal", !.unit = u]
      BY <1>0, <2>1 DEF ExecTypes, ExecRegs
    <3> HIDE DEF a
    <3>3. a \in [CoreIds -> 0 .. AIC_OSTD]
      BY <3>1 DEF a
    <3> QED BY <1>0, <3>1, <3>2, <3>3 DEF ExecTypes, ExecRegs
  <2>7. u \notin free_bitmap /\ u \notin msg_bitmap /\ task_id_map[u] = exe[u].task
    BY <1>4 DEF SlotInv, SlotHandoff
  <2>8. SlotHandoff'
    <3>1. \A v \in free_bitmap : exe'[v].state = "EMPTY" /\ v \notin msg_bitmap
      BY <1>2, <2>3, <2>7 DEF SlotInv, SlotHandoff
    <3>2. \A v \in msg_bitmap : exe'[v].state = "EMPTY"
      BY <1>2, <2>3, <2>7 DEF SlotInv, SlotHandoff
    <3>3. \A v \in Units : exe'[v].state # "EMPTY" \/ v \in msg_bitmap =>
                             task_id_map[v] = exe'[v].task
      BY <2>3, <2>7 DEF SlotInv, SlotHandoff
    <3> QED BY <1>0, <1>1, <3>1, <3>2, <3>3 DEF SlotHandoff
  <2>9. SignalOwed'
    BY <1>0, <1>1, <2>3, <2>6, <2>7 DEF SignalOwed
  <2>10. BatchHasCores'
    BY <1>1 DEF SlotInv, BatchHasCores, AvailAny, FreeSlots, Type, ToSend
  <2> QED BY <1>1, <2>2, <2>4, <2>5, <2>6, <2>8, <2>9, <2>10 DEF TypeOK, SlotInv
<1>5. CASE exe[u].state # "RUNNABLE"
  <2>1. /\ exec' = [exec EXCEPT !.active[c] = AIC_OSTD]
        /\ UNCHANGED <<exe, ed, runs>>
    BY <1>5 DEF complete_slot
  <2>2. ExecTypes' /\ exec'.pc = "scan"
    <3> DEFINE a == [exec.active EXCEPT ![c] = AIC_OSTD]
    <3>1. a \in [CoreIds -> 0 .. AIC_OSTD]
      BY <1>0, <1>3 DEF ExecTypes, ExecRegs
    <3>2. exec' = [exec EXCEPT !.active = a]
      BY <1>0, <2>1 DEF ExecTypes, ExecRegs
    <3> HIDE DEF a
    <3> QED BY <1>0, <3>1, <3>2 DEF ExecTypes, ExecRegs
  <2>3. EdTypes' /\ SlotTypes'
    BY <1>0, <1>1, <2>1, Frames DEF edTyped, slotTyped, ctrlVars
  <2>4. TypeOK'
    BY <1>1, <2>1, <2>2, <2>3 DEF TypeOK
  <2>5. SlotInv'
    BY <1>0, <1>1, <2>1, <2>2, SlotInvFrame
  <2> QED BY <2>4, <2>5
<1> QED BY <1>4, <1>5

(* Setting the completion bit passes the empty slot to the dispatcher.     *)
LEMMA SignalKeeps ==
  ASSUME TypeOK, SlotInv, signal
  PROVE  TypeOK' /\ SlotInv'
<1>0. /\ EdTypes /\ SlotTypes /\ ExecTypes /\ exec.pc = "signal" /\ exec.unit \in Units
      /\ msg_bitmap' = msg_bitmap \cup {exec.unit}
      /\ exec' = [exec EXCEPT !.pc = "scan", !.unit = INVALID]
      /\ UNCHANGED <<exeFrame, ed, g_ed_ready_queue, g_ed_gated_core_mask, exe, stats, runs>>
  BY DEF TypeOK, ExecTypes, signal
<1>1. /\ OrchTypes' /\ GraphTypes' /\ CutTypes' /\ DispTypes' /\ QueueTypes'
      /\ UNCHANGED <<free_bitmap, task_id_map, disp>>
  BY <1>0, ExecutorFrame
<1>2. EdTypes'
  BY <1>0, Frames DEF edTyped
<1>3. SlotTypes'
  BY <1>0, <1>1 DEF SlotTypes
<1>4. ExecTypes' /\ exec'.pc = "scan"
  BY <1>0 DEF ExecTypes, ExecRegs, MaybeUnit
<1>5. /\ exe[exec.unit].state = "EMPTY" /\ exec.unit \notin free_bitmap
      /\ task_id_map[exec.unit] = exe[exec.unit].task
  BY <1>0 DEF SlotInv, SignalOwed
<1>6. SlotHandoff'
  BY <1>0, <1>1, <1>5 DEF SlotInv, SlotHandoff
<1>7. SignalOwed'
  BY <1>4 DEF SignalOwed
<1>8. BatchHasCores'
  BY <1>1 DEF SlotInv, BatchHasCores, AvailAny, FreeSlots, Type, ToSend
<1> QED BY <1>1, <1>2, <1>3, <1>4, <1>6, <1>7, <1>8 DEF TypeOK, SlotInv

(* Steps of the executor that only move its own registers.                 *)
LEMMA ExecutorStays ==
  ASSUME TypeOK, SlotInv, ExecTypes', exec'.pc # "signal",
         UNCHANGED <<exeFrame, ed, g_ed_ready_queue, exe, msg_bitmap, stats, runs>>,
         g_ed_gated_core_mask' \subseteq CoreIds
  PROVE  TypeOK' /\ SlotInv'
<1>1. /\ OrchTypes' /\ GraphTypes' /\ CutTypes' /\ DispTypes' /\ QueueTypes'
      /\ UNCHANGED <<free_bitmap, task_id_map, disp>>
  BY ExecutorFrame
<1>2. EdTypes' /\ SlotTypes'
  <2>1. SlotTypes'
    BY <1>1, Frames DEF TypeOK, slotTyped, ctrlVars
  <2>2. EdTypes'
    BY DEF TypeOK, EdTypes
  <2> QED BY <2>1, <2>2
<1>3. SlotInv'
  BY <1>1, SlotInvFrame
<1> QED BY <1>1, <1>2, <1>3 DEF TypeOK

(* Starting a slot, draining the mask, polling and leaving move registers. *)
LEMMA ExecutorRegistersKeep ==
  ASSUME TypeOK, SlotInv,
         \/ \E u \in Units : start(u)
         \/ \E y \in Types : drain_mask(y)
         \/ \E c \in CoreIds : poll_core(c)
         \/ poll_not_rung
         \/ executor_exit
  PROVE  TypeOK' /\ SlotInv'
<1>0. ExecTypes /\ exec \in ExecRegs /\ g_ed_gated_core_mask \subseteq CoreIds
  BY DEF TypeOK, ExecTypes, EdTypes
<1>1. CASE \E u \in Units : start(u)
  <2>1. PICK u \in Units : start(u)
    BY <1>1
  <2> DEFINE c == CoreOf(u)
             a == [exec.active EXCEPT ![c] = u[3]]
  <2>2. u[3] \in 0 .. AIC_OSTD
    BY ConfigAssumption DEF Units, Slots
  <2>3. a \in [CoreIds -> 0 .. AIC_OSTD]
    BY <1>0, <2>2 DEF ExecRegs
  <2>4. exec' = [exec EXCEPT !.active = a] /\ exec.pc = "scan"
    BY <1>0, <2>1 DEF start, ExecRegs
  <2>5. ExecTypes' /\ exec'.pc = "scan"
    <3> HIDE DEF a
    <3> QED BY <1>0, <2>3, <2>4 DEF ExecTypes, ExecRegs
  <2>6. UNCHANGED <<exeFrame, ed, g_ed_ready_queue, g_ed_gated_core_mask, exe,
                    msg_bitmap, stats, runs>>
    BY <2>1 DEF start
  <2> QED BY <1>0, <2>5, <2>6, ExecutorStays
<1>2. CASE \E y \in Types : drain_mask(y)
  <2>1. PICK y \in Types : drain_mask(y)
    BY <1>2
  <2> DEFINE p == exec.pending \cup MaskOf(y)
  <2>2. p \in SUBSET CoreIds
    BY <1>0 DEF MaskOf, ExecRegs
  <2>3. exec' = [exec EXCEPT !.pending = p] /\ exec.pc = "scan"
    BY <1>0, <2>1 DEF drain_mask, ExecRegs
  <2>4. ExecTypes' /\ exec'.pc = "scan"
    <3> HIDE DEF p
    <3> QED BY <1>0, <2>2, <2>3 DEF ExecTypes, ExecRegs
  <2>5. g_ed_gated_core_mask' \subseteq CoreIds
    BY <1>0, <2>1 DEF drain_mask
  <2>6. UNCHANGED <<exeFrame, ed, g_ed_ready_queue, exe, msg_bitmap, stats, runs>>
    BY <2>1 DEF drain_mask
  <2> QED BY <2>4, <2>5, <2>6, ExecutorStays
<1>3. CASE \E c \in CoreIds : poll_core(c)
  <2>1. PICK c \in CoreIds : poll_core(c)
    BY <1>3
  <2> DEFINE u == <<c[1], c[2], 0>>
  <2>2. u \in Units
    <3>1. c[1] \in Types /\ c[2] \in Cores /\ 0 \in Slots
      BY ConfigAssumption DEF CoreIds, Slots
    <3> QED BY <3>1 DEF Units
  <2>3. exec' = [exec EXCEPT !.pc = "poll", !.unit = u, !.still = FALSE]
    BY <2>1 DEF poll_core
  <2>4. exec.pc = "scan"
    BY <2>1 DEF poll_core
  <2>5. ExecTypes' /\ exec'.pc = "poll"
    <3> HIDE DEF u
    <3> QED BY <1>0, <2>2, <2>3, <2>4 DEF ExecTypes, ExecRegs, MaybeUnit
  <2>6. UNCHANGED <<exeFrame, ed, g_ed_ready_queue, g_ed_gated_core_mask, exe,
                    msg_bitmap, stats, runs>>
    BY <2>1 DEF poll_core
  <2> QED BY <1>0, <2>5, <2>6, ExecutorStays
<1>4. CASE poll_not_rung
  <2> DEFINE u == exec.unit
             still == exec.still \/ exe[u].state = "GATED"
  <2>1. exec' = PollNext(exec, u, still) /\ exec.pc = "poll" /\ u \in Units
    BY <1>0, <1>4 DEF poll_not_rung, ExecTypes
  <2>2. still \in BOOLEAN
    BY <1>0 DEF ExecRegs
  <2> HIDE DEF still, u
  <2>3. /\ exec' \in ExecRegs /\ exec'.pc \in {"poll", "scan"}
        /\ exec'.pc = "poll" => exec'.unit \in Units
        /\ exec'.hook = exec.hook
    BY <1>0, <2>1, <2>2, PollNextTypes
  <2>4. exec.hook = INVALID
    BY <1>0, <2>1 DEF ExecTypes
  <2>5. ExecTypes' /\ exec'.pc # "signal"
    BY <2>3, <2>4 DEF ExecTypes
  <2>6. UNCHANGED <<exeFrame, ed, g_ed_ready_queue, g_ed_gated_core_mask, exe,
                    msg_bitmap, stats, runs>>
    BY <1>4 DEF poll_not_rung
  <2> QED BY <1>0, <2>5, <2>6, ExecutorStays
<1>5. CASE executor_exit
  <2>1. exec' = [exec EXCEPT !.pc = "done"] /\ exec.pc = "scan"
    BY <1>5 DEF executor_exit
  <2>2. ExecTypes' /\ exec'.pc = "done"
    BY <1>0, <2>1 DEF ExecTypes, ExecRegs
  <2>3. UNCHANGED <<exeFrame, ed, g_ed_ready_queue, g_ed_gated_core_mask, exe,
                    msg_bitmap, stats, runs>>
    BY <1>5 DEF executor_exit
  <2> QED BY <1>0, <2>2, <2>3, ExecutorStays
<1> QED BY <1>1, <1>2, <1>3, <1>4, <1>5

(* Opening a gate turns a gated slot into a runnable one, no other slot.   *)
LEMMA PollOpenKeeps ==
  ASSUME TypeOK, SlotInv, poll_open
  PROVE  TypeOK' /\ SlotInv'
<1> DEFINE u == exec.unit
           sl == Opened(exe[u])
<1>0. /\ EdTypes /\ SlotTypes /\ ExecTypes /\ exec.pc = "poll" /\ u \in Units
      /\ exe[u].state = "GATED"
      /\ exe' = [exe EXCEPT ![u] = sl]
      /\ stats' = [stats EXCEPT !.open = @ + 1]
      /\ exec' = [exec EXCEPT !.pc = "hook0"]
      /\ UNCHANGED <<exeFrame, ed, g_ed_ready_queue, g_ed_gated_core_mask, msg_bitmap, runs>>
  BY DEF TypeOK, ExecTypes, poll_open
<1>1. /\ OrchTypes' /\ GraphTypes' /\ CutTypes' /\ DispTypes' /\ QueueTypes'
      /\ UNCHANGED <<free_bitmap, task_id_map, disp>>
  BY <1>0, ExecutorFrame
<1>2. EdTypes'
  BY <1>0 DEF EdTypes
<1>3. sl \in Slot /\ sl.state = "RUNNABLE" /\ sl.task = exe[u].task
  <2>1. exe[u] \in Slot
    BY <1>0 DEF SlotTypes
  <2>2. ASSUME NEW e \in Slot
        PROVE  /\ Opened(e) \in Slot
               /\ Opened(e).state = "RUNNABLE" /\ Opened(e).task = e.task
    <3>1. /\ [e EXCEPT !.state = "RUNNABLE"] \in Slot
          /\ [e EXCEPT !.state = "RUNNABLE"].state = "RUNNABLE"
          /\ [e EXCEPT !.state = "RUNNABLE"].task = e.task
      BY DEF Slot
    <3> DEFINE f == [e EXCEPT !.state = "RUNNABLE"]
    <3>2. Opened(e) = [f EXCEPT !.doorbell = 0]
      BY DEF Opened
    <3> HIDE DEF f
    <3>3. f \in Slot /\ f.state = "RUNNABLE" /\ f.task = e.task
      BY <3>1 DEF f
    <3> QED BY <3>2, <3>3 DEF Slot
  <2> QED BY <2>1, <2>2
<1> HIDE DEF sl
<1>4. /\ exe' \in [Units -> Slot]
      /\ exe'[u] = sl /\ \A v \in Units \ {u} : exe'[v] = exe[v]
  BY <1>0, <1>3 DEF SlotTypes
<1>5. SlotTypes'
  BY <1>0, <1>1, <1>4 DEF SlotTypes
<1>6. ExecTypes' /\ exec'.pc = "hook0"
  BY <1>0 DEF ExecTypes, ExecRegs
<1>7. /\ u \notin free_bitmap /\ u \notin msg_bitmap /\ task_id_map[u] = exe[u].task
      /\ free_bitmap \subseteq Units /\ msg_bitmap \subseteq Units
  BY <1>0 DEF SlotInv, SlotHandoff, SlotTypes
<1>8. SlotHandoff'
  <2>1. \A v \in free_bitmap : exe'[v].state = "EMPTY" /\ v \notin msg_bitmap
    BY <1>4, <1>7 DEF SlotInv, SlotHandoff
  <2>2. \A v \in msg_bitmap : exe'[v].state = "EMPTY"
    BY <1>4, <1>7 DEF SlotInv, SlotHandoff
  <2>3. \A v \in Units : exe'[v].state # "EMPTY" \/ v \in msg_bitmap =>
                           task_id_map[v] = exe'[v].task
    BY <1>3, <1>4, <1>7 DEF SlotInv, SlotHandoff
  <2> QED BY <1>0, <1>1, <2>1, <2>2, <2>3 DEF SlotHandoff
<1>9. SignalOwed'
  BY <1>6 DEF SignalOwed
<1>10. BatchHasCores'
  BY <1>1 DEF SlotInv, BatchHasCores, AvailAny, FreeSlots, Type, ToSend
<1> QED BY <1>1, <1>2, <1>5, <1>6, <1>8, <1>9, <1>10 DEF TypeOK, SlotInv

(* Hook 0 of an opened slot, and its credits.                              *)
LEMMA ExecutorHook0Keeps ==
  ASSUME TypeOK, SlotInv, executor_hook0 \/ executor_credit
  PROVE  TypeOK' /\ SlotInv'
<1> DEFINE u == exec.unit
<1>0. /\ GraphTypes /\ EdTypes /\ SlotTypes /\ ExecTypes /\ exec \in ExecRegs
      /\ exec.pc = "hook0" /\ u \in Units
      /\ UNCHANGED <<exeFrame, g_ed_gated_core_mask, exe, msg_bitmap, stats, runs>>
  BY DEF TypeOK, ExecTypes, executor_hook0, executor_credit
<1>1. /\ OrchTypes' /\ GraphTypes' /\ CutTypes' /\ DispTypes' /\ QueueTypes'
      /\ UNCHANGED <<free_bitmap, task_id_map, disp>>
  BY <1>0, ExecutorFrame
<1>2. SlotTypes'
  BY <1>0, <1>1, Frames DEF slotTyped, ctrlVars
<1>3. EdTypes' /\ ExecTypes' /\ exec'.pc # "signal"
  <2>1. CASE executor_hook0
    <3> DEFINE t == exe[u].task
    <3>1. t \in Tasks
      BY <1>0 DEF SlotTypes, Slot
    <3>2. Hook0Enter(t) /\ UNCHANGED g_ed_ready_queue /\ exec.hook = INVALID
      BY <2>1 DEF executor_hook0
    <3>3. EdTypes' /\ Hook0Todo(t) \in Seq(Tasks)
      BY <1>0, <3>1, <3>2, Hook0Types
    <3>4. ExecTypes' /\ exec'.pc # "signal"
      <4>1. CASE Hook0Todo(t) = <<>>
        <5>1. exec' = PollNext(exec, u, exec.still) /\ exec.still \in BOOLEAN
          BY <1>0, <2>1, <4>1 DEF executor_hook0, ExecRegs
        <5>2. /\ exec' \in ExecRegs /\ exec'.pc \in {"poll", "scan"}
              /\ exec'.pc = "poll" => exec'.unit \in Units
              /\ exec'.hook = exec.hook
          BY <1>0, <5>1, PollNextTypes
        <5> QED BY <3>2, <5>2 DEF ExecTypes
      <4>2. CASE Hook0Todo(t) # <<>>
        <5> DEFINE todo == Hook0Todo(t)
        <5>1. exec' = [exec EXCEPT !.hook = t, !.todo = todo]
          BY <2>1, <4>2 DEF executor_hook0
        <5>2. t \in MaybeTask
          BY <3>1 DEF MaybeTask
        <5> HIDE DEF todo, t
        <5>3. todo \in Seq(Tasks) /\ todo # <<>>
          BY <3>3, <4>2 DEF todo, t
        <5> QED BY <1>0, <5>1, <5>2, <5>3 DEF ExecTypes, ExecRegs
      <4> QED BY <4>1, <4>2
    <3> QED BY <3>3, <3>4
  <2>2. CASE executor_credit
    <3> DEFINE s == Head(exec.todo)
    <3>1. /\ exec.hook # INVALID /\ exec.todo # <<>> /\ exec.todo \in Seq(Tasks)
          /\ AddFanin(s, ed[Idx(s)])
      BY <1>0, <2>2 DEF executor_credit, ExecTypes, ExecRegs
    <3>2. s \in Tasks /\ Tail(exec.todo) \in Seq(Tasks)
          /\ Len(exec.todo) \in Nat /\ Len(Tail(exec.todo)) = Len(exec.todo) - 1
      BY <3>1, HeadTailProperties, LenProperties
    <3>3. EdTypes'
      <4>1. ed[Idx(s)] \in EdMeta
        BY <1>0, <3>2, IdxInRings DEF EdTypes
      <4> QED BY <1>0, <3>1, <3>2, <4>1, AddFaninTypes
    <3>4. ExecTypes' /\ exec'.pc # "signal"
      <4>1. CASE Len(exec.todo) > 1
        <5> DEFINE todo == Tail(exec.todo)
        <5>1. exec' = [exec EXCEPT !.todo = todo]
          BY <2>2, <4>1, <1>0 DEF executor_credit, ExecRegs
        <5>2. todo \in Seq(Tasks) /\ todo # <<>>
          <6> DEFINE a == Len(exec.todo)
                     b == Len(todo)
          <6>1. a \in Nat /\ b = a - 1 /\ a > 1
            BY <3>2, <4>1
          <6>2. b # 0
            <7> HIDE DEF a, b
            <7> QED BY <6>1
          <6> QED BY <3>2, <6>2, EmptySeq
        <5> HIDE DEF todo
        <5> QED BY <1>0, <5>1, <5>2 DEF ExecTypes, ExecRegs
      <4>2. CASE ~(Len(exec.todo) > 1)
        <5> DEFINE e == [exec EXCEPT !.hook = INVALID, !.todo = <<>>]
        <5>1. exec' = PollNext(e, u, exec.still)
          BY <2>2, <4>2 DEF executor_credit
        <5>2. e \in ExecRegs /\ e.hook = INVALID /\ exec.still \in BOOLEAN
          <6>1. <<>> \in Seq(Tasks)
            BY EmptySeq
          <6> QED BY <1>0, <6>1 DEF ExecRegs, MaybeTask
        <5> HIDE DEF e
        <5>3. /\ exec' \in ExecRegs /\ exec'.pc \in {"poll", "scan"}
              /\ exec'.pc = "poll" => exec'.unit \in Units
              /\ exec'.hook = e.hook
          BY <1>0, <5>1, <5>2, PollNextTypes
        <5> QED BY <5>2, <5>3 DEF ExecTypes
      <4> QED BY <4>1, <4>2
    <3> QED BY <3>3, <3>4
  <2> QED BY <2>1, <2>2
<1>4. TypeOK'
  BY <1>1, <1>2, <1>3 DEF TypeOK
<1>5. SlotInv'
  BY <1>0, <1>1, <1>3, SlotInvFrame
<1> QED BY <1>4, <1>5

(* Every step of the executor keeps the types and the hand-over of slots.  *)
LEMMA ExecutorKeeps ==
  ASSUME TypeOK, SlotInv, ExecutorNext
  PROVE  TypeOK' /\ SlotInv'
BY CompleteSlotKeeps, SignalKeeps, ExecutorRegistersKeep, PollOpenKeeps,
   ExecutorHook0Keeps DEF ExecutorNext, CoreIds

----------------------------------------------------------------------------
(* The three passes of a round, and the type each of them serves.          *)
LEMMA Passes ==
  /\ DOMAIN PassType = 1 .. 3 /\ Len(PassType) = 3
  /\ \A k \in 1 .. 3 : PassType[k] \in Types
<1>1. PassType = <<1, 1, 0>>
  BY DEF PassType, TASK_TYPE_MIX, TASK_TYPE_VECTOR, TASK_TYPE_CUBE
<1>2. DOMAIN PassType = 1 .. 3 /\ Len(PassType) = 3
  BY <1>1
<1>3. PassType[1] = 1 /\ PassType[2] = 1 /\ PassType[3] = 0
  BY <1>1
<1> QED BY <1>2, <1>3, TypesFacts

(* The next pass, or the end of the round.                                 *)
LEMMA NextPassTypes ==
  ASSUME NEW d \in DispRegs
  PROVE  LET x == NextPass(d) IN
         x \in DispRegs /\ x.pc \in {"dequeue", "ed", "round"} /\ x.hook = d.hook
<1>1. d.pass \in 1 .. 3 /\ <<>> \in Seq(Tasks) /\ {} \in SUBSET Cores
  BY Passes, EmptySeq DEF DispRegs
<1>2. CASE d.pass < Len(PassType)
  <2> DEFINE p == d.pass + 1
  <2>1. p \in DOMAIN PassType
    BY <1>1, <1>2, Passes
  <2>2. NextPass(d) = [d EXCEPT !.pc = "dequeue", !.pass = p, !.batch = <<>>, !.avail = {}]
    BY <1>2 DEF NextPass, DispRegs
  <2> HIDE DEF p
  <2>3. [d EXCEPT !.pc = "dequeue", !.pass = p, !.batch = <<>>, !.avail = {}] \in DispRegs
    BY <1>1, <2>1 DEF DispRegs
  <2>4. NextPass(d).pc = "dequeue" /\ NextPass(d).hook = d.hook
    BY <2>2 DEF DispRegs
  <2> QED BY <2>2, <2>3, <2>4
<1>3. CASE ~(d.pass < Len(PassType))
  <2> DEFINE pc == IF ED_ENABLE THEN "ed" ELSE "round"
             p == 1
  <2>1. pc \in {"ed", "round"} /\ p \in DOMAIN PassType
    BY Passes
  <2>2. NextPass(d) = [d EXCEPT !.pc = pc, !.pass = p, !.batch = <<>>, !.avail = {}]
    BY <1>3 DEF NextPass
  <2> HIDE DEF pc, p
  <2>3. [d EXCEPT !.pc = pc, !.pass = p, !.batch = <<>>, !.avail = {}] \in DispRegs
    BY <1>1, <2>1 DEF DispRegs
  <2>4. NextPass(d).pc = pc /\ NextPass(d).hook = d.hook
    BY <2>2 DEF DispRegs
  <2> QED BY <2>1, <2>2, <2>3, <2>4
<1> QED BY <1>2, <1>3

(* After a task is sent the rest of the batch follows, or the next pass.   *)
LEMMA AfterSendTypes ==
  ASSUME NEW d \in DispRegs, d.batch # <<>>
  PROVE  LET x == AfterSend(d) IN
         /\ x \in DispRegs /\ x.pc \in {"send", "dequeue", "ed", "round"}
         /\ x.hook = d.hook
         /\ x.pc = "send" => /\ x.batch # <<>> /\ Len(x.batch) = Len(d.batch) - 1
                             /\ x.avail = d.avail /\ x.pass = d.pass
<1> DEFINE rest == Tail(d.batch)
<1>1. /\ rest \in Seq(Tasks) /\ Len(rest) = Len(d.batch) - 1
      /\ Len(d.batch) \in Nat /\ Len(rest) \in Nat
  <2>1. d.batch \in Seq(Tasks)
    BY DEF DispRegs
  <2> QED BY <2>1, HeadTailProperties, LenProperties
<1>2. CASE Len(d.batch) > 1
  <2>1. AfterSend(d) = [d EXCEPT !.pc = "send", !.batch = rest]
    BY <1>2 DEF AfterSend, DispRegs
  <2>2. rest # <<>>
    <3> DEFINE a == Len(d.batch)
               b == Len(rest)
    <3>1. a \in Nat /\ b = a - 1 /\ a > 1
      BY <1>1, <1>2
    <3>2. b # 0
      <4> HIDE DEF a, b
      <4> QED BY <3>1
    <3> QED BY <3>2, EmptySeq
  <2>3. rest \in Seq(Tasks) /\ Len(rest) = Len(d.batch) - 1
    BY <1>1
  <2> HIDE DEF rest
  <2> QED BY <2>1, <2>2, <2>3 DEF DispRegs
<1>3. CASE ~(Len(d.batch) > 1)
  <2>1. AfterSend(d) = NextPass(d)
    BY <1>3 DEF AfterSend
  <2> QED BY <2>1, NextPassTypes
<1> QED BY <1>2, <1>3

(* The first free slot of a core that has one.                             *)
LEMMA FirstFreeFacts ==
  ASSUME SlotTypes, NEW y \in Types, NEW c \in AvailAny(y)
  PROVE  /\ c \in Cores
         /\ FirstFree(y, c) \in free_bitmap /\ FirstFree(y, c) \in Units
         /\ FirstFree(y, c)[1] = y /\ FirstFree(y, c)[2] = c
<1> DEFINE S == FreeSlots(y, c)
           j == LowestOf(S)
<1>1. c \in Cores /\ S # {}
  BY DEF AvailAny
<1>2. S \subseteq Slots /\ Slots \subseteq Nat
  BY ConfigAssumption DEF FreeSlots, Slots
<1>3. j \in S
  <2> HIDE DEF S
  <2> QED BY <1>1, <1>2, LowestExists
<1>4. FirstFree(y, c) = <<y, c, j>>
  BY DEF FirstFree
<1>5. <<y, c, j>> \in free_bitmap
  BY <1>3 DEF FreeSlots
<1>6. <<y, c, j>>[1] = y /\ <<y, c, j>>[2] = c
  OBVIOUS
<1> HIDE DEF j, S
<1> QED BY <1>1, <1>4, <1>5, <1>6 DEF SlotTypes

(* Filling a free slot takes it out of the free set and names its task in  *)
(* both places.                                                            *)
LEMMA FillSlot ==
  ASSUME TypeOK, SlotInv, NEW u \in free_bitmap, NEW t \in Tasks,
         NEW sl \in Slot, sl.task = t,
         free_bitmap' = free_bitmap \ {u},
         exe' = [exe EXCEPT ![u] = sl],
         task_id_map' = [task_id_map EXCEPT ![u] = t],
         UNCHANGED <<msg_bitmap, exec>>
  PROVE  SlotTypes' /\ SlotHandoff' /\ SignalOwed'
<1>1. /\ free_bitmap \subseteq Units /\ msg_bitmap \subseteq Units /\ u \in Units
      /\ exe \in [Units -> Slot] /\ task_id_map \in [Units -> Tasks]
  BY DEF TypeOK, SlotTypes
<1>2. /\ exe' \in [Units -> Slot] /\ task_id_map' \in [Units -> Tasks]
      /\ exe'[u] = sl /\ task_id_map'[u] = t
      /\ \A v \in Units \ {u} : exe'[v] = exe[v] /\ task_id_map'[v] = task_id_map[v]
  BY <1>1
<1>3. SlotTypes'
  BY <1>1, <1>2 DEF SlotTypes
<1>4. u \notin msg_bitmap
  BY DEF SlotInv, SlotHandoff
<1>5. SlotHandoff'
  <2>1. \A v \in free_bitmap' : exe'[v].state = "EMPTY" /\ v \notin msg_bitmap'
    BY <1>1, <1>2 DEF SlotInv, SlotHandoff
  <2>2. \A v \in msg_bitmap' : exe'[v].state = "EMPTY"
    BY <1>1, <1>2, <1>4 DEF SlotInv, SlotHandoff
  <2>3. \A v \in Units : exe'[v].state # "EMPTY" \/ v \in msg_bitmap' =>
                           task_id_map'[v] = exe'[v].task
    BY <1>1, <1>2, <1>4 DEF SlotInv, SlotHandoff
  <2> QED BY <2>1, <2>2, <2>3 DEF SlotHandoff
<1>6. SignalOwed'
  <2>1. ASSUME exec.pc = "signal"
        PROVE  /\ exec.unit \in Units /\ exec.unit # u
               /\ exe[exec.unit].state = "EMPTY"
               /\ exec.unit \notin free_bitmap \cup msg_bitmap
               /\ task_id_map[exec.unit] = exe[exec.unit].task
    BY <2>1 DEF TypeOK, ExecTypes, SlotInv, SignalOwed
  <2> QED BY <1>2, <2>1 DEF SignalOwed
<1> QED BY <1>3, <1>5, <1>6

(* What a step of the dispatcher leaves alone keeps its type.              *)
LEMMA DispatcherFrame ==
  ASSUME TypeOK, UNCHANGED dispFrame
  PROVE  /\ OrchTypes' /\ GraphTypes' /\ CutTypes' /\ ExecTypes'
         /\ UNCHANGED <<ready_queue, completed_queue, g_completed_cnt, g_is_done>>
              => QueueTypes'
         /\ UNCHANGED <<exec, runs>>
<1>1. UNCHANGED <<orchTyped, graphTyped, cutTyped, exec, runs>>
  BY DEF dispFrame, orchVars, graphVars, orchTyped, graphTyped, cutTyped
<1> QED BY <1>1, Frames DEF TypeOK, queueTyped

(* Slots and their hand-over when the dispatcher only moves registers.     *)
LEMMA DispatcherSlotFrame ==
  ASSUME TypeOK, SlotInv, UNCHANGED <<exec, free_bitmap, task_id_map, msg_bitmap>>,
         \A u \in Units : exe'[u].state = exe[u].state /\ exe'[u].task = exe[u].task
  PROVE  SlotHandoff' /\ SignalOwed'
<1>1. SlotHandoff'
  <2>1. free_bitmap \subseteq Units /\ msg_bitmap \subseteq Units
    BY DEF TypeOK, SlotTypes
  <2> QED BY <2>1 DEF SlotInv, SlotHandoff
<1>2. SignalOwed'
  <2>1. exec.pc = "signal" => exec.unit \in Units
    BY DEF TypeOK, ExecTypes
  <2> QED BY <2>1 DEF SlotInv, SignalOwed
<1> QED BY <1>1, <1>2

(* Draining the completion bits frees their slots, and no other.           *)
LEMMA DrainKeeps ==
  ASSUME TypeOK, SlotInv, drain_completed_snapshot
  PROVE  TypeOK' /\ SlotInv'
<1> DEFINE n == Cardinality(msg_bitmap)
<1>0. /\ SlotTypes /\ QueueTypes /\ DispTypes /\ disp \in DispRegs
      /\ free_bitmap \subseteq Units /\ msg_bitmap \subseteq Units
      /\ task_id_map \in [Units -> Tasks]
  BY DEF TypeOK, SlotTypes, DispTypes
<1>1. n \in Nat
  BY <1>0, UnitsFinite, FS_Subset, FS_CardinalityType
<1>2. PICK order \in [1 .. n -> msg_bitmap] :
        LET done == [k \in DOMAIN order |-> task_id_map[order[k]]] IN
        /\ disp.pc = "round" /\ msg_bitmap' = {}
        /\ free_bitmap' = set_mix(free_bitmap \cup Freed(msg_bitmap))
        /\ completed_queue' = IF HasRoom(completed_queue, Len(done))
                              THEN completed_queue \o done ELSE completed_queue
        /\ g_completed_cnt' = g_completed_cnt + Len(done)
        /\ disp' = [disp EXCEPT !.pc = "dequeue", !.pass = 1,
                                !.flush = IF WindowClosed THEN @ + 1 ELSE @]
        /\ UNCHANGED <<dispFrame, ed, g_ed_ready_queue, g_ed_gated_core_mask, exe,
                       task_id_map, ready_queue, g_is_done, stats>>
  BY DEF drain_completed_snapshot, SweepOrder
<1> DEFINE done == [k \in DOMAIN order |-> task_id_map[order[k]]]
<1>3. done \in Seq(Tasks) /\ Len(done) \in Nat
  <2> HIDE DEF n
  <2>1. DOMAIN order = 1 .. n /\ \A k \in 1 .. n : task_id_map[order[k]] \in Tasks
    BY <1>0
  <2>2. done = [k \in 1 .. n |-> task_id_map[order[k]]]
    BY <2>1
  <2>3. done \in [1 .. n -> Tasks]
    BY <2>1, <2>2
  <2> HIDE DEF done
  <2>4. done \in Seq(Tasks)
    BY <1>1, <2>3, SeqDef
  <2> QED BY <2>4, LenProperties
<1>4. /\ OrchTypes' /\ GraphTypes' /\ CutTypes' /\ ExecTypes'
      /\ UNCHANGED <<exec, runs>>
  BY <1>2, DispatcherFrame
<1>5. EdTypes'
  BY <1>2, Frames DEF TypeOK, edTyped
<1>6. free_bitmap' \subseteq free_bitmap \cup msg_bitmap
  BY <1>2 DEF set_mix, Freed
<1>7. SlotTypes'
  BY <1>0, <1>2, <1>6 DEF SlotTypes
<1>8. QueueTypes'
  <2>1. completed_queue' = completed_queue \o done \/ completed_queue' = completed_queue
    BY <1>2
  <2>2. g_completed_cnt' = g_completed_cnt + Len(done)
    BY <1>2
  <2> HIDE DEF done
  <2>3. completed_queue \o done \in Seq(Tasks)
    BY <1>0, <1>3, ConcatProperties DEF QueueTypes
  <2>4. completed_queue' \in Seq(Tasks)
    BY <1>0, <2>1, <2>3 DEF QueueTypes
  <2>5. g_completed_cnt' \in Nat
    BY <1>0, <1>3, <2>2 DEF QueueTypes
  <2> QED BY <1>0, <1>2, <1>4, <2>4, <2>5 DEF QueueTypes
<1>9. DispTypes' /\ disp'.pc = "dequeue"
  <2> DEFINE fl == IF WindowClosed THEN disp.flush + 1 ELSE disp.flush
             p == 1
  <2>1. disp' = [disp EXCEPT !.pc = "dequeue", !.pass = p, !.flush = fl]
    BY <1>0, <1>2 DEF DispRegs
  <2>2. p \in DOMAIN PassType
    BY Passes
  <2>3. fl \in Nat
    BY <1>0 DEF DispRegs
  <2>4. disp.hook = INVALID
    BY <1>0, <1>2 DEF DispTypes
  <2> HIDE DEF fl, p
  <2> QED BY <1>0, <2>1, <2>2, <2>3, <2>4 DEF DispTypes, DispRegs
<1>10. SlotHandoff'
  BY <1>2, <1>6 DEF SlotInv, SlotHandoff
<1>11. SignalOwed'
  BY <1>2, <1>4, <1>6 DEF SlotInv, SignalOwed
<1>12. BatchHasCores'
  BY <1>9 DEF BatchHasCores
<1> QED BY <1>4, <1>5, <1>7, <1>8, <1>9, <1>10, <1>11, <1>12 DEF TypeOK, SlotInv

(* The end of the dispatcher.                                              *)
LEMMA FinishKeeps ==
  ASSUME TypeOK, SlotInv, dispatch_finish
  PROVE  TypeOK' /\ SlotInv'
<1>1. /\ disp \in DispRegs /\ disp.hook = INVALID
      /\ g_is_done' = TRUE /\ disp' = [disp EXCEPT !.pc = "done"]
      /\ UNCHANGED <<dispFrame, ed, g_ed_ready_queue, g_ed_gated_core_mask, exe,
                     ctrlVars, free_bitmap, task_id_map, msg_bitmap, ready_queue,
                     completed_queue, g_completed_cnt, stats>>
  BY DEF TypeOK, DispTypes, dispatch_finish, ctrlVars
<1>2. /\ OrchTypes' /\ GraphTypes' /\ CutTypes' /\ ExecTypes'
      /\ UNCHANGED <<exec, runs>>
  BY <1>1, DispatcherFrame
<1>3. EdTypes' /\ SlotTypes'
  BY <1>1, Frames DEF TypeOK, edTyped, slotTyped
<1>4. QueueTypes'
  BY <1>1, <1>2 DEF TypeOK, QueueTypes
<1>5. DispTypes' /\ disp'.pc = "done"
  BY <1>1 DEF DispTypes, DispRegs
<1>6. SlotHandoff' /\ SignalOwed'
  BY <1>1, <1>2, DispatcherSlotFrame
<1>7. BatchHasCores'
  BY <1>5 DEF BatchHasCores
<1> QED BY <1>2, <1>3, <1>4, <1>5, <1>6, <1>7 DEF TypeOK, SlotInv

(* A pass takes no more tasks than there are cores with a free slot.       *)
LEMMA DequeueKeeps ==
  ASSUME TypeOK, SlotInv, send_task_dequeue
  PROVE  TypeOK' /\ SlotInv'
<1> DEFINE avail == AvailAny(Type)
           q == ready_queue[Type]
           n == IF Len(q) < Cardinality(avail) THEN Len(q) ELSE Cardinality(avail)
           rest == SubSeq(q, n + 1, Len(q))
           batch == SubSeq(q, 1, n)
<1>0. /\ disp \in DispRegs /\ disp.hook = INVALID /\ disp.pc = "dequeue"
      /\ ready_queue \in [Types -> Seq(Tasks)] /\ Type \in Types
  <2>1. disp \in DispRegs /\ disp.hook = INVALID /\ disp.pc = "dequeue"
    BY DEF TypeOK, DispTypes, send_task_dequeue
  <2>2. Type \in Types
    BY <2>1, Passes DEF Type, DispRegs
  <2> QED BY <2>1, <2>2 DEF TypeOK, QueueTypes
<1>1. /\ ready_queue' = [ready_queue EXCEPT ![Type] = rest]
      /\ disp' = IF n = 0 THEN NextPass(disp)
                 ELSE [disp EXCEPT !.pc = "send", !.batch = batch, !.avail = avail]
      /\ UNCHANGED <<dispFrame, ed, g_ed_ready_queue, g_ed_gated_core_mask, exe,
                     ctrlVars, free_bitmap, task_id_map, msg_bitmap, completed_queue,
                     g_completed_cnt, g_is_done, stats>>
  BY DEF send_task_dequeue, ctrlVars
<1>2. avail \in SUBSET Cores /\ Cardinality(avail) \in Nat
  <2>1. avail \subseteq Cores
    BY DEF AvailAny
  <2> QED BY <2>1, CoresCardinality
<1>3. q \in Seq(Tasks) /\ Len(q) \in Nat
  BY <1>0, LenProperties
<1>4. n \in 0 .. Len(q) /\ n <= Cardinality(avail)
  <2> HIDE DEF q, avail
  <2> QED BY <1>2, <1>3
<1>5. /\ rest \in Seq(Tasks) /\ batch \in Seq(Tasks) /\ Len(batch) = n
  <2> HIDE DEF n, q
  <2> QED BY <1>3, <1>4, SubSeqProperties
<1> HIDE DEF avail, q, n, rest, batch
<1>6. /\ OrchTypes' /\ GraphTypes' /\ CutTypes' /\ ExecTypes'
      /\ UNCHANGED <<exec, runs>>
  BY <1>1, DispatcherFrame
<1>7. EdTypes' /\ SlotTypes'
  BY <1>1, Frames DEF TypeOK, edTyped, slotTyped
<1>8. QueueTypes'
  <2>1. ready_queue' \in [Types -> Seq(Tasks)]
    BY <1>0, <1>1, <1>5
  <2> QED BY <1>1, <1>6, <2>1 DEF TypeOK, QueueTypes
<1>9. SlotHandoff' /\ SignalOwed'
  BY <1>1, <1>6, DispatcherSlotFrame
<1>10. DispTypes' /\ BatchHasCores'
  <2>1. CASE n = 0
    <3>1. /\ disp' \in DispRegs /\ disp'.pc \in {"dequeue", "ed", "round"}
          /\ disp'.hook = INVALID
      BY <1>0, <1>1, <2>1, NextPassTypes
    <3> QED BY <3>1 DEF DispTypes, BatchHasCores
  <2>2. CASE n # 0
    <3>1. disp' = [disp EXCEPT !.pc = "send", !.batch = batch, !.avail = avail]
      BY <1>1, <2>2
    <3>2. /\ disp' \in DispRegs /\ disp'.pc = "send" /\ disp'.batch = batch
          /\ disp'.avail = avail /\ disp'.hook = INVALID /\ disp'.pass = disp.pass
      BY <1>0, <1>2, <1>5, <3>1 DEF DispRegs
    <3>3. batch # <<>>
      BY <1>4, <1>5, <2>2, EmptySeq
    <3>4. DispTypes'
      BY <3>2, <3>3 DEF DispTypes
    <3>5. AvailAny(Type)' = avail
      BY <1>1, <3>2 DEF avail, AvailAny, FreeSlots, Type
    <3>6. ToSend' = n
      BY <1>5, <3>2 DEF ToSend
    <3> QED BY <1>4, <3>2, <3>4, <3>5, <3>6 DEF BatchHasCores
  <2> QED BY <2>1, <2>2
<1> QED BY <1>6, <1>7, <1>8, <1>9, <1>10 DEF TypeOK, SlotInv

(* Sending a task uses a free slot of a core of this pass, and the core.   *)
LEMMA SendTaskKeeps ==
  ASSUME TypeOK, SlotInv, send_task
  PROVE  TypeOK' /\ SlotInv'
<1> DEFINE t == Head(disp.batch)
           u == FirstFree(Type, PickedCore)
           skip == ED_ENABLE /\ ~Claimable(t)
<1>0. /\ DispTypes /\ disp \in DispRegs /\ disp.hook = INVALID /\ disp.pc = "send"
      /\ disp.batch # <<>> /\ disp.batch \in Seq(Tasks) /\ Len(disp.batch) \in Nat
      /\ SlotTypes /\ EdTypes
  <2>1. /\ DispTypes /\ disp \in DispRegs /\ disp.hook = INVALID /\ disp.pc = "send"
        /\ disp.batch # <<>>
    BY DEF TypeOK, DispTypes, send_task
  <2>2. disp.batch \in Seq(Tasks)
    BY <2>1 DEF DispRegs
  <2> QED BY <2>1, <2>2, LenProperties DEF TypeOK
<1>1. UNCHANGED <<dispFrame, g_ed_ready_queue, g_ed_gated_core_mask, msg_bitmap,
                  ready_queue, completed_queue, g_completed_cnt, g_is_done, stats>>
  BY DEF send_task
<1>2. /\ OrchTypes' /\ GraphTypes' /\ CutTypes' /\ ExecTypes' /\ QueueTypes'
      /\ UNCHANGED <<exec, runs>>
  BY <1>1, DispatcherFrame
<1>3. t \in Tasks /\ Idx(t) \in Rings /\ Type \in Types
  <2>1. t \in Tasks
    BY <1>0, HeadTailProperties
  <2>2. Type \in Types
    BY <1>0, Passes DEF Type, DispRegs
  <2> QED BY <2>1, <2>2, IdxInRings
<1>4. /\ disp.avail \subseteq AvailAny(Type) /\ disp.avail \subseteq Cores
      /\ Len(disp.batch) <= Cardinality(disp.avail)
      /\ Cardinality(disp.avail) \in Nat
  <2>1. disp.avail \subseteq AvailAny(Type) /\ Len(disp.batch) <= Cardinality(disp.avail)
    BY <1>0 DEF SlotInv, BatchHasCores, ToSend
  <2>2. disp.avail \subseteq Cores
    BY <1>0 DEF DispRegs
  <2> QED BY <2>1, <2>2, CoresCardinality
<1>5. CASE skip
  <2>1. /\ disp' = AfterSend(disp)
        /\ UNCHANGED <<ed, exe, free_bitmap, task_id_map>>
    BY <1>5 DEF send_task
  <2>2. /\ disp' \in DispRegs /\ disp'.pc \in {"send", "dequeue", "ed", "round"}
        /\ disp'.hook = INVALID
        /\ disp'.pc = "send" =>
             /\ disp'.batch # <<>> /\ Len(disp'.batch) = Len(disp.batch) - 1
             /\ disp'.avail = disp.avail /\ disp'.pass = disp.pass
    BY <1>0, <2>1, AfterSendTypes
  <2>3. DispTypes'
    BY <2>2 DEF DispTypes
  <2>4. EdTypes' /\ SlotTypes'
    BY <1>0, <1>1, <2>1, Frames DEF edTyped, slotTyped, ctrlVars
  <2>5. SlotHandoff' /\ SignalOwed'
    BY <1>1, <1>2, <2>1, DispatcherSlotFrame
  <2>6. BatchHasCores'
    <3>1. ASSUME disp'.pc = "send"
          PROVE  disp'.avail \subseteq AvailAny(Type)' /\ ToSend' <= Cardinality(disp'.avail)
      <4>1. AvailAny(Type)' = AvailAny(Type)
        BY <2>1, <2>2, <3>1 DEF AvailAny, FreeSlots, Type
      <4>2. ToSend' = Len(disp.batch) - 1
        BY <2>2, <3>1 DEF ToSend
      <4> QED BY <1>0, <1>4, <2>2, <3>1, <4>1, <4>2
    <3> QED BY <2>2, <3>1 DEF BatchHasCores
  <2> QED BY <1>2, <2>3, <2>4, <2>5, <2>6 DEF TypeOK, SlotInv
<1>6. CASE ~skip
  <2> DEFINE sl == [exe[u] EXCEPT !.state = "RUNNABLE", !.task = t]
             d == [disp EXCEPT !.avail = disp.avail \ {u[2]}]
             nb == CountOf(Idx(t))
             rec == Record(t, u)
             m == [ed[Idx(t)] EXCEPT !.next_block = nb, !.dispatch = rec]
  <2>1. PickedCore \in disp.avail
    <3> DEFINE all == AvailAll(Type) \cap disp.avail
               S == IF all # {} THEN all ELSE disp.avail
    <3>1. disp.avail # {}
      <4>1. Len(disp.batch) # 0
        BY <1>0, EmptySeq
      <4>2. Cardinality(disp.avail) # 0
        BY <1>0, <1>4, <4>1
      <4> QED BY <1>4, <4>2, CoresCardinality
    <3>2. S # {} /\ S \subseteq disp.avail
      BY <3>1
    <3>3. S \subseteq Nat
      BY <1>4, <3>2, ConfigAssumption DEF Cores
    <3>4. PickedCore = LowestOf(S)
      BY DEF PickedCore
    <3> HIDE DEF S
    <3> QED BY <3>2, <3>3, <3>4, LowestExists
  <2>2. /\ u \in free_bitmap /\ u \in Units /\ u[1] = Type /\ u[2] = PickedCore
    BY <1>0, <1>3, <1>4, <2>1, FirstFreeFacts
  <2>3. /\ free_bitmap' = free_bitmap \ {u}
        /\ exe' = [exe EXCEPT ![u].state = "RUNNABLE", ![u].task = t]
        /\ task_id_map' = [task_id_map EXCEPT ![u] = t]
        /\ ed' = IF ED_ENABLE
                 THEN [ed EXCEPT ![Idx(t)].next_block = nb, ![Idx(t)].dispatch = rec]
                 ELSE ed
        /\ disp' = IF ED_ENABLE THEN [d EXCEPT !.pc = "hook0"] ELSE AfterSend(d)
    <3>1. d = [disp EXCEPT !.avail = @ \ {u[2]}]
      BY <1>0 DEF DispRegs
    <3> QED BY <1>6, <3>1 DEF send_task
  <2> HIDE DEF u
  <2>4. /\ rec \in MetaRecords /\ nb \in Nat
    <3>1. g_basic_buf[Idx(t)] \in MaybeTask
      BY <1>3 DEF TypeOK, OrchTypes
    <3>2. nb \in Nat
      BY <3>1, GraphAssumption DEF CountOf, MaybeTask
    <3> HIDE DEF t
    <3> QED BY <1>3, <2>2, <3>2 DEF Record, MetaRecords
  <2> HIDE DEF rec, nb
  <2>5. EdTypes'
    <3>1. ed \in [Rings -> EdMeta]
      BY <1>0 DEF EdTypes
    <3>2. m \in EdMeta
      BY <1>3, <2>4, <3>1 DEF EdMeta
    <3>3. ED_ENABLE => ed' = [ed EXCEPT ![Idx(t)] = m]
      BY <1>3, <2>3, <3>1 DEF EdMeta
    <3> HIDE DEF m, t
    <3>4. ed' \in [Rings -> EdMeta]
      BY <1>3, <2>3, <3>1, <3>2, <3>3
    <3> QED BY <1>0, <1>1, <3>4 DEF EdTypes
  <2>6. sl \in Slot /\ sl.task = t
    <3>1. exe[u] \in Slot
      BY <1>0, <2>2 DEF SlotTypes
    <3> HIDE DEF t
    <3> QED BY <1>3, <3>1 DEF Slot
  <2>7. exe' = [exe EXCEPT ![u] = sl]
    <3>1. exe \in [Units -> Slot]
      BY <1>0 DEF SlotTypes
    <3> HIDE DEF t
    <3> QED BY <2>2, <2>3, <3>1 DEF Slot
  <2>8. SlotTypes' /\ SlotHandoff' /\ SignalOwed'
    <3> HIDE DEF sl, t
    <3> QED BY <1>1, <1>2, <1>3, <2>2, <2>3, <2>6, <2>7, FillSlot
  <2>9. /\ d \in DispRegs /\ d.hook = INVALID /\ d.batch = disp.batch
        /\ d.avail = disp.avail \ {u[2]} /\ d.pass = disp.pass
    BY <1>0 DEF DispRegs
  <2> HIDE DEF d
  <2>10. /\ disp' \in DispRegs /\ disp'.pc \in {"send", "hook0", "dequeue", "ed", "round"}
         /\ disp'.hook = INVALID
         /\ disp'.pc \in {"send", "hook0"} =>
              /\ disp'.batch # <<>>
              /\ disp'.avail = disp.avail \ {u[2]} /\ disp'.pass = disp.pass
              /\ ToSend' = Len(disp.batch) - 1
    <3>1. CASE ED_ENABLE
      <4>1. disp' = [d EXCEPT !.pc = "hook0"]
        BY <2>3, <3>1
      <4>2. /\ disp' \in DispRegs /\ disp'.pc = "hook0" /\ disp'.hook = INVALID
            /\ disp'.batch = disp.batch /\ disp'.avail = disp.avail \ {u[2]}
            /\ disp'.pass = disp.pass
        BY <2>9, <4>1 DEF DispRegs
      <4> QED BY <1>0, <4>2 DEF ToSend
    <3>2. CASE ~ED_ENABLE
      <4>1. disp' = AfterSend(d)
        BY <2>3, <3>2
      <4>2. /\ disp' \in DispRegs /\ disp'.pc \in {"send", "dequeue", "ed", "round"}
            /\ disp'.hook = INVALID
            /\ disp'.pc = "send" =>
                 /\ disp'.batch # <<>> /\ Len(disp'.batch) = Len(disp.batch) - 1
                 /\ disp'.avail = disp.avail \ {u[2]} /\ disp'.pass = disp.pass
        BY <1>0, <2>9, <4>1, AfterSendTypes
      <4> QED BY <4>2 DEF ToSend
    <3> QED BY <3>1, <3>2
  <2>11. DispTypes'
    BY <2>10 DEF DispTypes
  <2>12. BatchHasCores'
    <3>1. ASSUME disp'.pc \in {"send", "hook0"}
          PROVE  disp'.avail \subseteq AvailAny(Type)' /\ ToSend' <= Cardinality(disp'.avail)
      <4>1. Type' = Type
        BY <2>10, <3>1 DEF Type
      <4>2. ASSUME NEW c \in disp'.avail
            PROVE  c \in AvailAny(Type)'
        <5>1. c \in AvailAny(Type) /\ c # u[2]
          BY <1>4, <2>10, <3>1
        <5>2. PICK j \in Slots : <<Type, c, j>> \in free_bitmap
          BY <5>1 DEF AvailAny, FreeSlots
        <5>3. <<Type, c, j>> # u
          BY <5>1
        <5>4. <<Type, c, j>> \in free_bitmap'
          BY <2>3, <5>2, <5>3
        <5> QED BY <4>1, <5>1, <5>4 DEF AvailAny, FreeSlots
      <4>3. Cardinality(disp'.avail) = Cardinality(disp.avail) - 1
        BY <1>4, <2>1, <2>2, <2>10, <3>1, CoresCardinality
      <4> QED BY <1>0, <1>4, <2>10, <3>1, <4>2, <4>3
    <3> QED BY <3>1 DEF BatchHasCores
  <2> QED BY <1>2, <2>5, <2>8, <2>11, <2>12 DEF TypeOK, SlotInv
<1> QED BY <1>5, <1>6

(* A batch keeps having cores when the pass, the free slots and the cores  *)
(* left do not change.                                                     *)
LEMMA BatchFrame ==
  ASSUME SlotInv, UNCHANGED free_bitmap, disp.pc \in {"send", "hook0"},
         disp'.pc \in {"send", "hook0"} =>
           disp'.avail = disp.avail /\ disp'.pass = disp.pass /\ ToSend' = ToSend
  PROVE  BatchHasCores'
<1>1. ASSUME disp'.pc \in {"send", "hook0"}
      PROVE  disp'.avail \subseteq AvailAny(Type)' /\ ToSend' <= Cardinality(disp'.avail)
  <2>1. AvailAny(Type)' = AvailAny(Type)
    BY <1>1 DEF AvailAny, FreeSlots, Type
  <2>2. disp.avail \subseteq AvailAny(Type) /\ ToSend <= Cardinality(disp.avail)
    BY DEF SlotInv, BatchHasCores
  <2> QED BY <1>1, <2>1, <2>2
<1> QED BY <1>1 DEF BatchHasCores

(* Hook 0 of a task just sent, and its credits.                            *)
LEMMA DispatcherHook0Keeps ==
  ASSUME TypeOK, SlotInv, dispatcher_hook0 \/ dispatcher_credit
  PROVE  TypeOK' /\ SlotInv'
<1>0. /\ GraphTypes /\ EdTypes /\ SlotTypes /\ DispTypes /\ disp \in DispRegs
      /\ disp.pc = "hook0" /\ disp.batch # <<>> /\ disp.batch \in Seq(Tasks)
      /\ UNCHANGED hook0Frame
  BY DEF TypeOK, DispTypes, DispRegs, dispatcher_hook0, dispatcher_credit
<1>1. UNCHANGED <<dispFrame, g_ed_gated_core_mask, exe, ctrlVars, free_bitmap,
                  task_id_map, msg_bitmap, ready_queue, completed_queue,
                  g_completed_cnt, g_is_done, stats>>
  BY <1>0 DEF hook0Frame, ctrlVars
<1>2. /\ OrchTypes' /\ GraphTypes' /\ CutTypes' /\ ExecTypes' /\ QueueTypes'
      /\ UNCHANGED <<exec, runs>>
  BY <1>1, DispatcherFrame
<1>3. SlotTypes' /\ SlotHandoff' /\ SignalOwed'
  BY <1>0, <1>1, <1>2, Frames, DispatcherSlotFrame DEF slotTyped
<1>4. EdTypes' /\ DispTypes' /\ BatchHasCores'
  <2>1. CASE dispatcher_hook0
    <3> DEFINE t == Head(disp.batch)
    <3>1. t \in Tasks
      BY <1>0, HeadTailProperties
    <3>2. /\ Hook0Enter(t) /\ UNCHANGED g_ed_ready_queue /\ disp.hook = INVALID
          /\ disp' = IF Hook0Todo(t) = <<>> THEN AfterSend(disp)
                     ELSE [disp EXCEPT !.hook = t, !.todo = Hook0Todo(t)]
      BY <2>1 DEF dispatcher_hook0
    <3> HIDE DEF t
    <3>3. EdTypes' /\ Hook0Todo(t) \in Seq(Tasks)
      BY <1>0, <1>1, <3>1, <3>2, Hook0Types
    <3>4. CASE Hook0Todo(t) = <<>>
      <4>1. disp' = AfterSend(disp)
        BY <3>2, <3>4
      <4>2. /\ disp' \in DispRegs /\ disp'.pc \in {"send", "dequeue", "ed", "round"}
            /\ disp'.hook = INVALID
            /\ disp'.pc = "send" =>
                 /\ disp'.batch # <<>> /\ Len(disp'.batch) = Len(disp.batch) - 1
                 /\ disp'.avail = disp.avail /\ disp'.pass = disp.pass
        BY <1>0, <3>2, <4>1, AfterSendTypes
      <4>3. DispTypes'
        BY <4>2 DEF DispTypes
      <4>4. disp'.pc = "send" => ToSend' = ToSend
        BY <1>0, <4>2 DEF ToSend
      <4>5. BatchHasCores'
        BY <1>0, <1>1, <4>2, <4>4, BatchFrame
      <4> QED BY <3>3, <4>3, <4>5
    <3>5. CASE Hook0Todo(t) # <<>>
      <4> DEFINE todo == Hook0Todo(t)
      <4>1. disp' = [disp EXCEPT !.hook = t, !.todo = todo]
        BY <3>2, <3>5
      <4>2. t \in MaybeTask /\ todo \in Seq(Tasks) /\ todo # <<>>
        BY <3>1, <3>3, <3>5 DEF MaybeTask
      <4> HIDE DEF todo
      <4>3. /\ disp' \in DispRegs /\ disp'.pc = "hook0" /\ disp'.batch = disp.batch
            /\ disp'.avail = disp.avail /\ disp'.pass = disp.pass /\ disp'.todo = todo
        BY <1>0, <4>1, <4>2 DEF DispRegs
      <4>4. DispTypes'
        BY <1>0, <4>2, <4>3 DEF DispTypes
      <4>5. ToSend' = ToSend
        BY <1>0, <4>3 DEF ToSend
      <4>6. BatchHasCores'
        BY <1>0, <1>1, <4>3, <4>5, BatchFrame
      <4> QED BY <3>3, <4>4, <4>6
    <3> QED BY <3>4, <3>5
  <2>2. CASE dispatcher_credit
    <3> DEFINE s == Head(disp.todo)
    <3>1. /\ disp.hook # INVALID /\ disp.todo # <<>> /\ disp.todo \in Seq(Tasks)
          /\ AddFanin(s, ed[Idx(s)])
          /\ disp' = IF Len(disp.todo) > 1 THEN [disp EXCEPT !.todo = Tail(@)]
                     ELSE AfterSend([disp EXCEPT !.hook = INVALID, !.todo = <<>>])
      BY <1>0, <2>2 DEF dispatcher_credit, DispTypes, DispRegs
    <3>2. s \in Tasks /\ Tail(disp.todo) \in Seq(Tasks)
          /\ Len(disp.todo) \in Nat /\ Len(Tail(disp.todo)) = Len(disp.todo) - 1
      BY <3>1, HeadTailProperties, LenProperties
    <3>3. EdTypes'
      <4>1. ed[Idx(s)] \in EdMeta
        BY <1>0, <3>2, IdxInRings DEF EdTypes
      <4> QED BY <1>0, <1>1, <3>1, <3>2, <4>1, AddFaninTypes
    <3>4. CASE Len(disp.todo) > 1
      <4> DEFINE todo == Tail(disp.todo)
      <4>1. disp' = [disp EXCEPT !.todo = todo]
        BY <1>0, <3>1, <3>4 DEF DispRegs
      <4>2. todo \in Seq(Tasks) /\ todo # <<>>
        <5> DEFINE a == Len(disp.todo)
                   b == Len(todo)
        <5>1. a \in Nat /\ b = a - 1 /\ a > 1
          BY <3>2, <3>4
        <5>2. b # 0
          <6> HIDE DEF a, b
          <6> QED BY <5>1
        <5> QED BY <3>2, <5>2, EmptySeq
      <4> HIDE DEF todo
      <4>3. /\ disp' \in DispRegs /\ disp'.pc = "hook0" /\ disp'.batch = disp.batch
            /\ disp'.avail = disp.avail /\ disp'.pass = disp.pass /\ disp'.todo = todo
        BY <1>0, <4>1, <4>2 DEF DispRegs
      <4>4. DispTypes'
        BY <1>0, <4>2, <4>3 DEF DispTypes
      <4>5. ToSend' = ToSend
        BY <1>0, <4>3 DEF ToSend
      <4>6. BatchHasCores'
        BY <1>0, <1>1, <4>3, <4>5, BatchFrame
      <4> QED BY <3>3, <4>4, <4>6
    <3>5. CASE ~(Len(disp.todo) > 1)
      <4> DEFINE d == [disp EXCEPT !.hook = INVALID, !.todo = <<>>]
      <4>1. disp' = AfterSend(d)
        BY <3>1, <3>5
      <4>2. /\ d \in DispRegs /\ d.hook = INVALID /\ d.batch = disp.batch
            /\ d.avail = disp.avail /\ d.pass = disp.pass
        <5>1. <<>> \in Seq(Tasks)
          BY EmptySeq
        <5> QED BY <1>0, <5>1 DEF DispRegs, MaybeTask
      <4> HIDE DEF d
      <4>3. /\ disp' \in DispRegs /\ disp'.pc \in {"send", "dequeue", "ed", "round"}
            /\ disp'.hook = INVALID
            /\ disp'.pc = "send" =>
                 /\ disp'.batch # <<>> /\ Len(disp'.batch) = Len(disp.batch) - 1
                 /\ disp'.avail = disp.avail /\ disp'.pass = disp.pass
        BY <1>0, <4>1, <4>2, AfterSendTypes
      <4>4. DispTypes'
        BY <4>3 DEF DispTypes
      <4>5. disp'.pc = "send" => ToSend' = ToSend
        BY <1>0, <4>3 DEF ToSend
      <4>6. BatchHasCores'
        BY <1>0, <1>1, <4>3, <4>5, BatchFrame
      <4> QED BY <3>3, <4>4, <4>6
    <3> QED BY <3>4, <3>5
  <2> QED BY <1>0, <2>1, <2>2
<1> QED BY <1>2, <1>3, <1>4 DEF TypeOK, SlotInv

----------------------------------------------------------------------------
(* The end of the Early Dispatch phase.                                    *)
LEMMA EndOfEDTypes ==
  ASSUME NEW d \in DispRegs
  PROVE  /\ EndOfED(d) \in DispRegs
         /\ EndOfED(d).pc = "round" /\ EndOfED(d).hook = d.hook
BY DEF EndOfED, DispRegs

(* What a step of the Early Dispatch phase leaves alone keeps its type.    *)
LEMMA StagingFrame ==
  ASSUME TypeOK, UNCHANGED edFrame
  PROVE  /\ OrchTypes' /\ GraphTypes' /\ CutTypes' /\ ExecTypes' /\ QueueTypes'
         /\ UNCHANGED <<exec, msg_bitmap>>
<1>1. UNCHANGED <<dispFrame, msg_bitmap, ready_queue, completed_queue,
                  g_completed_cnt, g_is_done>>
  BY DEF edFrame
<1> QED BY <1>1, DispatcherFrame

(* Staging a task fills a free slot with a closed gate; dropping or        *)
(* re-queueing it leaves every slot alone.                                 *)
LEMMA TryKeeps ==
  ASSUME TypeOK, SlotInv, begin_ed \/ try_nothing \/ try_no_slot \/ try_stage
  PROVE  TypeOK' /\ SlotInv'
<1> DEFINE t == Head(g_ed_ready_queue)
           y == BasicType(Idx(t))
<1>0. /\ DispTypes /\ disp \in DispRegs /\ disp.hook = INVALID
      /\ SlotTypes /\ EdTypes /\ UNCHANGED <<edFrame, g_ed_gated_core_mask, stats>>
      /\ disp.pc \in {"ed", "try"}
  BY DEF TypeOK, DispTypes, begin_ed, try_nothing, try_no_slot, try_stage, TryHead
<1>1. /\ OrchTypes' /\ GraphTypes' /\ CutTypes' /\ ExecTypes' /\ QueueTypes'
      /\ UNCHANGED <<exec, msg_bitmap>>
  BY <1>0, StagingFrame
<1>2. g_ed_ready_queue # <<>> =>
        /\ t \in Tasks /\ Tail(g_ed_ready_queue) \in Seq(Tasks)
        /\ Append(Tail(g_ed_ready_queue), t) \in Seq(Tasks)
  <2>1. g_ed_ready_queue \in Seq(Tasks)
    BY <1>0 DEF EdTypes
  <2> QED BY <2>1, HeadTailProperties, AppendProperties
<1>3. g_ed_ready_queue' \in Seq(Tasks)
  BY <1>0, <1>2 DEF EdTypes, begin_ed, try_nothing, try_no_slot, try_stage, TryHead
<1>4. ASSUME disp' \in DispRegs, disp'.pc \in {"round", "try"}, disp'.hook = INVALID,
             UNCHANGED <<ed, exe, free_bitmap, task_id_map>>
      PROVE  TypeOK' /\ SlotInv'
  <2>1. DispTypes' /\ BatchHasCores'
    BY <1>4 DEF DispTypes, BatchHasCores
  <2>2. SlotTypes'
    BY <1>0, <1>1, <1>4, Frames DEF slotTyped, ctrlVars
  <2>3. EdTypes'
    BY <1>0, <1>3, <1>4 DEF EdTypes
  <2>4. SlotHandoff' /\ SignalOwed'
    BY <1>1, <1>4, DispatcherSlotFrame
  <2> QED BY <1>1, <2>1, <2>2, <2>3, <2>4 DEF TypeOK, SlotInv
<1>5. CASE begin_ed \/ try_nothing \/ try_no_slot
  <2>1. UNCHANGED <<ed, exe, free_bitmap, task_id_map>>
    BY <1>5 DEF begin_ed, try_nothing, try_no_slot, ctrlVars
  <2>2. \/ disp' = EndOfED(disp)
        \/ disp' = [disp EXCEPT !.pc = "try", !.tries = ED_DRAIN_MAX_PER_ROUND]
    BY <1>5 DEF begin_ed, try_nothing, try_no_slot
  <2>3. disp' \in DispRegs /\ disp'.pc \in {"round", "try"} /\ disp'.hook = INVALID
    <3>1. CASE disp' = EndOfED(disp)
      BY <1>0, <3>1, EndOfEDTypes
    <3>2. CASE disp' = [disp EXCEPT !.pc = "try", !.tries = ED_DRAIN_MAX_PER_ROUND]
      BY <1>0, <3>2, ConfigAssumption DEF DispRegs
    <3> QED BY <2>2, <3>1, <3>2
  <2> QED BY <1>4, <2>1, <2>3
<1>6. CASE try_stage
  <2>1. PICK c \in pick_stage_core(t, y) :
          LET u == FirstFree(y, c) IN
          IF ed[Idx(t)].next_block = 0
          THEN /\ free_bitmap' = free_bitmap \ {u}
               /\ exe' = [exe EXCEPT ![u] = GatedSlot(t, @)]
               /\ task_id_map' = [task_id_map EXCEPT ![u] = t]
               /\ ed' = [ed EXCEPT ![Idx(t)].next_block = CountOf(Idx(t))]
               /\ disp' = [disp EXCEPT !.pc = "mask", !.unit = u]
          ELSE /\ disp' = EndOfED(disp)
               /\ UNCHANGED <<free_bitmap, exe, task_id_map, ed>>
    BY <1>6 DEF try_stage
  <2>2. /\ t \in Tasks /\ Idx(t) \in Rings /\ g_basic_buf[Idx(t)] \in MaybeTask
        /\ y \in Types
    <3>1. t \in Tasks /\ Idx(t) \in Rings
      BY <1>2, <1>6, IdxInRings DEF try_stage, TryHead
    <3>2. g_basic_buf[Idx(t)] \in MaybeTask
      BY <3>1 DEF TypeOK, OrchTypes
    <3>3. y \in Types
      BY <3>2, GraphAssumption, TypesFacts DEF BasicType, MaybeTask
    <3> QED BY <3>1, <3>2, <3>3
  <2> DEFINE u == FirstFree(y, c)
             sl == GatedSlot(t, exe[u])
             nb == CountOf(Idx(t))
             m == [ed[Idx(t)] EXCEPT !.next_block = nb]
             tr == disp.tries
  <2> HIDE DEF t, y
  <2>3. c \in AvailAny(y)
    <3>1. c \in AvailAny(y) \/ c \in AvailAll(y)
      BY <2>1 DEF pick_stage_core
    <3>2. 0 \in Slots
      BY ConfigAssumption DEF Slots
    <3> QED BY <3>1, <3>2 DEF AvailAny, AvailAll
  <2>4. u \in free_bitmap /\ u \in Units
    BY <1>0, <2>2, <2>3, FirstFreeFacts
  <2>5. CASE ed[Idx(t)].next_block = 0
    <3>1. /\ free_bitmap' = free_bitmap \ {u}
          /\ exe' = [exe EXCEPT ![u] = sl]
          /\ task_id_map' = [task_id_map EXCEPT ![u] = t]
          /\ ed' = [ed EXCEPT ![Idx(t)] = m]
          /\ disp' = [disp EXCEPT !.pc = "mask", !.unit = u, !.tries = tr]
      BY <1>0, <2>1, <2>5 DEF DispRegs
    <3> HIDE DEF u
    <3>2. sl \in Slot /\ sl.task = t
      <4>1. exe[u] \in Slot
        BY <1>0, <2>4 DEF SlotTypes
      <4>2. ASSUME NEW e \in Slot
            PROVE  GatedSlot(t, e) \in Slot /\ GatedSlot(t, e).task = t
        <5> DEFINE f == [[e EXCEPT !.state = "GATED"] EXCEPT !.task = t]
        <5>1. f \in Slot /\ f.task = t
          BY <2>2 DEF Slot
        <5>2. GatedSlot(t, e) = [f EXCEPT !.doorbell = 0]
          BY DEF GatedSlot
        <5> HIDE DEF f
        <5> QED BY <5>1, <5>2 DEF Slot
      <4> QED BY <4>1, <4>2
    <3>3. nb \in Nat
      BY <2>2, GraphAssumption DEF CountOf, MaybeTask
    <3> HIDE DEF sl, nb
    <3>4. m \in EdMeta
      <4>1. ed[Idx(t)] \in EdMeta
        BY <1>0, <2>2 DEF EdTypes
      <4> QED BY <3>3, <4>1 DEF EdMeta
    <3> HIDE DEF m
    <3>5. EdTypes'
      BY <1>0, <1>3, <2>2, <3>1, <3>4 DEF EdTypes
    <3>6. SlotTypes' /\ SlotHandoff' /\ SignalOwed'
      BY <1>1, <2>2, <2>4, <3>1, <3>2, FillSlot
    <3>7. tr \in Nat
      BY <1>0, ConfigAssumption DEF DispRegs
    <3> HIDE DEF tr
    <3>8. DispTypes' /\ disp'.pc = "mask"
      BY <1>0, <2>4, <3>1, <3>7 DEF DispTypes, DispRegs, MaybeUnit
    <3>9. BatchHasCores'
      BY <3>8 DEF BatchHasCores
    <3> QED BY <1>1, <3>5, <3>6, <3>8, <3>9 DEF TypeOK, SlotInv
  <2>6. CASE ed[Idx(t)].next_block # 0
    <3>1. disp' \in DispRegs /\ disp'.pc = "round" /\ disp'.hook = INVALID
      BY <1>0, <2>1, <2>6, EndOfEDTypes
    <3> QED BY <1>4, <2>1, <2>6, <3>1
  <2> QED BY <2>5, <2>6
<1> QED BY <1>0, <1>5, <1>6

(* Publishing a staged slot: its core in the mask, its record, and the     *)
(* check whether its doorbell is due already.                              *)
LEMMA StageKeeps ==
  ASSUME TypeOK, SlotInv, stage_mask \/ stage_record \/ stage_check
  PROVE  TypeOK' /\ SlotInv'
<1> DEFINE u == disp.unit
           t == exe[u].task
<1>0. /\ DispTypes /\ disp \in DispRegs /\ disp.hook = INVALID
      /\ disp.pc \in {"mask", "record", "check"} /\ u \in Units
      /\ SlotTypes /\ EdTypes /\ UNCHANGED <<edFrame, ctrlVars, free_bitmap, task_id_map>>
  BY DEF TypeOK, DispTypes, stage_mask, stage_record, stage_check, ctrlVars
<1>1. /\ OrchTypes' /\ GraphTypes' /\ CutTypes' /\ ExecTypes' /\ QueueTypes'
      /\ UNCHANGED <<exec, msg_bitmap>>
  BY <1>0, StagingFrame
<1>2. t \in Tasks /\ Idx(t) \in Rings
  <2>1. exe[u] \in Slot
    BY <1>0 DEF SlotTypes
  <2> QED BY <2>1, IdxInRings DEF Slot
<1>3. CASE stage_mask
  <2>1. /\ g_ed_gated_core_mask' = g_ed_gated_core_mask \cup {<<u[1], u[2]>>}
        /\ disp' = [disp EXCEPT !.pc = "record"]
        /\ UNCHANGED <<ed, g_ed_ready_queue, exe, stats>>
    BY <1>3 DEF stage_mask
  <2>2. EdTypes'
    <3>1. <<u[1], u[2]>> \in CoreIds
      BY <1>0 DEF Units, CoreIds
    <3> QED BY <1>0, <2>1, <3>1 DEF EdTypes
  <2>3. DispTypes' /\ BatchHasCores'
    BY <1>0, <2>1 DEF DispTypes, DispRegs, BatchHasCores
  <2>4. SlotTypes' /\ SlotHandoff' /\ SignalOwed'
    BY <1>0, <1>1, <2>1, Frames, DispatcherSlotFrame DEF slotTyped
  <2> QED BY <1>1, <2>2, <2>3, <2>4 DEF TypeOK, SlotInv
<1>4. CASE stage_record
  <2> DEFINE rec == Record(t, u)
             m == [ed[Idx(t)] EXCEPT !.staged = rec]
  <2>1. /\ ed' = [ed EXCEPT ![Idx(t)] = m]
        /\ stats' = [stats EXCEPT !.stage = @ + 1]
        /\ disp' = [disp EXCEPT !.pc = "check"]
        /\ UNCHANGED <<g_ed_ready_queue, g_ed_gated_core_mask, exe>>
    BY <1>4 DEF stage_record
  <2>2. EdTypes'
    <3> HIDE DEF t, u
    <3>1. rec \in MetaRecords
      BY <1>0, <1>2 DEF Record, MetaRecords
    <3> HIDE DEF rec
    <3>2. m \in EdMeta
      BY <1>0, <1>2, <3>1 DEF EdTypes, EdMeta
    <3> HIDE DEF m
    <3>3. ed' \in [Rings -> EdMeta]
      BY <1>0, <1>2, <2>1, <3>2 DEF EdTypes
    <3>4. stats' \in [stage : Nat, bell : Nat, open : Nat]
      BY <1>0, <2>1 DEF EdTypes
    <3> QED BY <1>0, <2>1, <3>3, <3>4 DEF EdTypes
  <2>3. DispTypes' /\ BatchHasCores'
    <3> HIDE DEF m
    <3> QED BY <1>0, <2>1 DEF DispTypes, DispRegs, BatchHasCores
  <2>4. SlotTypes' /\ SlotHandoff' /\ SignalOwed'
    BY <1>0, <1>1, <2>1, Frames, DispatcherSlotFrame DEF slotTyped
  <2> QED BY <1>1, <2>2, <2>3, <2>4 DEF TypeOK, SlotInv
<1>5. CASE stage_check
  <2>1. /\ ed_notify_once(t, Record(t, u)) \/ UNCHANGED <<ed, exe, stats>>
        /\ UNCHANGED <<g_ed_ready_queue, g_ed_gated_core_mask>>
    BY <1>5 DEF stage_check
  <2>2. /\ EdTypes' /\ SlotTypes'
        /\ \A v \in Units : /\ exe'[v].state = exe[v].state
                             /\ exe'[v].task = exe[v].task
    <3>1. CASE ed_notify_once(t, Record(t, u))
      BY <1>0, <1>1, <1>2, <2>1, <3>1, NotifyTypes
    <3>2. CASE UNCHANGED <<ed, exe, stats>>
      BY <1>0, <1>1, <2>1, <3>2, Frames DEF edTyped, slotTyped
    <3> QED BY <2>1, <3>1, <3>2
  <2>3. SlotHandoff' /\ SignalOwed'
    BY <1>0, <1>1, <2>2, DispatcherSlotFrame
  <2>4. DispTypes' /\ BatchHasCores'
    <3> DEFINE d == [disp EXCEPT !.unit = INVALID]
    <3>1. disp' = IF disp.tries > 1 THEN [d EXCEPT !.pc = "try", !.tries = @ - 1]
                                    ELSE EndOfED(d)
      BY <1>5 DEF stage_check
    <3>2. d \in DispRegs /\ d.hook = INVALID /\ d.tries = disp.tries /\ d.tries \in Nat
      BY <1>0 DEF DispRegs, MaybeUnit
    <3> HIDE DEF d
    <3>3. CASE disp.tries > 1
      <4>1. disp' = [d EXCEPT !.pc = "try", !.tries = @ - 1]
        BY <3>1, <3>3
      <4>2. d.tries - 1 \in Nat
        BY <3>2, <3>3
      <4>3. disp' \in DispRegs /\ disp'.pc = "try" /\ disp'.hook = INVALID
        BY <3>2, <4>1, <4>2 DEF DispRegs
      <4> QED BY <4>3 DEF DispTypes, BatchHasCores
    <3>4. CASE ~(disp.tries > 1)
      BY <3>1, <3>2, <3>4, EndOfEDTypes DEF DispTypes, BatchHasCores
    <3> QED BY <3>3, <3>4
  <2> QED BY <1>1, <2>2, <2>3, <2>4 DEF TypeOK, SlotInv
<1> QED BY <1>3, <1>4, <1>5

(* Every step of the dispatcher keeps the types and the hand-over.         *)
LEMMA DispatcherKeeps ==
  ASSUME TypeOK, SlotInv, DispatcherNext
  PROVE  TypeOK' /\ SlotInv'
BY DrainKeeps, FinishKeeps, DequeueKeeps, SendTaskKeeps, DispatcherHook0Keeps,
   TryKeeps, StageKeeps DEF DispatcherNext

----------------------------------------------------------------------------
(* The memory as main sets it up.                                          *)
LEMMA InitHolds == Init => TypeOK /\ SlotInv
<1> SUFFICES ASSUME StateInit
             PROVE  TypeOK /\ SlotInv
  BY DEF Init
<1>0. /\ N \in Nat /\ 0 \in Tasks /\ <<>> \in Seq(Tasks) /\ <<>> \in PredLists
  BY ConfigAssumption, TasksAreNat, EmptySeq, SurvivorLists, TypesFacts
<1>1. OrchTypes
  <2>1. /\ g_task_id = 0 /\ orch = "new" /\ g_orch_is_done = FALSE
        /\ g_basic_buf = [i \in Rings |-> INVALID]
        /\ g_predecessors = [i \in Rings |-> <<>>]
    BY DEF StateInit
  <2>2. g_basic_buf \in [Rings -> MaybeTask] /\ g_predecessors \in [Rings -> PredLists]
    BY <1>0, <2>1 DEF MaybeTask
  <2>3. 0 \in 0 .. N /\ FALSE \in BOOLEAN
    BY <1>0
  <2> HIDE DEF MaybeTask
  <2> QED BY <2>1, <2>2, <2>3 DEF OrchTypes
<1>2. GraphTypes
  <2>1. [task_id |-> 0, state |-> "CREATING", successor_cnt |-> 0] \in TaskState
    BY <1>0 DEF TaskState
  <2>2. /\ g_task_id = 0 /\ g_min_uncomplete_task = 0 /\ g_commit_task_id = 0
        /\ g_state_buf = [i \in Rings |->
             [task_id |-> 0, state |-> "CREATING", successor_cnt |-> 0]]
        /\ g_successor_buf = [i \in Rings |-> <<>>]
        /\ g_predecessor_cnt = [i \in Rings |-> 0]
    BY DEF StateInit
  <2>3. /\ g_state_buf \in [Rings -> TaskState]
        /\ g_successor_buf \in [Rings -> Seq(Tasks)]
        /\ g_predecessor_cnt \in [Rings -> Nat]
    BY <1>0, <2>1, <2>2
  <2>4. \A i \in Rings : g_state_buf[i].successor_cnt <= Len(g_successor_buf[i])
    <3> TAKE i \in Rings
    <3>1. g_state_buf[i].successor_cnt = 0 /\ g_successor_buf[i] = <<>>
      BY <2>2
    <3>2. Len(<<>>) = 0
      OBVIOUS
    <3> QED BY <3>1, <3>2
  <2> QED BY <2>2, <2>3, <2>4 DEF GraphTypes
<1>3. EdTypes
  <2>1. NoEdMeta \in EdMeta
    BY <1>0 DEF NoEdMeta, EdMeta, MaybeTask, MetaRecords
  <2> QED BY <1>0, <2>1 DEF StateInit, EdTypes
<1>4. SlotTypes
  <2>1. [state |-> "EMPTY", task |-> 0, doorbell |-> 0] \in Slot
    BY <1>0 DEF Slot
  <2> QED BY <1>0, <2>1 DEF StateInit, SlotTypes
<1>5. QueueTypes
  BY <1>0 DEF StateInit, QueueTypes
<1>6. CutTypes
  <2>1. cut \in CutRegs
    BY <1>0 DEF StateInit, CutRegs
  <2>2. cut.pc = "take" /\ cut.end = 0 /\ g_task_id = 0
    BY DEF StateInit
  <2> QED BY <2>1, <2>2 DEF CutTypes
<1>7. DispTypes
  <2>1. disp \in DispRegs
    BY <1>0, Passes DEF StateInit, DispRegs, MaybeTask, MaybeUnit
  <2>2. disp.pc = "round" /\ disp.hook = INVALID
    BY DEF StateInit
  <2> QED BY <2>1, <2>2 DEF DispTypes
<1>8. ExecTypes
  <2>1. AIC_OSTD \in 0 .. AIC_OSTD
    BY ConfigAssumption
  <2>2. exec \in ExecRegs
    BY <1>0, <2>1 DEF StateInit, ExecRegs, MaybeTask, MaybeUnit, CoreIds
  <2>3. exec.pc = "scan" /\ exec.hook = INVALID
    BY DEF StateInit
  <2> QED BY <2>2, <2>3 DEF ExecTypes
<1>9. SlotInv
  BY DEF StateInit, SlotInv, SlotHandoff, SignalOwed, BatchHasCores
<1> QED BY <1>1, <1>2, <1>3, <1>4, <1>5, <1>6, <1>7, <1>8, <1>9 DEF TypeOK

(* The invariant is inductive: every step of every thread keeps it, and so *)
(* does the end of the program.                                            *)
LEMMA StepKeeps ==
  ASSUME TypeOK, SlotInv, [Next]_vars
  PROVE  TypeOK' /\ SlotInv'
<1>1. CASE UNCHANGED vars
  <2>1. UNCHANGED <<orchTyped, graphTyped, edTyped, slotTyped, queueTyped, cutTyped,
                    disp, exec, exe, free_bitmap, task_id_map, msg_bitmap>>
    BY <1>1 DEF vars, orchVars, graphVars, ctrlVars, orchTyped, graphTyped, edTyped,
                slotTyped, queueTyped, cutTyped
  <2>2. TypeOK'
    BY <2>1, Frames DEF TypeOK
  <2>3. SlotInv'
    BY <2>1, SlotInvFrame
  <2> QED BY <2>2, <2>3
<1>2. CASE OrchestratorNext
  BY <1>2, OrchestratorTypes, OrchestratorSlots
<1>3. CASE CutterNext
  BY <1>3, CutterTypes, CutterSlots
<1>4. CASE DispatcherNext
  BY <1>4, DispatcherKeeps
<1>5. CASE ExecutorNext
  BY <1>5, ExecutorKeeps
<1> QED BY <1>1, <1>2, <1>3, <1>4, <1>5 DEF Next

(* Both parts together, for every behaviour of the proxy.                  *)
THEOREM InvariantHolds == Spec => [](TypeOK /\ SlotInv)
<1>1. TypeOK /\ SlotInv /\ [Next]_vars => (TypeOK /\ SlotInv)'
  BY StepKeeps
<1> QED BY <1>1, InitHolds, PTL DEF Spec

(* Every thread finds, in the memory it shares and in its registers, only  *)
(* values its next access can use, for every graph and every configuration.*)
THEOREM TypeCorrect == Spec => []TypeOK
BY InvariantHolds, PTL

(* A slot is in one hand at a time: the dispatcher's while it is free, the *)
(* executor's while it is occupied, and completions are read back with the *)
(* task that ran.                                                          *)
THEOREM SlotsHandedOver == Spec => []SlotHandoff
<1>1. TypeOK /\ SlotInv => SlotHandoff
  BY DEF SlotInv
<1> QED BY <1>1, InvariantHolds, PTL

----------------------------------------------------------------------------
(* Two safety properties that hold for every graph and configuration,      *)
(* entries of the task ring used again included: no gated slot is ever     *)
(* forgotten, and a ring entry is reused only after its task has run.      *)
(* Before them, what the steps do to the slots, in the words these proofs  *)
(* and those of other modules need: which slot a step fills, empties,      *)
(* opens or rings, and which it leaves alone.                              *)

(* A slot the dispatcher fills is free, so it is empty and owes no bit.    *)
LEMMA FreeSlotEmpty ==
  ASSUME TypeOK, SlotInv, NEW y \in Types, NEW c \in AvailAny(y)
  PROVE  LET u == FirstFree(y, c) IN
         /\ u \in Units /\ u \in free_bitmap /\ u[1] = y /\ u[2] = c
         /\ exe[u].state = "EMPTY" /\ u \notin msg_bitmap
BY FirstFreeFacts DEF TypeOK, SlotInv, SlotHandoff

(* The core send_task chooses is one of those it may still use, and has a  *)
(* free slot.                                                              *)
LEMMA PickedCoreAvailable ==
  ASSUME TypeOK, SlotInv, disp.pc = "send"
  PROVE  /\ Type \in Types /\ PickedCore \in disp.avail
         /\ PickedCore \in AvailAny(Type)
<1> DEFINE S == IF AvailAll(Type) \cap disp.avail # {}
                THEN AvailAll(Type) \cap disp.avail ELSE disp.avail
<1>1. /\ disp \in DispRegs /\ disp.batch # <<>> /\ disp.batch \in Seq(Tasks)
      /\ disp.avail \subseteq Cores /\ disp.avail \subseteq AvailAny(Type)
      /\ Len(disp.batch) <= Cardinality(disp.avail) /\ Len(disp.batch) \in Nat
  <2>1. /\ disp \in DispRegs /\ disp.batch # <<>>
    BY DEF TypeOK, DispTypes
  <2>2. disp.batch \in Seq(Tasks) /\ disp.avail \subseteq Cores
    BY <2>1 DEF DispRegs
  <2>3. disp.avail \subseteq AvailAny(Type) /\ Len(disp.batch) <= Cardinality(disp.avail)
    BY DEF SlotInv, BatchHasCores, ToSend
  <2> QED BY <2>1, <2>2, <2>3, LenProperties
<1>2. Type \in Types
  BY <1>1, Passes DEF Type, DispRegs
<1>3. disp.avail # {}
  <2>1. Len(disp.batch) # 0
    BY <1>1, EmptySeq
  <2>2. Cardinality(disp.avail) # 0
    BY <1>1, <2>1, CoresCardinality
  <2> QED BY <1>1, <2>2, CoresCardinality
<1>4. S # {} /\ S \subseteq disp.avail /\ S \subseteq Nat
  BY <1>1, <1>3, ConfigAssumption DEF Cores
<1>5. PickedCore = LowestOf(S)
  BY DEF PickedCore
<1> HIDE DEF S
<1>6. PickedCore \in disp.avail
  BY <1>4, <1>5, LowestExists
<1> QED BY <1>1, <1>2, <1>6

(* send_task leaves the slots alone, or makes one free slot RUNNABLE with  *)
(* the first task of the batch.                                            *)
SendTarget == FirstFree(Type, PickedCore)

(* send_task drops a task that is already claimed, or fills one free slot  *)
(* of its type.                                                            *)
LEMMA SendTaskStep ==
  ASSUME TypeOK, SlotInv, send_task
  PROVE  LET t == Head(disp.batch)
             u == SendTarget
         IN /\ disp.pc = "send" /\ t \in Tasks
            /\ \/ ED_ENABLE /\ ~Claimable(t) /\ UNCHANGED <<ed, exe, free_bitmap, task_id_map>>
               \/ /\ ED_ENABLE => Claimable(t)
                  /\ u \in Units /\ u \in free_bitmap /\ exe[u].state = "EMPTY"
                  /\ u[1] = Type
                  /\ free_bitmap' = free_bitmap \ {u}
                  /\ task_id_map' = [task_id_map EXCEPT ![u] = t]
                  /\ exe' = [exe EXCEPT ![u] = [exe[u] EXCEPT !.state = "RUNNABLE", !.task = t]]
                  /\ exe'[u].state = "RUNNABLE" /\ exe'[u].task = t
                  /\ exe'[u].doorbell = exe[u].doorbell
                  /\ \A v \in Units \ {u} : exe'[v] = exe[v]
<1> DEFINE t == Head(disp.batch)
           u == SendTarget
           sl == [exe[u] EXCEPT !.state = "RUNNABLE", !.task = t]
<1>1. disp.pc = "send"
  BY DEF send_task
<1>2. t \in Tasks
  <2>1. disp.batch # <<>> /\ disp.batch \in Seq(Tasks)
    BY <1>1 DEF TypeOK, DispTypes, DispRegs
  <2> QED BY <2>1, HeadTailProperties
<1>3. CASE ED_ENABLE /\ ~Claimable(t)
  BY <1>1, <1>2, <1>3 DEF send_task
<1>4. CASE ~(ED_ENABLE /\ ~Claimable(t))
  <2>1. Type \in Types /\ PickedCore \in AvailAny(Type)
    BY <1>1, PickedCoreAvailable
  <2>2. u \in Units /\ u \in free_bitmap /\ u[1] = Type /\ exe[u].state = "EMPTY"
    BY <2>1, FreeSlotEmpty DEF SendTarget
  <2>3. /\ free_bitmap' = free_bitmap \ {u}
        /\ task_id_map' = [task_id_map EXCEPT ![u] = t]
        /\ exe' = [exe EXCEPT ![u].state = "RUNNABLE", ![u].task = t]
    BY <1>4 DEF send_task, SendTarget
  <2> HIDE DEF t, u
  <2>4. exe \in [Units -> Slot]
    BY DEF TypeOK, SlotTypes
  <2>5. exe' = [exe EXCEPT ![u] = sl]
    BY <2>2, <2>3, <2>4 DEF Slot
  <2>6. sl.state = "RUNNABLE" /\ sl.task = t /\ sl.doorbell = exe[u].doorbell
    BY <2>2, <2>4 DEF Slot
  <2> HIDE DEF sl
  <2>7. exe'[u] = sl /\ \A v \in Units \ {u} : exe'[v] = exe[v]
    BY <2>2, <2>4, <2>5
  <2> QED BY <1>1, <1>2, <1>4, <2>2, <2>3, <2>5, <2>6, <2>7 DEF sl, t, u
<1> QED BY <1>3, <1>4

(* try_stage drops the head of the ED queue, or makes one free slot GATED  *)
(* with it, claims the task and goes on to publish the slot's core.        *)
LEMMA TryStageStep ==
  ASSUME TypeOK, SlotInv, try_stage
  PROVE  LET t == Head(g_ed_ready_queue) IN
         /\ disp.pc \in {"ed", "try"} /\ t \in Tasks /\ StagingStill(t)
         /\ g_ed_ready_queue # <<>> /\ g_ed_ready_queue' = Tail(g_ed_ready_queue)
         /\ UNCHANGED <<edFrame, g_ed_gated_core_mask, stats>>
         /\ \/ /\ ed[Idx(t)].next_block # 0
               /\ disp' = EndOfED(disp)
               /\ UNCHANGED <<ed, exe, free_bitmap, task_id_map>>
            \/ /\ ed[Idx(t)].next_block = 0
               /\ ed' = [ed EXCEPT ![Idx(t)].next_block = CountOf(Idx(t))]
               /\ \E u \in Units : \E k \in Nat :
                    /\ u \in free_bitmap /\ exe[u].state = "EMPTY"
                    /\ free_bitmap' = free_bitmap \ {u}
                    /\ task_id_map' = [task_id_map EXCEPT ![u] = t]
                    /\ exe' = [exe EXCEPT ![u] = GatedSlot(t, exe[u])]
                    /\ exe'[u].state = "GATED" /\ exe'[u].task = t
                    /\ exe'[u].doorbell = 0
                    /\ \A v \in Units \ {u} : exe'[v] = exe[v]
                    /\ disp' = [disp EXCEPT !.pc = "mask", !.unit = u, !.tries = k]
                    /\ disp'.pc = "mask" /\ disp'.unit = u /\ disp'.hook = disp.hook
                    /\ disp'.todo = disp.todo
<1> DEFINE t == Head(g_ed_ready_queue)
           y == BasicType(Idx(t))
<1>1. /\ disp.pc \in {"ed", "try"} /\ StagingStill(t) /\ g_ed_ready_queue # <<>>
      /\ g_ed_ready_queue' = Tail(g_ed_ready_queue)
      /\ UNCHANGED <<edFrame, g_ed_gated_core_mask, stats>>
  BY DEF try_stage, TryHead
<1>2. disp \in DispRegs /\ exe \in [Units -> Slot] /\ disp.tries \in Nat
  BY DEF TypeOK, DispTypes, SlotTypes, DispRegs
<1>3. t \in Tasks /\ y \in Types
  <2>1. t \in Tasks
    BY <1>1, HeadTailProperties DEF TypeOK, EdTypes
  <2>2. g_basic_buf[Idx(t)] \in MaybeTask
    BY <2>1, IdxInRings DEF TypeOK, OrchTypes
  <2> QED BY <2>1, <2>2, GraphAssumption, TypesFacts DEF BasicType, MaybeTask
<1>4. PICK c \in pick_stage_core(t, y) :
        LET u == FirstFree(y, c) IN
        IF ed[Idx(t)].next_block = 0
        THEN /\ free_bitmap' = free_bitmap \ {u}
             /\ exe' = [exe EXCEPT ![u] = GatedSlot(t, @)]
             /\ task_id_map' = [task_id_map EXCEPT ![u] = t]
             /\ ed' = [ed EXCEPT ![Idx(t)].next_block = CountOf(Idx(t))]
             /\ disp' = [disp EXCEPT !.pc = "mask", !.unit = u]
        ELSE /\ disp' = EndOfED(disp)
             /\ UNCHANGED <<free_bitmap, exe, task_id_map, ed>>
  BY DEF try_stage
<1> HIDE DEF t, y
<1>5. CASE ed[Idx(t)].next_block # 0
  BY <1>1, <1>3, <1>4, <1>5 DEF t
<1>6. CASE ed[Idx(t)].next_block = 0
  <2> DEFINE u == FirstFree(y, c)
             k == disp.tries
             sl == GatedSlot(t, exe[u])
  <2>1. c \in AvailAny(y)
    <3>1. c \in AvailAny(y) \/ c \in AvailAll(y)
      BY <1>4 DEF pick_stage_core
    <3>2. 0 \in Slots
      BY ConfigAssumption DEF Slots
    <3> QED BY <3>1, <3>2 DEF AvailAny, AvailAll
  <2>2. u \in Units /\ u \in free_bitmap /\ exe[u].state = "EMPTY"
    BY <1>3, <2>1, FreeSlotEmpty
  <2>3. /\ free_bitmap' = free_bitmap \ {u}
        /\ task_id_map' = [task_id_map EXCEPT ![u] = t]
        /\ exe' = [exe EXCEPT ![u] = sl]
        /\ ed' = [ed EXCEPT ![Idx(t)].next_block = CountOf(Idx(t))]
        /\ disp' = [disp EXCEPT !.pc = "mask", !.unit = u, !.tries = k]
    BY <1>2, <1>4, <1>6 DEF DispRegs
  <2>4. k \in Nat
    BY <1>2, ConfigAssumption
  <2> HIDE DEF u, k
  <2>5. sl.state = "GATED" /\ sl.task = t /\ sl.doorbell = 0
    <3>1. exe[u] \in Slot
      BY <1>2, <2>2
    <3> DEFINE f == [[exe[u] EXCEPT !.state = "GATED"] EXCEPT !.task = t]
    <3>2. f \in Slot /\ f.state = "GATED" /\ f.task = t
      BY <1>3, <3>1 DEF Slot
    <3>3. sl = [f EXCEPT !.doorbell = 0]
      BY DEF GatedSlot
    <3> HIDE DEF f
    <3> QED BY <3>2, <3>3 DEF Slot
  <2> HIDE DEF sl
  <2>6. exe'[u] = sl /\ \A v \in Units \ {u} : exe'[v] = exe[v]
    BY <1>2, <2>2, <2>3
  <2>7. /\ disp'.pc = "mask" /\ disp'.unit = u /\ disp'.hook = disp.hook
        /\ disp'.todo = disp.todo
    BY <1>2, <2>3 DEF DispRegs
  <2>8. \E v \in Units : \E j \in Nat :
          /\ v \in free_bitmap /\ exe[v].state = "EMPTY"
          /\ free_bitmap' = free_bitmap \ {v}
          /\ task_id_map' = [task_id_map EXCEPT ![v] = t]
          /\ exe' = [exe EXCEPT ![v] = GatedSlot(t, exe[v])]
          /\ exe'[v].state = "GATED" /\ exe'[v].task = t
          /\ exe'[v].doorbell = 0
          /\ \A w \in Units \ {v} : exe'[w] = exe[w]
          /\ disp' = [disp EXCEPT !.pc = "mask", !.unit = v, !.tries = j]
          /\ disp'.pc = "mask" /\ disp'.unit = v /\ disp'.hook = disp.hook
          /\ disp'.todo = disp.todo
    BY <2>2, <2>3, <2>4, <2>5, <2>6, <2>7 DEF sl
  <2> QED BY <1>1, <1>3, <1>6, <2>3, <2>8 DEF t
<1> QED BY <1>5, <1>6

(* Opening a gate makes the polled slot RUNNABLE and clears its doorbell.  *)
LEMMA PollOpenStep ==
  ASSUME TypeOK, poll_open
  PROVE  LET u == exec.unit IN
         /\ u \in Units /\ exec.pc = "poll" /\ exec.hook = INVALID
         /\ exe[u].state = "GATED" /\ exe[u].doorbell = 1
         /\ exe'[u].state = "RUNNABLE" /\ exe'[u].task = exe[u].task
         /\ exe'[u].doorbell = 0
         /\ \A v \in Units \ {u} : exe'[v] = exe[v]
         /\ exec'.pc = "hook0" /\ exec'.unit = u /\ exec'.still = exec.still
         /\ exec'.pending = exec.pending /\ exec'.hook = exec.hook
         /\ exec'.todo = exec.todo
<1> DEFINE u == exec.unit
           sl == Opened(exe[u])
<1>1. /\ ExecTypes /\ exec \in ExecRegs /\ exec.pc = "poll" /\ u \in Units
      /\ exec.hook = INVALID /\ exe \in [Units -> Slot]
      /\ exe[u].state = "GATED" /\ exe[u].doorbell = 1
      /\ exe' = [exe EXCEPT ![u] = sl]
      /\ exec' = [exec EXCEPT !.pc = "hook0"]
  BY DEF TypeOK, ExecTypes, SlotTypes, poll_open
<1>2. sl.state = "RUNNABLE" /\ sl.task = exe[u].task /\ sl.doorbell = 0
  <2> DEFINE f == [exe[u] EXCEPT !.state = "RUNNABLE"]
  <2>1. exe[u] \in Slot
    BY <1>1
  <2>2. f \in Slot /\ f.state = "RUNNABLE" /\ f.task = exe[u].task
    <3> HIDE DEF u
    <3> QED BY <2>1 DEF Slot
  <2>3. sl = [f EXCEPT !.doorbell = 0]
    BY DEF Opened
  <2> HIDE DEF f
  <2> QED BY <2>2, <2>3 DEF Slot
<1> HIDE DEF sl
<1>3. exe'[u] = sl /\ \A v \in Units \ {u} : exe'[v] = exe[v]
  BY <1>1
<1>4. /\ exec'.pc = "hook0" /\ exec'.unit = u /\ exec'.still = exec.still
      /\ exec'.pending = exec.pending /\ exec'.hook = exec.hook
      /\ exec'.todo = exec.todo
  BY <1>1 DEF ExecRegs
<1> QED BY <1>1, <1>2, <1>3, <1>4

(* complete_slot runs the task of a RUNNABLE slot, empties the slot and    *)
(* owes its bit; a slot that is active but not RUNNABLE is given up.       *)
LEMMA CompleteSlotStep ==
  ASSUME TypeOK, NEW u \in Units, complete_slot(u)
  PROVE  LET t == exe[u].task IN
         /\ exec.pc = "scan" /\ t \in Tasks
         /\ exec'.pending = exec.pending /\ exec'.hook = exec.hook
         /\ exec'.todo = exec.todo
         /\ \/ exec'.pc = "scan" /\ UNCHANGED <<exe, ed, runs>>
            \/ /\ exec'.pc = "signal" /\ exec'.unit = u
               /\ exe[u].state = "RUNNABLE"
               /\ exe'[u].state = "EMPTY" /\ exe'[u].task = t
               /\ exe'[u].doorbell = exe[u].doorbell
               /\ \A v \in Units \ {u} : exe'[v] = exe[v]
               /\ runs' = [runs EXCEPT ![t] = @ + 1]
<1> DEFINE t == exe[u].task
<1>1. exec.pc = "scan" /\ exec \in ExecRegs /\ exe \in [Units -> Slot] /\ exe[u] \in Slot
  BY DEF TypeOK, ExecTypes, SlotTypes, complete_slot
<1>2. t \in Tasks
  BY <1>1 DEF Slot
<1>3. CASE exe[u].state = "RUNNABLE"
  <2>1. /\ exe' = [exe EXCEPT ![u].state = "EMPTY"]
        /\ runs' = [runs EXCEPT ![t] = @ + 1]
        /\ exec' = [exec EXCEPT !.active[CoreOf(u)] = AIC_OSTD, !.pc = "signal", !.unit = u]
    BY <1>3 DEF complete_slot
  <2>2. /\ exe'[u].state = "EMPTY" /\ exe'[u].task = t
        /\ exe'[u].doorbell = exe[u].doorbell
        /\ \A v \in Units \ {u} : exe'[v] = exe[v]
    BY <1>1, <2>1 DEF Slot
  <2>3. /\ exec'.pc = "signal" /\ exec'.unit = u /\ exec'.pending = exec.pending
        /\ exec'.hook = exec.hook /\ exec'.todo = exec.todo
    BY <1>1, <2>1 DEF ExecRegs
  <2> HIDE DEF t
  <2> QED BY <1>1, <1>2, <1>3, <2>1, <2>2, <2>3 DEF t
<1>4. CASE exe[u].state # "RUNNABLE"
  <2>1. /\ exec' = [exec EXCEPT !.active[CoreOf(u)] = AIC_OSTD]
        /\ UNCHANGED <<exe, ed, runs>>
    BY <1>4 DEF complete_slot
  <2>2. /\ exec'.pc = exec.pc /\ exec'.pending = exec.pending
        /\ exec'.hook = exec.hook /\ exec'.todo = exec.todo
    BY <1>1, <2>1 DEF ExecRegs
  <2> QED BY <1>1, <1>2, <2>1, <2>2
<1> QED BY <1>3, <1>4

(* The executor's walk over a core: a slot whose doorbell has not rung is  *)
(* passed by; Hook 0 takes on the successors of the opened task and gives  *)
(* each its credit before the walk goes on.                                *)
LEMMA WalkStep ==
  ASSUME TypeOK, poll_not_rung \/ executor_hook0 \/ executor_credit
  PROVE  /\ exec'.pc \in {"poll", "scan", "hook0"}
         /\ poll_not_rung => /\ exec.pc = "poll" /\ exec.hook = INVALID
                             /\ exec'.hook = INVALID /\ exec'.todo = exec.todo
         /\ executor_hook0 =>
              LET t == exe[exec.unit].task IN
              /\ exec.pc = "hook0" /\ exec.hook = INVALID
              /\ IF Hook0Todo(t) = <<>>
                 THEN exec'.hook = INVALID /\ exec'.todo = exec.todo
                 ELSE /\ exec'.hook = t /\ exec'.todo = Hook0Todo(t)
                      /\ exec'.pc = "hook0" /\ exec'.unit = exec.unit
         /\ executor_credit =>
              /\ exec.pc = "hook0" /\ exec.hook # INVALID /\ exec.todo # <<>>
              /\ IF Len(exec.todo) > 1
                 THEN /\ exec'.hook = exec.hook /\ exec'.todo = Tail(exec.todo)
                      /\ exec'.pc = "hook0" /\ exec'.unit = exec.unit
                 ELSE exec'.hook = INVALID /\ exec'.todo = <<>>
<1>1. /\ exec \in ExecRegs /\ exec.still \in BOOLEAN /\ exe \in [Units -> Slot]
      /\ exec.pc \in {"signal", "poll", "hook0"} => exec.unit \in Units
      /\ exec.hook # INVALID => exec.pc = "hook0" /\ exec.todo # <<>>
  BY DEF TypeOK, ExecTypes, SlotTypes, ExecRegs
<1>2. CASE poll_not_rung
  <2> DEFINE still == exec.still \/ exe[exec.unit].state = "GATED"
  <2>1. exec.pc = "poll" /\ exec' = PollNext(exec, exec.unit, still)
    BY <1>2 DEF poll_not_rung
  <2>2. still \in BOOLEAN
    BY <1>1
  <2> HIDE DEF still
  <2>3. /\ exec'.pc \in {"poll", "scan"} /\ exec'.hook = exec.hook
        /\ exec'.todo = exec.todo
    BY <1>1, <2>1, <2>2, PollNextTypes
  <2>4. ~executor_hook0 /\ ~executor_credit
    BY <1>1, <2>1 DEF executor_hook0, executor_credit
  <2> QED BY <1>1, <2>1, <2>3, <2>4
<1>3. CASE executor_hook0
  <2> DEFINE t == exe[exec.unit].task
             q == Hook0Todo(t)
  <2>1. /\ exec.pc = "hook0" /\ exec.hook = INVALID /\ ~poll_not_rung /\ ~executor_credit
        /\ exec' = IF q = <<>> THEN PollNext(exec, exec.unit, exec.still)
                   ELSE [exec EXCEPT !.hook = t, !.todo = q]
    BY <1>3 DEF executor_hook0, poll_not_rung, executor_credit
  <2> HIDE DEF t, q
  <2>2. CASE q = <<>>
    <3>1. /\ exec'.pc \in {"poll", "scan"} /\ exec'.hook = exec.hook
          /\ exec'.todo = exec.todo
      BY <1>1, <2>1, <2>2, PollNextTypes
    <3> QED BY <2>1, <2>2, <3>1 DEF t, q
  <2>3. CASE q # <<>>
    <3>1. /\ exec'.pc = "hook0" /\ exec'.unit = exec.unit /\ exec'.hook = t
          /\ exec'.todo = q
      BY <1>1, <2>1, <2>3 DEF ExecRegs
    <3> QED BY <2>1, <2>3, <3>1 DEF t, q
  <2> QED BY <2>2, <2>3
<1>4. CASE executor_credit
  <2>1. /\ exec.hook # INVALID /\ exec.pc = "hook0" /\ exec.todo # <<>>
        /\ ~poll_not_rung /\ ~executor_hook0
        /\ exec' = IF Len(exec.todo) > 1 THEN [exec EXCEPT !.todo = Tail(@)]
                   ELSE PollNext([exec EXCEPT !.hook = INVALID, !.todo = <<>>],
                                 exec.unit, exec.still)
    BY <1>1, <1>4 DEF executor_hook0, poll_not_rung, executor_credit
  <2>2. CASE Len(exec.todo) > 1
    <3>1. /\ exec'.pc = "hook0" /\ exec'.unit = exec.unit /\ exec'.hook = exec.hook
          /\ exec'.todo = Tail(exec.todo)
      BY <1>1, <2>1, <2>2 DEF ExecRegs
    <3> QED BY <2>1, <2>2, <3>1
  <2>3. CASE ~(Len(exec.todo) > 1)
    <3> DEFINE e == [exec EXCEPT !.hook = INVALID, !.todo = <<>>]
    <3>1. <<>> \in Seq(Tasks) /\ INVALID \in MaybeTask
      BY EmptySeq DEF MaybeTask
    <3>2. e \in ExecRegs /\ e.hook = INVALID /\ e.todo = <<>>
      BY <1>1, <3>1 DEF ExecRegs
    <3>3. exec' = PollNext(e, exec.unit, exec.still)
      BY <2>1, <2>3
    <3> HIDE DEF e
    <3>4. /\ exec'.pc \in {"poll", "scan"} /\ exec'.hook = INVALID
          /\ exec'.todo = <<>>
      <4>1. exec.unit \in Units /\ exec.still \in BOOLEAN
        BY <1>1, <2>1
      <4> QED BY <3>2, <3>3, <4>1, PollNextTypes
    <3> QED BY <2>1, <2>3, <3>4
  <2> QED BY <2>2, <2>3
<1> QED BY <1>2, <1>3, <1>4

----------------------------------------------------------------------------
(***************************************************************************)
(* No gated slot is ever forgotten (the Dekker argument of ed_gate.h).     *)
(*                                                                         *)
(* The property alone is not inductive: the executor drops a core from its *)
(* pending set on the strength of what it saw while it walked the slots of *)
(* that core, and the dispatcher may have gated a slot the walk had passed *)
(* already.  What keeps it: the core of such a slot is still to be put in  *)
(* the mask, or is there, for the mask is taken only between two walks.    *)
(***************************************************************************)

(* Steps that gate no slot, leave the executor's registers and the mask    *)
(* alone and do not put the dispatcher past stage_mask keep the invariant. *)
LEMMA GateFrame ==
  ASSUME TypeOK, GateInv, UNCHANGED <<g_ed_gated_core_mask, exec>>,
         disp.pc = "mask" => disp'.pc = "mask" /\ disp'.unit = disp.unit,
         \A u \in Units : /\ exe'[u].state = "GATED" => exe[u].state = "GATED"
                          /\ exe[u].state = "RUNNABLE" => exe'[u].state = "RUNNABLE"
  PROVE  GateInv'
<1>1. \A u \in Units : Announced(u) => Announced(u)'
  BY DEF Announced
<1>2. \A u \in InState("GATED")' : Watched(u)'
  <2> TAKE u \in InState("GATED")'
  <2>1. u \in Units /\ u \in InState("GATED")
    BY DEF InState
  <2> QED BY <1>1, <2>1 DEF GateInv, Watched
<1>3. WalkInv'
  <2> SUFFICES ASSUME exec.pc \in {"poll", "hook0"}
               PROVE  /\ CoreOf(exec.unit) \in exec.pending
                      /\ \A u \in InState("GATED")' :
                           CoreOf(u) = CoreOf(exec.unit) /\ u[3] < exec.unit[3] =>
                             exec.still \/ Announced(u)'
                      /\ exec.pc = "hook0" => exe'[exec.unit].state = "RUNNABLE"
    BY DEF WalkInv
  <2>1. exec.unit \in Units
    BY DEF TypeOK, ExecTypes
  <2>2. \A u \in InState("GATED")' : u \in Units /\ u \in InState("GATED")
    BY DEF InState
  <2> QED BY <1>1, <2>1, <2>2 DEF GateInv, WalkInv
<1> QED BY <1>2, <1>3 DEF GateInv

(* The orchestrator and the cutter gate no slot.                           *)
LEMMA OthersKeepGates ==
  ASSUME TypeOK, GateInv, OrchestratorNext \/ CutterNext
  PROVE  GateInv'
<1>1. CASE OrchestratorNext
  <2>1. UNCHANGED <<g_ed_gated_core_mask, exec, disp, exe>>
    BY <1>1 DEF OrchestratorNext, new_task, add_predecessors, publish,
           orchestration_done, orchFrame
  <2> QED BY <2>1, GateFrame
<1>2. CASE hook2
  <2>1. UNCHANGED <<g_ed_gated_core_mask, exec, disp>>
    BY <1>2 DEF hook2, cutFrame
  <2> QED BY <1>2, <2>1, Hook2Types, GateFrame
<1>3. CASE CutterNext /\ ~hook2
  <2>1. UNCHANGED <<g_ed_gated_core_mask, exec, disp, exe>>
    BY <1>3 DEF CutterNext, take_completed, cutter_exit, add_successors_enter, commit,
         edge, late_arrival, resolve_dep_load, resolve_dep, send_2_ready_queue, cutFrame
  <2> QED BY <2>1, GateFrame
<1> QED BY <1>1, <1>2, <1>3

(* The dispatcher gates a slot only to announce it, and announces it       *)
(* before it goes on.                                                      *)
LEMMA DispatcherKeepsGates ==
  ASSUME TypeOK, SlotInv, GateInv, DispatcherNext
  PROVE  GateInv'
<1>1. CASE send_task
  <2>1. disp.pc # "mask" /\ UNCHANGED <<g_ed_gated_core_mask, exec>>
    BY <1>1 DEF send_task, dispFrame
  <2>2. \A u \in Units : /\ exe'[u].state = "GATED" => exe[u].state = "GATED"
                         /\ exe[u].state = "RUNNABLE" => exe'[u].state = "RUNNABLE"
    BY <1>1, SendTaskStep
  <2> QED BY <2>1, <2>2, GateFrame
<1>2. CASE try_stage
  <2>1. disp.pc # "mask" /\ UNCHANGED <<g_ed_gated_core_mask, exec>>
    BY <1>2, TryStageStep DEF edFrame, dispFrame
  <2>2. CASE UNCHANGED exe
    BY <2>1, <2>2, GateFrame
  <2>3. ASSUME NEW u \in Units, exe[u].state = "EMPTY", exe'[u].state = "GATED",
               \A v \in Units \ {u} : exe'[v] = exe[v],
               disp'.pc = "mask", disp'.unit = u
        PROVE  GateInv'
    <3>1. \A v \in InState("GATED")' : v \in Units /\ (v = u \/ v \in InState("GATED"))
      BY <2>3 DEF InState
    <3>2. Announced(u)'
      BY <2>3 DEF Announced
    <3>3. \A v \in Units : Announced(v) => Announced(v)'
      BY <2>1 DEF Announced
    <3>4. \A v \in InState("GATED")' : Watched(v)'
      BY <2>1, <3>1, <3>2, <3>3 DEF GateInv, Watched
    <3>5. WalkInv'
      <4> SUFFICES ASSUME exec.pc \in {"poll", "hook0"}
                   PROVE  /\ CoreOf(exec.unit) \in exec.pending
                          /\ \A v \in InState("GATED")' :
                               CoreOf(v) = CoreOf(exec.unit) /\ v[3] < exec.unit[3] =>
                                 exec.still \/ Announced(v)'
                          /\ exec.pc = "hook0" => exe'[exec.unit].state = "RUNNABLE"
        BY <2>1 DEF WalkInv
      <4>1. exec.unit \in Units
        BY DEF TypeOK, ExecTypes
      <4>2. exec.pc = "hook0" => exe'[exec.unit].state = "RUNNABLE"
        BY <2>3, <4>1 DEF GateInv, WalkInv
      <4> QED BY <3>1, <3>2, <3>3, <4>2 DEF GateInv, WalkInv
    <3> QED BY <3>4, <3>5 DEF GateInv
  <2> QED BY <1>2, <2>2, <2>3, TryStageStep
<1>3. CASE stage_mask
  <2>1. /\ disp.pc = "mask" /\ UNCHANGED <<exec, exe>>
        /\ g_ed_gated_core_mask' = g_ed_gated_core_mask \cup {CoreOf(disp.unit)}
    BY <1>3 DEF stage_mask, edFrame, dispFrame, CoreOf
  <2>2. \A v \in Units : Announced(v) => Announced(v)'
    BY <2>1 DEF Announced
  <2>3. InState("GATED")' = InState("GATED") /\ InState("GATED") \subseteq Units
    BY <2>1 DEF InState
  <2> QED BY <2>1, <2>2, <2>3 DEF GateInv, WalkInv, Watched
<1>4. CASE DispatcherNext /\ ~send_task /\ ~try_stage /\ ~stage_mask
  <2>1. disp.pc # "mask"
    BY <1>4 DEF TypeOK, DispTypes, DispatcherNext, drain_completed_snapshot, dispatch_finish,
         send_task_dequeue, dispatcher_hook0, dispatcher_credit, begin_ed, try_nothing,
         try_no_slot, stage_record, stage_check, TryHead
  <2>2. UNCHANGED <<g_ed_gated_core_mask, exec>>
    BY <1>4 DEF DispatcherNext, drain_completed_snapshot, dispatch_finish,
         send_task_dequeue, dispatcher_hook0, dispatcher_credit, begin_ed, try_nothing,
         try_no_slot, stage_record, stage_check, TryHead, hook0Frame, edFrame, dispFrame
  <2>3. \A u \in Units : exe'[u].state = exe[u].state
    <3>1. CASE stage_check
      <4>1. exe' = exe \/ \E r : exe' = [exe EXCEPT ![r].doorbell = 1]
        BY <3>1 DEF stage_check, ed_notify_once, Record
      <4>2. \A u \in Units : exe[u] \in Slot
        BY DEF TypeOK, SlotTypes
      <4>3. ASSUME NEW r, exe' = [exe EXCEPT ![r].doorbell = 1], NEW u \in Units
            PROVE  exe'[u].state = exe[u].state
        <5>1. exe \in [Units -> Slot]
          BY DEF TypeOK, SlotTypes
        <5> QED BY <4>2, <4>3, <5>1 DEF Slot
      <4> QED BY <4>1, <4>3
    <3>2. CASE ~stage_check
      <4>1. UNCHANGED exe
        BY <1>4, <3>2 DEF DispatcherNext, drain_completed_snapshot, dispatch_finish,
         send_task_dequeue, dispatcher_hook0, dispatcher_credit, begin_ed, try_nothing,
         try_no_slot, stage_record, hook0Frame
      <4> QED BY <4>1
    <3> QED BY <3>1, <3>2
  <2> QED BY <2>1, <2>2, <2>3, GateFrame
<1> QED BY <1>1, <1>2, <1>3, <1>4

(* The walk moves on from slot u, which it has just seen: what was gated   *)
(* there has set still.  After the last slot the core stays pending, or    *)
(* every slot still gated is announced.                                    *)
LEMMA WalkOn ==
  ASSUME TypeOK, GateInv, exec.pc \in {"poll", "hook0"},
         UNCHANGED <<g_ed_gated_core_mask, disp, exe>>,
         NEW e \in ExecRegs, e.pending = exec.pending,
         NEW still \in BOOLEAN, exec.still => still,
         exe[exec.unit].state = "GATED" => still,
         exec' = PollNext(e, exec.unit, still)
  PROVE  GateInv'
<1> DEFINE u == exec.unit
<1>1. /\ u \in Units /\ u = <<u[1], u[2], u[3]>> /\ u[3] \in Nat
      /\ CoreOf(u) \in exec.pending
  <2>1. u \in Units
    BY DEF TypeOK, ExecTypes
  <2> QED BY <2>1, ConfigAssumption DEF Units, Slots, GateInv, WalkInv
<1>2. \A v \in Units : v = <<v[1], v[2], v[3]>> /\ v[3] \in 0 .. AIC_OSTD - 1
  BY DEF Units, Slots
<1>3. InState("GATED")' = InState("GATED") /\ InState("GATED") \subseteq Units
  BY DEF InState
<1>4. \A v \in Units : Announced(v) => Announced(v)'
  BY DEF Announced
<1> HIDE DEF u
<1>5. ASSUME NEW v \in InState("GATED"), CoreOf(v) = CoreOf(u), v[3] <= u[3]
      PROVE  still \/ Announced(v)
  <2>1. CASE v[3] < u[3]
    BY <1>5, <2>1 DEF GateInv, WalkInv, u
  <2>2. CASE v[3] = u[3]
    <3>1. v = u
      BY <1>1, <1>2, <1>3, <1>5, <2>2 DEF CoreOf
    <3>2. exe[u].state = "GATED"
      BY <1>5, <3>1 DEF InState
    <3> QED BY <3>2 DEF u
  <2>3. v[3] \in Nat
    BY <1>2, <1>3
  <2> QED BY <1>1, <1>5, <2>1, <2>2, <2>3
<1>6. CASE u[3] + 1 < AIC_OSTD
  <2> DEFINE w == <<u[1], u[2], u[3] + 1>>
  <2>1. exec' = [e EXCEPT !.pc = "poll", !.unit = w, !.still = still]
    BY <1>6 DEF PollNext, u
  <2>2. CoreOf(w) = CoreOf(u) /\ w[3] = u[3] + 1
    BY DEF CoreOf
  <2> HIDE DEF w
  <2>3. /\ exec'.pc = "poll" /\ exec'.unit = w /\ exec'.still = still
        /\ exec'.pending = exec.pending
    BY <2>1 DEF ExecRegs
  <2>4. WalkInv'
    <3>1. ASSUME NEW v \in InState("GATED"), CoreOf(v) = CoreOf(w), v[3] < w[3]
          PROVE  still \/ Announced(v)'
      <4>1. v[3] <= u[3]
        BY <1>1, <1>2, <1>3, <2>2, <3>1
      <4> QED BY <1>3, <1>4, <1>5, <2>2, <3>1, <4>1
    <3> QED BY <1>1, <1>3, <2>2, <2>3, <3>1 DEF WalkInv
  <2>5. \A v \in InState("GATED")' : Watched(v)'
    BY <1>3, <1>4, <2>3 DEF GateInv, Watched
  <2> QED BY <2>4, <2>5 DEF GateInv
<1>7. CASE ~(u[3] + 1 < AIC_OSTD)
  <2> DEFINE left == IF still THEN exec.pending ELSE exec.pending \ {CoreOf(u)}
  <2>1. exec' = [e EXCEPT !.pc = "scan", !.unit = INVALID, !.still = FALSE, !.pending = left]
    BY <1>7 DEF PollNext, ExecRegs, WatchOn, u
  <2> HIDE DEF left
  <2>2. exec'.pc = "scan" /\ exec'.pending = left
    BY <2>1 DEF ExecRegs
  <2>3. ASSUME NEW v \in InState("GATED")
        PROVE  Watched(v)'
    <3>1. Watched(v)
      BY <3>1 DEF GateInv
    <3>2. CASE CoreOf(v) = CoreOf(u) /\ ~still
      <4>1. v[3] <= u[3]
        BY <1>1, <1>2, <1>3, <1>7, ConfigAssumption
      <4> QED BY <1>3, <1>4, <1>5, <3>2, <4>1 DEF Watched
    <3>3. CASE ~(CoreOf(v) = CoreOf(u) /\ ~still)
      BY <1>3, <1>4, <2>2, <3>1, <3>3 DEF Watched, left
    <3> QED BY <3>2, <3>3
  <2> QED BY <1>3, <2>2, <2>3 DEF GateInv, WalkInv
<1> QED BY <1>6, <1>7

(* The executor drops a core only after a walk that found it clear.        *)
LEMMA ExecutorKeepsGates ==
  ASSUME TypeOK, GateInv, ExecutorNext
  PROVE  GateInv'
<1>0. /\ exec \in ExecRegs /\ exec.pending \subseteq CoreIds /\ exec.still \in BOOLEAN
      /\ exe \in [Units -> Slot] /\ UNCHANGED disp
  <2>1. exec \in ExecRegs /\ exe \in [Units -> Slot]
    BY DEF TypeOK, ExecTypes, SlotTypes
  <2>2. UNCHANGED disp
    BY DEF ExecutorNext, start, complete_slot, signal, drain_mask, poll_core,
       poll_not_rung, poll_open, executor_hook0, executor_credit, executor_exit, exeFrame
  <2> QED BY <2>1, <2>2 DEF ExecRegs
<1>1. ASSUME exec.pc = "scan" \/ exec.pc = "signal", exec'.pc \notin {"poll", "hook0"},
             exec'.pending = exec.pending, UNCHANGED g_ed_gated_core_mask,
             \A u \in Units : exe'[u].state = "GATED" => exe[u].state = "GATED"
      PROVE  GateInv'
  <2>1. \A u \in InState("GATED")' : u \in Units /\ u \in InState("GATED")
    BY <1>1 DEF InState
  <2> QED BY <1>0, <1>1, <2>1 DEF GateInv, WalkInv, Watched, Announced
<1>2. ASSUME NEW u \in Units, start(u)
      PROVE  GateInv'
  <2>1. exec'.pc = exec.pc /\ exec.pc = "scan" /\ exec'.pending = exec.pending
    BY <1>0, <1>2 DEF start, ExecRegs
  <2> QED BY <1>1, <1>2, <2>1 DEF start
<1>3. ASSUME NEW u \in Units, complete_slot(u)
      PROVE  GateInv'
  <2>1. /\ exec.pc = "scan" /\ exec'.pc \in {"scan", "signal"}
        /\ exec'.pending = exec.pending
    BY <1>0, <1>3 DEF complete_slot, ExecRegs
  <2>2. exe' = exe \/ exe' = [exe EXCEPT ![u].state = "EMPTY"]
    BY <1>3 DEF complete_slot
  <2>3. \A v \in Units : exe'[v].state = "GATED" => exe[v].state = "GATED"
    <3>1. exe[u] \in Slot
      BY <1>0
    <3> QED BY <1>0, <2>2, <3>1 DEF Slot
  <2> QED BY <1>1, <1>3, <2>1, <2>3 DEF complete_slot
<1>4. CASE signal
  <2>1. exec.pc = "signal" /\ exec'.pc = "scan" /\ exec'.pending = exec.pending
    BY <1>0, <1>4 DEF signal, ExecRegs
  <2> QED BY <1>1, <1>4, <2>1 DEF signal
<1>5. ASSUME NEW y \in Types, drain_mask(y)
      PROVE  GateInv'
  <2>1. /\ exec.pc = "scan" /\ exec'.pc = "scan"
        /\ exec'.pending = exec.pending \cup MaskOf(y) /\ UNCHANGED exe
        /\ g_ed_gated_core_mask' = g_ed_gated_core_mask \ MaskOf(y)
    BY <1>0, <1>5 DEF drain_mask, ExecRegs
  <2>2. InState("GATED")' = InState("GATED")
    BY <2>1 DEF InState
  <2> QED BY <1>0, <2>1, <2>2 DEF GateInv, WalkInv, Watched, Announced
<1>6. ASSUME NEW c \in Types \X Cores, poll_core(c)
      PROVE  GateInv'
  <2> DEFINE w == <<c[1], c[2], 0>>
  <2>1. /\ exec.pc = "scan" /\ c \in exec.pending
        /\ exec' = [exec EXCEPT !.pc = "poll", !.unit = w, !.still = FALSE]
        /\ UNCHANGED <<exe, g_ed_gated_core_mask>>
    BY <1>6 DEF poll_core
  <2>2. CoreOf(w) = c /\ w[3] = 0
    BY <1>6 DEF CoreOf
  <2> HIDE DEF w
  <2>3. exec'.pc = "poll" /\ exec'.unit = w /\ exec'.pending = exec.pending
    BY <1>0, <2>1 DEF ExecRegs
  <2>4. \A v \in Units : v[3] \in Nat
    BY ConfigAssumption DEF Units, Slots
  <2>5. InState("GATED")' = InState("GATED") /\ InState("GATED") \subseteq Units
    BY <2>1 DEF InState
  <2>6. WalkInv'
    BY <2>1, <2>2, <2>3, <2>4, <2>5 DEF WalkInv
  <2>7. \A v \in InState("GATED")' : Watched(v)'
    BY <1>0, <2>1, <2>3, <2>5 DEF GateInv, Watched, Announced
  <2> QED BY <2>6, <2>7 DEF GateInv
<1>7. CASE poll_not_rung
  <2> DEFINE still == exec.still \/ exe[exec.unit].state = "GATED"
  <2>1. /\ exec.pc = "poll" /\ exec' = PollNext(exec, exec.unit, still)
        /\ UNCHANGED <<exe, g_ed_gated_core_mask>>
    BY <1>7 DEF poll_not_rung
  <2>2. still \in BOOLEAN
    BY <1>0
  <2> QED BY <1>0, <2>1, <2>2, WalkOn
<1>8. CASE poll_open
  <2>1. /\ exec.pc = "poll" /\ exec'.pc = "hook0" /\ exec'.unit = exec.unit
        /\ exec.unit \in Units /\ exec'.still = exec.still /\ exec'.pending = exec.pending
        /\ exe'[exec.unit].state = "RUNNABLE"
        /\ \A v \in Units \ {exec.unit} : exe'[v] = exe[v]
    BY <1>8, PollOpenStep
  <2>2. \A v \in InState("GATED")' : v \in Units /\ v \in InState("GATED")
    BY <2>1 DEF InState
  <2>3. UNCHANGED g_ed_gated_core_mask
    BY <1>8 DEF poll_open
  <2> QED BY <1>0, <2>1, <2>2, <2>3 DEF GateInv, WalkInv, Watched, Announced
<1>9. CASE executor_hook0 \/ executor_credit
  <2>1. exec.pc = "hook0" /\ UNCHANGED <<exe, g_ed_gated_core_mask>>
    BY <1>9 DEF TypeOK, ExecTypes, executor_hook0, executor_credit
  <2>2. exec.unit \in Units /\ exe[exec.unit].state = "RUNNABLE"
    BY <2>1 DEF TypeOK, ExecTypes, GateInv, WalkInv
  <2>3. CASE \E h \in MaybeTask : \E q \in Seq(Tasks) :
               exec' = PollNext([exec EXCEPT !.hook = h, !.todo = q], exec.unit, exec.still)
    <3>1. PICK h \in MaybeTask, q \in Seq(Tasks) :
            exec' = PollNext([exec EXCEPT !.hook = h, !.todo = q], exec.unit, exec.still)
      BY <2>3
    <3> DEFINE e == [exec EXCEPT !.hook = h, !.todo = q]
    <3>2. e \in ExecRegs /\ e.pending = exec.pending
      BY <1>0 DEF ExecRegs
    <3>3. exec' = PollNext(e, exec.unit, exec.still)
      BY <3>1
    <3> HIDE DEF e
    <3> QED BY <1>0, <2>1, <2>2, <3>2, <3>3, WalkOn
  <2>4. CASE /\ exec'.pc = exec.pc /\ exec'.unit = exec.unit /\ exec'.still = exec.still
             /\ exec'.pending = exec.pending
    BY <1>0, <2>1, <2>2, <2>4 DEF GateInv, WalkInv, Watched, Announced, InState
  <2>5. CASE executor_hook0
    <3>1. CASE Hook0Todo(exe[exec.unit].task) = <<>>
      <4>1. exec' = PollNext(exec, exec.unit, exec.still)
        BY <2>5, <3>1 DEF executor_hook0
      <4> QED BY <1>0, <2>1, <2>2, <4>1, WalkOn
    <3>2. CASE Hook0Todo(exe[exec.unit].task) # <<>>
      <4>1. /\ exec'.pc = exec.pc /\ exec'.unit = exec.unit /\ exec'.still = exec.still
            /\ exec'.pending = exec.pending
        BY <1>0, <2>5, <3>2 DEF executor_hook0, ExecRegs
      <4> QED BY <2>4, <4>1
    <3> QED BY <3>1, <3>2
  <2>6. CASE executor_credit
    <3>1. CASE Len(exec.todo) > 1
      <4>1. /\ exec'.pc = exec.pc /\ exec'.unit = exec.unit /\ exec'.still = exec.still
            /\ exec'.pending = exec.pending
        BY <1>0, <2>6, <3>1 DEF executor_credit, ExecRegs
      <4> QED BY <2>4, <4>1
    <3>2. CASE ~(Len(exec.todo) > 1)
      <4>1. exec' = PollNext([exec EXCEPT !.hook = INVALID, !.todo = <<>>], exec.unit, exec.still)
        BY <2>6, <3>2 DEF executor_credit
      <4>2. INVALID \in MaybeTask /\ <<>> \in Seq(Tasks)
        BY EmptySeq DEF MaybeTask
      <4> QED BY <2>3, <4>1, <4>2
    <3> QED BY <3>1, <3>2
  <2> QED BY <1>9, <2>5, <2>6
<1>10. CASE executor_exit
  <2>1. exec.pc = "scan" /\ exec'.pc = "done" /\ exec'.pending = exec.pending
    BY <1>0, <1>10 DEF executor_exit, ExecRegs
  <2> QED BY <1>1, <1>10, <2>1 DEF executor_exit
<1> QED BY <1>2, <1>3, <1>4, <1>5, <1>6, <1>7, <1>8, <1>9, <1>10 DEF ExecutorNext

(* The invariant is inductive.                                             *)
LEMMA GateStep ==
  ASSUME TypeOK, SlotInv, GateInv, [Next]_vars
  PROVE  GateInv'
<1>1. CASE UNCHANGED vars
  BY <1>1, GateFrame DEF vars
<1>2. CASE Next
  BY <1>1, <1>2, OthersKeepGates, DispatcherKeepsGates, ExecutorKeepsGates DEF Next
<1> QED BY <1>1, <1>2

(* In every behaviour the invariant holds, every slot starting out empty.  *)
THEOREM GatesWatched == Spec => []GateInv
<1>1. Init => GateInv
  <2> SUFFICES ASSUME StateInit PROVE GateInv
    BY DEF Init
  <2>1. InState("GATED") = {} /\ exec.pc = "scan"
    BY DEF StateInit, InState
  <2> QED BY <2>1 DEF GateInv, WalkInv
<1>2. TypeOK /\ SlotInv /\ GateInv /\ [Next]_vars => GateInv'
  BY GateStep
<1> QED BY <1>1, <1>2, InvariantHolds, PTL DEF Spec

(* No gated slot is forgotten: its core is in the mask, in the executor's  *)
(* pending set, or about to be put in the mask by the dispatcher.          *)
THEOREM NoGateForgotten == Spec => []GatedIsWatched
<1>1. GateInv => GatedIsWatched
  BY DEF GateInv, GatedIsWatched, Watched, Announced
<1> QED BY <1>1, GatesWatched, PTL

----------------------------------------------------------------------------
(***************************************************************************)
(* A ring entry is reused only after its task has run.                     *)
(*                                                                         *)
(* What the orchestrator reads, the watermark, is the end of a chain: the  *)
(* executor sets a completion bit, the dispatcher turns it into an entry   *)
(* of completed_queue, the cutter into a COMPLETED state and at last into  *)
(* a watermark.  The invariant says at each link that the task has run.    *)
(***************************************************************************)

(* Two tasks less than a ring apart have entries of their own.             *)
LEMMA IdxDistinct ==
  ASSUME NEW s \in Nat, NEW t \in Nat, s < t, t - s < RING_SIZE
  PROVE  Idx(s) # Idx(t)
<1> DEFINE R == RING_SIZE
           a == s \div R
           b == t \div R
<1>1. R \in Nat /\ R > 0
  BY ConfigAssumption
<1> HIDE DEF R
<1>2. /\ s = R * a + (s % R) /\ t = R * b + (t % R)
      /\ a \in Int /\ b \in Int /\ s % R \in Int /\ t % R \in Int
  BY <1>1
<1> HIDE DEF a, b
<1>3. ASSUME s % R = t % R
      PROVE  FALSE
  <2>1. t - s = R * (b - a)
    BY <1>1, <1>2, <1>3
  <2>2. b - a > 0
    <3>1. CASE b - a <= 0
      <4>1. R * (b - a) <= 0
        BY <1>1, <1>2, <3>1
      <4> QED BY <2>1, <4>1
    <3> QED BY <1>2, <3>1
  <2>3. R * (b - a) >= R
    BY <1>1, <1>2, <2>2
  <2> QED BY <1>1, <2>1, <2>3 DEF R
<1> QED BY <1>3 DEF Idx, R

(* No step takes a run back.                                               *)
LEMMA RanGrows ==
  ASSUME TypeOK, UNCHANGED runs \/ \E t \in Tasks : runs' = [runs EXCEPT ![t] = @ + 1]
  PROVE  /\ \A t \in Tasks : Ran(t) => Ran(t)'
         /\ RanTasks \subseteq RanTasks' /\ Seq(RanTasks) \subseteq Seq(RanTasks')
<1>1. \A t \in Tasks : Ran(t) => Ran(t)'
  BY DEF TypeOK, QueueTypes, Ran
<1>2. RanTasks \subseteq RanTasks'
  BY <1>1 DEF RanTasks
<1>3. \A q \in Seq(RanTasks) : q \in Seq(RanTasks')
  <2> TAKE q \in Seq(RanTasks)
  <2>1. Len(q) \in Nat /\ q \in [1 .. Len(q) -> RanTasks]
    BY LenProperties
  <2>2. q \in [1 .. Len(q) -> RanTasks']
    BY <1>2, <2>1
  <2> QED BY <2>1, <2>2 DEF Seq
<1> QED BY <1>1, <1>2, <1>3

(* The orchestrator takes the entry of a task below the watermark.         *)
LEMMA OrchestratorKeepsWatermark ==
  ASSUME TypeOK, WatermarkInv, OrchestratorNext
  PROVE  WatermarkInv'
<1>1. UNCHANGED <<g_min_uncomplete_task, g_state_buf, exe, task_id_map, msg_bitmap,
                  completed_queue, runs, exec>>
  BY DEF OrchestratorNext, new_task, add_predecessors, publish, orchestration_done,
         orchFrame, graphVars, ctrlVars
<1>2. CompletionsRan'
  BY <1>1 DEF WatermarkInv, CompletionsRan, BitsRan, QueueRan, StatesRan, WatermarkRan,
              RanTasks, Ran
<1>3. /\ g_task_id \in Nat /\ g_min_uncomplete_task \in Nat /\ N \in Nat
      /\ g_basic_buf \in [Rings -> MaybeTask]
  BY ConfigAssumption DEF TypeOK, OrchTypes, GraphTypes
<1>4. CASE new_task
  <2>1. /\ g_task_id < N /\ g_task_id - g_min_uncomplete_task < RING_SIZE
        /\ g_basic_buf' = [g_basic_buf EXCEPT ![Idx(g_task_id)] = g_task_id]
        /\ UNCHANGED g_task_id
    BY <1>4 DEF new_task, RingHasRoom
  <2>2. g_task_id \in Tasks /\ Idx(g_task_id) \in Rings
    BY <1>3, <2>1, IdxInRings DEF Tasks
  <2>3. ASSUME NEW t \in Tasks, t < g_task_id, ~Ran(t)
        PROVE  g_basic_buf'[Idx(t)] = t
    <3>1. t \in Nat /\ t >= g_min_uncomplete_task
      BY <1>3, <2>3, TasksAreNat DEF WatermarkInv, CompletionsRan, WatermarkRan
    <3>2. g_task_id - t < RING_SIZE
      BY <1>3, <2>1, <3>1, ConfigAssumption
    <3>3. Idx(t) # Idx(g_task_id)
      BY <1>3, <2>3, <3>1, <3>2, IdxDistinct
    <3>4. g_basic_buf[Idx(t)] = t
      BY <2>3 DEF WatermarkInv, EntriesHeld
    <3> QED BY <1>3, <2>1, <2>2, <3>3, <3>4, IdxInRings
  <2>4. g_basic_buf'[Idx(g_task_id)] = g_task_id
    BY <1>3, <2>1, <2>2
  <2> QED BY <1>1, <1>2, <2>1, <2>3, <2>4 DEF WatermarkInv, EntriesHeld, Ran
<1>5. CASE add_predecessors \/ orchestration_done
  <2>1. /\ UNCHANGED <<g_task_id, g_basic_buf>>
        /\ orch' \in {"preds", "publish"} => orch \in {"preds", "publish"}
    BY <1>5 DEF add_predecessors, orchestration_done, orchVars
  <2> QED BY <1>1, <1>2, <2>1 DEF WatermarkInv, EntriesHeld, Ran
<1>6. CASE publish
  <2>1. /\ orch = "publish" /\ orch' = "new" /\ g_task_id' = g_task_id + 1
        /\ UNCHANGED g_basic_buf
    BY <1>6 DEF publish
  <2>2. \A t \in Tasks : t < g_task_id' => t < g_task_id \/ t = g_task_id
    BY <1>3, <2>1, TasksAreNat
  <2> QED BY <1>1, <1>2, <2>1, <2>2 DEF WatermarkInv, EntriesHeld, Ran
<1> QED BY <1>4, <1>5, <1>6 DEF OrchestratorNext

(* The entries stay held whatever the other threads do.                    *)
LEMMA EntriesFrame ==
  ASSUME TypeOK, EntriesHeld, UNCHANGED <<g_task_id, g_basic_buf, orch>>,
         \A t \in Tasks : Ran(t) => Ran(t)'
  PROVE  EntriesHeld'
BY DEF EntriesHeld

(* The cutter takes completed tasks from the queue, marks their entries    *)
(* and moves the watermark over marked tasks only.                         *)
LEMMA TakeCompletedKeepsWatermark ==
  ASSUME TypeOK, WatermarkInv, take_completed
  PROVE  WatermarkInv'
<1> DEFINE n == IF Len(completed_queue) <= CQ_BATCH_SIZE THEN Len(completed_queue)
                                                         ELSE CQ_BATCH_SIZE
           done == SubSeq(completed_queue, 1, n)
           rest == SubSeq(completed_queue, n + 1, Len(completed_queue))
           sb == MarkCompleted(done)
           w == IF n > 0 THEN Watermark(sb) ELSE g_min_uncomplete_task
<1>1. /\ completed_queue' = rest /\ g_state_buf' = sb /\ g_min_uncomplete_task' = w
      /\ UNCHANGED <<orchVars, orch, exe, ctrlVars, msg_bitmap, runs, exec>>
  BY DEF take_completed
<1>2. UNCHANGED <<g_task_id, g_basic_buf, orch, exe, task_id_map, msg_bitmap, runs, exec>>
  BY <1>1 DEF orchVars, ctrlVars
<1>3. /\ completed_queue \in Seq(RanTasks) /\ Len(completed_queue) \in Nat
      /\ n \in 0 .. Len(completed_queue)
  BY ConfigAssumption, LenProperties DEF TypeOK, QueueTypes, WatermarkInv, CompletionsRan,
     QueueRan
<1>4. done \in Seq(RanTasks) /\ rest \in Seq(RanTasks)
  <2> HIDE DEF n
  <2>1. \A k \in 1 .. Len(completed_queue) : completed_queue[k] \in RanTasks
    BY <1>3, ElementOfSeq
  <2> QED BY <1>3, <2>1, SubSeqProperties
<1> HIDE DEF n, done, rest
<1>5. ASSUME NEW i \in Rings, sb[i].state = "COMPLETED"
      PROVE  sb[i].task_id \in RanTasks
  <2>1. g_state_buf[i] \in TaskState
    BY DEF TypeOK, GraphTypes
  <2>2. CASE \E k \in DOMAIN done : Idx(done[k]) = i /\ g_state_buf[i].task_id = done[k]
    <3>1. PICK k \in DOMAIN done : g_state_buf[i].task_id = done[k]
      BY <2>2
    <3>2. done[k] \in RanTasks
      BY <1>4, LenProperties, ElementOfSeq
    <3>3. sb[i] = [g_state_buf[i] EXCEPT !.state = "COMPLETED"]
      BY <2>2 DEF MarkCompleted
    <3>4. sb[i].task_id = g_state_buf[i].task_id
      BY <2>1, <3>3 DEF TaskState
    <3> QED BY <3>1, <3>2, <3>4
  <2>3. CASE ~\E k \in DOMAIN done : Idx(done[k]) = i /\ g_state_buf[i].task_id = done[k]
    <3>1. sb[i] = g_state_buf[i]
      BY <2>3 DEF MarkCompleted
    <3> QED BY <1>5, <3>1 DEF WatermarkInv, CompletionsRan, StatesRan
  <2> QED BY <2>2, <2>3
<1> HIDE DEF sb
<1>6. ASSUME NEW t \in Tasks, t < w
      PROVE  Ran(t)
  <2>1. CASE t < g_min_uncomplete_task
    BY <2>1 DEF WatermarkInv, CompletionsRan, WatermarkRan
  <2>2. CASE ~(t < g_min_uncomplete_task)
    <3>1. /\ g_task_id \in Nat /\ g_min_uncomplete_task \in 0 .. g_task_id /\ t \in Nat
      BY ConfigAssumption, TasksAreNat DEF TypeOK, OrchTypes, GraphTypes
    <3>2. w = Watermark(sb)
      BY <1>6, <2>2
    <3>3. /\ Watermark(sb) \in g_min_uncomplete_task .. g_task_id
          /\ \A x \in g_min_uncomplete_task .. Watermark(sb) - 1 : CompletedIn(sb, x)
      BY <3>1, WatermarkTypes
    <3>4. CompletedIn(sb, t)
      BY <1>6, <2>2, <3>1, <3>2, <3>3
    <3>5. sb[Idx(t)].task_id = t /\ sb[Idx(t)].state = "COMPLETED" /\ Idx(t) \in Rings
      BY <3>4, IdxInRings DEF CompletedIn
    <3> QED BY <1>5, <3>5 DEF RanTasks
  <2> QED BY <2>1, <2>2
<1> HIDE DEF w
<1>7. CompletionsRan'
  BY <1>1, <1>2, <1>4, <1>5, <1>6 DEF WatermarkInv, CompletionsRan, BitsRan, QueueRan,
     StatesRan, WatermarkRan, RanTasks, Ran
<1>8. EntriesHeld'
  BY <1>2, EntriesFrame DEF WatermarkInv, Ran
<1> QED BY <1>7, <1>8 DEF WatermarkInv

(* Committing a task and appending an edge complete nothing.               *)
LEMMA CommitKeepsStates ==
  ASSUME TypeOK, StatesRan, commit \/ edge
  PROVE  \A i \in Rings : g_state_buf'[i].state = "COMPLETED" =>
                            g_state_buf'[i].task_id \in RanTasks
<1>0. g_state_buf \in [Rings -> TaskState]
  BY DEF TypeOK, GraphTypes
<1>1. CASE commit
  <2> DEFINE st == [task_id |-> g_commit_task_id, state |-> "SUBMITTED", successor_cnt |-> 0]
  <2>1. g_state_buf' = [g_state_buf EXCEPT ![Idx(g_commit_task_id)] = st]
    BY <1>1 DEF commit
  <2>2. st.state # "COMPLETED"
    OBVIOUS
  <2> HIDE DEF st
  <2> QED BY <1>0, <2>1, <2>2 DEF StatesRan
<1>2. CASE edge
  <2> DEFINE j == Idx(cut.surv[NextEdge])
             st == [g_state_buf[j] EXCEPT !.successor_cnt = @ + 1]
  <2>1. g_state_buf' = [g_state_buf EXCEPT ![j] = st] \/ g_state_buf' = g_state_buf
    BY <1>2 DEF edge
  <2>2. j \in Rings => st.state = g_state_buf[j].state /\ st.task_id = g_state_buf[j].task_id
    BY <1>0 DEF TaskState
  <2> HIDE DEF st, j
  <2> QED BY <1>0, <2>1, <2>2 DEF StatesRan
<1> QED BY <1>1, <1>2

(* The cutter marks and counts only tasks that have run.                   *)
LEMMA CutterKeepsWatermark ==
  ASSUME TypeOK, WatermarkInv, CutterNext
  PROVE  WatermarkInv'
<1>1. CASE take_completed
  BY <1>1, TakeCompletedKeepsWatermark
<1>2. CASE CutterNext /\ ~take_completed
  <2>1. UNCHANGED <<g_task_id, g_basic_buf, orch, task_id_map, msg_bitmap, runs, exec,
                    completed_queue, g_min_uncomplete_task>>
    BY <1>2 DEF CutterNext, cutter_exit, add_successors_enter, commit, edge, late_arrival,
       resolve_dep_load, resolve_dep, hook2, send_2_ready_queue, cutFrame, orchVars, ctrlVars
  <2>2. \A u \in Units : exe'[u].task = exe[u].task
    <3>1. CASE hook2
      BY <3>1, Hook2Types
    <3>2. CASE ~hook2
      <4>1. UNCHANGED exe
        BY <1>2, <3>2 DEF CutterNext, cutter_exit, add_successors_enter, commit, edge,
           late_arrival, resolve_dep_load, resolve_dep, send_2_ready_queue
      <4> QED BY <4>1
    <3> QED BY <3>1, <3>2
  <2>3. StatesRan'
    <3>1. CASE commit \/ edge
      BY <2>1, <3>1, CommitKeepsStates DEF WatermarkInv, CompletionsRan, StatesRan,
         RanTasks, Ran
    <3>2. CASE ~(commit \/ edge)
      <4>1. UNCHANGED g_state_buf
        BY <1>2, <3>2 DEF CutterNext, cutter_exit, add_successors_enter,
           late_arrival, resolve_dep_load, resolve_dep, hook2, send_2_ready_queue, graphVars
      <4> QED BY <2>1, <4>1 DEF WatermarkInv, CompletionsRan, StatesRan, RanTasks, Ran
    <3> QED BY <3>1, <3>2
  <2>4. BitsRan'
    <3>1. exec.pc = "signal" => exec.unit \in Units
      BY DEF TypeOK, ExecTypes
    <3> QED BY <2>1, <2>2, <3>1 DEF WatermarkInv, CompletionsRan, BitsRan, RanTasks, Ran
  <2>5. QueueRan' /\ WatermarkRan'
    BY <2>1 DEF WatermarkInv, CompletionsRan, QueueRan, WatermarkRan, RanTasks, Ran
  <2>6. EntriesHeld'
    BY <2>1, EntriesFrame DEF WatermarkInv, Ran
  <2> QED BY <2>3, <2>4, <2>5, <2>6 DEF WatermarkInv, CompletionsRan
<1> QED BY <1>1, <1>2

(* The dispatcher queues the tasks of signalled slots, and fills only      *)
(* slots that owe no completion.                                           *)
LEMMA DispatcherKeepsWatermark ==
  ASSUME TypeOK, SlotInv, WatermarkInv, DispatcherNext
  PROVE  WatermarkInv'
<1>1. UNCHANGED <<g_task_id, g_basic_buf, orch, runs, exec, g_min_uncomplete_task, g_state_buf>>
  BY DEF DispatcherNext, drain_completed_snapshot, dispatch_finish, send_task_dequeue,
     send_task, dispatcher_hook0, dispatcher_credit, begin_ed, try_nothing, try_no_slot, try_stage,
     stage_mask, stage_record, stage_check, hook0Frame, edFrame, dispFrame, orchVars,
     graphVars
<1>2. /\ StatesRan' /\ WatermarkRan' /\ EntriesHeld'
      /\ RanTasks' = RanTasks
  <2>1. RanTasks' = RanTasks
    BY <1>1 DEF RanTasks, Ran
  <2> QED BY <1>1, <2>1, EntriesFrame DEF WatermarkInv, CompletionsRan, StatesRan,
      WatermarkRan, Ran
<1>3. CASE drain_completed_snapshot
  <2> DEFINE n == Cardinality(msg_bitmap)
  <2>1. n \in Nat
    BY UnitsFinite, FS_Subset, FS_CardinalityType DEF TypeOK, SlotTypes
  <2>2. PICK order \in [1 .. n -> msg_bitmap] :
          LET done == [k \in DOMAIN order |-> task_id_map[order[k]]] IN
          completed_queue' = IF HasRoom(completed_queue, Len(done))
                             THEN completed_queue \o done ELSE completed_queue
    BY <1>3 DEF drain_completed_snapshot, SweepOrder
  <2> DEFINE done == [k \in DOMAIN order |-> task_id_map[order[k]]]
  <2>3. done \in Seq(RanTasks)
    <3> HIDE DEF n
    <3>1. DOMAIN order = 1 .. n /\ \A k \in 1 .. n : task_id_map[order[k]] \in RanTasks
      BY DEF WatermarkInv, CompletionsRan, BitsRan
    <3>2. done \in [1 .. n -> RanTasks]
      BY <3>1
    <3> HIDE DEF done
    <3> QED BY <2>1, <3>2, SeqDef
  <2>4. completed_queue' = completed_queue \o done \/ completed_queue' = completed_queue
    BY <2>2
  <2> HIDE DEF done
  <2>5. completed_queue \in Seq(RanTasks)
    BY DEF WatermarkInv, CompletionsRan, QueueRan
  <2>6. completed_queue' \in Seq(RanTasks)
    BY <2>3, <2>4, <2>5, ConcatProperties
  <2>7. QueueRan'
    BY <1>2, <2>6 DEF QueueRan
  <2>8. BitsRan'
    <3>1. msg_bitmap' = {} /\ UNCHANGED exe
      BY <1>3 DEF drain_completed_snapshot
    <3> QED BY <1>1, <1>2, <3>1 DEF WatermarkInv, CompletionsRan, BitsRan
  <2> QED BY <1>2, <2>7, <2>8 DEF WatermarkInv, CompletionsRan
<1>4. ASSUME UNCHANGED <<completed_queue, msg_bitmap>>,
             \A u \in Units \ free_bitmap : /\ task_id_map'[u] = task_id_map[u]
                                            /\ exe'[u].task = exe[u].task
      PROVE  WatermarkInv'
  <2>1. \A u \in msg_bitmap : u \in Units \ free_bitmap
    BY DEF TypeOK, SlotTypes, SlotInv, SlotHandoff
  <2>2. exec.pc = "signal" => exec.unit \in Units \ free_bitmap
    BY DEF TypeOK, ExecTypes, SlotInv, SignalOwed
  <2>3. BitsRan'
    BY <1>1, <1>2, <1>4, <2>1, <2>2 DEF WatermarkInv, CompletionsRan, BitsRan
  <2>4. QueueRan'
    BY <1>2, <1>4 DEF WatermarkInv, CompletionsRan, QueueRan
  <2> QED BY <1>2, <2>3, <2>4 DEF WatermarkInv, CompletionsRan
<1>5. CASE send_task
  <2>1. UNCHANGED <<completed_queue, msg_bitmap>>
    BY <1>5 DEF send_task
  <2>2. \A u \in Units \ free_bitmap : /\ task_id_map'[u] = task_id_map[u]
                                       /\ exe'[u].task = exe[u].task
    <3>1. task_id_map \in [Units -> Tasks]
      BY DEF TypeOK, SlotTypes
    <3> QED BY <1>5, <3>1, SendTaskStep
  <2> QED BY <1>4, <2>1, <2>2
<1>6. CASE try_stage
  <2>1. UNCHANGED <<completed_queue, msg_bitmap>>
    BY <1>6 DEF try_stage, edFrame
  <2>2. \A u \in Units \ free_bitmap : /\ task_id_map'[u] = task_id_map[u]
                                       /\ exe'[u].task = exe[u].task
    <3>1. task_id_map \in [Units -> Tasks]
      BY DEF TypeOK, SlotTypes
    <3> QED BY <1>6, <3>1, TryStageStep
  <2> QED BY <1>4, <2>1, <2>2
<1>7. CASE stage_check
  <2>1. UNCHANGED <<completed_queue, msg_bitmap, task_id_map>>
    BY <1>7 DEF stage_check, edFrame, ctrlVars
  <2>2. exe' = exe \/ \E r : exe' = [exe EXCEPT ![r].doorbell = 1]
    BY <1>7 DEF stage_check, ed_notify_once, Record
  <2>3. \A u \in Units : exe'[u].task = exe[u].task
    <3>1. exe \in [Units -> Slot]
      BY DEF TypeOK, SlotTypes
    <3>2. ASSUME NEW r, exe' = [exe EXCEPT ![r].doorbell = 1], NEW u \in Units
          PROVE  exe'[u].task = exe[u].task
      BY <3>1, <3>2 DEF Slot
    <3> QED BY <2>2, <3>2
  <2> QED BY <1>4, <2>1, <2>3
<1>8. CASE DispatcherNext /\ ~drain_completed_snapshot /\ ~send_task /\ ~try_stage /\ ~stage_check
  <2>1. UNCHANGED <<completed_queue, msg_bitmap, task_id_map, exe>>
    BY <1>8 DEF DispatcherNext, dispatch_finish, send_task_dequeue,
     dispatcher_hook0, dispatcher_credit, begin_ed, try_nothing, try_no_slot,
     stage_mask, stage_record, hook0Frame, edFrame, ctrlVars
  <2> QED BY <1>4, <2>1
<1> QED BY <1>3, <1>5, <1>6, <1>7, <1>8

(* The executor owes and sets the bit of a slot whose task it has run.     *)
LEMMA ExecutorKeepsWatermark ==
  ASSUME TypeOK, SlotInv, WatermarkInv, ExecutorNext
  PROVE  WatermarkInv'
<1>1. UNCHANGED <<g_task_id, g_basic_buf, orch, g_min_uncomplete_task, g_state_buf,
                  task_id_map, completed_queue>>
  BY DEF ExecutorNext, start, complete_slot, signal, drain_mask, poll_core,
     poll_not_rung, poll_open, executor_hook0, executor_credit, executor_exit, exeFrame,
     orchVars, graphVars, ctrlVars
<1>2. UNCHANGED runs \/ \E t \in Tasks : runs' = [runs EXCEPT ![t] = @ + 1]
  <2>1. ASSUME NEW u \in Units, complete_slot(u)
        PROVE  UNCHANGED runs \/ \E t \in Tasks : runs' = [runs EXCEPT ![t] = @ + 1]
    BY <2>1, CompleteSlotStep
  <2>2. (\A u \in Units : ~complete_slot(u)) => UNCHANGED runs
    BY DEF ExecutorNext, start, signal, drain_mask, poll_core,
       poll_not_rung, poll_open, executor_hook0, executor_credit, executor_exit
  <2> QED BY <2>1, <2>2
<1>3. /\ \A t \in Tasks : Ran(t) => Ran(t)'
      /\ RanTasks \subseteq RanTasks' /\ Seq(RanTasks) \subseteq Seq(RanTasks')
  BY <1>2, RanGrows
<1>4. StatesRan' /\ WatermarkRan' /\ EntriesHeld' /\ QueueRan'
  <2>1. QueueRan'
    BY <1>1, <1>3 DEF WatermarkInv, CompletionsRan, QueueRan
  <2>2. StatesRan' /\ WatermarkRan'
    BY <1>1, <1>3 DEF WatermarkInv, CompletionsRan, StatesRan, WatermarkRan
  <2>3. EntriesHeld'
    BY <1>1, <1>3, EntriesFrame DEF WatermarkInv
  <2> QED BY <2>1, <2>2, <2>3
<1>5. BitsRan'
  <2>1. ASSUME NEW u \in Units, complete_slot(u)
        PROVE  BitsRan'
    <3>1. UNCHANGED msg_bitmap
      BY <2>1 DEF complete_slot
    <3>2. CASE exec'.pc = "signal"
      <4>1. /\ exec'.unit = u /\ exe'[u].task \in Tasks
            /\ runs' = [runs EXCEPT ![exe'[u].task] = @ + 1]
        BY <2>1, <3>2, CompleteSlotStep
      <4>2. runs'[exe'[u].task] > 0
        <5>1. runs \in [Tasks -> Nat]
          BY DEF TypeOK, QueueTypes
        <5>2. runs'[exe'[u].task] = runs[exe'[u].task] + 1
          BY <4>1, <5>1
        <5> QED BY <4>1, <5>1, <5>2
      <4> QED BY <1>1, <1>3, <3>1, <4>1, <4>2 DEF WatermarkInv, CompletionsRan, BitsRan,
          RanTasks, Ran
    <3>3. CASE exec'.pc # "signal"
      BY <1>1, <1>3, <3>1, <3>3 DEF WatermarkInv, CompletionsRan, BitsRan
    <3> QED BY <3>2, <3>3
  <2>2. CASE signal
    <3>1. /\ exec.pc = "signal" /\ exec'.pc = "scan"
          /\ msg_bitmap' = msg_bitmap \cup {exec.unit} /\ UNCHANGED runs
      BY <2>2 DEF signal, TypeOK, ExecTypes, ExecRegs
    <3>2. task_id_map[exec.unit] = exe[exec.unit].task
      BY <3>1 DEF SlotInv, SignalOwed
    <3> QED BY <1>1, <1>3, <3>1, <3>2 DEF WatermarkInv, CompletionsRan, BitsRan
  <2>3. CASE ExecutorNext /\ ~signal /\ \A u \in Units : ~complete_slot(u)
    <3>1. UNCHANGED msg_bitmap /\ exec'.pc # "signal"
      <4>1. UNCHANGED msg_bitmap
        BY <2>3 DEF ExecutorNext, start, drain_mask, poll_core,
           poll_not_rung, poll_open, executor_hook0, executor_credit, executor_exit
      <4>2. exec'.pc # "signal"
        <5>1. CASE executor_hook0 \/ executor_credit \/ poll_not_rung
          BY <5>1, WalkStep
        <5>2. CASE poll_open
          BY <5>2, PollOpenStep
        <5>3. CASE ~(executor_hook0 \/ executor_credit \/ poll_not_rung \/ poll_open)
          <6>1. exec \in ExecRegs
            BY DEF TypeOK, ExecTypes
          <6>2. \/ \E u \in Units : start(u)
                \/ \E y \in Types : drain_mask(y)
                \/ \E c \in Types \X Cores : poll_core(c)
                \/ executor_exit
            BY <2>3, <5>3 DEF ExecutorNext
          <6>3. ASSUME NEW u \in Units, start(u)
                PROVE  exec'.pc # "signal"
            BY <6>1, <6>3 DEF start, ExecRegs
          <6>4. ASSUME NEW y \in Types, drain_mask(y)
                PROVE  exec'.pc # "signal"
            BY <6>1, <6>4 DEF drain_mask, ExecRegs
          <6>5. ASSUME NEW c \in Types \X Cores, poll_core(c)
                PROVE  exec'.pc # "signal"
            BY <6>1, <6>5 DEF poll_core, ExecRegs
          <6>6. ASSUME executor_exit
                PROVE  exec'.pc # "signal"
            BY <6>1, <6>6 DEF executor_exit, ExecRegs
          <6> QED BY <6>2, <6>3, <6>4, <6>5, <6>6
        <5> QED BY <5>1, <5>2, <5>3
      <4> QED BY <4>1, <4>2
    <3> QED BY <1>1, <1>3, <3>1 DEF WatermarkInv, CompletionsRan, BitsRan
  <2> QED BY <2>1, <2>2, <2>3
<1> QED BY <1>4, <1>5 DEF WatermarkInv, CompletionsRan

(* The invariant is inductive.                                             *)
LEMMA WatermarkStep ==
  ASSUME TypeOK, SlotInv, WatermarkInv, [Next]_vars
  PROVE  WatermarkInv'
<1>1. CASE UNCHANGED vars
  <2>1. UNCHANGED <<g_task_id, g_basic_buf, orch, g_min_uncomplete_task, g_state_buf,
                    task_id_map, completed_queue, msg_bitmap, exe, exec, runs>>
    BY <1>1 DEF vars, orchVars, graphVars, ctrlVars
  <2> QED BY <2>1 DEF WatermarkInv, CompletionsRan, BitsRan, QueueRan, StatesRan,
          WatermarkRan, EntriesHeld, RanTasks, Ran
<1>2. CASE Next
  BY <1>1, <1>2, OrchestratorKeepsWatermark, CutterKeepsWatermark,
     DispatcherKeepsWatermark, ExecutorKeepsWatermark DEF Next
<1> QED BY <1>1, <1>2

(* A completion is told only of a task that has run: the bit, the entry of *)
(* completed_queue, the COMPLETED state and the watermark each stand for a *)
(* finished run, in every behaviour.                                       *)
THEOREM CompletionsTold == Spec => []WatermarkInv
<1>1. Init => WatermarkInv
  <2> SUFFICES ASSUME StateInit PROVE WatermarkInv
    BY DEF Init
  <2>1. /\ msg_bitmap = {} /\ exec.pc = "scan" /\ orch = "new" /\ g_task_id = 0
        /\ g_min_uncomplete_task = 0 /\ completed_queue = <<>>
        /\ \A i \in Rings : g_state_buf[i].state = "CREATING"
    BY DEF StateInit
  <2>2. <<>> \in Seq(RanTasks) /\ Tasks \subseteq Nat
    BY EmptySeq, TasksAreNat
  <2>3. CompletionsRan
    <3>1. BitsRan /\ QueueRan
      BY <2>1, <2>2 DEF BitsRan, QueueRan
    <3>2. StatesRan
      BY <2>1 DEF StatesRan
    <3>3. WatermarkRan
      BY <2>1, <2>2 DEF WatermarkRan
    <3> QED BY <3>1, <3>2, <3>3 DEF CompletionsRan
  <2>4. EntriesHeld
    BY <2>1, <2>2 DEF EntriesHeld
  <2> QED BY <2>3, <2>4 DEF WatermarkInv
<1>2. TypeOK /\ SlotInv /\ WatermarkInv /\ [Next]_vars => WatermarkInv'
  BY WatermarkStep
<1> QED BY <1>1, <1>2, InvariantHolds, PTL DEF Spec

(* The watermark that lets new_task reuse ring entries covers only tasks   *)
(* that ran, and a task's entry stays its own until then.                  *)
THEOREM WatermarkCovers == Spec => []WatermarkSafe
<1>1. WatermarkInv => WatermarkSafe
  BY DEF WatermarkInv, CompletionsRan, WatermarkRan, EntriesHeld, WatermarkSafe
<1> QED BY <1>1, CompletionsTold, PTL
=============================================================================
