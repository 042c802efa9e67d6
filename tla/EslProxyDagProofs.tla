--------------------------- MODULE EslProxyDagProofs --------------------------
(***************************************************************************)
(* Every graph that fits into the ring is executed once and in order.      *)
(*                                                                         *)
(* First the orchestrator and the cutter, then the dispatcher and the      *)
(* executor keep DagInv, so it holds in every behaviour; the safety        *)
(* properties of EslProxy that are about readiness and the refinement of   *)
(* DagExec follow from it.                                                 *)
(***************************************************************************)
EXTENDS EslProxyProofs, FunctionTheorems


(* In a ring that is large enough the entry of a task has its number.      *)
LEMMA IdxSame ==
  ASSUME NoReuse
  PROVE  /\ Tasks \subseteq Rings /\ Tasks \subseteq Nat
         /\ \A t \in Tasks : Idx(t) = t
<1> SUFFICES ASSUME NEW t \in Tasks
             PROVE  t \in Rings /\ t \in Nat /\ Idx(t) = t
  OBVIOUS
<1> DEFINE R == RING_SIZE
           a == t \div R
           m == t % R
<1>1. R \in Nat /\ R > 0 /\ t \in Nat /\ t < R
  BY ConfigAssumption DEF NoReuse, Tasks
<1>2. t \in Rings
  BY <1>1 DEF Rings
<1> HIDE DEF R
<1>3. t = R * a + m /\ a \in Int /\ m \in Int /\ 0 <= m /\ m < R
  BY <1>1
<1>4. Idx(t) = m
  BY DEF Idx, R
<1> HIDE DEF a, m
<1>5. a >= 0
  <2> SUFFICES ASSUME a <= -1 PROVE FALSE
    BY <1>3
  <2>1. R * a <= R * (-1)
    BY <1>1, <1>3
  <2> QED BY <1>1, <1>3, <2>1
<1>6. a <= 0
  <2> SUFFICES ASSUME a >= 1 PROVE FALSE
    BY <1>3
  <2>1. R * a >= R * 1
    BY <1>1, <1>3
  <2> QED BY <1>1, <1>3, <2>1
<1>7. a = 0
  BY <1>3, <1>5, <1>6
<1> QED BY <1>1, <1>2, <1>3, <1>4, <1>7

(* The positions of a list, and any set of them, are finitely many.        *)
LEMMA PositionsOfList ==
  ASSUME NEW n \in Nat, NEW S, S \subseteq 1 .. n
  PROVE  IsFiniteSet(S)
<1>1. IsFiniteSet(1 .. n)
  BY FS_Interval
<1> QED BY <1>1, FS_Subset

(* Counting a task in a list, and taking the first element off the list.   *)
LEMMA OccurrencesType ==
  ASSUME NEW q \in Seq(Tasks), NEW x
  PROVE  /\ Occurrences(x, q) \in Nat
         /\ (Occurrences(x, q) = 0 <=> x \notin ToSet(q))
         /\ (Distinct(q) => Occurrences(x, q) <= 1)
<1> DEFINE S == {k \in DOMAIN q : q[k] = x}
<1>1. DOMAIN q = 1 .. Len(q) /\ Len(q) \in Nat
  BY LenProperties
<1>2. IsFiniteSet(S)
  BY <1>1, PositionsOfList
<1>3. Cardinality(S) \in Nat /\ (Cardinality(S) = 0 <=> S = {})
  BY <1>2, FS_CardinalityType, FS_EmptySet
<1>4. S = {} <=> x \notin ToSet(q)
  BY DEF ToSet
<1>5. ASSUME Distinct(q)
      PROVE  Cardinality(S) <= 1
  <2>1. CASE S = {}
    BY <1>3, <2>1
  <2>2. CASE S # {}
    <3>1. PICK k \in S : TRUE
      BY <2>2
    <3>2. S = {k}
      BY <1>5, <3>1 DEF Distinct
    <3>3. Cardinality({k}) = 1
      BY FS_Singleton
    <3> HIDE DEF S
    <3> QED BY <3>2, <3>3
  <2> QED BY <2>1, <2>2
<1> QED BY <1>3, <1>4, <1>5 DEF Occurrences

(* The first element counts in a list, the others in its tail.             *)
LEMMA OccurrencesTail ==
  ASSUME NEW q \in Seq(Tasks), q # <<>>, NEW x
  PROVE  Occurrences(x, q) = Occurrences(x, Tail(q)) + (IF Head(q) = x THEN 1 ELSE 0)
<1> DEFINE r == Tail(q)
           S == {k \in DOMAIN q : q[k] = x}
           T == {k \in DOMAIN r : r[k] = x}
           U == {k \in S : k # 1}
           f == [k \in T |-> k + 1]
<1>1. /\ DOMAIN q = 1 .. Len(q) /\ Len(q) \in Nat /\ Len(q) > 0
      /\ r \in Seq(Tasks) /\ Len(r) = Len(q) - 1 /\ DOMAIN r = 1 .. Len(r)
      /\ \A k \in 1 .. Len(r) : r[k] = q[k + 1]
  BY HeadTailProperties, LenProperties, EmptySeq
<1>2. Head(q) = q[1]
  BY DEF Head
<1> HIDE DEF r
<1>3. f \in Bijection(T, U)
  <2>1. \A k \in T : f[k] \in U
    BY <1>1
  <2>2. f \in [T -> U]
    BY <2>1
  <2>3. \A j, k \in T : f[j] = f[k] => j = k
    BY <1>1
  <2>4. \A k \in U : \E j \in T : f[j] = k
    <3> TAKE k \in U
    <3>1. k - 1 \in T /\ f[k - 1] = k
      BY <1>1
    <3> QED BY <3>1
  <2> QED BY <2>2, <2>3, <2>4, Fun_IsBij
<1>4. IsFiniteSet(S) /\ IsFiniteSet(T) /\ Cardinality(T) \in Nat
  BY <1>1, PositionsOfList, FS_CardinalityType
<1>5. IsFiniteSet(U) /\ Cardinality(U) = Cardinality(T)
  <2> HIDE DEF f, T, U
  <2> QED BY <1>3, <1>4, FS_Bijection DEF ExistsBijection
<1>8. Occurrences(x, q) = Cardinality(S) /\ Occurrences(x, r) = Cardinality(T)
  BY DEF Occurrences
<1>6. CASE q[1] = x
  <2>1. 1 \notin U /\ S = U \cup {1}
    BY <1>1, <1>6
  <2>2. Cardinality(S) = Cardinality(U) + 1
    BY <1>5, <2>1, FS_AddElement
  <2> HIDE DEF S, T, U
  <2> QED BY <1>2, <1>4, <1>5, <1>6, <1>8, <2>2 DEF r
<1>7. CASE q[1] # x
  <2>1. S = U
    BY <1>7
  <2> HIDE DEF S, T, U
  <2> QED BY <1>2, <1>4, <1>5, <1>7, <1>8, <2>1 DEF r
<1> QED BY <1>6, <1>7

(* Nothing occurs in the empty list.                                       *)
LEMMA OccurrencesEmpty == \A x : Occurrences(x, <<>>) = 0
BY FS_EmptySet DEF Occurrences

(* The tasks of a list, and lists without repetition, put together from    *)
(* and taken apart into their pieces.                                      *)
LEMMA ListFacts ==
  ASSUME NEW q \in Seq(Tasks)
  PROVE  /\ Len(q) \in Nat /\ DOMAIN q = 1 .. Len(q)
         /\ \A k \in DOMAIN q : q[k] \in Tasks /\ q[k] \in ToSet(q)
         /\ ToSet(q) \subseteq Tasks
         /\ \A x \in ToSet(q) : \E k \in DOMAIN q : q[k] = x
         /\ (ToSet(q) = {} <=> q = <<>>)
<1>1. /\ Len(q) \in Nat /\ DOMAIN q = 1 .. Len(q)
      /\ \A k \in DOMAIN q : q[k] \in Tasks
  BY LenProperties, ElementOfSeq
<1>2. ToSet(q) = {} <=> q = <<>>
  <2>1. Len(q) = 0 <=> q = <<>>
    BY EmptySeq
  <2>2. DOMAIN q = {} <=> Len(q) = 0
    BY <1>1
  <2>3. ToSet(q) = {} <=> DOMAIN q = {}
    BY DEF ToSet
  <2> QED BY <2>1, <2>2, <2>3
<1> QED BY <1>1, <1>2 DEF ToSet

(* The empty list as a list of tasks.                                      *)
LEMMA EmptyList == ToSet(<<>>) = {} /\ Distinct(<<>>) /\ <<>> \in Seq(Tasks)
BY DEF ToSet, Distinct

(* Two lists joined have the elements of both, and duplicates only if one  *)
(* has or they share an element.                                           *)
LEMMA ConcatLists ==
  ASSUME NEW p \in Seq(Tasks), NEW q \in Seq(Tasks)
  PROVE  /\ p \o q \in Seq(Tasks)
         /\ ToSet(p \o q) = ToSet(p) \cup ToSet(q)
         /\ (Distinct(p \o q) <=>
               Distinct(p) /\ Distinct(q) /\ ToSet(p) \cap ToSet(q) = {})
<1> DEFINE r == p \o q
           m == Len(p)
           n == Len(q)
<1>1. /\ m \in Nat /\ n \in Nat /\ DOMAIN p = 1 .. m /\ DOMAIN q = 1 .. n
      /\ r \in Seq(Tasks) /\ Len(r) = m + n /\ DOMAIN r = 1 .. m + n
      /\ \A k \in 1 .. m + n : r[k] = IF k <= m THEN p[k] ELSE q[k - m]
  BY LenProperties, ConcatProperties
<1> HIDE DEF r, m, n
<1>2. /\ \A k \in DOMAIN p : k \in DOMAIN r /\ r[k] = p[k]
      /\ \A k \in DOMAIN q : k + m \in DOMAIN r /\ r[k + m] = q[k] /\ ~(k + m <= m)
      /\ \A k \in DOMAIN r : k <= m => k \in DOMAIN p /\ r[k] = p[k]
      /\ \A k \in DOMAIN r : ~(k <= m) => k - m \in DOMAIN q /\ r[k] = q[k - m]
  BY <1>1
<1>3. ToSet(r) = ToSet(p) \cup ToSet(q)
  BY <1>2 DEF ToSet
<1>4. ASSUME Distinct(r)
      PROVE  Distinct(p) /\ Distinct(q) /\ ToSet(p) \cap ToSet(q) = {}
  <2>1. Distinct(p)
    BY <1>2, <1>4 DEF Distinct
  <2>2. Distinct(q)
    <3>1. \A j, k \in DOMAIN q : j + m = k + m => j = k
      BY <1>1
    <3> QED BY <1>2, <1>4, <3>1 DEF Distinct
  <2>3. \A j \in DOMAIN p : \A k \in DOMAIN q : p[j] # q[k]
    <3>1. \A j \in DOMAIN p : j <= m
      BY <1>1
    <3> QED BY <1>2, <1>4, <3>1 DEF Distinct
  <2> QED BY <2>1, <2>2, <2>3 DEF ToSet
<1>5. ASSUME Distinct(p), Distinct(q), ToSet(p) \cap ToSet(q) = {}
      PROVE  Distinct(r)
  <2>1. \A j \in DOMAIN p : \A k \in DOMAIN q : p[j] # q[k]
    BY <1>5 DEF ToSet
  <2>2. ASSUME NEW j \in DOMAIN r, NEW k \in DOMAIN r, r[j] = r[k]
        PROVE  j = k
    <3>1. CASE j <= m /\ k <= m
      BY <1>2, <1>5, <2>2, <3>1 DEF Distinct
    <3>2. CASE ~(j <= m) /\ ~(k <= m)
      <4>1. j - m = k - m
        BY <1>2, <1>5, <2>2, <3>2 DEF Distinct
      <4> QED BY <1>1, <4>1
    <3>3. CASE (j <= m /\ ~(k <= m)) \/ (~(j <= m) /\ k <= m)
      BY <1>2, <2>1, <2>2, <3>3
    <3> QED BY <3>1, <3>2, <3>3
  <2> QED BY <2>2 DEF Distinct
<1> QED BY <1>1, <1>3, <1>4, <1>5 DEF r

(* The same for one more element,                                          *)
LEMMA AppendToList ==
  ASSUME NEW q \in Seq(Tasks), NEW x \in Tasks
  PROVE  /\ Append(q, x) \in Seq(Tasks)
         /\ ToSet(Append(q, x)) = ToSet(q) \cup {x}
         /\ (Distinct(Append(q, x)) <=> Distinct(q) /\ x \notin ToSet(q))
<1>1. <<x>> \in Seq(Tasks) /\ ToSet(<<x>>) = {x} /\ Distinct(<<x>>)
  BY DEF ToSet, Distinct
<1>2. Append(q, x) = q \o <<x>>
  BY AppendIsConcat
<1> DEFINE r == <<x>>
<1> HIDE DEF r
<1>3. /\ q \o r \in Seq(Tasks) /\ ToSet(q \o r) = ToSet(q) \cup ToSet(r)
      /\ (Distinct(q \o r) <=> Distinct(q) /\ Distinct(r) /\ ToSet(q) \cap ToSet(r) = {})
  BY <1>1, ConcatLists DEF r
<1> QED BY <1>1, <1>2, <1>3 DEF r

(* ... for one less,                                                       *)
LEMMA TailOfList ==
  ASSUME NEW q \in Seq(Tasks), q # <<>>
  PROVE  /\ Head(q) \in Tasks /\ Tail(q) \in Seq(Tasks)
         /\ ToSet(q) = ToSet(Tail(q)) \cup {Head(q)}
         /\ (Distinct(q) <=> Distinct(Tail(q)) /\ Head(q) \notin ToSet(Tail(q)))
<1>1. /\ Head(q) \in Tasks /\ Tail(q) \in Seq(Tasks)
      /\ q = <<Head(q)>> \o Tail(q)
  <2>1. Len(q) \in Nat /\ Len(q) # 0
    BY EmptySeq, LenProperties
  <2>2. SubSeq(q, 1, Len(q)) = <<q[1]>> \o SubSeq(q, 2, Len(q))
    <3>1. 1 \in 1 .. Len(q) /\ Len(q) \in 1 .. Len(q) /\ 1 + 1 = 2
      BY <2>1
    <3> QED BY <3>1, SubSeqRecursiveFirst
  <2>3. Head(q) = q[1]
    BY <2>1
  <2> QED BY <2>2, <2>3, HeadTailProperties, SubSeqFull, TailIsSubSeq
<1> DEFINE x == Head(q)
<1>2. <<x>> \in Seq(Tasks) /\ ToSet(<<x>>) = {x} /\ Distinct(<<x>>)
  BY <1>1 DEF ToSet, Distinct
<1> DEFINE r == <<x>>
           t == Tail(q)
<1> HIDE DEF x, r, t
<1>3. /\ ToSet(r \o t) = ToSet(r) \cup ToSet(t)
      /\ (Distinct(r \o t) <=> Distinct(r) /\ Distinct(t) /\ ToSet(r) \cap ToSet(t) = {})
  BY <1>1, <1>2, ConcatLists DEF r, t
<1>4. q = r \o t
  BY <1>1 DEF r, t, x
<1>5. ToSet(r) = {x} /\ Distinct(r)
  BY <1>2 DEF r
<1>6. /\ ToSet(q) = ToSet(t) \cup {x}
      /\ (Distinct(q) <=> Distinct(t) /\ x \notin ToSet(t))
  BY <1>3, <1>4, <1>5
<1> QED BY <1>1, <1>6 DEF t, x

(* ... and for a list cut in two, which is how batches are taken.          *)
LEMMA CutList ==
  ASSUME NEW q \in Seq(Tasks), NEW n \in 0 .. Len(q)
  PROVE  /\ SubSeq(q, 1, n) \in Seq(Tasks) /\ SubSeq(q, n + 1, Len(q)) \in Seq(Tasks)
         /\ q = SubSeq(q, 1, n) \o SubSeq(q, n + 1, Len(q))
<1> DEFINE a == SubSeq(q, 1, n)
           b == SubSeq(q, n + 1, Len(q))
           r == a \o b
<1>1. Len(q) \in Nat /\ n \in Nat /\ n <= Len(q) /\ \A k \in 1 .. Len(q) : q[k] \in Tasks
  BY LenProperties, ElementOfSeq
<1>2. /\ a \in Seq(Tasks) /\ Len(a) = n /\ \A k \in 1 .. n : a[k] = q[k]
  BY <1>1, SubSeqProperties
<1>3. /\ b \in Seq(Tasks) /\ Len(b) = Len(q) - n
      /\ \A k \in 1 .. Len(q) - n : b[k] = q[n + k]
  BY <1>1, SubSeqProperties
<1> HIDE DEF a, b
<1>4. /\ r \in Seq(Tasks) /\ Len(r) = Len(q)
      /\ \A k \in 1 .. Len(q) : r[k] = IF k <= n THEN a[k] ELSE b[k - n]
  <2>1. /\ r \in Seq(Tasks) /\ Len(r) = Len(a) + Len(b)
        /\ \A k \in 1 .. Len(a) + Len(b) : r[k] = IF k <= Len(a) THEN a[k] ELSE b[k - Len(a)]
    BY <1>2, <1>3, ConcatProperties
  <2> QED BY <1>1, <1>2, <1>3, <2>1
<1>5. \A k \in 1 .. Len(q) : r[k] = q[k]
  BY <1>1, <1>2, <1>3, <1>4
<1> HIDE DEF r
<1>6. r = q
  BY <1>4, <1>5, SeqEqual
<1> QED BY <1>2, <1>3, <1>6 DEF a, b, r

----------------------------------------------------------------------------
(* What only the cutter writes stays as it is while another thread steps.  *)
graphHeld == <<g_commit_task_id, g_state_buf, g_successor_buf, g_predecessor_cnt, cut>>
TagsHeld == \A t \in Tasks : ed'[t].ring_task_tag = ed[t].ring_task_tag
RunsGrow == \A t \in Tasks : Ran(t) => Ran(t)'
GraphInv == EntryInv /\ EdgeInv /\ RoundInv /\ CountInv /\ ReasonInv

(* Steps that do not touch the graph keep the part of the invariant that   *)
(* is about it.                                                            *)
LEMMA GraphFrame ==
  ASSUME NoReuse, GraphInv, UNCHANGED graphHeld, TagsHeld, RunsGrow
  PROVE  /\ GraphInv'
         /\ \A t \in Tasks : /\ (Committed(t)' <=> Committed(t))
                             /\ (Completed(t)' <=> Completed(t))
                             /\ (Due(t)' <=> Due(t))
<1>1. UNCHANGED <<g_commit_task_id, g_state_buf, g_successor_buf, g_predecessor_cnt, cut>>
  BY DEF graphHeld
<1>2. \A t : /\ (Committing(t)' <=> Committing(t)) /\ (Committed(t)' <=> Committed(t))
             /\ (Completed(t)' <=> Completed(t)) /\ (Due(t)' <=> Due(t))
             /\ (Untouched(t)' <=> Untouched(t))
  BY <1>1 DEF Committing, Committed, Completed, Due, Untouched
<1>3. EntryInv'
  <2>1. \A t \in Tasks : TagIs(t)' <=> TagIs(t)
    BY IdxSame DEF TagsHeld, TagIs
  <2> QED BY <1>1, <1>2, <2>1 DEF EntryInv, GraphInv
<1>4. EdgeInv'
  BY <1>1, <1>2 DEF EdgeInv, GraphInv
<1>5. RoundInv'
  BY <1>1, <1>2 DEF RoundInv, GraphInv
<1>6. ToAppend' = ToAppend /\ WorkLeft' = WorkLeft
  BY <1>1 DEF ToAppend, LaterEdges, NextEdge, WorkLeft
<1>7. \A s : OpenEdges(s)' = OpenEdges(s)
  BY <1>1 DEF OpenEdges, Unresolved, InRing
<1>8. CountInv'
  BY <1>1, <1>2, <1>6, <1>7 DEF CountInv, GraphInv, EdgesLeft, Occurrences
<1>9. ReasonInv'
  <2>1. \A p, s : Owed(p, s)' <=> Owed(p, s)
    BY <1>1, <1>2, <1>6 DEF Owed
  <2>2. \A s \in Tasks : \A p \in PredSet[s] : p \in Tasks
    <3> TAKE s \in Tasks
    <3>1. Preds[s] \in Seq(Tasks)
      BY GraphAssumption
    <3> QED BY <3>1, LenProperties, ElementOfSeq DEF PredSet, ToSet
  <2> QED BY <1>2, <2>1, <2>2 DEF ReasonInv, GraphInv, RunsGrow
<1> QED BY <1>2, <1>3, <1>4, <1>5, <1>8, <1>9 DEF GraphInv

(* Neither do the slots and the lines change while the orchestrator works. *)
runHeld == <<disp, ready_queue, ed, exe, msg_bitmap, exec, runs, completed_queue>>
RunInv == LaneInv /\ ClaimInv /\ DueInv /\ StageInv

(* Steps that touch neither the graph nor slots and lines keep the rest.   *)
LEMMA RunFrame ==
  ASSUME RunInv, UNCHANGED graphHeld, UNCHANGED runHeld
  PROVE  RunInv'
<1>1. UNCHANGED <<g_commit_task_id, g_state_buf, g_predecessor_cnt, cut>>
  BY DEF graphHeld
<1>2. UNCHANGED <<disp, ready_queue, ed, exe, msg_bitmap, exec, runs, completed_queue>>
  BY DEF runHeld
<1>3. /\ \A t : /\ (Committed(t)' <=> Committed(t)) /\ (Completed(t)' <=> Completed(t))
                /\ (Due(t)' <=> Due(t)) /\ (Ran(t)' <=> Ran(t))
      /\ \A y : Lane(y)' = Lane(y)
  BY <1>1, <1>2 DEF Committing, Committed, Completed, Due, Ran, Lane, Waiting, Type
<1>4. /\ \A t : (InLane(t)' <=> InLane(t)) /\ (Claimed(t)' <=> Claimed(t))
      /\ \A u, t : /\ (Holds(u, t)' <=> Holds(u, t))
                   /\ (Occupies(u, t)' <=> Occupies(u, t))
  BY <1>1, <1>2, <1>3 DEF InLane, Claimed, Holds, Occupies
<1>5. LaneInv'
  BY <1>1, <1>2, <1>3, <1>4 DEF RunInv, LaneInv
<1>6. ClaimInv'
  BY <1>1, <1>2, <1>3, <1>4 DEF RunInv, ClaimInv, HeldOnce, RunOnce, ToldOnce
<1>7. InState("RUNNABLE")' = InState("RUNNABLE") /\ InState("GATED")' = InState("GATED")
  BY <1>2 DEF InState
<1>8. DueInv'
  BY <1>2, <1>3, <1>4 DEF RunInv, DueInv
<1>9. StageInv'
  BY <1>1, <1>2, <1>3, <1>7 DEF RunInv, StageInv, Staging, NotifierOwed, Recorded, Gated
<1> QED BY <1>5, <1>6, <1>8, <1>9 DEF RunInv

(* add_predecessors leaves out a predecessor below the watermark, that is, *)
(* one that has run; the other steps of the orchestrator touch no list.    *)
LEMMA CreationFrame ==
  ASSUME CreationInv, RunsGrow,
         UNCHANGED <<g_task_id, orch, g_basic_buf, g_predecessors, g_commit_task_id, cut>>
  PROVE  CreationInv'
<1>1. \A t : /\ (Created(t)' <=> Created(t)) /\ (Listed(t)' <=> Listed(t))
             /\ (Committed(t)' <=> Committed(t))
  BY DEF Created, Listed, Committed, Committing
<1>2. \A t \in Tasks : ListKeeps(t) => ListKeeps(t)'
  <2> TAKE t \in Tasks
  <2>1. Preds[t] \in Seq(Tasks)
    BY GraphAssumption
  <2>2. \A k \in DOMAIN Preds[t] : Preds[t][k] \in Tasks
    BY <2>1, LenProperties, ElementOfSeq
  <2> QED BY <2>2 DEF ListKeeps, RunsGrow
<1> QED BY <1>1, <1>2 DEF CreationInv

(* The orchestrator writes the entry of a task that nobody has seen yet.   *)
LEMMA OrchestratorKeepsDag ==
  ASSUME NoReuse, TypeOK, WatermarkInv, CreationInv, GraphInv, RunInv, OrchestratorNext
  PROVE  CreationInv' /\ GraphInv' /\ RunInv'
<1>1. UNCHANGED orchFrame
  BY DEF OrchestratorNext, new_task, add_predecessors, publish, orchestration_done
<1>2. UNCHANGED graphHeld /\ UNCHANGED runHeld
  BY <1>1 DEF orchFrame, graphHeld, runHeld, graphVars
<1>3. TagsHeld /\ RunsGrow
  BY <1>2 DEF runHeld, TagsHeld, RunsGrow, Ran
<1>4. GraphInv' /\ RunInv'
  BY <1>2, <1>3, GraphFrame, RunFrame
<1>5. /\ g_task_id \in Nat /\ g_min_uncomplete_task \in Nat
      /\ orch \in {"preds", "publish"} => g_task_id \in Tasks
      /\ g_basic_buf \in [Rings -> MaybeTask] /\ g_predecessors \in [Rings -> PredLists]
  BY ConfigAssumption DEF TypeOK, OrchTypes, GraphTypes, Tasks
<1>6. \A t : /\ (Committed(t)' <=> Committed(t)) /\ (Ran(t)' <=> Ran(t))
  BY <1>2 DEF graphHeld, runHeld, Committed, Committing, Ran
<1>7. CASE new_task
  <2>1. /\ orch = "new" /\ orch' = "preds" /\ g_task_id \in Tasks
        /\ g_basic_buf' = [g_basic_buf EXCEPT ![Idx(g_task_id)] = g_task_id]
        /\ UNCHANGED <<g_task_id, g_predecessors>>
    BY <1>5, <1>7, ConfigAssumption DEF new_task, Tasks
  <2>2. g_basic_buf'[g_task_id] = g_task_id
        /\ \A t \in Tasks : t # g_task_id => g_basic_buf'[t] = g_basic_buf[t]
    BY <1>5, <2>1, IdxSame
  <2>3. \A t \in Tasks : /\ Created(t)' => Created(t) \/ t = g_task_id
                         /\ (Listed(t)' <=> Listed(t))
    BY <1>5, <2>1, IdxSame DEF Created, Listed
  <2>4. \A t \in Tasks : ListKeeps(t)' <=> ListKeeps(t)
    BY <1>6, <2>1 DEF ListKeeps
  <2> QED BY <1>4, <1>6, <2>2, <2>3, <2>4 DEF CreationInv
<1>8. CASE add_predecessors
  <2> DEFINE g == g_task_id
             K == {k \in DOMAIN Preds[g] : KeepTarget(Preds[g][k])}
             kept == Restrict(Preds[g], K)
  <2>1. /\ orch = "preds" /\ orch' = "publish" /\ g \in Tasks
        /\ g_predecessors' = [g_predecessors EXCEPT ![Idx(g)] = kept]
        /\ UNCHANGED <<g_task_id, g_basic_buf>>
    BY <1>5, <1>8 DEF add_predecessors, orchVars
  <2>2. /\ g_predecessors'[g] = kept
        /\ \A t \in Tasks : t # g => g_predecessors'[t] = g_predecessors[t]
    BY <1>5, <2>1, IdxSame
  <2>3. \A t \in Tasks : /\ (Created(t)' <=> Created(t))
                         /\ Listed(t)' => Listed(t) \/ t = g
    BY <2>1 DEF Created, Listed
  <2>4. /\ DOMAIN kept = K /\ K \subseteq DOMAIN Preds[g]
        /\ \A k \in K : kept[k] = Preds[g][k]
    BY DEF Restrict
  <2>5. \A k \in DOMAIN Preds[g] : k \notin K => Ran(Preds[g][k])
    <3>1. Preds[g] \in Seq(Tasks)
      BY <2>1, GraphAssumption
    <3>2. TAKE k \in DOMAIN Preds[g]
    <3>3. Preds[g][k] \in Tasks
      BY <3>1, LenProperties, ElementOfSeq
    <3>4. k \notin K => Preds[g][k] < g_min_uncomplete_task
      BY <1>5, <3>3, TasksAreNat DEF KeepTarget
    <3> QED BY <3>3, <3>4 DEF WatermarkInv, CompletionsRan, WatermarkRan
  <2>6. ListKeeps(g)'
    <3> HIDE DEF K, kept
    <3> QED BY <1>6, <2>1, <2>2, <2>4, <2>5 DEF ListKeeps, g
  <2>7. \A t \in Tasks : t # g => (ListKeeps(t)' <=> ListKeeps(t))
    BY <1>6, <2>2 DEF ListKeeps
  <2> QED BY <1>4, <1>6, <2>1, <2>3, <2>6, <2>7 DEF CreationInv
<1>9. CASE publish
  <2>1. /\ orch = "publish" /\ orch' = "new" /\ g_task_id' = g_task_id + 1
        /\ UNCHANGED <<g_basic_buf, g_predecessors>>
    BY <1>9 DEF publish
  <2>2. \A t \in Tasks : /\ Created(t)' => Created(t)
                         /\ Listed(t)' => Listed(t)
    BY <1>5, <2>1, IdxSame DEF Created, Listed
  <2>3. \A t \in Tasks : ListKeeps(t)' <=> ListKeeps(t)
    BY <1>6, <2>1 DEF ListKeeps
  <2> QED BY <1>4, <1>6, <2>1, <2>2, <2>3 DEF CreationInv
<1>10. CASE orchestration_done
  <2>1. /\ orch = "new" /\ orch' = "done"
        /\ UNCHANGED <<g_task_id, g_basic_buf, g_predecessors>>
    BY <1>10 DEF orchestration_done
  <2>2. \A t \in Tasks : /\ Created(t)' => Created(t)
                         /\ Listed(t)' => Listed(t)
    BY <2>1 DEF Created, Listed
  <2>3. \A t \in Tasks : ListKeeps(t)' <=> ListKeeps(t)
    BY <1>6, <2>1 DEF ListKeeps
  <2> QED BY <1>4, <1>6, <2>1, <2>2, <2>3 DEF CreationInv
<1> QED BY <1>4, <1>7, <1>8, <1>9, <1>10 DEF OrchestratorNext

----------------------------------------------------------------------------
(* The registers of the cutter after each of its steps.                    *)
LEMMA CommitLoopFields ==
  ASSUME TypeOK, NEW next, NEW end, NEW ready, CommitLoop(next, end, ready)
  PROVE  /\ cut'.batch = cut.batch /\ cut'.work = cut.work /\ cut'.ready = ready
         /\ cut'.pc \in {"commit", "load", "send", "take"}
         /\ cut'.pc \in {"send", "take"} => cut.batch = <<>>
<1> DEFINE rest == PcOfRest(cut.batch, <<>>, ready)
           pc == IF next < end THEN "commit" ELSE rest
           e == IF next < end THEN end ELSE 0
<1>1. /\ rest \in {"load", "send", "take"}
      /\ rest \in {"send", "take"} => cut.batch = <<>>
  BY DEF PcOfRest
<1>2. cut \in CutRegs
  BY DEF TypeOK, CutTypes
<1>3. cut' = [cut EXCEPT !.surv = <<>>, !.ready = ready, !.end = e, !.pc = pc]
  BY DEF CommitLoop
<1>4. pc \in {"commit", "load", "send", "take"} /\ (pc \in {"send", "take"} => cut.batch = <<>>)
  BY <1>1
<1> HIDE DEF pc, e
<1> QED BY <1>2, <1>3, <1>4 DEF CutRegs

(* Where the cutter stands after an edge is done,                          *)
LEMMA EdgeDoneFields ==
  ASSUME TypeOK, cut.pc \in {"edge", "late"}, EdgeDone
  PROVE  /\ cut'.batch = cut.batch /\ cut'.work = cut.work /\ cut'.ready = cut.ready
         /\ cut'.pc \in {"edge", "commit", "load", "send", "take"}
         /\ cut'.pc \in {"send", "take"} => cut.batch = <<>>
         /\ \/ /\ cut'.pc = "edge" /\ cut'.surv = LaterEdges /\ DOMAIN LaterEdges # {}
               /\ UNCHANGED <<g_predecessors, g_commit_task_id>>
            \/ /\ cut'.pc # "edge" /\ DOMAIN LaterEdges = {}
               /\ g_commit_task_id' = g_commit_task_id + 1
               /\ g_predecessors' = [g_predecessors EXCEPT ![Idx(g_commit_task_id)] = <<>>]
<1>1. cut \in CutRegs
  BY DEF TypeOK, CutTypes
<1>2. CASE DOMAIN LaterEdges # {}
  <2> DEFINE later == LaterEdges
  <2>1. /\ cut' = [cut EXCEPT !.pc = "edge", !.surv = later]
        /\ UNCHANGED <<g_predecessors, g_commit_task_id>>
    BY <1>2 DEF EdgeDone
  <2> HIDE DEF later
  <2>2. /\ cut'.batch = cut.batch /\ cut'.work = cut.work /\ cut'.ready = cut.ready
        /\ cut'.pc = "edge" /\ cut'.surv = later
    BY <1>1, <2>1 DEF CutRegs
  <2> QED BY <1>2, <2>1, <2>2 DEF later
<1>3. CASE DOMAIN LaterEdges = {}
  <2>1. /\ g_commit_task_id' = g_commit_task_id + 1
        /\ g_predecessors' = [g_predecessors EXCEPT ![Idx(g_commit_task_id)] = <<>>]
        /\ CommitLoop(g_commit_task_id + 1, cut.end, cut.ready)
    BY <1>3 DEF EdgeDone
  <2>2. /\ cut'.batch = cut.batch /\ cut'.work = cut.work /\ cut'.ready = cut.ready
        /\ cut'.pc \in {"commit", "load", "send", "take"}
        /\ cut'.pc \in {"send", "take"} => cut.batch = <<>>
    BY <2>1, CommitLoopFields
  <2> QED BY <1>3, <2>1, <2>2
<1> QED BY <1>2, <1>3

(* ... after it took a batch or entered the commit window,                 *)
LEMMA RoundFields ==
  ASSUME TypeOK
  PROVE  /\ take_completed => /\ cut.pc = "take" /\ cut'.pc = "enter" /\ cut'.work = cut.work
                              /\ cut'.ready = cut.ready
         /\ cutter_exit => /\ cut.pc = "take" /\ cut'.pc = "done" /\ cut'.work = cut.work
                           /\ cut'.ready = cut.ready /\ cut'.batch = cut.batch
         /\ add_successors_enter =>
              /\ cut.pc = "enter" /\ cut'.work = cut.work
              /\ cut'.ready = cut.ready /\ cut'.batch = cut.batch
              /\ cut'.pc \in {"commit", "load", "send", "take"}
              /\ cut'.pc \in {"send", "take"} => cut.batch = <<>>
         /\ resolve_dep_load =>
              /\ cut.pc = "load" /\ cut'.work = SuccessorsOf(Head(cut.batch))
              /\ cut'.ready = cut.ready /\ cut'.batch = Tail(cut.batch)
              /\ cut'.pc \in {"resolve", "load", "send", "take"}
              /\ cut'.pc # "resolve" => cut'.work = <<>>
              /\ cut'.pc \in {"send", "take"} => cut'.batch = <<>>
         /\ send_2_ready_queue =>
              /\ cut.pc = "send" /\ cut'.work = cut.work /\ cut'.batch = cut.batch
              /\ cut'.pc \in {"send", "take"}
<1>1. cut \in CutRegs
  BY DEF TypeOK, CutTypes
<1>2. ASSUME take_completed
      PROVE  cut.pc = "take" /\ cut'.pc = "enter" /\ cut'.work = cut.work /\ cut'.ready = cut.ready
  <2>1. PICK done : cut' = [cut EXCEPT !.pc = "enter", !.batch = done]
    BY <1>2 DEF take_completed
  <2> QED BY <1>1, <1>2, <2>1 DEF CutRegs, take_completed
<1>3. ASSUME cutter_exit
      PROVE  /\ cut.pc = "take" /\ cut'.pc = "done" /\ cut'.work = cut.work
             /\ cut'.ready = cut.ready /\ cut'.batch = cut.batch
  BY <1>1, <1>3 DEF CutRegs, cutter_exit
<1>4. ASSUME add_successors_enter
      PROVE  /\ cut.pc = "enter" /\ cut'.work = cut.work
             /\ cut'.ready = cut.ready /\ cut'.batch = cut.batch
             /\ cut'.pc \in {"commit", "load", "send", "take"}
             /\ cut'.pc \in {"send", "take"} => cut.batch = <<>>
  BY <1>4, CommitLoopFields DEF add_successors_enter
<1>5. ASSUME resolve_dep_load
      PROVE  /\ cut.pc = "load" /\ cut'.work = SuccessorsOf(Head(cut.batch))
             /\ cut'.ready = cut.ready /\ cut'.batch = Tail(cut.batch)
             /\ cut'.pc \in {"resolve", "load", "send", "take"}
             /\ cut'.pc # "resolve" => cut'.work = <<>>
             /\ cut'.pc \in {"send", "take"} => cut'.batch = <<>>
  <2> DEFINE w == SuccessorsOf(Head(cut.batch))
             b == Tail(cut.batch)
             pc == PcOfRest(b, w, cut.ready)
  <2>1. cut.pc = "load" /\ cut' = [cut EXCEPT !.batch = b, !.work = w, !.pc = pc]
    BY <1>5 DEF resolve_dep_load
  <2>2. /\ pc \in {"resolve", "load", "send", "take"}
        /\ pc # "resolve" => w = <<>>
        /\ pc \in {"send", "take"} => b = <<>>
    BY DEF PcOfRest
  <2> HIDE DEF w, b, pc
  <2> QED BY <1>1, <2>1, <2>2 DEF CutRegs, w, b
<1>6. ASSUME send_2_ready_queue
      PROVE  /\ cut.pc = "send" /\ cut'.work = cut.work /\ cut'.batch = cut.batch
             /\ cut'.pc \in {"send", "take"}
  <2>1. PICK rest, tails :
          cut' = [cut EXCEPT !.ready = rest, !.pc = PcOfRest(<<>>, <<>>, rest), !.tail = tails]
    BY <1>6 DEF send_2_ready_queue
  <2>2. PcOfRest(<<>>, <<>>, rest) \in {"send", "take"}
    BY DEF PcOfRest
  <2> QED BY <1>1, <1>6, <2>1, <2>2 DEF CutRegs, send_2_ready_queue
<1> QED BY <1>2, <1>3, <1>4, <1>5, <1>6

(* ... and after it resolved a successor.                                  *)
LEMMA ResolvedFields ==
  ASSUME TypeOK, NEW ready, Resolved(ready)
  PROVE  /\ cut'.work = Tail(cut.work) /\ cut'.ready = ready /\ cut'.batch = cut.batch
         /\ cut'.pc \in {"resolve", "load", "send", "take"}
         /\ cut'.pc # "resolve" => cut'.work = <<>>
         /\ cut'.pc \in {"send", "take"} => cut'.batch = <<>>
<1> DEFINE w == Tail(cut.work)
           pc == PcOfRest(cut.batch, w, ready)
<1>1. /\ cut \in CutRegs
      /\ cut' = [cut EXCEPT !.work = w, !.ready = ready, !.pc = pc]
  BY DEF TypeOK, CutTypes, Resolved
<1>2. /\ pc \in {"resolve", "load", "send", "take"}
      /\ pc # "resolve" => w = <<>>
      /\ pc \in {"send", "take"} => cut.batch = <<>>
  BY DEF PcOfRest
<1> HIDE DEF w, pc
<1> QED BY <1>1, <1>2 DEF CutRegs, w

----------------------------------------------------------------------------
(* A dispatch credit and the mark Hook 0 leaves may put a task into        *)
(* staging; its claim, its record and its notice they leave alone.         *)
MetaHeld(t) ==
  /\ ed'[t].ring_task_tag = ed[t].ring_task_tag /\ ed'[t].next_block = ed[t].next_block
  /\ ed'[t].staged = ed[t].staged /\ ed'[t].claimed = ed[t].claimed
  /\ \/ ed'[t].spec = ed[t].spec
     \/ ed[t].spec = "NONE" /\ ed'[t].spec = "STAGING"

(* A credit changes neither the tag nor the record of a task and takes it  *)
(* at most from IDLE into staging.                                         *)
LEMMA CreditKeeps ==
  ASSUME NoReuse, TypeOK, NEW s \in Tasks, AddFanin(s, ed[Idx(s)])
  PROVE  \A t \in Tasks : MetaHeld(t)
<1> DEFINE m == ed[s]
           stage == EntersStaging(m, s)
           sp == IF stage THEN "STAGING" ELSE m.spec
           fan == m.fanin + 1
           m2 == [m EXCEPT !.fanin = fan, !.spec = sp]
<1>1. /\ Idx(s) = s /\ s \in Rings /\ ed \in [Rings -> EdMeta] /\ Tasks \subseteq Rings
  BY IdxSame DEF TypeOK, EdTypes
<1>2. m \in EdMeta
  BY <1>1
<1>3. sp = m.spec \/ (m.spec = "NONE" /\ sp = "STAGING")
  BY DEF EntersStaging
<1>4. ed' = [ed EXCEPT ![s] = m2]
  <2>1. ed' = [ed EXCEPT ![s] = [m EXCEPT !.fanin = @ + 1,
                                          !.spec = IF stage THEN "STAGING" ELSE @]]
    BY <1>1 DEF AddFanin
  <2>2. [m EXCEPT !.fanin = @ + 1, !.spec = IF stage THEN "STAGING" ELSE @] = m2
    <3> HIDE DEF stage, m
    <3> QED BY <1>2 DEF EdMeta
  <2> QED BY <2>1, <2>2
<1>5. /\ m2.ring_task_tag = m.ring_task_tag /\ m2.next_block = m.next_block
      /\ m2.staged = m.staged /\ m2.claimed = m.claimed /\ m2.spec = sp
  <2> HIDE DEF m, sp, fan
  <2> QED BY <1>2 DEF EdMeta
<1> HIDE DEF m2, sp
<1>6. ed'[s] = m2 /\ \A t \in Tasks : t # s => ed'[t] = ed[t]
  BY <1>1, <1>4
<1> QED BY <1>3, <1>5, <1>6 DEF MetaHeld

(* Neither does the entry into Hook 0.                                     *)
LEMMA Hook0MetaHeld ==
  ASSUME NoReuse, TypeOK, NEW p \in Tasks, Hook0Enter(p)
  PROVE  \A t \in Tasks : MetaHeld(t)
<1> DEFINE m2 == MarkDispatched(ed[p], p)
<1>1. /\ Idx(p) = p /\ p \in Rings /\ ed \in [Rings -> EdMeta] /\ Tasks \subseteq Rings
  BY IdxSame DEF TypeOK, EdTypes
<1>2. ed' = ed \/ ed' = [ed EXCEPT ![p] = m2]
  BY <1>1 DEF Hook0Enter
<1>3. /\ m2.ring_task_tag = ed[p].ring_task_tag /\ m2.next_block = ed[p].next_block
      /\ m2.staged = ed[p].staged /\ m2.claimed = ed[p].claimed /\ m2.spec = ed[p].spec
  BY <1>1 DEF MarkDispatched, EdMeta
<1> HIDE DEF m2
<1> QED BY <1>1, <1>2, <1>3 DEF MetaHeld

----------------------------------------------------------------------------
(* A commit writes the entry of one task, which no one has written before. *)
LEMMA CommitStep ==
  ASSUME NoReuse, TypeOK, CreationInv, commit
  PROVE  LET s == g_commit_task_id
             surv == Survivors(s)
         IN
         /\ cut.pc = "commit" /\ s \in Tasks /\ s < g_task_id /\ ~Committed(s)
         /\ g_state_buf'[s].task_id = s /\ g_state_buf'[s].state = "SUBMITTED"
         /\ g_state_buf'[s].successor_cnt = 0
         /\ g_successor_buf'[s] = IF ED_ENABLE THEN <<>> ELSE g_successor_buf[s]
         /\ g_predecessor_cnt'[s] = Cardinality(DOMAIN surv)
         /\ ED_ENABLE => /\ ed'[s].ring_task_tag = s /\ ed'[s].next_block = 0
                         /\ ed'[s].staged = INVALID /\ ed'[s].claimed = 0
                         /\ ed'[s].spec = "NONE"
         /\ ~ED_ENABLE => ed' = ed
         /\ \A t \in Tasks : t # s =>
              /\ g_state_buf'[t] = g_state_buf[t] /\ g_successor_buf'[t] = g_successor_buf[t]
              /\ g_predecessor_cnt'[t] = g_predecessor_cnt[t] /\ ed'[t] = ed[t]
              /\ g_predecessors'[t] = g_predecessors[t]
         /\ cut'.batch = cut.batch /\ cut'.work = cut.work
         /\ \/ /\ DOMAIN surv = {} /\ g_commit_task_id' = s + 1
               /\ cut'.pc \in {"commit", "load", "send", "take"}
               /\ cut'.pc \in {"send", "take"} => cut.batch = <<>>
               /\ cut'.ready = [cut.ready EXCEPT ![TypeOf[s]] = Append(@, s)]
            \/ /\ DOMAIN surv # {} /\ g_commit_task_id' = s
               /\ cut'.pc = "edge" /\ cut'.surv = surv /\ cut'.ready = cut.ready
<1> DEFINE s == g_commit_task_id
           surv == Survivors(s)
           st == [task_id |-> s, state |-> "SUBMITTED", successor_cnt |-> 0]
           m == FreshMeta(s, surv)
           c == Cardinality(DOMAIN surv)
<1>1. /\ OrchTypes /\ GraphTypes /\ EdTypes /\ CutTypes /\ cut.pc = "commit"
  BY DEF TypeOK, commit
<1>2. /\ s \in Tasks /\ s \in Nat /\ g_task_id \in Nat /\ s < g_task_id
  <2>1. s \in Tasks /\ s + 1 \in 0 .. g_task_id /\ g_task_id \in 0 .. N
    BY <1>1, CommittedTask
  <2> QED BY <2>1, TasksAreNat
<1>3. ~Committed(s)
  BY <1>1, <1>2 DEF Committed, Committing
<1>4. /\ Idx(s) = s /\ s \in Rings /\ Tasks \subseteq Rings
  BY <1>2, IdxSame
<1>5. BasicType(Idx(s)) = TypeOf[s]
  <2>1. g_basic_buf[s] = s
    BY <1>2 DEF CreationInv, Created
  <2>2. s # INVALID
    BY <1>2, InvalidAssumption
  <2> QED BY <1>4, <2>1, <2>2 DEF BasicType
<1>6. /\ ed' = IF ED_ENABLE THEN [ed EXCEPT ![s] = m] ELSE ed
      /\ g_successor_buf' = IF ED_ENABLE THEN [g_successor_buf EXCEPT ![s] = <<>>]
                            ELSE g_successor_buf
      /\ g_state_buf' = [g_state_buf EXCEPT ![s] = st]
      /\ g_predecessor_cnt' = [g_predecessor_cnt EXCEPT ![s] = c]
      /\ \/ /\ DOMAIN surv = {} /\ g_commit_task_id' = s + 1
            /\ CommitLoop(s + 1, cut.end, PushReady(cut.ready, s))
            /\ g_predecessors' = [g_predecessors EXCEPT ![s] = <<>>]
         \/ /\ DOMAIN surv # {} /\ g_commit_task_id' = s
            /\ cut' = [cut EXCEPT !.pc = "edge", !.surv = surv]
            /\ g_predecessors' = g_predecessors
  BY <1>4 DEF commit
<1>7. /\ m.ring_task_tag = s /\ m.next_block = 0 /\ m.staged = INVALID /\ m.claimed = 0
      /\ m.spec = "NONE"
  BY DEF FreshMeta, NoEdMeta
<1>8. st.task_id = s /\ st.state = "SUBMITTED" /\ st.successor_cnt = 0
  OBVIOUS
<1>9. /\ g_state_buf \in [Rings -> TaskState] /\ g_successor_buf \in [Rings -> Seq(Tasks)]
      /\ g_predecessor_cnt \in [Rings -> Nat] /\ ed \in [Rings -> EdMeta]
      /\ g_predecessors \in [Rings -> PredLists] /\ cut \in CutRegs
  BY <1>1 DEF OrchTypes, GraphTypes, EdTypes, CutTypes
<1>10. cut'.batch = cut.batch /\ cut'.work = cut.work
       /\ \/ /\ DOMAIN surv = {} /\ g_commit_task_id' = s + 1
             /\ cut'.pc \in {"commit", "load", "send", "take"}
             /\ cut'.pc \in {"send", "take"} => cut.batch = <<>>
             /\ cut'.ready = [cut.ready EXCEPT ![TypeOf[s]] = Append(@, s)]
          \/ /\ DOMAIN surv # {} /\ g_commit_task_id' = s
             /\ cut'.pc = "edge" /\ cut'.surv = surv /\ cut'.ready = cut.ready
  <2>1. CASE DOMAIN surv = {}
    <3>1. /\ g_commit_task_id' = s + 1
          /\ CommitLoop(s + 1, cut.end, PushReady(cut.ready, s))
      BY <1>6, <2>1
    <3>2. PushReady(cut.ready, s) = [cut.ready EXCEPT ![TypeOf[s]] = Append(@, s)]
      BY <1>5 DEF PushReady
    <3> QED BY <2>1, <3>1, <3>2, CommitLoopFields
  <2>2. CASE DOMAIN surv # {}
    <3>1. g_commit_task_id' = s /\ cut' = [cut EXCEPT !.pc = "edge", !.surv = surv]
      BY <1>6, <2>2
    <3> HIDE DEF surv
    <3>2. /\ cut'.batch = cut.batch /\ cut'.work = cut.work
          /\ cut'.pc = "edge" /\ cut'.surv = surv /\ cut'.ready = cut.ready
      BY <1>9, <3>1 DEF CutRegs
    <3> QED BY <2>2, <3>1, <3>2
  <2> QED BY <2>1, <2>2
<1> HIDE DEF st, m, c, surv
<1>11. /\ g_state_buf'[s] = st /\ g_predecessor_cnt'[s] = c
       /\ g_successor_buf'[s] = IF ED_ENABLE THEN <<>> ELSE g_successor_buf[s]
       /\ ED_ENABLE => ed'[s] = m
  BY <1>4, <1>6, <1>9
<1>12. \A t \in Tasks : t # s =>
         /\ g_state_buf'[t] = g_state_buf[t] /\ g_successor_buf'[t] = g_successor_buf[t]
         /\ g_predecessor_cnt'[t] = g_predecessor_cnt[t] /\ ed'[t] = ed[t]
         /\ g_predecessors'[t] = g_predecessors[t]
  BY <1>4, <1>6, <1>9
<1> QED BY <1>1, <1>2, <1>3, <1>6, <1>7, <1>8, <1>10, <1>11, <1>12 DEF surv, c

(* The edges still to append are those of the task being committed; the    *)
(* next one leads from a committed task that has not completed.            *)
LEMMA EdgesToAppend ==
  ASSUME NoReuse, TypeOK, EntryInv, EdgeInv, cut.pc \in {"edge", "late"}
  PROVE  LET s == g_commit_task_id
             k == NextEdge
             p == cut.surv[k]
         IN
         /\ s \in Tasks /\ Committed(s)
         /\ k \in DOMAIN cut.surv /\ k \in DOMAIN Preds[s] /\ p = Preds[s][k] /\ p \in Tasks
         /\ p < s /\ Committed(p) /\ ~Completed(p)
         /\ DOMAIN LaterEdges = DOMAIN cut.surv \ {k}
         /\ \A j \in DOMAIN LaterEdges : LaterEdges[j] = cut.surv[j]
         /\ DOMAIN cut.surv \subseteq DOMAIN Preds[s]
         /\ \A j \in DOMAIN cut.surv : cut.surv[j] = Preds[s][j] /\ ~Completed(cut.surv[j])
<1> DEFINE s == g_commit_task_id
           k == NextEdge
           p == cut.surv[k]
<1>1. /\ OrchTypes /\ GraphTypes /\ CutTypes
  BY DEF TypeOK
<1>2. s \in Tasks /\ Committed(s)
  BY <1>1, CommittedTask DEF Committed, Committing
<1>3. cut.surv \in PredLists /\ DOMAIN cut.surv # {} /\ DOMAIN cut.surv \subseteq Nat
  <2>1. cut.surv \in PredLists /\ DOMAIN cut.surv # {}
    BY <1>1 DEF CutTypes, CutRegs
  <2> QED BY <2>1, SurvivorLists, PositionsFinite
<1>4. k \in DOMAIN cut.surv
  BY <1>3, LowestExists DEF NextEdge
<1>5. /\ DOMAIN cut.surv \subseteq DOMAIN Preds[s]
      /\ \A j \in DOMAIN cut.surv : cut.surv[j] = Preds[s][j] /\ ~Completed(cut.surv[j])
  BY DEF EdgeInv, ToSet
<1>6. p = Preds[s][k] /\ k \in DOMAIN Preds[s] /\ ~Completed(p) /\ p < s /\ p \in Tasks
  <2>1. p \in Tasks
    BY <1>3, <1>4, SurvivorLists
  <2> QED BY <1>2, <1>4, <1>5, <2>1 DEF NoReuse
<1>7. Committed(p)
  BY <1>6 DEF Committed
<1>8. /\ DOMAIN LaterEdges = DOMAIN cut.surv \ {k}
      /\ \A j \in DOMAIN LaterEdges : LaterEdges[j] = cut.surv[j]
  BY DEF LaterEdges, Restrict
<1> QED BY <1>2, <1>4, <1>5, <1>6, <1>7, <1>8

(* Appending the next edge.                                                *)
LEMMA EdgeStep ==
  ASSUME NoReuse, TypeOK, EntryInv, EdgeInv, edge
  PROVE  LET s == g_commit_task_id
             p == cut.surv[NextEdge]
         IN
         /\ cut.pc = "edge" /\ ed' = ed /\ g_predecessor_cnt' = g_predecessor_cnt
         /\ g_successor_buf'[p] = Append(g_successor_buf[p], s)
         /\ g_state_buf'[p].task_id = g_state_buf[p].task_id
         /\ g_state_buf'[p].state = g_state_buf[p].state
         /\ g_state_buf'[p].successor_cnt = g_state_buf[p].successor_cnt + 1
         /\ \A t \in Tasks : t # p => /\ g_state_buf'[t] = g_state_buf[t]
                                      /\ g_successor_buf'[t] = g_successor_buf[t]
         /\ \/ /\ cut'.pc = "late" /\ cut'.batch = cut.batch /\ cut'.work = cut.work
               /\ cut'.ready = cut.ready /\ cut'.surv = cut.surv
               /\ UNCHANGED <<g_predecessors, g_commit_task_id>>
            \/ EdgeDone
<1> DEFINE s == g_commit_task_id
           p == cut.surv[NextEdge]
           st == [g_state_buf[p] EXCEPT !.successor_cnt = @ + 1]
           sl == Append(g_successor_buf[p], s)
<1>1. cut.pc = "edge" /\ g_predecessor_cnt' = g_predecessor_cnt
  BY DEF edge
<1>2. p \in Tasks /\ Committed(p) /\ Idx(p) = p /\ p \in Rings /\ Tasks \subseteq Rings
  BY <1>1, EdgesToAppend, IdxSame
<1>3. ED_ENABLE => TagIs(p)
  BY <1>2 DEF EntryInv
<1>4. /\ g_successor_buf' = [g_successor_buf EXCEPT ![p] = sl]
      /\ g_state_buf' = [g_state_buf EXCEPT ![p] = st]
      /\ ed' = ed
      /\ \/ /\ cut' = [cut EXCEPT !.pc = "late"]
            /\ UNCHANGED <<g_predecessors, g_commit_task_id>>
         \/ EdgeDone
  BY <1>2, <1>3 DEF edge
<1>5. /\ g_state_buf \in [Rings -> TaskState] /\ g_successor_buf \in [Rings -> Seq(Tasks)]
      /\ cut \in CutRegs
  BY DEF TypeOK, GraphTypes, CutTypes
<1>6. /\ st.task_id = g_state_buf[p].task_id /\ st.state = g_state_buf[p].state
      /\ st.successor_cnt = g_state_buf[p].successor_cnt + 1
  <2> HIDE DEF p
  <2> QED BY <1>2, <1>5 DEF TaskState
<1>7. cut' = [cut EXCEPT !.pc = "late"] =>
        /\ cut'.pc = "late" /\ cut'.batch = cut.batch /\ cut'.work = cut.work
        /\ cut'.ready = cut.ready /\ cut'.surv = cut.surv
  BY <1>5 DEF CutRegs
<1> HIDE DEF st, sl, p
<1>8. /\ g_state_buf'[p] = st /\ g_successor_buf'[p] = sl
      /\ \A t \in Tasks : t # p => /\ g_state_buf'[t] = g_state_buf[t]
                                   /\ g_successor_buf'[t] = g_successor_buf[t]
  BY <1>2, <1>4, <1>5
<1> QED BY <1>1, <1>4, <1>6, <1>7, <1>8 DEF p, sl

(* A committed task is published, and its entry describes it.              *)
LEMMA CommittedIsCreated ==
  ASSUME NoReuse, TypeOK, CreationInv, NEW t \in Tasks, Committed(t)
  PROVE  t < g_task_id /\ BasicType(Idx(t)) = TypeOf[t] /\ CountOf(Idx(t)) = Count[t]
<1>1. OrchTypes /\ GraphTypes /\ CutTypes /\ t \in Nat /\ Idx(t) = t
  BY TasksAreNat, IdxSame DEF TypeOK
<1>2. g_task_id \in Nat /\ g_commit_task_id \in 0 .. g_task_id
  BY <1>1, ConfigAssumption DEF OrchTypes, GraphTypes
<1>3. t < g_task_id
  <2>1. CASE t < g_commit_task_id
    BY <1>1, <1>2, <2>1
  <2>2. CASE Committing(t)
    <3>1. g_commit_task_id + 1 \in 0 .. g_task_id
      BY <1>1, <2>2, CommittedTask DEF Committing
    <3> QED BY <1>2, <2>2, <3>1 DEF Committing
  <2> QED BY <2>1, <2>2 DEF Committed
<1>4. g_basic_buf[t] = t /\ t # INVALID
  BY <1>3, InvalidAssumption DEF CreationInv, Created
<1> QED BY <1>1, <1>3, <1>4 DEF BasicType, CountOf

(* The two outcomes of counting a successor down.                          *)
LEMMA ResolveStep ==
  ASSUME NoReuse, TypeOK, CreationInv, EdgeInv, resolve_dep
  PROVE  LET s == Head(cut.work)
             n == Dec(g_predecessor_cnt[s], UINT32_MAX)
         IN
         /\ cut.pc = "resolve" /\ cut.work # <<>> /\ s \in Tasks /\ Committed(s)
         /\ g_predecessor_cnt'[s] = n
         /\ \A t \in Tasks : t # s => g_predecessor_cnt'[t] = g_predecessor_cnt[t]
         /\ UNCHANGED <<g_commit_task_id, g_state_buf, g_successor_buf, g_predecessors>>
         /\ ED_ENABLE => /\ ed'[s].ring_task_tag = ed[s].ring_task_tag
                         /\ ed'[s].next_block = ed[s].next_block
                         /\ ed'[s].staged = ed[s].staged /\ ed'[s].claimed = ed[s].claimed
                         /\ ed'[s].spec = IF n = 0 THEN "DISPATCHED" ELSE ed[s].spec
         /\ ~ED_ENABLE => ed' = ed
         /\ \A t \in Tasks : t # s => ed'[t] = ed[t]
         /\ \/ /\ n = 0 /\ ED_ENABLE /\ ed[s].spec = "STAGING"
               /\ cut'.pc = "hook2" /\ cut'.work = cut.work /\ cut'.batch = cut.batch
               /\ cut'.ready = cut.ready
            \/ /\ n = 0 /\ (ED_ENABLE => ed[s].spec # "STAGING")
               /\ Resolved([cut.ready EXCEPT ![TypeOf[s]] = Append(@, s)])
            \/ n # 0 /\ Resolved(cut.ready)
<1> DEFINE s == Head(cut.work)
           n == Dec(g_predecessor_cnt[s], UINT32_MAX)
           u == Dec(ed[s].unfin, UINT16_MAX)
           sp == IF n = 0 THEN "DISPATCHED" ELSE ed[s].spec
           m == [ed[s] EXCEPT !.unfin = u, !.spec = sp]
<1>1. /\ cut.pc = "resolve" /\ cut \in CutRegs /\ cut.work # <<>>
      /\ cut.work \in Seq(Tasks)
  BY DEF resolve_dep, TypeOK, CutTypes, CutRegs
<1>2. s \in Tasks /\ Committed(s)
  BY <1>1, TailOfList DEF EdgeInv
<1>3. Idx(s) = s /\ s \in Rings /\ Tasks \subseteq Rings
  BY <1>2, IdxSame
<1>4. PushReady(cut.ready, s) = [cut.ready EXCEPT ![TypeOf[s]] = Append(@, s)]
  BY <1>2, CommittedIsCreated DEF PushReady
<1>5. /\ g_predecessor_cnt' = [g_predecessor_cnt EXCEPT ![s] = n]
      /\ UNCHANGED <<g_commit_task_id, g_state_buf, g_successor_buf, g_predecessors>>
      /\ ED_ENABLE => ed' = [ed EXCEPT ![s].unfin = Dec(@, UINT16_MAX),
                              ![s].spec = IF BecomesReady(n) THEN "DISPATCHED" ELSE @]
      /\ ~ED_ENABLE => ed' = ed
      /\ IF n = 0
         THEN IF ED_ENABLE /\ ed[s].spec = "STAGING"
              THEN cut' = [cut EXCEPT !.pc = "hook2"]
              ELSE Resolved(PushReady(cut.ready, s))
         ELSE Resolved(cut.ready)
  BY <1>3 DEF resolve_dep, BecomesReady
<1>6. /\ g_predecessor_cnt \in [Rings -> Nat] /\ ed \in [Rings -> EdMeta]
  BY DEF TypeOK, GraphTypes, EdTypes
<1>7. ED_ENABLE => ed' = [ed EXCEPT ![s] = m]
  <2> HIDE DEF s, n
  <2>1. BecomesReady(n) <=> n = 0
    BY DEF BecomesReady
  <2> QED BY <1>3, <1>5, <1>6, <2>1 DEF EdMeta
<1>8. /\ m.ring_task_tag = ed[s].ring_task_tag
      /\ m.next_block = ed[s].next_block
      /\ m.staged = ed[s].staged /\ m.claimed = ed[s].claimed
      /\ m.spec = sp
  <2> HIDE DEF s, u, sp
  <2> QED BY <1>3, <1>6 DEF EdMeta
<1>9. cut' = [cut EXCEPT !.pc = "hook2"] =>
         /\ cut'.pc = "hook2" /\ cut'.work = cut.work /\ cut'.batch = cut.batch
         /\ cut'.ready = cut.ready
  BY <1>1 DEF CutRegs
<1> HIDE DEF s, m, sp, n
<1>10. /\ g_predecessor_cnt'[s] = n
       /\ \A t \in Tasks : t # s => g_predecessor_cnt'[t] = g_predecessor_cnt[t]
       /\ \A t \in Tasks : t # s => ed'[t] = ed[t]
       /\ ED_ENABLE => ed'[s] = m
  <2>1. ED_ENABLE \in BOOLEAN
    BY ConfigAssumption
  <2> QED BY <1>3, <1>5, <1>6, <1>7, <2>1
<1>11. \/ /\ n = 0 /\ ED_ENABLE /\ ed[s].spec = "STAGING"
          /\ cut'.pc = "hook2" /\ cut'.work = cut.work /\ cut'.batch = cut.batch
          /\ cut'.ready = cut.ready
       \/ /\ n = 0 /\ (ED_ENABLE => ed[s].spec # "STAGING")
          /\ Resolved([cut.ready EXCEPT ![TypeOf[s]] = Append(@, s)])
       \/ n # 0 /\ Resolved(cut.ready)
  BY <1>4, <1>5, <1>9
<1> QED BY <1>1, <1>2, <1>5, <1>8, <1>10, <1>11 DEF s, n, sp

(* Committed is what commit makes, and it stays.                           *)
LEMMA CommittedMoves ==
  ASSUME NoReuse, TypeOK, CreationInv, EntryInv, EdgeInv, CutterNext
  PROVE  \A t \in Tasks :
           Committed(t)' <=> Committed(t) \/ (commit /\ t = g_commit_task_id)
<1>1. /\ g_commit_task_id \in Nat /\ Tasks \subseteq Nat
  BY ConfigAssumption, TasksAreNat DEF TypeOK, OrchTypes, GraphTypes
<1>2. CASE commit
  <2>1. /\ cut.pc = "commit"
        /\ \/ g_commit_task_id' = g_commit_task_id + 1 /\ cut'.pc \notin {"edge", "late"}
           \/ g_commit_task_id' = g_commit_task_id /\ cut'.pc = "edge"
    BY <1>2, CommitStep
  <2> QED BY <1>1, <1>2, <2>1 DEF Committed, Committing
<1>3. CASE edge \/ late_arrival
  <2>1. cut.pc \in {"edge", "late"} /\ ~commit
    BY <1>3 DEF edge, late_arrival, commit
  <2>2. \/ cut'.pc = "late" /\ g_commit_task_id' = g_commit_task_id
        \/ EdgeDone
    BY <1>3, EdgeStep DEF late_arrival
  <2>3. \/ cut'.pc \in {"edge", "late"} /\ g_commit_task_id' = g_commit_task_id
        \/ cut'.pc \notin {"edge", "late"} /\ g_commit_task_id' = g_commit_task_id + 1
    BY <2>1, <2>2, EdgeDoneFields
  <2> QED BY <1>1, <2>1, <2>3 DEF Committed, Committing
<1>4. CASE CutterNext /\ ~commit /\ ~edge /\ ~late_arrival
  <2>1. g_commit_task_id' = g_commit_task_id
    BY <1>4 DEF CutterNext, take_completed, cutter_exit, add_successors_enter,
       resolve_dep_load, resolve_dep, hook2, send_2_ready_queue, graphVars
  <2>2. cut.pc \notin {"edge", "late"} /\ cut'.pc \notin {"edge", "late"}
    <3>1. CASE resolve_dep
      BY <3>1, ResolveStep, ResolvedFields
    <3>2. CASE hook2
      <4>1. cut.pc = "hook2" /\ \E r : Resolved(r)
        BY <3>2 DEF hook2
      <4> QED BY <4>1, ResolvedFields
    <3>3. CASE ~resolve_dep /\ ~hook2
      BY <1>4, <3>3, RoundFields DEF CutterNext
    <3> QED BY <3>1, <3>2, <3>3
  <2> QED BY <1>4, <2>1, <2>2 DEF Committed, Committing
<1> QED BY <1>2, <1>3, <1>4

(* Taking completed tasks marks their entries, and only theirs.            *)
LEMMA TakeStep ==
  ASSUME NoReuse, TypeOK, EntryInv, take_completed,
         \A t \in ToSet(completed_queue) : Committed(t)
  PROVE  /\ cut'.batch \in Seq(Tasks) /\ completed_queue' \in Seq(Tasks)
         /\ completed_queue = cut'.batch \o completed_queue'
         /\ UNCHANGED <<g_commit_task_id, g_successor_buf, g_predecessor_cnt, ed, g_predecessors>>
         /\ \A t \in Tasks :
              /\ g_state_buf'[t].task_id = g_state_buf[t].task_id
              /\ g_state_buf'[t].successor_cnt = g_state_buf[t].successor_cnt
              /\ IF t \in ToSet(cut'.batch) THEN Committed(t) /\ Completed(t)'
                                            ELSE g_state_buf'[t] = g_state_buf[t]
<1> DEFINE n == IF Len(completed_queue) <= CQ_BATCH_SIZE THEN Len(completed_queue)
                                                         ELSE CQ_BATCH_SIZE
           done == SubSeq(completed_queue, 1, n)
           rest == SubSeq(completed_queue, n + 1, Len(completed_queue))
           sb == MarkCompleted(done)
<1>1. /\ completed_queue' = rest /\ g_state_buf' = sb
      /\ cut' = [cut EXCEPT !.pc = "enter", !.batch = done]
      /\ UNCHANGED <<g_commit_task_id, g_successor_buf, g_predecessor_cnt, ed, g_predecessors>>
  BY DEF take_completed
<1>2. /\ completed_queue \in Seq(Tasks) /\ Len(completed_queue) \in Nat
      /\ n \in 0 .. Len(completed_queue)
  BY ConfigAssumption, LenProperties DEF TypeOK, QueueTypes
<1>3. /\ done \in Seq(Tasks) /\ rest \in Seq(Tasks) /\ completed_queue = done \o rest
  <2> HIDE DEF n
  <2> QED BY <1>2, CutList
<1>4. cut'.batch = done
  <2>1. cut \in CutRegs
    BY DEF TypeOK, CutTypes
  <2> HIDE DEF done
  <2> QED BY <1>1, <2>1 DEF CutRegs
<1> HIDE DEF n, done, rest
<1>5. \A t \in ToSet(done) : Committed(t)
  BY <1>3, ConcatLists
<1>6. ASSUME NEW t \in Tasks
      PROVE  /\ sb[t].task_id = g_state_buf[t].task_id
             /\ sb[t].successor_cnt = g_state_buf[t].successor_cnt
             /\ IF t \in ToSet(done) THEN Committed(t) /\ sb[t].state = "COMPLETED"
                ELSE sb[t] = g_state_buf[t]
  <2>1. t \in Rings /\ Idx(t) = t /\ g_state_buf[t] \in TaskState
    BY IdxSame DEF TypeOK, GraphTypes
  <2> DEFINE Marked == \E k \in DOMAIN done : Idx(done[k]) = t /\ g_state_buf[t].task_id = done[k]
             st == [g_state_buf[t] EXCEPT !.state = "COMPLETED"]
  <2>2. sb[t] = IF Marked THEN st ELSE g_state_buf[t]
    BY <2>1 DEF MarkCompleted
  <2>3. Marked <=> t \in ToSet(done)
    <3>1. \A k \in DOMAIN done : done[k] \in Tasks /\ Idx(done[k]) = done[k]
      BY <1>3, ListFacts, IdxSame
    <3>2. t \in ToSet(done) => g_state_buf[t].task_id = t
      BY <1>5 DEF EntryInv
    <3> QED BY <3>1, <3>2 DEF ToSet
  <2>4. /\ st.task_id = g_state_buf[t].task_id /\ st.state = "COMPLETED"
        /\ st.successor_cnt = g_state_buf[t].successor_cnt
    BY <2>1 DEF TaskState
  <2> HIDE DEF Marked, st
  <2> QED BY <1>5, <2>2, <2>3, <2>4
<1> HIDE DEF sb
<1> QED BY <1>1, <1>3, <1>4, <1>6 DEF Completed

(* The entries stay untouched until the commit, and are then the task's.   *)
LEMMA TagsOfCutter ==
  ASSUME NoReuse, TypeOK, CutterNext, ~commit, EntryInv, EdgeInv, CreationInv, ED_ENABLE
  PROVE  \A t \in Tasks : ed'[t].ring_task_tag = ed[t].ring_task_tag
<1>1. CASE edge
  BY <1>1, EdgeStep
<1>2. CASE late_arrival
  <2>1. g_commit_task_id \in Tasks
    BY <1>2, CommittedTask DEF late_arrival, TypeOK
  <2> QED BY <1>2, <2>1, CreditKeeps DEF late_arrival, MetaHeld
<1>3. CASE resolve_dep
  BY <1>3, ResolveStep
<1>4. CASE hook2
  <2>1. \/ ed' = ed
        \/ \E t : ed' = [ed EXCEPT ![t].claimed = 1]
    BY <1>4 DEF hook2, ed_notify_once
  <2>2. ed \in [Rings -> EdMeta] /\ Tasks \subseteq Rings
    BY IdxSame DEF TypeOK, EdTypes
  <2>3. ASSUME NEW u, ed' = [ed EXCEPT ![u].claimed = 1], NEW t \in Tasks
        PROVE  ed'[t].ring_task_tag = ed[t].ring_task_tag
    BY <2>2, <2>3 DEF EdMeta
  <2> QED BY <2>1, <2>3
<1>5. CASE ~edge /\ ~late_arrival /\ ~resolve_dep /\ ~hook2
  BY <1>5 DEF CutterNext, take_completed, cutter_exit, add_successors_enter,
       resolve_dep_load, send_2_ready_queue
<1> QED BY <1>1, <1>2, <1>3, <1>4, <1>5

(* The cutter keeps entries and lists of edges in step with commits.       *)
LEMMA CutterKeepsEntries ==
  ASSUME NoReuse, TypeOK, CreationInv, EntryInv, EdgeInv, CutterNext,
         \A t \in ToSet(completed_queue) : Committed(t)
  PROVE  EntryInv'
<1>1. \A t \in Tasks : Committed(t)' <=> Committed(t) \/ (commit /\ t = g_commit_task_id)
  BY CommittedMoves
<1>2. \A t \in Tasks : Idx(t) = t
  BY IdxSame
<1>3. CASE commit
  <2> DEFINE s == g_commit_task_id
  <2>1. /\ s \in Tasks /\ ~Committed(s)
        /\ g_state_buf'[s].task_id = s /\ g_state_buf'[s].state = "SUBMITTED"
        /\ g_state_buf'[s].successor_cnt = 0
        /\ g_successor_buf'[s] = IF ED_ENABLE THEN <<>> ELSE g_successor_buf[s]
        /\ ED_ENABLE => ed'[s].ring_task_tag = s
        /\ \A t \in Tasks : t # s =>
             /\ g_state_buf'[t] = g_state_buf[t] /\ g_successor_buf'[t] = g_successor_buf[t]
             /\ ed'[t] = ed[t]
    BY <1>3, CommitStep
  <2>2. g_successor_buf'[s] = <<>> /\ Len(<<>>) = 0
    BY <2>1, EmptySeq DEF EntryInv, Untouched
  <2> HIDE DEF s
  <2>3. ASSUME NEW t \in Tasks
        PROVE  /\ g_state_buf'[t].successor_cnt = Len(g_successor_buf'[t])
               /\ Committed(t)' => g_state_buf'[t].task_id = t /\ g_state_buf'[t].state # "CREATING"
               /\ ~Committed(t)' => g_state_buf'[t].state = "CREATING" /\ g_successor_buf'[t] = <<>>
               /\ ED_ENABLE => (ed'[t].ring_task_tag = t <=> Committed(t)')
    BY <1>1, <1>2, <1>3, <2>1, <2>2 DEF EntryInv, Untouched, TagIs, s
  <2> QED BY <1>2, <2>3 DEF EntryInv, Untouched, TagIs
<1>4. CASE CutterNext /\ ~commit
  <2>1. \A t \in Tasks : Committed(t)' <=> Committed(t)
    BY <1>1, <1>4
  <2>2. ED_ENABLE => \A t \in Tasks : ed'[t].ring_task_tag = ed[t].ring_task_tag
    BY <1>4, TagsOfCutter
  <2>3. ASSUME NEW t \in Tasks
        PROVE  /\ g_state_buf'[t].successor_cnt = Len(g_successor_buf'[t])
               /\ g_state_buf'[t].task_id = g_state_buf[t].task_id
               /\ g_state_buf'[t].state = "CREATING" <=> g_state_buf[t].state = "CREATING"
               /\ ~Committed(t) => g_successor_buf'[t] = g_successor_buf[t]
    <3>1. CASE take_completed
      BY <3>1, TakeStep DEF EntryInv, Completed
    <3>2. CASE edge
      <4> DEFINE p == cut.surv[NextEdge]
      <4>1. /\ p \in Tasks /\ Committed(p) /\ g_commit_task_id \in Tasks
        BY <3>2, EdgesToAppend DEF edge
      <4>2. /\ g_successor_buf'[p] = Append(g_successor_buf[p], g_commit_task_id)
            /\ g_state_buf'[p].task_id = g_state_buf[p].task_id
            /\ g_state_buf'[p].state = g_state_buf[p].state
            /\ g_state_buf'[p].successor_cnt = g_state_buf[p].successor_cnt + 1
            /\ \A x \in Tasks : x # p => /\ g_state_buf'[x] = g_state_buf[x]
                                         /\ g_successor_buf'[x] = g_successor_buf[x]
        BY <3>2, EdgeStep
      <4>3. g_successor_buf[p] \in Seq(Tasks)
        BY <4>1, IdxSame DEF TypeOK, GraphTypes
      <4>4. Len(g_successor_buf'[p]) = Len(g_successor_buf[p]) + 1
        BY <4>1, <4>2, <4>3, AppendProperties
      <4> HIDE DEF p
      <4> QED BY <4>1, <4>2, <4>4 DEF EntryInv
    <3>3. CASE ~take_completed /\ ~edge
      <4>1. UNCHANGED <<g_state_buf, g_successor_buf>>
        BY <1>4, <3>3 DEF CutterNext, cutter_exit, add_successors_enter, late_arrival,
           resolve_dep_load, resolve_dep, hook2, send_2_ready_queue, graphVars
      <4> QED BY <4>1 DEF EntryInv
    <3> QED BY <3>1, <3>2, <3>3
  <2> QED BY <1>2, <2>1, <2>2, <2>3 DEF EntryInv, Untouched, TagIs
<1> QED BY <1>3, <1>4

(* The survivors of the first pass, and why the others were left out.      *)
LEMMA SurvivorsAre ==
  ASSUME NoReuse, TypeOK, CreationInv, EntryInv, NEW s \in Tasks,
         s < g_task_id, ~Committed(s), \A p \in Tasks : p < s => Committed(p)
  PROVE  /\ DOMAIN Survivors(s) \subseteq DOMAIN Preds[s]
         /\ \A k \in DOMAIN Survivors(s) : /\ Survivors(s)[k] = Preds[s][k]
                                           /\ ~Completed(Survivors(s)[k])
         /\ \A k \in DOMAIN Preds[s] :
              k \notin DOMAIN Survivors(s) => Ran(Preds[s][k]) \/ Completed(Preds[s][k])
<1> DEFINE ptr == g_predecessors[s]
           all == {k \in DOMAIN ptr : Survives(ptr[k])}
           D == {k \in all : Cardinality({j \in all : j < k}) < CON_NODE_CNT}
<1>1. Survivors(s) = Restrict(ptr, D)
  BY IdxSame DEF Survivors
<1>2. ListKeeps(s)
  BY DEF CreationInv, Listed
<1>3. /\ Preds[s] \in Seq(Tasks) /\ DOMAIN Preds[s] = 1 .. Len(Preds[s])
      /\ Len(Preds[s]) \in Nat /\ Len(Preds[s]) <= CON_NODE_CNT /\ CON_NODE_CNT \in Nat
      /\ \A k \in DOMAIN Preds[s] : Preds[s][k] \in Tasks /\ Preds[s][k] < s
  <2>1. Preds[s] \in Seq(Tasks)
    BY GraphAssumption
  <2> QED BY <2>1, ListFacts, ConfigAssumption DEF NoReuse
<1>4. /\ DOMAIN ptr \subseteq DOMAIN Preds[s]
      /\ \A k \in DOMAIN ptr : ptr[k] = Preds[s][k]
      /\ \A k \in DOMAIN Preds[s] : k \notin DOMAIN ptr => Ran(Preds[s][k])
  BY <1>2 DEF ListKeeps
<1>5. \A k \in DOMAIN ptr : Survives(ptr[k]) <=> ~Completed(ptr[k])
  <2> TAKE k \in DOMAIN ptr
  <2>1. /\ ptr[k] \in Tasks /\ Committed(ptr[k]) /\ Idx(ptr[k]) = ptr[k]
    BY <1>3, <1>4, IdxSame
  <2>2. g_state_buf[ptr[k]].task_id = ptr[k]
    BY <2>1 DEF EntryInv
  <2> QED BY <2>1, <2>2 DEF Survives, Completed
<1> HIDE DEF ptr
<1>6. D = all
  <2> SUFFICES ASSUME NEW k \in all
               PROVE  Cardinality({j \in all : j < k}) < CON_NODE_CNT
    OBVIOUS
  <2>1. k \in 1 .. Len(Preds[s])
    BY <1>3, <1>4
  <2>2. {j \in all : j < k} \in SUBSET (1 .. k - 1)
    BY <1>3, <1>4, <2>1
  <2>3. IsFiniteSet(1 .. k - 1) /\ Cardinality(1 .. k - 1) = k - 1
    <3>1. 1 \in Int /\ k - 1 \in Int /\ (1 > k - 1 => k - 1 = 0) /\ (k - 1) - 1 + 1 = k - 1
      BY <1>3, <2>1
    <3> QED BY <3>1, FS_Interval
  <2> HIDE DEF all
  <2>4. /\ Cardinality({j \in all : j < k}) <= k - 1
        /\ Cardinality({j \in all : j < k}) \in Nat
    BY <2>2, <2>3, FS_Subset, FS_CardinalityType
  <2> QED BY <1>3, <2>1, <2>4
<1>7. /\ DOMAIN Survivors(s) = all
      /\ \A k \in all : Survivors(s)[k] = ptr[k]
  <2> HIDE DEF D, all
  <2> QED BY <1>1, <1>6 DEF Restrict
<1> QED BY <1>4, <1>5, <1>7

(* A state that is completed stays so, and only a taken task completes.    *)
LEMMA CompletedMoves ==
  ASSUME NoReuse, TypeOK, CreationInv, EntryInv, EdgeInv, CutterNext,
         \A t \in ToSet(completed_queue) : Committed(t)
  PROVE  \A t \in Tasks :
           Completed(t)' <=> Completed(t) \/ (take_completed /\ t \in ToSet(cut'.batch))
<1>1. CASE commit
  <2>1. ~take_completed
    BY <1>1 DEF commit, take_completed
  <2>2. ~Completed(g_commit_task_id) /\ g_state_buf'[g_commit_task_id].state # "COMPLETED"
    BY <1>1, CommitStep DEF EntryInv, Untouched, Completed
  <2> QED BY <1>1, <2>1, <2>2, CommitStep DEF Completed
<1>2. CASE edge
  <2>1. ~take_completed
    BY <1>2 DEF edge, take_completed
  <2> QED BY <1>2, <2>1, EdgeStep DEF Completed
<1>3. CASE take_completed
  BY <1>3, TakeStep DEF Completed
<1>4. CASE ~commit /\ ~edge /\ ~take_completed
  <2>1. UNCHANGED g_state_buf
    BY <1>4 DEF CutterNext, cutter_exit, add_successors_enter, late_arrival,
       resolve_dep_load, resolve_dep, hook2, send_2_ready_queue, graphVars
  <2> QED BY <1>4, <2>1 DEF Completed
<1> QED BY <1>1, <1>2, <1>3, <1>4

(* The list resolve_dep walks is the whole successor list.                 *)
LEMMA LoadStep ==
  ASSUME NoReuse, TypeOK, EntryInv, RoundInv, resolve_dep_load
  PROVE  LET p == Head(cut.batch) IN
         /\ p \in Tasks /\ p \in ToSet(cut.batch) /\ Completed(p)
         /\ p \notin ToSet(Tail(cut.batch)) /\ Distinct(Tail(cut.batch))
         /\ ToSet(cut.batch) = ToSet(Tail(cut.batch)) \cup {p}
         /\ cut'.work = g_successor_buf[p] /\ g_successor_buf[p] \in Seq(Tasks)
         /\ Tail(cut.batch) \in Seq(Tasks)
         /\ UNCHANGED <<g_commit_task_id, g_state_buf, g_successor_buf, g_predecessor_cnt>>
<1> DEFINE p == Head(cut.batch)
<1>1. /\ cut.pc = "load" /\ cut.batch \in Seq(Tasks) /\ cut.batch # <<>>
  BY DEF resolve_dep_load, TypeOK, CutTypes, CutRegs
<1>2. /\ p \in Tasks /\ ToSet(cut.batch) = ToSet(Tail(cut.batch)) \cup {p}
      /\ p \notin ToSet(Tail(cut.batch)) /\ Distinct(Tail(cut.batch))
      /\ Tail(cut.batch) \in Seq(Tasks)
  BY <1>1, TailOfList DEF RoundInv
<1>3. Completed(p)
  BY <1>1, <1>2, ListFacts DEF RoundInv
<1>4. g_successor_buf[p] \in Seq(Tasks) /\ Idx(p) = p
  BY <1>2, IdxSame DEF TypeOK, GraphTypes
<1>5. cut'.work = SuccessorsOf(p)
  BY RoundFields
<1>6. g_state_buf[p].successor_cnt = Len(g_successor_buf[p])
  BY <1>2 DEF EntryInv
<1>7. SuccessorsOf(p) = g_successor_buf[p]
  <2>1. SuccessorsOf(p) = SubSeq(g_successor_buf[p], 1, Len(g_successor_buf[p]))
    BY <1>4, <1>6 DEF SuccessorsOf
  <2> QED BY <1>4, <2>1, SubSeqFull
<1>8. UNCHANGED <<g_commit_task_id, g_state_buf, g_successor_buf, g_predecessor_cnt>>
  BY DEF resolve_dep_load, graphVars
<1> QED BY <1>2, <1>3, <1>4, <1>5, <1>7, <1>8

(* What the rest of the round does to the lists: a step of the walk drops  *)
(* its first successor, or waits for hook2 to.                             *)
LEMMA WalkedList ==
  ASSUME NoReuse, TypeOK, CreationInv, EdgeInv, resolve_dep \/ hook2
  PROVE  /\ cut.work \in Seq(Tasks) /\ cut.work # <<>> /\ cut'.batch = cut.batch
         /\ resolve_dep => cut.pc = "resolve"
         /\ hook2 => cut.pc = "hook2" /\ cut'.pc # "hook2"
         /\ \/ resolve_dep /\ cut'.pc = "hook2" /\ cut'.work = cut.work /\ ED_ENABLE
            \/ /\ cut'.work = Tail(cut.work)
               /\ cut'.pc \in {"resolve", "load", "send", "take"}
               /\ cut'.pc # "resolve" => cut'.work = <<>>
               /\ cut'.pc \in {"send", "take"} => cut'.batch = <<>>
<1>1. CASE resolve_dep
  <2>1. cut.work \in Seq(Tasks)
    BY DEF TypeOK, CutTypes, CutRegs
  <2>2. /\ cut.pc = "resolve" /\ cut.work # <<>>
        /\ \/ cut'.pc = "hook2" /\ cut'.work = cut.work /\ ED_ENABLE /\ cut'.batch = cut.batch
           \/ \E r : Resolved(r)
    BY <1>1, ResolveStep
  <2>3. ~hook2
    BY <1>1 DEF resolve_dep, hook2
  <2> QED BY <1>1, <2>1, <2>2, <2>3, ResolvedFields
<1>2. CASE hook2
  <2>1. cut.pc = "hook2" /\ \E r : Resolved(r)
    BY <1>2 DEF hook2
  <2>2. cut.work \in Seq(Tasks) /\ cut.work # <<>> /\ ~resolve_dep
    BY <2>1 DEF TypeOK, CutTypes, CutRegs, resolve_dep
  <2> QED BY <2>1, <2>2, ResolvedFields
<1> QED BY <1>1, <1>2

(* Edges lead to committed tasks, and only from tasks not completed.       *)
LEMMA CutterKeepsEdges ==
  ASSUME NoReuse, TypeOK, CreationInv, EntryInv, EdgeInv, RoundInv, CutterNext,
         \A t \in ToSet(completed_queue) : Committed(t)
  PROVE  EdgeInv'
<1>1. \A t \in Tasks : Committed(t) => Committed(t)'
  BY CommittedMoves
<1>2. /\ cut.work \in Seq(Tasks) /\ ToSet(cut.work) \subseteq Tasks
      /\ \A p \in Tasks : /\ g_successor_buf[p] \in Seq(Tasks)
                          /\ ToSet(g_successor_buf[p]) \subseteq Tasks
  <2>1. cut.work \in Seq(Tasks) /\ \A p \in Tasks : g_successor_buf[p] \in Seq(Tasks)
    BY IdxSame DEF TypeOK, GraphTypes, CutTypes, CutRegs
  <2> QED BY <2>1, ListFacts
<1>3. \A p \in Tasks : \A t \in ToSet(g_successor_buf'[p]) : Committed(t)'
  <2>1. CASE commit
    <3>1. \A p \in Tasks : g_successor_buf'[p] = g_successor_buf[p] \/ g_successor_buf'[p] = <<>>
      BY <2>1, CommitStep
    <3> QED BY <1>1, <1>2, <3>1, EmptyList DEF EdgeInv
  <2>2. CASE edge
    <3>1. g_commit_task_id \in Tasks /\ cut.surv[NextEdge] \in Tasks
          /\ Committed(g_commit_task_id)
      BY <2>2, EdgesToAppend DEF edge
    <3>2. /\ g_successor_buf'[cut.surv[NextEdge]]
             = Append(g_successor_buf[cut.surv[NextEdge]], g_commit_task_id)
          /\ \A p \in Tasks : p # cut.surv[NextEdge] => g_successor_buf'[p] = g_successor_buf[p]
      BY <2>2, EdgeStep
    <3>3. \A p \in Tasks : ToSet(g_successor_buf'[p])
             \subseteq ToSet(g_successor_buf[p]) \cup {g_commit_task_id}
      <4>1. ToSet(Append(g_successor_buf[cut.surv[NextEdge]], g_commit_task_id))
              = ToSet(g_successor_buf[cut.surv[NextEdge]]) \cup {g_commit_task_id}
        BY <1>2, <3>1, AppendToList
      <4> QED BY <3>2, <4>1
    <3>4. \A p \in Tasks : \A t \in ToSet(g_successor_buf'[p]) : t \in Tasks /\ Committed(t)
      BY <1>2, <3>1, <3>3 DEF EdgeInv
    <3> QED BY <1>1, <3>4
  <2>3. CASE ~commit /\ ~edge
    <3>1. UNCHANGED g_successor_buf
      BY <2>3 DEF CutterNext, take_completed, cutter_exit, add_successors_enter, late_arrival,
         resolve_dep_load, resolve_dep, hook2, send_2_ready_queue, graphVars
    <3> QED BY <1>1, <1>2, <3>1 DEF EdgeInv
  <2> QED BY <2>1, <2>2, <2>3
<1>4. \A t \in ToSet(cut'.work) : Committed(t)'
  <2>1. CASE resolve_dep_load
    <3>1. /\ Head(cut.batch) \in Tasks /\ cut'.work = g_successor_buf[Head(cut.batch)]
          /\ UNCHANGED g_successor_buf
      BY <2>1, LoadStep
    <3> QED BY <1>3, <3>1
  <2>2. CASE resolve_dep \/ hook2
    <3>1. /\ cut.work # <<>>
          /\ cut'.work = cut.work \/ cut'.work = Tail(cut.work)
      BY <2>2, WalkedList
    <3>2. ToSet(cut'.work) \subseteq ToSet(cut.work)
      BY <1>2, <3>1, TailOfList
    <3> QED BY <1>1, <1>2, <3>2 DEF EdgeInv
  <2>3. CASE ~resolve_dep_load /\ ~resolve_dep /\ ~hook2
    <3>1. cut'.work = cut.work
      <4>1. CASE edge \/ late_arrival
        <5>1. cut.pc \in {"edge", "late"} /\ (cut'.work = cut.work \/ EdgeDone)
          BY <4>1, EdgeStep DEF late_arrival
        <5> QED BY <5>1, EdgeDoneFields
      <4>2. CASE commit
        BY <4>2, CommitStep
      <4>3. CASE ~edge /\ ~late_arrival /\ ~commit
        BY <2>3, <4>3, RoundFields DEF CutterNext
      <4> QED BY <4>1, <4>2, <4>3
    <3> QED BY <1>1, <1>2, <3>1 DEF EdgeInv
  <2> QED BY <2>1, <2>2, <2>3
<1>5. ASSUME cut'.pc \in {"edge", "late"}
      PROVE  /\ DOMAIN cut'.surv \subseteq DOMAIN Preds[g_commit_task_id']
             /\ \A k \in DOMAIN cut'.surv : cut'.surv[k] = Preds[g_commit_task_id'][k]
             /\ \A t \in ToSet(cut'.surv) : ~Completed(t)'
  <2>1. CASE commit
    <3> DEFINE s == g_commit_task_id
    <3>1. /\ cut.pc = "commit" /\ s \in Tasks /\ s < g_task_id /\ ~Committed(s)
          /\ cut'.surv = Survivors(s) /\ g_commit_task_id' = s
      BY <1>5, <2>1, CommitStep
    <3>2. \A p \in Tasks : p < s => Committed(p)
      BY DEF Committed
    <3>3. /\ DOMAIN Survivors(s) \subseteq DOMAIN Preds[s]
          /\ \A k \in DOMAIN Survivors(s) : /\ Survivors(s)[k] = Preds[s][k]
                                            /\ ~Completed(Survivors(s)[k])
      BY <3>1, <3>2, SurvivorsAre
    <3>4. ~take_completed
      BY <2>1 DEF commit, take_completed
    <3>5. \A k \in DOMAIN Survivors(s) : Survivors(s)[k] \in Tasks
      BY <3>1, CommitData, SurvivorLists
    <3>6. \A t \in Tasks : Completed(t)' <=> Completed(t)
      BY <3>4, CompletedMoves
    <3>7. \A t \in ToSet(Survivors(s)) : t \in Tasks /\ ~Completed(t)
      BY <3>3, <3>5 DEF ToSet
    <3> QED BY <3>1, <3>3, <3>6, <3>7
  <2>2. CASE edge \/ late_arrival
    <3>1. cut.pc \in {"edge", "late"} /\ ~take_completed
      BY <2>2 DEF edge, late_arrival, take_completed
    <3>2. \/ cut'.surv = cut.surv /\ g_commit_task_id' = g_commit_task_id
          \/ EdgeDone
      BY <2>2, EdgeStep DEF late_arrival
    <3>3. /\ g_commit_task_id' = g_commit_task_id
          /\ cut'.surv = cut.surv \/ cut'.surv = LaterEdges
      BY <1>5, <3>1, <3>2, EdgeDoneFields
    <3>4. /\ DOMAIN cut.surv \subseteq DOMAIN Preds[g_commit_task_id]
          /\ \A j \in DOMAIN cut.surv : cut.surv[j] = Preds[g_commit_task_id][j]
          /\ DOMAIN LaterEdges \subseteq DOMAIN cut.surv
          /\ \A j \in DOMAIN LaterEdges : LaterEdges[j] = cut.surv[j]
      BY <3>1, EdgesToAppend
    <3>5. \A t \in ToSet(cut.surv) : t \in Tasks
      <4>1. cut.surv \in PredLists
        BY DEF TypeOK, CutTypes, CutRegs
      <4> QED BY <4>1, SurvivorLists DEF ToSet
    <3>6. \A t \in Tasks : Completed(t)' <=> Completed(t)
      BY <3>1, CompletedMoves
    <3>7. ToSet(cut'.surv) \subseteq ToSet(cut.surv)
      BY <3>3, <3>4 DEF ToSet
    <3>8. \A t \in ToSet(cut.surv) : ~Completed(t)
      BY <3>1 DEF EdgeInv
    <3> QED BY <3>3, <3>4, <3>5, <3>6, <3>7, <3>8
  <2>3. CASE resolve_dep \/ hook2
    BY <1>5, <2>3, WalkedList
  <2>4. CASE ~commit /\ ~edge /\ ~late_arrival /\ ~resolve_dep /\ ~hook2
    BY <1>5, <2>4, RoundFields DEF CutterNext
  <2> QED BY <2>1, <2>2, <2>3, <2>4
<1> QED BY <1>3, <1>4, <1>5 DEF EdgeInv

(* The round itself: a task enters the batch once, when it completes.      *)
LEMMA CutterKeepsRounds ==
  ASSUME NoReuse, TypeOK, CreationInv, EntryInv, EdgeInv, RoundInv, CutterNext,
         Distinct(completed_queue), \A t \in ToSet(completed_queue) : Committed(t)
  PROVE  RoundInv'
<1>1. cut.batch \in Seq(Tasks) /\ ToSet(cut.batch) \subseteq Tasks
  <2>1. cut.batch \in Seq(Tasks)
    BY DEF TypeOK, CutTypes, CutRegs
  <2> QED BY <2>1, ListFacts
<1>2. \A t \in Tasks : Completed(t) => Completed(t)'
  BY CompletedMoves
<1>3. CASE take_completed
  <2>1. /\ cut.pc = "take" /\ cut'.pc = "enter" /\ cut'.work = cut.work
    BY <1>3, RoundFields
  <2>2. /\ cut'.batch \in Seq(Tasks) /\ completed_queue' \in Seq(Tasks)
        /\ completed_queue = cut'.batch \o completed_queue'
        /\ \A t \in Tasks : t \in ToSet(cut'.batch) => Completed(t)'
    BY <1>3, TakeStep
  <2>3. Distinct(cut'.batch) /\ ToSet(cut'.batch) \subseteq Tasks
    BY <2>2, ConcatLists, ListFacts
  <2> QED BY <2>1, <2>2, <2>3 DEF RoundInv
<1>4. CASE resolve_dep_load
  <2>1. /\ cut'.batch = Tail(cut.batch) /\ cut'.pc \in {"resolve", "load", "send", "take"}
        /\ cut'.pc # "resolve" => cut'.work = <<>>
        /\ cut'.pc \in {"send", "take"} => cut'.batch = <<>>
    BY <1>4, RoundFields
  <2>2. /\ Distinct(Tail(cut.batch)) /\ ToSet(Tail(cut.batch)) \subseteq ToSet(cut.batch)
    BY <1>4, LoadStep
  <2> QED BY <1>1, <1>2, <2>1, <2>2 DEF RoundInv
<1>5. ASSUME cut'.batch = cut.batch,
             cut'.pc \notin {"resolve", "hook2"} => cut'.work = <<>>,
             cut'.pc \in {"take", "send", "done"} => cut'.batch = <<>>,
             cut'.pc = "hook2" => ED_ENABLE
      PROVE  RoundInv'
  BY <1>1, <1>2, <1>5 DEF RoundInv
<1>6. CASE resolve_dep \/ hook2
  BY <1>5, <1>6, WalkedList
<1>7. CASE edge \/ late_arrival
  <2>1. cut.pc \in {"edge", "late"} /\ cut.work = <<>>
    BY <1>7 DEF edge, late_arrival, RoundInv
  <2>2. \/ cut'.pc = "late" /\ cut'.batch = cut.batch /\ cut'.work = cut.work
        \/ EdgeDone
    BY <1>7, EdgeStep DEF late_arrival
  <2> QED BY <1>5, <2>1, <2>2, EdgeDoneFields
<1>8. CASE commit
  BY <1>5, <1>8, CommitStep DEF RoundInv
<1>9. CASE cutter_exit \/ add_successors_enter \/ send_2_ready_queue
  BY <1>5, <1>9, RoundFields DEF RoundInv
<1> QED BY <1>3, <1>4, <1>6, <1>7, <1>8, <1>9 DEF CutterNext

----------------------------------------------------------------------------
(* The edges to s out of the tasks of U, their lists being those of S.     *)
Edges(U, S, s) == UNION {{p} \X {k \in DOMAIN S[p] : S[p][k] = s} : p \in U}

(* The edges to a task are finitely many.                                  *)
LEMMA EdgesFacts ==
  ASSUME NEW U \in SUBSET Tasks, NEW S, \A p \in U : S[p] \in Seq(Tasks), NEW s
  PROVE  /\ IsFiniteSet(Edges(U, S, s))
         /\ Cardinality(Edges(U, S, s)) \in Nat
<1> DEFINE K(p) == {k \in DOMAIN S[p] : S[p][k] = s}
           F == [p \in U |-> {p} \X K(p)]
           R == {F[p] : p \in U}
<1>1. IsFiniteSet(U)
  <2>1. IsFiniteSet(0 .. N - 1)
    BY ConfigAssumption, FS_Interval
  <2> QED BY <2>1, FS_Subset DEF Tasks
<1>2. \A p \in U : IsFiniteSet(F[p])
  <2> TAKE p \in U
  <2>1. IsFiniteSet(K(p))
    BY ListFacts, PositionsOfList
  <2>2. IsFiniteSet({p})
    BY FS_Singleton
  <2> HIDE DEF K
  <2> QED BY <2>1, <2>2, FS_Product
<1>3. IsFiniteSet(R)
  <2>1. F \in Surjection(U, R)
    <3>1. F \in [U -> R] /\ \A x \in R : \E p \in U : F[p] = x
      OBVIOUS
    <3> HIDE DEF F, R
    <3> QED BY <3>1, Fun_IsSurj
  <2> HIDE DEF F, R
  <2> QED BY <1>1, <2>1, FS_Surjection DEF ExistsSurjection
<1>4. IsFiniteSet(UNION R)
  <2> HIDE DEF F
  <2> QED BY <1>2, <1>3, FS_UNION
<1>5. Edges(U, S, s) = UNION R
  BY DEF Edges
<1> QED BY <1>4, <1>5, FS_CardinalityType

(* Without p, they are fewer by the copies of s in its list.               *)
LEMMA EdgesWithout ==
  ASSUME NEW U \in SUBSET Tasks, NEW S, \A q \in U : S[q] \in Seq(Tasks), NEW s,
         NEW p \in U
  PROVE  Cardinality(Edges(U, S, s)) =
           Cardinality(Edges(U \ {p}, S, s)) + Occurrences(s, S[p])
<1> DEFINE A == Edges(U, S, s)
           B == Edges(U \ {p}, S, s)
           K == {k \in DOMAIN S[p] : S[p][k] = s}
           P == {<<p, k>> : k \in K}
           f == [k \in K |-> <<p, k>>]
<1>1. IsFiniteSet(K)
  BY ListFacts, PositionsOfList
<1>2. f \in Bijection(K, P)
  <2>1. f \in [K -> P] /\ \A j, k \in K : f[j] = f[k] => j = k
    OBVIOUS
  <2>2. \A e \in P : \E k \in K : f[k] = e
    OBVIOUS
  <2> QED BY <2>1, <2>2, Fun_IsBij
<1>3. IsFiniteSet(P) /\ Cardinality(P) = Cardinality(K)
  <2> HIDE DEF f, K, P
  <2> QED BY <1>1, <1>2, FS_Bijection DEF ExistsBijection
<1>4. IsFiniteSet(B)
  <2> DEFINE V == U \ {p}
  <2>1. V \in SUBSET Tasks /\ \A q \in V : S[q] \in Seq(Tasks)
    OBVIOUS
  <2> HIDE DEF V
  <2>2. IsFiniteSet(Edges(V, S, s))
    BY <2>1, EdgesFacts
  <2> QED BY <2>2 DEF V
<1>5. A = B \cup P /\ B \cap P = {}
  BY DEF Edges
<1> HIDE DEF A, B, P, K
<1>6. Cardinality(B \cup P) = Cardinality(B) + Cardinality(P) - Cardinality(B \cap P)
      /\ Cardinality(B) \in Nat /\ Cardinality(P) \in Nat /\ Cardinality({}) = 0
  BY <1>3, <1>4, FS_Union, FS_CardinalityType, FS_EmptySet
<1>7. Cardinality(A) = Cardinality(B) + Cardinality(K)
  <2>1. Cardinality(A) = Cardinality(B \cup P) /\ Cardinality(B \cap P) = Cardinality({})
    BY <1>5, Zenon
  <2> QED BY <1>3, <1>6, <2>1
<1> QED BY <1>7 DEF A, B, K, Occurrences

(* Appending an edge to s adds one, appending another adds none; and when  *)
(* one list changes, the edges change by what it gained or lost.           *)
LEMMA OccurrencesAppend ==
  ASSUME NEW q \in Seq(Tasks), NEW x \in Tasks, NEW s
  PROVE  Occurrences(s, Append(q, x)) = Occurrences(s, q) + (IF x = s THEN 1 ELSE 0)
<1> DEFINE r == Append(q, x)
           n == Len(q) + 1
           S == {k \in DOMAIN q : q[k] = s}
           T == {k \in DOMAIN r : r[k] = s}
<1>1. /\ Len(q) \in Nat /\ DOMAIN q = 1 .. Len(q) /\ DOMAIN r = 1 .. n
      /\ \A k \in 1 .. Len(q) : r[k] = q[k]
      /\ r[n] = x
  <2>1. /\ r \in Seq(Tasks) /\ Len(r) = n /\ \A k \in 1 .. Len(q) : r[k] = q[k]
        /\ r[n] = x
    BY AppendProperties
  <2> QED BY <2>1, LenProperties
<1> HIDE DEF r
<1>2. n \notin S /\ IsFiniteSet(S) /\ Cardinality(S) \in Nat
  <2>1. n \notin S
    BY <1>1
  <2>2. IsFiniteSet(S)
    BY <1>1, PositionsOfList
  <2> QED BY <2>1, <2>2, FS_CardinalityType
<1>3. Occurrences(s, q) = Cardinality(S) /\ Occurrences(s, r) = Cardinality(T)
  BY DEF Occurrences
<1>4. CASE x = s
  <2>1. T = S \cup {n}
    BY <1>1, <1>4
  <2> HIDE DEF S, T, n
  <2> QED BY <1>2, <1>3, <1>4, <2>1, FS_AddElement DEF r
<1>5. CASE x # s
  <2>1. T = S
    BY <1>1, <1>5
  <2> HIDE DEF S, T, n
  <2> QED BY <1>2, <1>3, <1>5, <2>1 DEF r
<1> QED BY <1>4, <1>5

(* When the list of one task changes, the number of edges to s changes by  *)
(* the occurrences of s in that list.                                      *)
LEMMA EdgesSwap ==
  ASSUME NEW U \in SUBSET Tasks, NEW S, \A q \in U : S[q] \in Seq(Tasks),
         NEW T, \A q \in U : T[q] \in Seq(Tasks), NEW p \in U, NEW s,
         \A q \in U : q # p => T[q] = S[q]
  PROVE  Cardinality(Edges(U, T, s)) + Occurrences(s, S[p]) =
           Cardinality(Edges(U, S, s)) + Occurrences(s, T[p])
<1>1. Edges(U \ {p}, T, s) = Edges(U \ {p}, S, s)
  BY DEF Edges
<1>2. /\ Cardinality(Edges(U, T, s)) = Cardinality(Edges(U \ {p}, T, s)) + Occurrences(s, T[p])
      /\ Cardinality(Edges(U, S, s)) = Cardinality(Edges(U \ {p}, S, s)) + Occurrences(s, S[p])
  BY EdgesWithout
<1>3. /\ Cardinality(Edges(U \ {p}, S, s)) \in Nat
      /\ Occurrences(s, S[p]) \in Nat /\ Occurrences(s, T[p]) \in Nat
  <2>1. U \ {p} \in SUBSET Tasks /\ \A q \in U \ {p} : S[q] \in Seq(Tasks)
    OBVIOUS
  <2> QED BY <2>1, EdgesFacts, OccurrencesType
<1> QED BY <1>1, <1>2, <1>3

(* The tasks whose lists are still to be walked, or walked again, and the  *)
(* three terms of the counter.                                             *)
OpenTasks == {q \in Tasks : Committed(q) /\ (~Completed(q) \/ q \in ToSet(cut.batch))}

(* The edges the counter stands for, without the ring indices.             *)
LEMMA OpenEdgesAre ==
  ASSUME NoReuse
  PROVE  /\ EntryInv => \A s \in Tasks : OpenEdges(s) = Edges(OpenTasks, g_successor_buf, s)
         /\ EntryInv' => \A s \in Tasks :
              OpenEdges(s)' = Edges(OpenTasks', g_successor_buf', s)
<1>1. \A q \in Tasks : Idx(q) = q
  BY IdxSame
<1>2. ASSUME EntryInv, NEW s \in Tasks
      PROVE  OpenEdges(s) = Edges(OpenTasks, g_successor_buf, s)
  <2>1. \A q \in Tasks : Unresolved(q) <=> q \in OpenTasks
    BY <1>1, <1>2 DEF EntryInv, Untouched, Unresolved, InRing, OpenTasks, Completed
  <2>2. {q \in Tasks : Unresolved(q)} = OpenTasks
    BY <2>1 DEF OpenTasks
  <2> QED BY <1>1, <2>2 DEF OpenEdges, Edges, OpenTasks
<1>3. ASSUME EntryInv', NEW s \in Tasks
      PROVE  OpenEdges(s)' = Edges(OpenTasks', g_successor_buf', s)
  <2>1. \A q \in Tasks : Unresolved(q)' <=> q \in OpenTasks'
    BY <1>1, <1>3 DEF EntryInv, Untouched, Unresolved, InRing, OpenTasks, Completed
  <2>2. {q \in Tasks : Unresolved(q)'} = OpenTasks'
    BY <2>1 DEF OpenTasks
  <2> QED BY <1>1, <2>2 DEF OpenEdges, Edges, OpenTasks
<1> QED BY <1>2, <1>3

(* The three parts of the counter are numbers.                             *)
LEMMA CountTypes ==
  ASSUME NoReuse, TypeOK, EntryInv, NEW s \in Tasks
  PROVE  /\ Cardinality(OpenEdges(s)) \in Nat
         /\ Occurrences(s, WorkLeft) \in Nat /\ Occurrences(s, cut.work) \in Nat
         /\ EdgesLeft(s) \in Nat /\ Cardinality(DOMAIN cut.surv) \in Nat
         /\ IsFiniteSet(DOMAIN cut.surv) /\ DOMAIN LaterEdges \subseteq DOMAIN cut.surv
<1>1. /\ OpenTasks \in SUBSET Tasks
      /\ \A q \in OpenTasks : g_successor_buf[q] \in Seq(Tasks)
  BY IdxSame DEF OpenTasks, TypeOK, GraphTypes
<1>2. OpenEdges(s) = Edges(OpenTasks, g_successor_buf, s)
  BY OpenEdgesAre
<1>3. Cardinality(Edges(OpenTasks, g_successor_buf, s)) \in Nat
  <2> HIDE DEF OpenTasks
  <2> QED BY <1>1, EdgesFacts
<1>4. cut \in CutRegs /\ (cut.pc \in {"resolve", "hook2"} => cut.work # <<>>)
  BY DEF TypeOK, CutTypes
<1>5. cut.work \in Seq(Tasks) /\ WorkLeft \in Seq(Tasks)
  BY <1>4, HeadTailProperties DEF CutRegs, WorkLeft
<1>6. IsFiniteSet(DOMAIN cut.surv) /\ DOMAIN LaterEdges \subseteq DOMAIN cut.surv
  <2>1. cut.surv \in PredLists
    BY <1>4 DEF CutRegs
  <2>2. IsFiniteSet(DOMAIN cut.surv)
    <3>1. DOMAIN cut.surv \in SUBSET Positions
      BY <2>1, SurvivorLists
    <3> QED BY <3>1, PositionsFinite, FS_Subset
  <2> QED BY <2>2 DEF LaterEdges, Restrict
<1>7. IsFiniteSet(ToAppend)
  <2>1. ToAppend \in SUBSET DOMAIN cut.surv
    BY <1>6 DEF ToAppend
  <2> QED BY <1>6, <2>1, FS_Subset
<1>8. EdgesLeft(s) \in Nat
  BY <1>7, FS_CardinalityType DEF EdgesLeft
<1>9. Occurrences(s, WorkLeft) \in Nat /\ Occurrences(s, cut.work) \in Nat
  BY <1>5, OccurrencesType
<1> QED BY <1>2, <1>3, <1>6, <1>8, <1>9, FS_CardinalityType

(* How commit and edge change the edges still to append.                   *)
LEMMA EdgesLeftMoves ==
  ASSUME NoReuse, TypeOK, CreationInv, EntryInv, EdgeInv, CutterNext, NEW s \in Tasks
  PROVE  /\ commit => /\ EdgesLeft(s) = 0
                      /\ EdgesLeft(s)' = IF s = g_commit_task_id
                                         THEN Cardinality(DOMAIN Survivors(s)) ELSE 0
         /\ edge => /\ EdgesLeft(s) = EdgesLeft(s)' + (IF s = g_commit_task_id THEN 1 ELSE 0)
                    /\ EdgesLeft(s)' \in Nat
         /\ ~commit /\ ~edge => EdgesLeft(s)' = EdgesLeft(s)
<1>1. g_commit_task_id \in Nat /\ Cardinality({}) = 0
  BY ConfigAssumption, FS_EmptySet DEF TypeOK, OrchTypes, GraphTypes
<1>2. ASSUME commit
      PROVE  /\ EdgesLeft(s) = 0
             /\ EdgesLeft(s)' = IF s = g_commit_task_id
                                THEN Cardinality(DOMAIN Survivors(s)) ELSE 0
  <2> DEFINE c == g_commit_task_id
             D == DOMAIN Survivors(c)
  <2>1. /\ cut.pc = "commit"
        /\ \/ D = {} /\ cut'.pc \notin {"edge", "late"}
           \/ cut'.pc = "edge" /\ cut'.surv = Survivors(c) /\ g_commit_task_id' = c
    BY <1>2, CommitStep
  <2>2. EdgesLeft(s) = 0
    BY <2>1 DEF EdgesLeft, Committing
  <2>3. CASE cut'.pc = "edge" /\ cut'.surv = Survivors(c) /\ g_commit_task_id' = c
    <3>1. /\ Committing(s)' <=> s = c
          /\ ToAppend' = D
      BY <2>3 DEF Committing, ToAppend
    <3> QED BY <2>2, <3>1 DEF EdgesLeft
  <2>4. CASE D = {} /\ cut'.pc \notin {"edge", "late"}
    <3>1. ~Committing(s)'
      BY <2>4 DEF Committing
    <3> QED BY <1>1, <2>2, <2>4, <3>1 DEF EdgesLeft
  <2> QED BY <2>1, <2>3, <2>4
<1> DEFINE c == g_commit_task_id
           D == DOMAIN cut.surv
           L == DOMAIN LaterEdges
           k == NextEdge
<1>3. ASSUME cut.pc \in {"edge", "late"},
             \/ cut'.pc = "late" /\ cut'.surv = cut.surv /\ g_commit_task_id' = c
             \/ EdgeDone
      PROVE  EdgesLeft(s)' = IF s = c THEN Cardinality(L) ELSE 0
  <2>1. CASE cut'.pc = "late" /\ cut'.surv = cut.surv /\ g_commit_task_id' = c
    <3>1. Committing(s)' <=> s = c
      BY <2>1 DEF Committing
    <3>2. ToAppend' = L
      BY <2>1 DEF ToAppend, LaterEdges, NextEdge
    <3> QED BY <3>1, <3>2 DEF EdgesLeft
  <2>2. CASE cut'.pc = "edge" /\ cut'.surv = LaterEdges /\ g_commit_task_id' = c
    <3>1. Committing(s)' <=> s = c
      BY <2>2 DEF Committing
    <3>2. ToAppend' = L
      BY <2>2 DEF ToAppend
    <3> QED BY <3>1, <3>2 DEF EdgesLeft
  <2>3. CASE cut'.pc \notin {"edge", "late"} /\ L = {}
    <3>1. ~Committing(s)'
      BY <2>3 DEF Committing
    <3> QED BY <1>1, <2>3, <3>1 DEF EdgesLeft
  <2> QED BY <1>3, <2>1, <2>2, <2>3, EdgeDoneFields
<1>4. ASSUME edge
      PROVE  /\ EdgesLeft(s) = EdgesLeft(s)' + (IF s = c THEN 1 ELSE 0)
             /\ EdgesLeft(s)' \in Nat
  <2>1. /\ cut.pc = "edge"
        /\ \/ cut'.pc = "late" /\ cut'.surv = cut.surv /\ g_commit_task_id' = c
           \/ EdgeDone
    BY <1>4, EdgeStep
  <2>2. EdgesLeft(s)' = IF s = c THEN Cardinality(L) ELSE 0
    BY <1>3, <2>1
  <2>3. EdgesLeft(s) = IF s = c THEN Cardinality(D) ELSE 0
    BY <2>1 DEF EdgesLeft, ToAppend, Committing
  <2>4. k \in D /\ L = D \ {k}
    BY <2>1, EdgesToAppend
  <2>5. IsFiniteSet(D) /\ Cardinality(D) \in Nat
    BY CountTypes
  <2>6. Cardinality(L) = Cardinality(D) - 1 /\ Cardinality(L) \in Nat
    <3> HIDE DEF D, L, k
    <3>1. /\ Cardinality(D \ {k}) = Cardinality(D) - 1
          /\ Cardinality(D \ {k}) \in Nat
      BY <2>4, <2>5, FS_RemoveElement, FS_CardinalityType
    <3> QED BY <2>4, <3>1
  <2> HIDE DEF D, L, c
  <2> QED BY <2>2, <2>3, <2>5, <2>6
<1>5. ASSUME late_arrival
      PROVE  EdgesLeft(s)' = EdgesLeft(s)
  <2>1. cut.pc = "late" /\ EdgeDone
    BY <1>5 DEF late_arrival
  <2> QED BY <1>3, <2>1 DEF EdgesLeft, ToAppend, Committing
<1>6. ASSUME ~commit, ~edge, ~late_arrival
      PROVE  EdgesLeft(s)' = EdgesLeft(s)
  <2>1. cut.pc \notin {"edge", "late"}
    BY <1>6 DEF CutterNext, take_completed, cutter_exit, add_successors_enter,
       resolve_dep_load, resolve_dep, hook2, send_2_ready_queue
  <2>2. cut'.pc \notin {"edge", "late"}
    BY <1>6, RoundFields, WalkedList DEF CutterNext
  <2> QED BY <2>1, <2>2 DEF EdgesLeft, Committing
<1>7. late_arrival => ~commit /\ ~edge
  BY DEF late_arrival, commit, edge
<1> QED BY <1>2, <1>4, <1>5, <1>6, <1>7

(* Committing, appending, completing, walking and counting down: whichever *)
(* the cutter does, the counter stays the number of edges it still awaits. *)
LEMMA CutterKeepsCounts ==
  ASSUME NoReuse, TypeOK, CreationInv, EntryInv, EdgeInv, RoundInv, CountInv, CutterNext,
         EntryInv', \A t \in ToSet(completed_queue) : Committed(t) /\ ~Completed(t)
  PROVE  CountInv'
<1> DEFINE U == OpenTasks
           S == g_successor_buf
           c == g_commit_task_id
<1>1. /\ U \in SUBSET Tasks /\ \A p \in Tasks : S[p] \in Seq(Tasks)
      /\ \A s \in Tasks : OpenEdges(s) = Edges(U, S, s)
      /\ \A s \in Tasks : OpenEdges(s)' = Edges(U', S', s)
  <2>1. U \in SUBSET Tasks
    BY DEF OpenTasks
  <2>2. \A p \in Tasks : S[p] \in Seq(Tasks)
    BY IdxSame DEF TypeOK, GraphTypes
  <2> QED BY <2>1, <2>2, OpenEdgesAre
<1>2. \A t \in Tasks : Committed(t)' <=> Committed(t) \/ (commit /\ t = c)
  BY CommittedMoves
<1>3. \A t \in Tasks :
        Completed(t)' <=> Completed(t) \/ (take_completed /\ t \in ToSet(cut'.batch))
  BY CompletedMoves
<1>4. \A s \in Tasks : Committed(s) =>
        g_predecessor_cnt[s] =
          Cardinality(Edges(U, S, s)) + Occurrences(s, WorkLeft) + EdgesLeft(s)
  BY <1>1 DEF CountInv
<1>5. \A s \in Tasks : /\ Cardinality(Edges(U, S, s)) \in Nat
                       /\ Occurrences(s, WorkLeft) \in Nat /\ EdgesLeft(s) \in Nat
                       /\ Occurrences(s, cut.work) \in Nat
  BY <1>1, CountTypes
<1>6. SUFFICES ASSUME NEW s \in Tasks, Committed(s)'
               PROVE  g_predecessor_cnt'[s] =
                        Cardinality(Edges(U', S', s)) + Occurrences(s, WorkLeft')
                          + EdgesLeft(s)'
  BY <1>1 DEF CountInv
<1> HIDE DEF U, S
\* the lists and the counters stay, and who is open
<1>7. ASSUME cut'.batch = cut.batch, ~take_completed, ~commit
      PROVE  U' = U
  BY <1>2, <1>3, <1>7 DEF U, OpenTasks
<1>8. ASSUME S' = S, U' = U, g_predecessor_cnt' = g_predecessor_cnt, ~commit, ~edge,
             Occurrences(s, WorkLeft') = Occurrences(s, WorkLeft)
      PROVE  g_predecessor_cnt'[s] =
               Cardinality(Edges(U', S', s)) + Occurrences(s, WorkLeft') + EdgesLeft(s)'
  <2>1. EdgesLeft(s)' = EdgesLeft(s) /\ Committed(s)
    BY <1>2, <1>6, <1>8, EdgesLeftMoves
  <2> QED BY <1>4, <1>8, <2>1
<1>9. CASE commit
  <2> DEFINE D == DOMAIN Survivors(c)
  <2>1. /\ cut.pc = "commit" /\ c \in Tasks /\ ~Committed(c) /\ cut'.batch = cut.batch
        /\ cut'.work = cut.work /\ cut'.pc \notin {"resolve", "hook2"}
        /\ g_predecessor_cnt'[c] = Cardinality(D)
        /\ S'[c] = IF ED_ENABLE THEN <<>> ELSE S[c]
        /\ \A t \in Tasks : t # c => /\ S'[t] = S[t]
                                     /\ g_predecessor_cnt'[t] = g_predecessor_cnt[t]
    BY <1>9, CommitStep DEF S
  <2>2. S[c] = <<>> /\ S'[c] = <<>>
    BY <2>1 DEF EntryInv, Untouched, S
  <2>3. WorkLeft = <<>> /\ WorkLeft' = <<>>
    BY <2>1 DEF RoundInv, WorkLeft
  <2>4. ~take_completed
    BY <1>9 DEF commit, take_completed
  <2>5. \A p \in Tasks : S'[p] = S[p]
    BY <2>1, <2>2
  <2>6. U' = U \cup {c} /\ c \notin U
    <3>1. ~Completed(c)
      BY <2>1 DEF EntryInv, Untouched, Completed
    <3> QED BY <1>2, <1>3, <1>9, <2>1, <2>4, <3>1 DEF U, OpenTasks
  <2>7. Edges(U', S', s) = Edges(U, S, s)
    <3>1. DOMAIN S[c] = {}
      BY <2>2
    <3> QED BY <1>1, <2>1, <2>5, <2>6, <3>1 DEF Edges
  <2>8. /\ EdgesLeft(s) = 0
        /\ EdgesLeft(s)' = IF s = c THEN Cardinality(D) ELSE 0
    BY <1>9, EdgesLeftMoves
  <2> HIDE DEF D
  <2>9. CASE s = c
    <3>1. Edges(U, S, s) = {}
      <4>1. \A p \in Tasks : s \notin ToSet(S[p])
        BY <2>1, <2>9 DEF EdgeInv, S
      <4>2. \A p \in U : \A k \in DOMAIN S[p] : S[p][k] # s
        BY <1>1, <4>1 DEF ToSet
      <4> QED BY <4>2 DEF Edges
    <3>2. Cardinality(Edges(U', S', s)) = 0
      <4>1. Edges(U', S', s) = {}
        BY <2>7, <3>1, Zenon
      <4> QED BY <4>1, FS_EmptySet, Zenon
    <3>3. Cardinality(D) \in Nat
      BY <2>1, CommitData DEF D
    <3> QED BY <2>1, <2>3, <2>8, <2>9, <3>2, <3>3, OccurrencesEmpty
  <2>10. CASE s # c
    <3>1. Committed(s)
      BY <1>2, <1>6, <2>10
    <3>2. Cardinality(Edges(U', S', s)) = Cardinality(Edges(U, S, s))
      BY <2>7, Zenon
    <3> QED BY <1>4, <1>5, <2>1, <2>3, <2>8, <2>10, <3>1, <3>2, OccurrencesEmpty
  <2> QED BY <2>9, <2>10
<1>10. CASE edge
  <2> DEFINE p == cut.surv[NextEdge]
  <2>1. /\ cut.pc = "edge" /\ c \in Tasks /\ p \in Tasks /\ Committed(p) /\ ~Completed(p)
    BY <1>10, EdgesToAppend DEF edge
  <2>2. /\ g_predecessor_cnt' = g_predecessor_cnt /\ S'[p] = Append(S[p], c)
        /\ \A t \in Tasks : t # p => S'[t] = S[t]
        /\ \/ cut'.pc = "late" /\ cut'.batch = cut.batch /\ cut'.work = cut.work
           \/ EdgeDone
    BY <1>10, EdgeStep DEF S
  <2>3. cut'.batch = cut.batch /\ cut'.work = cut.work /\ cut'.pc # "hook2"
    BY <2>1, <2>2, EdgeDoneFields
  <2>4. ~take_completed /\ ~commit
    BY <1>10 DEF edge, take_completed, commit
  <2>5. U' = U
    BY <1>7, <2>3, <2>4
  <2>6. WorkLeft' = WorkLeft
    BY <2>1, <2>3 DEF WorkLeft
  <2>7. p \in U
    BY <2>1 DEF U, OpenTasks
  <2>8. Cardinality(Edges(U, S', s)) = Cardinality(Edges(U, S, s)) + (IF c = s THEN 1 ELSE 0)
    <3> HIDE DEF p
    <3> DEFINE T == S'
    <3>1. /\ \A q \in U : S[q] \in Seq(Tasks) /\ T[q] \in Seq(Tasks)
          /\ \A q \in U : q # p => T[q] = S[q]
      <4>1. Append(S[p], c) \in Seq(Tasks)
        BY <1>1, <2>1, AppendToList
      <4> QED BY <1>1, <2>2, <4>1
    <3>2. Occurrences(s, T[p]) = Occurrences(s, S[p]) + (IF c = s THEN 1 ELSE 0)
      BY <1>1, <2>1, <2>2, OccurrencesAppend
    <3>3. Occurrences(s, S[p]) \in Nat
      BY <1>1, <2>1, OccurrencesType
    <3> HIDE DEF T, c
    <3>4. Cardinality(Edges(U, T, s)) + Occurrences(s, S[p])
            = Cardinality(Edges(U, S, s)) + Occurrences(s, T[p])
      BY <1>1, <2>7, <3>1, EdgesSwap
    <3>5. Cardinality(Edges(U, T, s)) \in Nat
      BY <1>1, <3>1, EdgesFacts
    <3> QED BY <1>5, <3>2, <3>3, <3>4, <3>5 DEF T
  <2>9. EdgesLeft(s) = EdgesLeft(s)' + (IF s = c THEN 1 ELSE 0) /\ EdgesLeft(s)' \in Nat
    BY <1>10, EdgesLeftMoves
  <2>10. Committed(s)
    BY <1>2, <1>6, <2>4
  <2>11. Cardinality(Edges(U', S', s)) = Cardinality(Edges(U, S', s))
    BY <2>5
  <2> HIDE DEF c, p
  <2> QED BY <1>4, <1>5, <2>2, <2>6, <2>8, <2>9, <2>10, <2>11
<1>11. CASE late_arrival
  <2>1. /\ cut.pc = "late" /\ EdgeDone /\ S' = S /\ g_predecessor_cnt' = g_predecessor_cnt
        /\ ~take_completed /\ ~commit /\ ~edge
    BY <1>11 DEF late_arrival, take_completed, commit, edge, S
  <2>2. cut'.batch = cut.batch /\ cut'.work = cut.work /\ cut'.pc # "hook2"
    BY <2>1, EdgeDoneFields
  <2>3. WorkLeft' = WorkLeft
    BY <2>1, <2>2 DEF WorkLeft
  <2> QED BY <1>7, <1>8, <2>1, <2>2, <2>3
<1>12. CASE take_completed
  <2>1. /\ cut.pc = "take" /\ cut'.pc = "enter" /\ cut'.work = cut.work
        /\ cut.batch = <<>> /\ ~commit /\ ~edge
    BY <1>12, RoundFields DEF RoundInv, take_completed, commit, edge
  <2>2. /\ S' = S /\ g_predecessor_cnt' = g_predecessor_cnt
        /\ completed_queue = cut'.batch \o completed_queue'
        /\ cut'.batch \in Seq(Tasks) /\ completed_queue' \in Seq(Tasks)
        /\ \A t \in Tasks : t \in ToSet(cut'.batch) => Committed(t)
    BY <1>12, TakeStep DEF S
  <2>3. ToSet(cut'.batch) \subseteq ToSet(completed_queue)
    BY <2>2, ConcatLists
  <2>4. \A q \in Tasks : q \in U' <=> q \in U
    BY <1>2, <1>3, <1>12, <2>1, <2>2, <2>3, EmptyList DEF U, OpenTasks
  <2>5. U' = U
    BY <2>4 DEF U, OpenTasks
  <2>6. WorkLeft' = WorkLeft
    BY <2>1 DEF WorkLeft
  <2> QED BY <1>8, <2>1, <2>2, <2>5, <2>6
<1>13. CASE resolve_dep_load
  <2> DEFINE p == Head(cut.batch)
  <2>1. /\ cut.pc = "load" /\ cut'.batch = Tail(cut.batch) /\ cut'.pc # "hook2"
        /\ ~take_completed /\ ~commit /\ ~edge
    BY <1>13, RoundFields DEF resolve_dep_load, take_completed, commit, edge
  <2>2. /\ p \in Tasks /\ p \in ToSet(cut.batch) /\ Completed(p)
        /\ p \notin ToSet(Tail(cut.batch))
        /\ ToSet(cut.batch) = ToSet(Tail(cut.batch)) \cup {p}
        /\ cut'.work = S[p] /\ S' = S /\ g_predecessor_cnt' = g_predecessor_cnt
    BY <1>13, LoadStep DEF S
  <2>3. WorkLeft = <<>> /\ WorkLeft' = S[p]
    BY <2>1, <2>2 DEF RoundInv, WorkLeft
  <2>4. Committed(p)
    BY <2>2 DEF EntryInv, Untouched, Completed
  <2> HIDE DEF p
  <2>5. p \in U
    BY <2>2, <2>4 DEF U, OpenTasks
  <2>6. U' = U \ {p}
    BY <1>2, <1>3, <2>1, <2>2 DEF U, OpenTasks
  <2>7. Cardinality(Edges(U, S, s)) = Cardinality(Edges(U \ {p}, S, s)) + Occurrences(s, S[p])
    BY <1>1, <2>5, EdgesWithout
  <2>8. Cardinality(Edges(U', S', s)) = Cardinality(Edges(U \ {p}, S, s))
    BY <2>2, <2>6, Zenon
  <2>9. EdgesLeft(s)' = EdgesLeft(s) /\ Committed(s)
    BY <1>2, <1>6, <2>1, EdgesLeftMoves
  <2>10. Cardinality(Edges(U \ {p}, S, s)) \in Nat /\ Occurrences(s, S[p]) \in Nat
    <3> DEFINE V == U \ {p}
    <3>1. V \in SUBSET Tasks /\ \A q \in V : S[q] \in Seq(Tasks)
      BY <1>1
    <3> HIDE DEF V
    <3>2. Cardinality(Edges(V, S, s)) \in Nat
      BY <3>1, EdgesFacts
    <3> QED BY <1>1, <2>2, <3>2, OccurrencesType DEF V
  <2>11. Occurrences(s, WorkLeft) = 0 /\ Occurrences(s, WorkLeft') = Occurrences(s, S[p])
    BY <2>3, OccurrencesEmpty
  <2> QED BY <1>4, <1>5, <2>2, <2>7, <2>8, <2>9, <2>10, <2>11
<1>14. CASE resolve_dep
  <2> DEFINE h == Head(cut.work)
             n == Dec(g_predecessor_cnt[h], UINT32_MAX)
  <2>1. /\ cut.pc = "resolve" /\ h \in Tasks /\ Committed(h)
        /\ g_predecessor_cnt'[h] = n
        /\ \A t \in Tasks : t # h => g_predecessor_cnt'[t] = g_predecessor_cnt[t]
        /\ S' = S
    BY <1>14, ResolveStep DEF S
  <2>2. /\ cut.work \in Seq(Tasks) /\ cut.work # <<>> /\ cut'.batch = cut.batch
        /\ \/ cut'.pc = "hook2" /\ cut'.work = cut.work
           \/ cut'.pc # "hook2" /\ cut'.work = Tail(cut.work)
    BY <1>14, WalkedList
  <2>3. ~take_completed /\ ~commit /\ ~edge
    BY <1>14 DEF resolve_dep, take_completed, commit, edge
  <2>4. U' = U /\ WorkLeft = cut.work /\ WorkLeft' = Tail(cut.work)
    BY <1>7, <2>1, <2>2, <2>3 DEF WorkLeft
  <2>5. /\ Occurrences(s, cut.work) = Occurrences(s, Tail(cut.work)) + (IF h = s THEN 1 ELSE 0)
        /\ Occurrences(s, Tail(cut.work)) \in Nat
    <3>1. Tail(cut.work) \in Seq(Tasks)
      BY <2>2, TailOfList
    <3> QED BY <2>2, <3>1, OccurrencesTail, OccurrencesType
  <2>6. EdgesLeft(s)' = EdgesLeft(s) /\ Committed(s)
    BY <1>2, <1>6, <2>3, EdgesLeftMoves
  <2>7. Cardinality(Edges(U', S', s)) = Cardinality(Edges(U, S, s))
    BY <2>1, <2>4, Zenon
  <2>8. g_predecessor_cnt[s]
          = Cardinality(Edges(U, S, s)) + Occurrences(s, cut.work) + EdgesLeft(s)
    BY <1>4, <2>4, <2>6
  <2>9. Occurrences(s, WorkLeft') = Occurrences(s, Tail(cut.work))
    BY <2>4
  <2>10. CASE h = s
    <3>1. g_predecessor_cnt[s] >= 1 /\ g_predecessor_cnt'[s] = g_predecessor_cnt[s] - 1
      <4>1. /\ g_predecessor_cnt[s] \in Nat /\ g_predecessor_cnt[s] >= 1
        BY <1>5, <2>5, <2>8, <2>10
      <4>2. n = g_predecessor_cnt[s] - 1
        BY <2>10, <4>1 DEF Dec
      <4> QED BY <2>1, <2>10, <4>1, <4>2
    <3> QED BY <1>5, <2>5, <2>6, <2>7, <2>8, <2>9, <2>10, <3>1
  <2>11. CASE h # s
    BY <1>5, <2>1, <2>5, <2>6, <2>7, <2>8, <2>9, <2>11
  <2> QED BY <2>10, <2>11
<1>15. CASE hook2
  <2>1. /\ cut.pc = "hook2" /\ cut'.pc # "hook2" /\ cut'.batch = cut.batch
        /\ cut'.work = Tail(cut.work)
    <3>1. ~resolve_dep
      BY <1>15 DEF hook2, resolve_dep
    <3> QED BY <1>15, <3>1, WalkedList
  <2>2. /\ S' = S /\ g_predecessor_cnt' = g_predecessor_cnt
        /\ ~take_completed /\ ~commit /\ ~edge
    BY <1>15 DEF hook2, graphVars, take_completed, commit, edge, S
  <2>3. WorkLeft' = WorkLeft
    BY <2>1 DEF WorkLeft
  <2> QED BY <1>7, <1>8, <2>1, <2>2, <2>3
<1>16. CASE cutter_exit \/ add_successors_enter \/ send_2_ready_queue
  <2>1. /\ cut'.batch = cut.batch /\ cut'.work = cut.work
        /\ cut.pc # "hook2" /\ cut'.pc # "hook2"
    BY <1>16, RoundFields
  <2>2. /\ S' = S /\ g_predecessor_cnt' = g_predecessor_cnt
        /\ ~take_completed /\ ~commit /\ ~edge
    BY <1>16 DEF cutter_exit, add_successors_enter, send_2_ready_queue, graphVars,
       take_completed, commit, edge, S
  <2>3. WorkLeft' = WorkLeft
    BY <2>1 DEF WorkLeft
  <2> QED BY <1>7, <1>8, <2>1, <2>2, <2>3
<1> QED BY <1>9, <1>10, <1>11, <1>12, <1>13, <1>14, <1>15, <1>16 DEF CutterNext

(* A predecessor that has not run is still to be counted down: its edge is *)
(* in its list, or about to be appended to it.                             *)
LEMMA CompletedRan ==
  ASSUME NoReuse, TypeOK, WatermarkInv, CreationInv, EntryInv, EdgeInv, CutterNext,
         \A t \in ToSet(completed_queue) : Committed(t)
  PROVE  /\ \A t \in Tasks : Completed(t) => Committed(t) /\ Ran(t)
         /\ \A t \in Tasks : Completed(t)' => Ran(t)
<1>1. \A t \in Tasks : Completed(t) => Committed(t) /\ Ran(t)
  BY IdxSame DEF EntryInv, Untouched, Completed, WatermarkInv, CompletionsRan, StatesRan,
     RanTasks
<1>2. \A t \in ToSet(completed_queue) : Ran(t)
  <2>1. completed_queue \in Seq(RanTasks)
    BY DEF WatermarkInv, CompletionsRan, QueueRan
  <2>2. \A k \in DOMAIN completed_queue : completed_queue[k] \in RanTasks
    BY <2>1, LenProperties, ElementOfSeq
  <2> QED BY <2>2 DEF ToSet, RanTasks
<1>3. ASSUME take_completed
      PROVE  ToSet(cut'.batch) \subseteq ToSet(completed_queue)
  <2>1. /\ completed_queue = cut'.batch \o completed_queue'
        /\ cut'.batch \in Seq(Tasks) /\ completed_queue' \in Seq(Tasks)
    BY <1>3, TakeStep
  <2> QED BY <2>1, ConcatLists
<1> QED BY <1>1, <1>2, <1>3, CompletedMoves

(* A predecessor that has not run keeps owing its decrement.               *)
LEMMA CutterKeepsReasons ==
  ASSUME NoReuse, TypeOK, WatermarkInv, CreationInv, EntryInv, EdgeInv, ReasonInv, CutterNext,
         \A t \in ToSet(completed_queue) : Committed(t)
  PROVE  ReasonInv'
<1> DEFINE c == g_commit_task_id
           S == g_successor_buf
<1>1. \A t \in Tasks : Committed(t)' <=> Committed(t) \/ (commit /\ t = c)
  BY CommittedMoves
<1>2. /\ \A t \in Tasks : Completed(t)' => Ran(t)
      /\ \A t \in Tasks : Completed(t) => Ran(t)
  BY CompletedRan
<1>3. runs' = runs
  BY DEF CutterNext, take_completed, cutter_exit, add_successors_enter, commit, edge,
     late_arrival, resolve_dep_load, resolve_dep, hook2, send_2_ready_queue, cutFrame
<1>4. \A s \in Tasks : \A p \in PredSet[s] :
        p \in Tasks /\ \E k \in DOMAIN Preds[s] : Preds[s][k] = p
  <2> TAKE s \in Tasks
  <2>1. Preds[s] \in Seq(Tasks)
    BY GraphAssumption
  <2> QED BY <2>1, ListFacts DEF PredSet
<1>5. SUFFICES ASSUME NEW s \in Tasks, Committed(s)', NEW p \in PredSet[s], ~Ran(p)
               PROVE  Owed(p, s)'
  BY <1>3 DEF ReasonInv, Ran
<1>6. /\ p \in Tasks /\ ~Completed(p)' /\ ~Completed(p)
  BY <1>2, <1>4, <1>5
<1>7. S[p] \in Seq(Tasks) /\ g_commit_task_id \in Nat
  BY <1>6, IdxSame, ConfigAssumption DEF TypeOK, OrchTypes, GraphTypes
<1>8. CASE commit
  <2>1. /\ cut.pc = "commit" /\ c \in Tasks /\ c < g_task_id /\ ~Committed(c)
        /\ \A t \in Tasks : t # c => S'[t] = S[t]
        /\ S'[c] = IF ED_ENABLE THEN <<>> ELSE S[c]
        /\ \/ DOMAIN Survivors(c) = {}
           \/ /\ cut'.pc = "edge" /\ cut'.surv = Survivors(c)
              /\ g_commit_task_id' = c
    BY <1>8, CommitStep
  <2>2. CASE s = c
    <3>1. \A q \in Tasks : q < c => Committed(q)
      BY DEF Committed
    <3>2. PICK k \in DOMAIN Preds[s] : Preds[s][k] = p
      BY <1>4, <1>5
    <3>3. k \in DOMAIN Survivors(c)
      <4>1. /\ \A j \in DOMAIN Preds[c] :
                 j \notin DOMAIN Survivors(c) => Ran(Preds[c][j]) \/ Completed(Preds[c][j])
        BY <2>1, <3>1, SurvivorsAre
      <4> QED BY <1>5, <1>6, <2>2, <3>2, <4>1
    <3>4. cut'.pc = "edge" /\ cut'.surv = Survivors(c) /\ g_commit_task_id' = c
      BY <2>1, <3>3
    <3>5. Committing(s)' /\ k \in ToAppend'
      BY <2>2, <3>3, <3>4 DEF Committing, ToAppend
    <3> QED BY <3>2, <3>5 DEF Owed
  <2>3. CASE s # c
    <3>1. Owed(p, s) /\ ~Committing(s)
      BY <1>1, <1>5, <2>1, <2>3 DEF ReasonInv, Committing
    <3>2. s \in ToSet(S[p])
      BY <3>1 DEF Owed
    <3>3. S'[p] = S[p]
      <4>1. S[c] = <<>>
        BY <2>1 DEF EntryInv, Untouched
      <4>2. p # c
        BY <3>2, <4>1, EmptyList
      <4> QED BY <1>6, <2>1, <4>2
    <3> QED BY <1>6, <3>2, <3>3 DEF Owed
  <2> QED BY <2>2, <2>3
<1>9. CASE ~commit
  <2>1. Owed(p, s)
    BY <1>1, <1>5, <1>9 DEF ReasonInv
  <2>2. ToSet(S[p]) \subseteq ToSet(S'[p])
    <3>1. CASE edge
      <4> DEFINE q == cut.surv[NextEdge]
      <4>1. c \in Tasks /\ S'[q] = Append(S[q], c) /\ \A t \in Tasks : t # q => S'[t] = S[t]
        BY <3>1, EdgeStep, EdgesToAppend DEF edge
      <4>2. ToSet(Append(S[p], c)) = ToSet(S[p]) \cup {c}
        BY <1>7, <4>1, AppendToList
      <4> HIDE DEF q
      <4>3. S'[p] = S[p] \/ S'[p] = Append(S[p], c)
        BY <1>6, <4>1
      <4> QED BY <4>2, <4>3
    <3>2. CASE ~edge
      <4>1. S' = S
        BY <1>9, <3>2 DEF CutterNext, take_completed, cutter_exit, add_successors_enter,
           late_arrival, resolve_dep_load, resolve_dep, hook2, send_2_ready_queue, graphVars
      <4> QED BY <4>1
    <3> QED BY <3>1, <3>2
  <2>3. CASE s \in ToSet(S[p])
    BY <1>6, <2>2, <2>3 DEF Owed
  <2>4. CASE Committing(s) /\ \E k \in ToAppend : Preds[s][k] = p
    <3>1. PICK k \in ToAppend : Preds[s][k] = p
      BY <2>4
    <3>2. /\ cut.pc \in {"edge", "late"} /\ s = c
          /\ k \in DOMAIN cut.surv /\ (cut.pc = "late" => k \in DOMAIN LaterEdges)
          /\ DOMAIN LaterEdges = DOMAIN cut.surv \ {NextEdge}
          /\ \A j \in DOMAIN cut.surv : cut.surv[j] = Preds[s][j]
      <4>1. cut.pc \in {"edge", "late"} /\ s = c
        BY <2>4 DEF Committing
      <4> QED BY <3>1, <4>1, EdgesToAppend DEF ToAppend
    <3>3. edge \/ late_arrival
      BY <1>9, <3>2 DEF CutterNext, take_completed, cutter_exit, add_successors_enter,
         resolve_dep_load, resolve_dep, hook2, send_2_ready_queue
    <3>4. CASE edge /\ k = NextEdge
      <4>1. /\ cut.surv[NextEdge] = p /\ S'[p] = Append(S[p], s)
        BY <3>1, <3>2, <3>4, EdgeStep
      <4>2. s \in ToSet(S'[p])
        BY <1>7, <4>1, AppendToList
      <4> QED BY <1>6, <4>2 DEF Owed
    <3>5. CASE ~(edge /\ k = NextEdge)
      <4>1. k \in DOMAIN LaterEdges
        <5>1. late_arrival => cut.pc = "late"
          BY DEF late_arrival
        <5> QED BY <3>2, <3>3, <3>5, <5>1
      <4>2. \/ cut'.pc = "late" /\ cut'.surv = cut.surv /\ g_commit_task_id' = c
            \/ EdgeDone
        BY <3>3, EdgeStep DEF late_arrival
      <4>3. \/ cut'.pc = "late" /\ cut'.surv = cut.surv /\ g_commit_task_id' = c
            \/ cut'.pc = "edge" /\ cut'.surv = LaterEdges /\ g_commit_task_id' = c
        BY <3>2, <4>1, <4>2, EdgeDoneFields
      <4>4. Committing(s)'
        BY <3>2, <4>3 DEF Committing
      <4>5. k \in ToAppend'
        <5>1. CASE cut'.pc = "late" /\ cut'.surv = cut.surv
          <6>1. LaterEdges' = LaterEdges
            BY <5>1 DEF LaterEdges, NextEdge
          <6> QED BY <4>1, <5>1, <6>1 DEF ToAppend
        <5>2. CASE cut'.pc = "edge" /\ cut'.surv = LaterEdges
          BY <4>1, <5>2 DEF ToAppend
        <5> QED BY <4>3, <5>1, <5>2
      <4> QED BY <3>1, <4>4, <4>5 DEF Owed
    <3> QED BY <3>4, <3>5
  <2> QED BY <2>1, <2>3, <2>4 DEF Owed
<1> QED BY <1>8, <1>9

(* A list of predecessors is cleared when its task has been committed.     *)
LEMMA CutterKeepsCreation ==
  ASSUME NoReuse, TypeOK, CreationInv, EntryInv, EdgeInv, CutterNext
  PROVE  CreationInv'
<1>1. \A t \in Tasks : Committed(t)' <=> Committed(t) \/ (commit /\ t = g_commit_task_id)
  BY CommittedMoves
<1>2. /\ UNCHANGED <<g_task_id, orch, g_basic_buf, runs>>
      /\ g_predecessors \in [Rings -> PredLists]
  BY DEF CutterNext, take_completed, cutter_exit, add_successors_enter, commit, edge,
     late_arrival, resolve_dep_load, resolve_dep, hook2, send_2_ready_queue, cutFrame,
     orchVars, TypeOK, OrchTypes
<1>3. \A t \in Tasks : ~Committed(t)' => g_predecessors'[t] = g_predecessors[t]
  <2>1. CASE commit
    BY <1>1, <2>1, CommitStep
  <2>2. CASE edge \/ late_arrival
    <3> DEFINE c == g_commit_task_id
    <3>1. cut.pc \in {"edge", "late"} /\ ~commit
      BY <2>2 DEF edge, late_arrival, commit
    <3>2. \/ g_predecessors' = g_predecessors
          \/ g_predecessors' = [g_predecessors EXCEPT ![Idx(c)] = <<>>]
      BY <2>2, <3>1, EdgeStep, EdgeDoneFields DEF late_arrival
    <3>3. c \in Tasks /\ Committed(c) /\ Idx(c) = c
      BY <3>1, EdgesToAppend, IdxSame
    <3> QED BY <1>1, <1>2, <3>2, <3>3, IdxSame
  <2>3. CASE ~commit /\ ~edge /\ ~late_arrival
    <3>1. UNCHANGED g_predecessors
      BY <2>3 DEF CutterNext, take_completed, cutter_exit, add_successors_enter,
         resolve_dep_load, resolve_dep, hook2, send_2_ready_queue
    <3> QED BY <3>1
  <2> QED BY <2>1, <2>2, <2>3
<1>4. \A t \in Tasks : /\ (Created(t)' <=> Created(t)) /\ (Listed(t)' <=> Listed(t))
  BY <1>2 DEF Created, Listed
<1>5. ASSUME NEW t \in Tasks, ListKeeps(t), ~Committed(t)'
      PROVE  ListKeeps(t)'
  <2>1. \A k \in DOMAIN Preds[t] : Ran(Preds[t][k]) <=> runs'[Preds[t][k]] > 0
    BY <1>2 DEF Ran
  <2> QED BY <1>3, <1>5, <2>1 DEF ListKeeps, Ran
<1> QED BY <1>1, <1>2, <1>4, <1>5 DEF CreationInv

----------------------------------------------------------------------------
(* What the cutter's steps mean for the lines and the slots.  Its frame:   *)
CutterHolds ==
  /\ UNCHANGED <<disp, exec, msg_bitmap, runs, task_id_map>>
  /\ \A u \in Units : exe'[u].state = exe[u].state /\ exe'[u].task = exe[u].task

(* What no step of the cutter writes.                                      *)
LEMMA CutterHoldsSlots ==
  ASSUME TypeOK, CutterNext
  PROVE  CutterHolds
<1>1. UNCHANGED <<disp, exec, msg_bitmap, runs, task_id_map>>
  BY DEF CutterNext, take_completed, cutter_exit, add_successors_enter, commit, edge,
     late_arrival, resolve_dep_load, resolve_dep, hook2, send_2_ready_queue, cutFrame,
     orchVars, ctrlVars
<1>2. exe \in [Units -> Slot]
  BY DEF TypeOK, SlotTypes
<1>3. CASE hook2
  <2>1. exe' = exe \/ \E r : exe' = [exe EXCEPT ![r.unit].doorbell = 1]
    BY <1>3 DEF hook2, ed_notify_once
  <2>2. ASSUME NEW v, exe' = [exe EXCEPT ![v].doorbell = 1], NEW u \in Units
        PROVE  exe'[u].state = exe[u].state /\ exe'[u].task = exe[u].task
    BY <1>2, <2>2 DEF Slot
  <2> QED BY <1>1, <2>1, <2>2 DEF CutterHolds
<1>4. CASE ~hook2
  <2>1. exe' = exe
    BY <1>4 DEF CutterNext, take_completed, cutter_exit, add_successors_enter, commit, edge,
       late_arrival, resolve_dep_load, resolve_dep, send_2_ready_queue
  <2> QED BY <1>1, <2>1 DEF CutterHolds
<1> QED BY <1>3, <1>4

(* A task becomes due by its commit or by its last edge.                   *)
LEMMA DueMoves ==
  ASSUME NoReuse, TypeOK, CreationInv, EntryInv, EdgeInv, CountInv, CutterNext
  PROVE  /\ \A t \in Tasks :
              Due(t)' <=> \/ Due(t)
                          \/ /\ commit /\ t = g_commit_task_id
                             /\ Cardinality(DOMAIN Survivors(t)) = 0
                          \/ /\ resolve_dep /\ t = Head(cut.work)
                             /\ g_predecessor_cnt[t] = 1
         /\ commit => ~Due(g_commit_task_id)
         /\ resolve_dep => ~Due(Head(cut.work)) /\ g_predecessor_cnt[Head(cut.work)] >= 1
                           /\ g_predecessor_cnt[Head(cut.work)] \in Nat
<1> DEFINE c == g_commit_task_id
           h == Head(cut.work)
<1>1. \A t \in Tasks : Committed(t)' <=> Committed(t) \/ (commit /\ t = c)
  BY CommittedMoves
<1>2. CASE commit
  <2>1. /\ c \in Tasks /\ ~Committed(c) /\ g_predecessor_cnt'[c] = Cardinality(DOMAIN Survivors(c))
        /\ \A t \in Tasks : t # c => g_predecessor_cnt'[t] = g_predecessor_cnt[t]
    BY <1>2, CommitStep
  <2>2. ~resolve_dep
    BY <1>2 DEF commit, resolve_dep
  <2> QED BY <1>1, <1>2, <2>1, <2>2 DEF Due
<1>3. CASE resolve_dep
  <2>1. /\ cut.pc = "resolve" /\ h \in Tasks /\ Committed(h)
        /\ g_predecessor_cnt'[h] = Dec(g_predecessor_cnt[h], UINT32_MAX)
        /\ \A t \in Tasks : t # h => g_predecessor_cnt'[t] = g_predecessor_cnt[t]
    BY <1>3, ResolveStep
  <2>2. cut.work \in Seq(Tasks) /\ cut.work # <<>> /\ WorkLeft = cut.work
    BY <1>3, <2>1, WalkedList DEF WorkLeft
  <2>3. h \in ToSet(cut.work)
    BY <2>2, TailOfList
  <2>4. Occurrences(h, WorkLeft) # 0
    BY <2>2, <2>3, OccurrencesType
  <2>5. g_predecessor_cnt[h] = Cardinality(OpenEdges(h)) + Occurrences(h, WorkLeft) + EdgesLeft(h)
    BY <2>1 DEF CountInv
  <2>6. g_predecessor_cnt[h] \in Nat /\ g_predecessor_cnt[h] >= 1
    BY <2>1, <2>4, <2>5, CountTypes
  <2>7. g_predecessor_cnt'[h] = g_predecessor_cnt[h] - 1
    BY <2>1, <2>6 DEF Dec
  <2>8. ~commit
    BY <1>3 DEF commit, resolve_dep
  <2> QED BY <1>1, <1>3, <2>1, <2>6, <2>7, <2>8 DEF Due
<1>4. CASE ~commit /\ ~resolve_dep
  <2>1. g_predecessor_cnt' = g_predecessor_cnt
    BY <1>4 DEF CutterNext, take_completed, cutter_exit, add_successors_enter, edge,
       late_arrival, resolve_dep_load, hook2, send_2_ready_queue, graphVars
  <2> QED BY <1>1, <1>4, <2>1 DEF Due
<1> QED BY <1>2, <1>3, <1>4

(* A task that becomes due goes to the end of its line, at once or after   *)
(* hook2; the other steps leave the lines alone, or drop a stretch of one. *)
LEMMA LaneTypes ==
  ASSUME TypeOK, NEW y \in Types
  PROVE  /\ (IF Type = y THEN Waiting ELSE <<>>) \in Seq(Tasks)
         /\ ready_queue[y] \in Seq(Tasks) /\ cut.ready[y] \in Seq(Tasks)
         /\ Lane(y) \in Seq(Tasks)
<1>1. /\ disp.batch \in Seq(Tasks) /\ (disp.pc = "hook0" => disp.batch # <<>>)
      /\ ready_queue[y] \in Seq(Tasks) /\ cut.ready[y] \in Seq(Tasks)
  BY DEF TypeOK, DispTypes, DispRegs, QueueTypes, CutTypes, CutRegs
<1>2. Waiting \in Seq(Tasks)
  BY <1>1, HeadTailProperties DEF Waiting
<1>3. (IF Type = y THEN Waiting ELSE <<>>) \in Seq(Tasks)
  BY <1>2, EmptyList
<1> QED BY <1>1, <1>3, ConcatLists DEF Lane

(* Pushing a task that became ready puts it at the end of its line,        *)
LEMMA LanePush ==
  ASSUME TypeOK, NEW s \in Tasks, UNCHANGED <<disp, ready_queue>>,
         cut'.ready = [cut.ready EXCEPT ![TypeOf[s]] = Append(@, s)]
  PROVE  \A y \in Types :
           Lane(y)' = IF y = TypeOf[s] THEN Append(Lane(y), s) ELSE Lane(y)
<1> SUFFICES ASSUME NEW y \in Types
             PROVE  Lane(y)' = IF y = TypeOf[s] THEN Append(Lane(y), s) ELSE Lane(y)
  OBVIOUS
<1> DEFINE w == IF Type = y THEN Waiting ELSE <<>>
           a == w \o ready_queue[y]
           b == cut.ready[y]
<1>1. w \in Seq(Tasks) /\ ready_queue[y] \in Seq(Tasks) /\ b \in Seq(Tasks)
  BY LaneTypes
<1>2. w' = w
  BY DEF Type, Waiting
<1>3. a \in Seq(Tasks) /\ a' = a
  <2> HIDE DEF w
  <2> QED BY <1>1, <1>2, ConcatLists
<1>4. TypeOf[s] \in Types /\ cut.ready \in [Types -> Seq(Tasks)]
  BY GraphAssumption DEF TypeOK, CutTypes, CutRegs
<1>5. cut'.ready[y] = IF y = TypeOf[s] THEN Append(b, s) ELSE b
  BY <1>4
<1>6. Lane(y) = a \o b /\ Lane(y)' = a \o cut'.ready[y]
  BY <1>3 DEF Lane
<1> HIDE DEF a, b
<1>7. a \o Append(b, s) = Append(a \o b, s)
  <2>1. Append(b, s) = b \o <<s>> /\ Append(a \o b, s) = (a \o b) \o <<s>>
    BY <1>1, <1>3, AppendIsConcat, ConcatLists
  <2>2. <<s>> \in Seq(Tasks)
    OBVIOUS
  <2>3. a \o (b \o <<s>>) = (a \o b) \o <<s>>
    BY <1>1, <1>3, <2>2, ConcatAssociative
  <2> QED BY <2>1, <2>3
<1> QED BY <1>5, <1>6, <1>7

(* ... and keeps the lines when it was in none.                            *)
LEMMA LanePushKeeps ==
  ASSUME TypeOK, LaneInv, NEW s \in Tasks, UNCHANGED <<disp, ready_queue>>, ~InLane(s),
         cut'.ready = [cut.ready EXCEPT ![TypeOf[s]] = Append(@, s)],
         \A t \in Tasks : Due(t) => Due(t)', Due(s)', cut'.pc # "hook2"
  PROVE  LaneInv' /\ \A t \in Tasks : InLane(t)' => InLane(t) \/ t = s
<1>1. ASSUME NEW y \in Types
      PROVE  /\ ToSet(Lane(y)') = ToSet(Lane(y)) \cup (IF y = TypeOf[s] THEN {s} ELSE {})
             /\ Distinct(Lane(y)') /\ ToSet(Lane(y)) \subseteq Tasks
  <2>1. Lane(y)' = IF y = TypeOf[s] THEN Append(Lane(y), s) ELSE Lane(y)
    BY LanePush
  <2> DEFINE q == Lane(y)
  <2>2. q \in Seq(Tasks) /\ Distinct(q) /\ s \notin ToSet(q)
    BY LaneTypes DEF LaneInv, InLane
  <2> HIDE DEF q
  <2>3. /\ ToSet(Append(q, s)) = ToSet(q) \cup {s} /\ Distinct(Append(q, s))
        /\ ToSet(q) \subseteq Tasks
    BY <2>2, AppendToList, ListFacts
  <2> QED BY <2>1, <2>2, <2>3 DEF q
<1>2. \A y \in Types : \A t \in ToSet(Lane(y)') : Due(t)' /\ TypeOf[t] = y
  BY <1>1 DEF LaneInv
<1> QED BY <1>1, <1>2 DEF LaneInv, InLane

(* Steps that push nothing keep the lines.                                 *)
LEMMA LaneKeeps ==
  ASSUME TypeOK, LaneInv, UNCHANGED <<disp, ready_queue>>, cut'.ready = cut.ready,
         \A t \in Tasks : Due(t) => Due(t)',
         cut'.pc = "hook2" => \A t \in Tasks : Head(cut'.work) = t => Due(t)' /\ ~InLane(t)
  PROVE  LaneInv' /\ \A t : InLane(t)' <=> InLane(t)
<1>1. \A y : Lane(y)' = Lane(y)
  BY DEF Lane, Waiting, Type
<1>2. \A t : InLane(t)' <=> InLane(t)
  BY <1>1 DEF InLane
<1>3. \A y \in Types : ToSet(Lane(y)) \subseteq Tasks
  BY LaneTypes, ListFacts
<1>4. \A y \in Types : \A t \in ToSet(Lane(y)) : Due(t)' /\ TypeOf[t] = y
  BY <1>3 DEF LaneInv
<1>5. \A y \in Types : \A t \in ToSet(Lane(y)') : Due(t)' /\ TypeOf[t] = y
  BY <1>1, <1>4
<1> QED BY <1>1, <1>2, <1>5 DEF LaneInv

(* send_2_ready_queue moves tasks within their line.                       *)
LEMMA SendKeepsLanes ==
  ASSUME TypeOK, LaneInv, send_2_ready_queue, \A t \in Tasks : Due(t) => Due(t)'
  PROVE  LaneInv' /\ \A t \in Tasks : InLane(t)' => InLane(t)
<1>1. PICK z \in Types :
        /\ ready_queue' = IF HasRoom(ready_queue[z], Len(cut.ready[z]))
                          THEN [ready_queue EXCEPT ![z] = @ \o cut.ready[z]]
                          ELSE ready_queue
        /\ cut'.ready = [cut.ready EXCEPT ![z] = <<>>]
  <2> DEFINE z == CHOOSE z \in Types : cut.ready[z] # <<>> /\
                    \A x \in Types : x < z => cut.ready[x] = <<>>
             rest == [cut.ready EXCEPT ![z] = <<>>]
             n == Len(cut.ready[z])
             tails == [cut.tail EXCEPT ![z] = IF HasRoom(ready_queue[z], n)
                                              THEN cut.tail[z] + n ELSE cut.tail[z]]
  <2>1. z \in Types
    <3>1. \E y \in Types : cut.ready[y] # <<>>
      BY DEF TypeOK, CutTypes, send_2_ready_queue
    <3>2. \E y \in Types : cut.ready[y] # <<>> /\ \A x \in Types : x < y => cut.ready[x] = <<>>
      <4>1. Types = {0, 1}
        BY DEF Types, TASK_TYPE_CUBE, TASK_TYPE_VECTOR
      <4> QED BY <3>1, <4>1
    <3> QED BY <3>2
  <2>2. /\ ready_queue' = IF HasRoom(ready_queue[z], Len(cut.ready[z]))
                          THEN [ready_queue EXCEPT ![z] = @ \o cut.ready[z]]
                          ELSE ready_queue
        /\ cut' = [cut EXCEPT !.ready = rest, !.pc = PcOfRest(<<>>, <<>>, rest),
                               !.tail = tails]
    BY DEF send_2_ready_queue
  <2> HIDE DEF rest, tails
  <2>3. cut'.ready = rest
    BY <2>2 DEF TypeOK, CutTypes, CutRegs
  <2> HIDE DEF z
  <2> QED BY <2>1, <2>2, <2>3 DEF rest
<1>2. /\ cut.ready \in [Types -> Seq(Tasks)] /\ ready_queue \in [Types -> Seq(Tasks)]
      /\ disp' = disp /\ cut'.pc \in {"send", "take"}
  BY RoundFields DEF TypeOK, CutTypes, CutRegs, QueueTypes, send_2_ready_queue, cutFrame
<1>3. ASSUME NEW y \in Types
      PROVE  Distinct(Lane(y)') /\ ToSet(Lane(y)') \subseteq ToSet(Lane(y))
             /\ ToSet(Lane(y)) \subseteq Tasks
  <2> DEFINE w == IF Type = y THEN Waiting ELSE <<>>
             q == ready_queue[y]
             r == cut.ready[y]
             q2 == ready_queue'[y]
             r2 == cut'.ready[y]
  <2>1. w \in Seq(Tasks) /\ q \in Seq(Tasks) /\ r \in Seq(Tasks) /\ w' = w
    BY <1>2, LaneTypes DEF Type, Waiting
  <2>2. \/ q2 = q /\ r2 = r
        \/ q2 = q \o r /\ r2 = <<>>
        \/ q2 = q /\ r2 = <<>>
    BY <1>1, <1>2
  <2>3. Lane(y) = (w \o q) \o r /\ Lane(y)' = (w \o q2) \o r2
    <3>1. Lane(y)' = (w' \o q2) \o r2
      BY DEF Lane
    <3> QED BY <2>1, <3>1 DEF Lane
  <2>4. Distinct(Lane(y)) /\ Lane(y) \in Seq(Tasks)
    BY LaneTypes DEF LaneInv
  <2> HIDE DEF w, q, r, q2, r2
  <2>5. /\ w \o q \in Seq(Tasks) /\ q \o r \in Seq(Tasks)
        /\ (w \o q) \o r = w \o (q \o r) /\ (w \o q) \o <<>> = w \o q
        /\ (w \o (q \o r)) \o <<>> = w \o (q \o r)
    <3>1. w \o q \in Seq(Tasks) /\ q \o r \in Seq(Tasks)
      BY <2>1, ConcatLists
    <3>2. w \o (q \o r) \in Seq(Tasks)
      BY <2>1, <3>1, ConcatLists
    <3>3. w \in Seq(Tasks) /\ q \in Seq(Tasks) /\ r \in Seq(Tasks)
      BY <2>1
    <3>4. (w \o q) \o r = w \o (q \o r)
      BY <3>3, ConcatAssociative, SMTT(20)
    <3>5. (w \o q) \o <<>> = w \o q
      BY <3>1, ConcatEmptySeq
    <3>6. (w \o (q \o r)) \o <<>> = w \o (q \o r)
      BY <3>2, ConcatEmptySeq
    <3> QED BY <3>1, <3>4, <3>5, <3>6
  <2>6. Distinct(w \o q) /\ ToSet(w \o q) \subseteq ToSet((w \o q) \o r)
    <3> DEFINE a == w \o q
    <3>1. a \in Seq(Tasks) /\ r \in Seq(Tasks) /\ Distinct(a \o r)
      BY <2>1, <2>3, <2>4, <2>5
    <3> HIDE DEF a
    <3>2. Distinct(a) /\ ToSet(a \o r) = ToSet(a) \cup ToSet(r)
      BY <3>1, ConcatLists
    <3> QED BY <3>2 DEF a
  <2>7. Lane(y)' = Lane(y) \/ Lane(y)' = w \o q
    BY <2>2, <2>3, <2>5
  <2> QED BY <2>3, <2>4, <2>6, <2>7, ListFacts
<1>4. \A y \in Types : \A t \in ToSet(Lane(y)') : Due(t)' /\ TypeOf[t] = y
  BY <1>3 DEF LaneInv
<1> QED BY <1>2, <1>3, <1>4 DEF LaneInv, InLane

(* The cutter keeps lines of due tasks without duplicates.                 *)
LEMMA CutterKeepsLanes ==
  ASSUME NoReuse, TypeOK, CreationInv, EntryInv, EdgeInv, RoundInv, CountInv, LaneInv,
         CutterNext
  PROVE  /\ LaneInv'
         /\ ~ED_ENABLE => \A t \in Tasks : Due(t) /\ ~InLane(t) => Due(t)' /\ ~InLane(t)'
<1> DEFINE c == g_commit_task_id
           h == Head(cut.work)
<1>1. \A t \in Tasks : Due(t) => Due(t)'
  BY DueMoves
<1>2. disp' = disp
  BY CutterHoldsSlots DEF CutterHolds
<1>3. \A t \in Tasks : InLane(t) => Due(t)
  BY DEF LaneInv, InLane
<1>4. CASE send_2_ready_queue
  BY <1>1, <1>4, SendKeepsLanes
<1>5. ASSUME cut'.ready = cut.ready, ready_queue' = ready_queue, cut'.pc # "hook2"
      PROVE  LaneInv' /\ \A t \in Tasks : Due(t) /\ ~InLane(t) => Due(t)' /\ ~InLane(t)'
  BY <1>1, <1>2, <1>5, LaneKeeps
<1>6. CASE commit
  <2>1. PICK s \in Tasks : s = c
    BY <1>6, CommitStep
  <2>2. /\ ready_queue' = ready_queue /\ cut'.pc # "hook2"
        /\ \/ /\ cut'.ready = [cut.ready EXCEPT ![TypeOf[s]] = Append(@, s)]
              /\ DOMAIN Survivors(s) = {}
           \/ cut'.ready = cut.ready
    BY <1>6, <2>1, CommitStep DEF commit
  <2>3. ~Due(s)
    BY <1>6, <2>1, DueMoves
  <2>4. DOMAIN Survivors(s) = {} => Due(s)'
    BY <1>6, <2>1, DueMoves, FS_EmptySet
  <2>5. CASE cut'.ready = cut.ready
    BY <1>5, <2>2, <2>5
  <2>6. CASE /\ cut'.ready = [cut.ready EXCEPT ![TypeOf[s]] = Append(@, s)]
             /\ DOMAIN Survivors(s) = {}
    <3>1. LaneInv' /\ \A t \in Tasks : InLane(t)' => InLane(t) \/ t = s
      BY <1>1, <1>2, <1>3, <2>2, <2>3, <2>4, <2>6, LanePushKeeps
    <3> QED BY <1>1, <2>3, <3>1
  <2> QED BY <2>2, <2>5, <2>6
<1>7. CASE resolve_dep
  <2> DEFINE n == Dec(g_predecessor_cnt[h], UINT32_MAX)
  <2>1. PICK s \in Tasks : s = h
    BY <1>7, ResolveStep
  <2>2. /\ ready_queue' = ready_queue
        /\ \/ /\ n = 0 /\ cut'.pc = "hook2" /\ cut'.work = cut.work
              /\ cut'.ready = cut.ready
           \/ n = 0 /\ Resolved([cut.ready EXCEPT ![TypeOf[s]] = Append(@, s)])
           \/ n # 0 /\ Resolved(cut.ready)
    BY <1>7, <2>1, ResolveStep DEF resolve_dep
  <2>3. ~Due(s) /\ g_predecessor_cnt[s] \in Nat /\ g_predecessor_cnt[s] >= 1
    BY <1>7, <2>1, DueMoves
  <2>4. n = 0 => Due(s)'
    <3>1. n = 0 => g_predecessor_cnt[s] = 1
      BY <2>1, <2>3 DEF Dec
    <3> QED BY <1>7, <2>1, <3>1, DueMoves
  <2>5. CASE n = 0 /\ cut'.pc = "hook2" /\ cut'.work = cut.work /\ cut'.ready = cut.ready
    <3>1. \A t \in Tasks : Head(cut'.work) = t => Due(t)' /\ ~InLane(t)
      BY <1>3, <2>1, <2>3, <2>4, <2>5
    <3> QED BY <1>1, <1>2, <2>2, <2>5, <3>1, LaneKeeps
  <2>6. CASE n = 0 /\ Resolved([cut.ready EXCEPT ![TypeOf[s]] = Append(@, s)])
    <3>1. /\ cut'.ready = [cut.ready EXCEPT ![TypeOf[s]] = Append(@, s)]
          /\ cut'.pc # "hook2"
      BY <2>6, ResolvedFields
    <3>2. LaneInv' /\ \A t \in Tasks : InLane(t)' => InLane(t) \/ t = s
      BY <1>1, <1>2, <1>3, <2>2, <2>3, <2>4, <2>6, <3>1, LanePushKeeps
    <3> QED BY <1>1, <2>3, <3>2
  <2>7. CASE Resolved(cut.ready)
    BY <1>5, <2>2, <2>7, ResolvedFields
  <2> QED BY <2>2, <2>5, <2>6, <2>7
<1>8. CASE hook2
  <2>1. /\ cut.pc = "hook2" /\ ED_ENABLE /\ ready_queue' = ready_queue
        /\ Resolved(PushReady(cut.ready, h))
    BY <1>8 DEF hook2, RoundInv
  <2>2. cut.work \in Seq(Tasks) /\ cut.work # <<>>
    BY <1>8, WalkedList
  <2>3. PICK s \in Tasks : s = h
    BY <2>2, TailOfList
  <2>4. Committed(s) /\ Due(s) /\ ~InLane(s)
    BY <2>1, <2>2, <2>3, TailOfList DEF EdgeInv, LaneInv
  <2>5. PushReady(cut.ready, s) = [cut.ready EXCEPT ![TypeOf[s]] = Append(@, s)]
    BY <2>4, CommittedIsCreated DEF PushReady
  <2>6. /\ cut'.ready = [cut.ready EXCEPT ![TypeOf[s]] = Append(@, s)]
        /\ cut'.pc # "hook2"
    BY <2>1, <2>3, <2>5, ResolvedFields
  <2>7. Due(s)'
    BY <1>1, <2>4
  <2> QED BY <1>1, <1>2, <2>1, <2>4, <2>6, <2>7, LanePushKeeps
<1>9. CASE edge \/ late_arrival
  <2>1. cut.pc \in {"edge", "late"} /\ ready_queue' = ready_queue
    BY <1>9 DEF edge, late_arrival
  <2>2. \/ cut'.pc = "late" /\ cut'.ready = cut.ready
        \/ EdgeDone
    BY <1>9, EdgeStep DEF late_arrival
  <2> QED BY <1>5, <2>1, <2>2, EdgeDoneFields
<1>10. CASE take_completed \/ cutter_exit \/ add_successors_enter \/ resolve_dep_load
  <2>1. ready_queue' = ready_queue
    BY <1>10 DEF take_completed, cutter_exit, add_successors_enter, resolve_dep_load
  <2> QED BY <1>5, <1>10, <2>1, RoundFields
<1> QED BY <1>4, <1>6, <1>7, <1>8, <1>9, <1>10, <1>1 DEF CutterNext

----------------------------------------------------------------------------
(* The metadata of a committed task that the cutter's steps leave alone.   *)
LEMMA CutterMeta ==
  ASSUME NoReuse, TypeOK, CreationInv, EntryInv, EdgeInv, CutterNext, ~hook2, ED_ENABLE,
         NEW t \in Tasks, Committed(t)
  PROVE  /\ ed'[t].next_block = ed[t].next_block
         /\ ed'[t].staged = ed[t].staged /\ ed'[t].claimed = ed[t].claimed
         /\ \/ ed'[t].spec = ed[t].spec
            \/ ed[t].spec = "NONE" /\ ed'[t].spec = "STAGING"
            \/ /\ resolve_dep /\ t = Head(cut.work) /\ ed'[t].spec = "DISPATCHED"
               /\ Dec(g_predecessor_cnt[t], UINT32_MAX) = 0
               /\ ed[t].spec = "STAGING" => cut'.pc = "hook2" /\ cut'.work = cut.work
<1>1. CASE commit
  BY <1>1, CommitStep
<1>2. CASE edge
  BY <1>2, EdgeStep
<1>3. CASE late_arrival
  <2>1. g_commit_task_id \in Tasks /\ AddFanin(g_commit_task_id, ed[Idx(g_commit_task_id)])
    BY <1>3, EdgesToAppend DEF late_arrival
  <2> QED BY <2>1, CreditKeeps DEF MetaHeld
<1>4. CASE resolve_dep
  BY <1>4, ResolveStep
<1>5. CASE ~commit /\ ~edge /\ ~late_arrival /\ ~resolve_dep
  <2>1. ed' = ed
    BY <1>5 DEF CutterNext, take_completed, cutter_exit, add_successors_enter,
       resolve_dep_load, send_2_ready_queue
  <2> QED BY <2>1
<1> QED BY <1>1, <1>2, <1>3, <1>4, <1>5

(* hook2 rings the doorbell of the recorded slot, unless that was done or  *)
(* there is no record yet.                                                 *)
LEMMA Hook2Step ==
  ASSUME NoReuse, TypeOK, CreationInv, EntryInv, EdgeInv, RoundInv, StageInv, hook2
  PROVE  LET s == Head(cut.work)
             v == ed[s].staged.unit
         IN
         /\ ED_ENABLE /\ cut.pc = "hook2" /\ s \in Tasks /\ Committed(s)
         /\ \A t \in Tasks : t # s => ed'[t] = ed[t]
         /\ ed'[s].next_block = ed[s].next_block /\ ed'[s].spec = ed[s].spec
         /\ ed'[s].staged = ed[s].staged
         /\ \/ /\ ed[s].staged # INVALID /\ ed[s].claimed = 0 /\ ed'[s].claimed = 1
               /\ v \in Units /\ exe[v].state = "GATED" /\ exe[v].task = s
               /\ exe'[v].doorbell = 1
               /\ \A u \in Units : u # v => exe'[u] = exe[u]
            \/ /\ ed[s].staged = INVALID \/ ed[s].claimed = 1
               /\ ed' = ed /\ exe' = exe
<1> DEFINE s == Head(cut.work)
           r == ed[s].staged
           m2 == [ed[s] EXCEPT !.claimed = 1]
<1>1. cut.pc = "hook2" /\ ED_ENABLE /\ cut.work \in Seq(Tasks) /\ cut.work # <<>>
  BY WalkedList DEF RoundInv
<1>2. s \in Tasks /\ Committed(s)
  BY <1>1, TailOfList DEF EdgeInv
<1>3. Idx(s) = s /\ s \in Rings /\ Tasks \subseteq Rings
  BY <1>2, IdxSame
<1>4. ed \in [Rings -> EdMeta] /\ exe \in [Units -> Slot]
  BY DEF TypeOK, EdTypes, SlotTypes
<1>5. ed[s] \in EdMeta
  BY <1>3, <1>4
<1>6. /\ ed[s].ring_task_tag = s /\ Recorded(s)
  BY <1>1, <1>2, <1>3 DEF EntryInv, TagIs, StageInv
<1>7. r # INVALID => r.tag = s /\ r.unit \in Units
  <2>1. r \in MetaRecords
    BY <1>5 DEF EdMeta
  <2> QED BY <1>6, <2>1 DEF Recorded, MetaRecords
<1>8. ed[s].claimed \in {0, 1}
  BY <1>5 DEF EdMeta
<1>9. /\ m2.next_block = ed[s].next_block /\ m2.spec = ed[s].spec /\ m2.staged = ed[s].staged
      /\ m2.claimed = 1
  BY <1>5 DEF EdMeta
<1>10. IF r # INVALID /\ r.tag = s THEN ed_notify_once(s, r) ELSE ed' = ed /\ exe' = exe
  BY <1>3 DEF hook2
<1>11. CASE r # INVALID /\ ed[s].claimed = 0
  <2>1. NotifyLive(s, r)
    BY <1>3, <1>6, <1>7, <1>11 DEF NotifyLive, Unclaimed
  <2>2. /\ ed' = [ed EXCEPT ![s] = m2]
        /\ exe' = [exe EXCEPT ![r.unit] = [exe[r.unit] EXCEPT !.doorbell = 1]]
    BY <1>3, <1>7, <1>10, <1>11, <2>1 DEF ed_notify_once
  <2>3. exe[r.unit].state = "GATED" /\ exe[r.unit].task = s
    BY <1>6, <1>11 DEF Recorded
  <2> HIDE DEF m2
  <2>4. ed'[s] = m2 /\ \A t \in Tasks : t # s => ed'[t] = ed[t]
    BY <1>3, <1>4, <2>2
  <2>5. exe'[r.unit].doorbell = 1 /\ \A u \in Units : u # r.unit => exe'[u] = exe[u]
    <3> DEFINE v == r.unit
    <3>1. v \in Units /\ exe[v] \in Slot /\ exe' = [exe EXCEPT ![v] = [exe[v] EXCEPT !.doorbell = 1]]
      BY <1>4, <1>7, <1>11, <2>2
    <3> HIDE DEF v
    <3>2. exe'[v].doorbell = 1 /\ \A u \in Units : u # v => exe'[u] = exe[u]
      BY <1>4, <3>1 DEF Slot
    <3> QED BY <3>2 DEF v
  <2> QED BY <1>1, <1>2, <1>7, <1>9, <1>11, <2>3, <2>4, <2>5
<1>12. CASE r = INVALID \/ ed[s].claimed = 1
  <2>1. ~NotifyLive(s, r)
    BY <1>3, <1>12 DEF NotifyLive, Unclaimed
  <2>2. ed' = ed /\ exe' = exe
    BY <1>10, <2>1 DEF ed_notify_once
  <2> QED BY <1>1, <1>2, <1>12, <2>2
<1> QED BY <1>8, <1>11, <1>12

(* What is claimed stays claimed.                                          *)
LEMMA CutterKeepsClaims ==
  ASSUME NoReuse, TypeOK, CreationInv, EntryInv, EdgeInv, RoundInv, CountInv, LaneInv,
         ClaimInv, StageInv, CutterNext, \A t \in ToSet(completed_queue) : Committed(t)
  PROVE  ClaimInv'
<1>1. /\ UNCHANGED <<exec, msg_bitmap, runs>>
      /\ \A u \in Units : exe'[u].state = exe[u].state /\ exe'[u].task = exe[u].task
  BY CutterHoldsSlots DEF CutterHolds
<1>2. \A t \in Tasks : \A u \in Units : (Holds(u, t)' <=> Holds(u, t)) /\ (Occupies(u, t)' <=> Occupies(u, t))
  BY <1>1 DEF Holds, Occupies
<1>3. \A t \in Tasks : Claimed(t) => Claimed(t)'
  <2>1. CASE ~ED_ENABLE
    BY <2>1, CutterKeepsLanes DEF Claimed
  <2>2. CASE ED_ENABLE
    <3>1. \A t \in Tasks : Committed(t) => Committed(t)'
      BY CommittedMoves
    <3>2. \A t \in Tasks : Committed(t) => ed'[t].next_block = ed[t].next_block
      <4>1. CASE hook2
        BY <4>1, Hook2Step
      <4>2. CASE ~hook2
        BY <2>2, <4>2, CutterMeta
      <4> QED BY <4>1, <4>2
    <3> QED BY <2>2, <3>1, <3>2 DEF Claimed
  <2> QED BY <2>1, <2>2
<1>4. HeldOnce'
  BY <1>2, <1>3 DEF ClaimInv, HeldOnce
<1>5. RunOnce'
  BY <1>1, <1>2, <1>3 DEF ClaimInv, RunOnce, Ran
<1>6. \A t \in Tasks : Completed(t)' <=> Completed(t) \/ (take_completed /\ t \in ToSet(cut'.batch))
  BY CompletedMoves
<1>7. CASE take_completed
  <2>1. /\ cut'.batch \in Seq(Tasks) /\ completed_queue' \in Seq(Tasks)
        /\ completed_queue = cut'.batch \o completed_queue'
    BY <1>7, TakeStep
  <2>2. \A p, q \in Seq(Tasks) : Distinct(p \o q) =>
          Distinct(q) /\ ToSet(p) \cap ToSet(q) = {} /\ ToSet(p \o q) = ToSet(p) \cup ToSet(q)
    BY ConcatLists
  <2>3. /\ Distinct(completed_queue') /\ ToSet(cut'.batch) \cap ToSet(completed_queue') = {}
        /\ ToSet(completed_queue) = ToSet(cut'.batch) \cup ToSet(completed_queue')
    BY <2>1, <2>2 DEF ClaimInv, ToldOnce
  <2>4. ToSet(completed_queue') \subseteq Tasks
    BY <2>1, ListFacts
  <2>5. \A t \in ToSet(completed_queue') : ~Completed(t)'
    BY <1>6, <2>3, <2>4 DEF ClaimInv, ToldOnce
  <2>6. ToldOnce'
    BY <1>2, <1>6, <2>3, <2>5 DEF ClaimInv, ToldOnce
  <2> QED BY <1>4, <1>5, <2>6 DEF ClaimInv
<1>8. CASE ~take_completed
  <2>1. completed_queue' = completed_queue
    BY <1>8 DEF CutterNext, cutter_exit, add_successors_enter, commit, edge,
     late_arrival, resolve_dep_load, resolve_dep, hook2, send_2_ready_queue, cutFrame
  <2>2. ToSet(completed_queue) \subseteq Tasks
    BY ListFacts DEF TypeOK, QueueTypes
  <2>3. \A t \in ToSet(completed_queue) : ~Completed(t)'
    BY <1>6, <1>8, <2>2 DEF ClaimInv, ToldOnce
  <2>4. ToldOnce'
    BY <1>2, <1>6, <1>8, <2>1, <2>3 DEF ClaimInv, ToldOnce
  <2> QED BY <1>4, <1>5, <2>4 DEF ClaimInv
<1> QED BY <1>7, <1>8

(* A doorbell the cutter rings is that of a task it has just resolved.     *)
LEMMA CutterKeepsDue ==
  ASSUME NoReuse, TypeOK, CreationInv, EntryInv, EdgeInv, RoundInv, CountInv, LaneInv,
         DueInv, StageInv, CutterNext
  PROVE  DueInv'
<1>1. \A u \in Units : exe'[u].state = exe[u].state /\ exe'[u].task = exe[u].task
  BY CutterHoldsSlots DEF CutterHolds
<1>2. \A t \in Tasks : Due(t) => Due(t)'
  BY DueMoves
<1>3. CASE hook2
  <2> DEFINE h == Head(cut.work)
             v == ed[h].staged.unit
  <2>1. /\ ED_ENABLE /\ cut.pc = "hook2" /\ h \in Tasks /\ Committed(h)
        /\ \A t \in Tasks : ed'[t].spec = ed[t].spec
        /\ \/ /\ v \in Units /\ exe[v].state = "GATED" /\ exe[v].task = h
              /\ \A u \in Units : u # v => exe'[u] = exe[u]
           \/ exe' = exe
    BY <1>3, Hook2Step
  <2>2. Due(h)
    BY <2>1 DEF LaneInv
  <2>3. \A t \in Tasks : Committed(t)' <=> Committed(t)
    BY <1>3, CommittedMoves DEF hook2, commit
  <2>4. \A u \in Units : exe'[u].doorbell = 1 =>
          exe[u].doorbell = 1 \/ (exe[u].state = "GATED" /\ exe[u].task = h)
    BY <2>1
  <2> HIDE DEF h, v
  <2>5. \A u \in Units : exe'[u].doorbell = 1 => exe'[u].state = "GATED"
    BY <1>1, <2>4 DEF DueInv
  <2>6. ASSUME NEW t \in Tasks, NEW u \in Units, exe'[u].task = t,
               exe'[u].state = "RUNNABLE" \/ exe'[u].doorbell = 1
        PROVE  Due(t)'
    <3>1. Due(t)
      BY <1>1, <2>2, <2>4, <2>6 DEF DueInv
    <3> QED BY <1>2, <3>1
  <2>7. ASSUME NEW t \in Tasks, ED_ENABLE, Committed(t)', ed'[t].spec = "DISPATCHED"
        PROVE  Due(t)'
    BY <1>2, <2>1, <2>3, <2>7 DEF DueInv
  <2> QED BY <2>5, <2>6, <2>7 DEF DueInv
<1>4. CASE ~hook2
  <2>1. exe' = exe
    BY <1>4 DEF CutterNext, take_completed, cutter_exit, add_successors_enter, commit, edge,
     late_arrival, resolve_dep_load, resolve_dep, send_2_ready_queue, cutFrame
  <2>2. ASSUME NEW t \in Tasks, ED_ENABLE, Committed(t)', ed'[t].spec = "DISPATCHED"
        PROVE  Due(t)'
    <3>1. CASE Committed(t)
      <4>1. CASE ed[t].spec = "DISPATCHED"
        BY <1>2, <2>2, <3>1, <4>1 DEF DueInv
      <4>2. CASE /\ resolve_dep /\ t = Head(cut.work)
                 /\ Dec(g_predecessor_cnt[t], UINT32_MAX) = 0
        <5>1. g_predecessor_cnt[t] \in Nat /\ g_predecessor_cnt[t] >= 1
          BY <4>2, DueMoves
        <5>2. g_predecessor_cnt[t] = 1
          BY <4>2, <5>1 DEF Dec
        <5> QED BY <4>2, <5>2, DueMoves
      <4> QED BY <1>4, <2>2, <3>1, <4>1, <4>2, CutterMeta
    <3>2. CASE ~Committed(t)
      <4>1. commit /\ t = g_commit_task_id
        BY <2>2, <3>2, CommittedMoves
      <4> QED BY <2>2, <4>1, CommitStep
    <3> QED BY <3>1, <3>2
  <2> QED BY <1>2, <2>1, <2>2 DEF DueInv
<1> QED BY <1>3, <1>4

(* The cutter keeps gates, records and doorbells.                          *)
LEMMA CutterKeepsStages ==
  ASSUME NoReuse, TypeOK, CreationInv, EntryInv, EdgeInv, RoundInv, CountInv, LaneInv,
         ClaimInv, DueInv, StageInv, CutterNext
  PROVE  StageInv'
<1>1. /\ UNCHANGED disp
      /\ \A u \in Units : exe'[u].state = exe[u].state /\ exe'[u].task = exe[u].task
  BY CutterHoldsSlots DEF CutterHolds
<1>2. disp.pc \in {"mask", "record", "check"} => disp.unit \in Units
  BY DEF TypeOK, DispTypes
<1>3. \A t \in Tasks : \A u \in Units : exe[u].state = "GATED" /\ exe[u].task = t =>
        Gated(u, t) /\ Holds(u, t) /\ ED_ENABLE /\ Committed(t)
  <2> TAKE t \in Tasks
  <2> TAKE u \in Units
  <2>1. exe[u].state = "GATED" /\ exe[u].task = t => Gated(u, t) /\ Holds(u, t)
    BY DEF StageInv, Holds, Occupies
  <2>2. exe[u].state = "GATED" /\ exe[u].task = t => Claimed(t) /\ ED_ENABLE
    BY <2>1 DEF ClaimInv, HeldOnce, Gated
  <2> QED BY <2>1, <2>2 DEF Claimed
<1>4. \A t \in Tasks : (Committed(t)' <=> Committed(t) \/ (commit /\ t = g_commit_task_id))
  BY CommittedMoves
<1>5. \A t \in Tasks : ED_ENABLE /\ Committed(t) =>
        ed'[t].next_block = ed[t].next_block /\ ed'[t].staged = ed[t].staged
  <2>1. CASE hook2
    BY <2>1, Hook2Step
  <2>2. CASE ~hook2
    BY <2>2, CutterMeta
  <2> QED BY <2>1, <2>2
<1>6. disp'.pc \in {"ed", "try", "mask", "record", "check"} => ED_ENABLE
  BY <1>1 DEF StageInv
<1>7. Staging' <=> Staging
  BY <1>1 DEF Staging
<1>8. ASSUME NEW t \in Tasks, Staging', exe'[disp'.unit].task = t
      PROVE  exe'[disp'.unit].state = "GATED" /\ ed'[t].staged = INVALID
  <2>1. PICK u \in Units : u = disp.unit
    BY <1>2, <1>7, <1>8 DEF Staging
  <2>2. exe[u].state = "GATED" /\ exe[u].task = t /\ ed[t].staged = INVALID
    BY <1>1, <1>7, <1>8, <2>1 DEF StageInv
  <2> QED BY <1>1, <1>3, <1>5, <2>1, <2>2
<1>9. ASSUME NEW t \in Tasks, disp'.pc = "check", exe'[disp'.unit].task = t
      PROVE  Committed(t)' /\ ed'[t].staged = Record(t, disp.unit)
  <2>1. PICK u \in Units : u = disp.unit
    BY <1>1, <1>2, <1>9
  <2>2. exe[u].task = t
    BY <1>1, <1>9, <2>1
  <2>3. Committed(t) /\ ed[t].staged = Record(t, disp.unit) /\ ED_ENABLE
    BY <1>1, <1>9, <2>1, <2>2 DEF StageInv
  <2> QED BY <1>4, <1>5, <2>3
<1>10. ASSUME NEW t \in Tasks, ED_ENABLE, Committed(t)'
       PROVE  Recorded(t)'
  <2>1. CASE ~Committed(t)
    <3>1. commit /\ t = g_commit_task_id
      BY <1>4, <1>10, <2>1
    <3>2. ed'[t].staged = INVALID /\ ed'[t].claimed = 0
      BY <1>10, <3>1, CommitStep
    <3> QED BY <3>2 DEF Recorded
  <2>2. CASE Committed(t)
    <3>1. Recorded(t) /\ ed'[t].next_block = ed[t].next_block /\ ed'[t].staged = ed[t].staged
      BY <1>5, <1>10, <2>2 DEF StageInv
    <3>2. \/ ed'[t].claimed = ed[t].claimed
          \/ ed[t].staged # INVALID /\ ed'[t].claimed = 1
      <4>1. CASE hook2
        BY <4>1, Hook2Step
      <4>2. CASE ~hook2
        BY <1>10, <2>2, <4>2, CutterMeta
      <4> QED BY <4>1, <4>2
    <3>3. ed[t].staged # INVALID => ed[t].staged.unit \in Units
      <4>1. ed[t] \in EdMeta
        BY IdxSame DEF TypeOK, EdTypes
      <4>2. ed[t].staged \in MetaRecords
        BY <4>1 DEF EdMeta
      <4> QED BY <4>2 DEF MetaRecords
    <3>4. ed[t].staged # INVALID /\ ed'[t].claimed = 0 =>
            exe'[ed[t].staged.unit].state = "GATED" /\ exe'[ed[t].staged.unit].task = t
      BY <1>1, <3>1, <3>2, <3>3 DEF Recorded
    <3> QED BY <3>1, <3>2, <3>4 DEF Recorded
  <2> QED BY <2>1, <2>2
<1>11. ASSUME NEW t \in Tasks, NEW u \in Units, exe'[u].state = "GATED", exe'[u].task = t
       PROVE  Gated(u, t)'
  <2>1. exe[u].state = "GATED" /\ exe[u].task = t
    BY <1>1, <1>11
  <2>2. Gated(u, t) /\ Holds(u, t) /\ ED_ENABLE /\ Committed(t)
    BY <1>3, <2>1
  <2>3. ed'[t].staged = ed[t].staged
    BY <1>5, <2>2
  <2>4. ed'[t].staged = INVALID => Staging' /\ disp'.unit = u
    BY <1>1, <1>7, <2>2, <2>3 DEF Gated
  <2>5. disp.pc \in {"mask", "record", "check"} /\ exe[disp.unit].task = t => NotifierOwed(t)'
    BY <1>1, <1>2 DEF NotifierOwed
  <2>6. CASE hook2
    <3> DEFINE h == Head(cut.work)
               v == ed[h].staged.unit
    <3>1. /\ cut.pc = "hook2" /\ h \in Tasks
          /\ t # h => ed'[t] = ed[t]
          /\ ed'[h].spec = ed[h].spec
          /\ \/ /\ ed[h].staged # INVALID /\ ed[h].claimed = 0 /\ ed'[h].claimed = 1
                /\ v \in Units /\ exe[v].state = "GATED" /\ exe[v].task = h
                /\ exe'[v].doorbell = 1
                /\ u # v => exe'[u] = exe[u]
             \/ /\ ed[h].staged = INVALID \/ ed[h].claimed = 1
                /\ ed' = ed /\ exe' = exe
      BY <2>6, Hook2Step
    <3> HIDE DEF h, v
    <3>2. v \in Units /\ exe[v].state = "GATED" /\ exe[v].task = t => v = u
      <4>1. v \in Units /\ exe[v].state = "GATED" /\ exe[v].task = t => Holds(v, t)
        BY DEF Holds, Occupies
      <4> QED BY <2>2, <4>1 DEF ClaimInv, HeldOnce
    <3>3. ed'[t].spec = ed[t].spec
      BY <3>1
    <3>4. exe'[u].doorbell = ed'[t].claimed
      BY <2>1, <2>2, <3>1, <3>2 DEF Gated
    <3>5. exe'[u].doorbell = 1 \/ exe'[u].doorbell = exe[u].doorbell
      BY <3>1
    <3>6. ed'[t].spec = "DISPATCHED" => exe'[u].doorbell = 1 \/ NotifierOwed(t)'
      <4>1. SUFFICES ASSUME ed[t].spec = "DISPATCHED", exe'[u].doorbell # 1
                     PROVE  NotifierOwed(t)'
        BY <3>3
      <4>2. NotifierOwed(t) /\ exe[u].doorbell # 1
        BY <2>2, <3>5, <4>1 DEF Gated
      <4>3. CASE t = h
        <5>1. ed[t].staged = INVALID
          <6>1. exe[u].doorbell = ed[t].claimed
            BY <2>2 DEF Gated
          <6> QED BY <3>1, <3>2, <4>1, <4>2, <4>3, <6>1
        <5>2. Staging /\ disp.unit = u
          BY <2>2, <5>1 DEF Gated
        <5> QED BY <2>1, <2>5, <5>2 DEF Staging
      <4>4. CASE t # h
        BY <2>5, <4>2, <4>4 DEF NotifierOwed, h
      <4> QED BY <4>3, <4>4
    <3> QED BY <2>2, <2>4, <3>3, <3>4, <3>6 DEF Gated
  <2>7. CASE ~hook2
    <3>1. exe' = exe
      BY <2>7 DEF CutterNext, take_completed, cutter_exit, add_successors_enter, commit, edge,
       late_arrival, resolve_dep_load, resolve_dep, send_2_ready_queue, cutFrame
    <3>2. /\ ed'[t].claimed = ed[t].claimed
          /\ \/ ed'[t].spec = ed[t].spec
             \/ ed[t].spec = "NONE" /\ ed'[t].spec = "STAGING"
             \/ /\ resolve_dep /\ t = Head(cut.work) /\ ed'[t].spec = "DISPATCHED"
                /\ ed[t].spec = "STAGING" => cut'.pc = "hook2" /\ cut'.work = cut.work
      BY <2>2, <2>7, CutterMeta
    <3>3. cut.pc # "hook2"
      <4>1. \A x \in {"take", "enter", "commit", "edge", "late", "load", "resolve", "send"} : x # "hook2"
        OBVIOUS
      <4> QED BY <2>7 DEF CutterNext, take_completed, cutter_exit, add_successors_enter, commit, edge,
       late_arrival, resolve_dep_load, resolve_dep, send_2_ready_queue
    <3>4. ed[t].spec \in {"STAGING", "DISPATCHED"}
      BY <2>2 DEF Gated
    <3>5. ed'[t].spec \in {"STAGING", "DISPATCHED"}
      BY <3>2, <3>4
    <3>6. ASSUME ed'[t].spec = "DISPATCHED", exe'[u].doorbell # 1
          PROVE  NotifierOwed(t)'
      <4>1. CASE ed[t].spec = "DISPATCHED"
        <5>1. NotifierOwed(t)
          BY <2>2, <3>1, <3>6, <4>1 DEF Gated
        <5> QED BY <2>5, <3>3, <5>1 DEF NotifierOwed
      <4>2. CASE ed[t].spec = "STAGING"
        <5>1. cut'.pc = "hook2" /\ cut'.work = cut.work /\ t = Head(cut.work)
          BY <3>2, <3>6, <4>2
        <5> QED BY <5>1 DEF NotifierOwed
      <4> QED BY <3>4, <4>1, <4>2
    <3> QED BY <2>2, <2>4, <3>1, <3>2, <3>5, <3>6 DEF Gated
  <2> QED BY <2>6, <2>7
<1> QED BY <1>1, <1>6, <1>8, <1>9, <1>10, <1>11 DEF StageInv

----------------------------------------------------------------------------
(* What completed_queue holds has run, is committed and not yet marked.    *)
LEMMA ToldRan ==
  ASSUME TypeOK, WatermarkInv, EntryInv, ClaimInv, NoReuse
  PROVE  /\ \A t \in ToSet(completed_queue) : t \in Tasks /\ Ran(t) /\ Committed(t) /\ ~Completed(t)
         /\ Distinct(completed_queue)
         /\ \A t \in Tasks : Completed(t) => Ran(t)
         /\ \A t \in Tasks : Claimed(t) => Committed(t)
<1>1. \A t \in Tasks : Claimed(t) => Committed(t)
  BY DEF Claimed, Due
<1>2. completed_queue \in Seq(RanTasks)
  BY DEF WatermarkInv, CompletionsRan, QueueRan
<1>3. \A t \in ToSet(completed_queue) : t \in RanTasks
  BY <1>2, LenProperties, ElementOfSeq DEF ToSet
<1>4. \A t \in ToSet(completed_queue) : t \in Tasks /\ Ran(t)
  BY <1>3 DEF RanTasks
<1>5. \A t \in Tasks : Completed(t) => Ran(t)
  <2> TAKE t \in Tasks
  <2>1. Completed(t) => g_state_buf[t].task_id = t
    BY DEF EntryInv, Completed, Untouched
  <2>2. t \in Rings
    BY IdxSame
  <2> QED BY <2>1, <2>2 DEF Completed, WatermarkInv, CompletionsRan, StatesRan, RanTasks
<1> QED BY <1>1, <1>4, <1>5 DEF ClaimInv, ToldOnce, RunOnce

(* Every step of the cutter keeps the invariant.                           *)
LEMMA CutterKeepsDag ==
  ASSUME NoReuse, TypeOK, WatermarkInv, DagInv, CutterNext
  PROVE  DagInv'
<1>1. \A t \in ToSet(completed_queue) : Committed(t)
  BY ToldRan DEF DagInv
<1>2. Distinct(completed_queue) /\ \A t \in ToSet(completed_queue) : Committed(t) /\ ~Completed(t)
  BY ToldRan DEF DagInv
<1>3. EntryInv' /\ EdgeInv' /\ RoundInv'
  BY <1>1, <1>2, CutterKeepsEntries, CutterKeepsEdges, CutterKeepsRounds DEF DagInv
<1>4. CountInv'
  BY <1>2, <1>3, CutterKeepsCounts DEF DagInv
<1>5. ReasonInv' /\ CreationInv'
  BY <1>1, CutterKeepsReasons, CutterKeepsCreation DEF DagInv
<1>6. LaneInv'
  BY CutterKeepsLanes DEF DagInv
<1>7. ClaimInv'
  BY <1>1, CutterKeepsClaims DEF DagInv
<1>8. DueInv' /\ StageInv'
  BY CutterKeepsDue, CutterKeepsStages DEF DagInv
<1> QED BY <1>3, <1>4, <1>5, <1>6, <1>7, <1>8 DEF DagInv


----------------------------------------------------------------------------
(* Steps that claim no task and touch no slot.                             *)
LEMMA LanesShrink ==
  ASSUME TypeOK, LaneInv, UNCHANGED graphHeld,
         \A y \in Types : Distinct(Lane(y)') /\ ToSet(Lane(y)') \subseteq ToSet(Lane(y)),
         disp'.pc \notin {"send", "hook0"} => disp'.batch = <<>>
  PROVE  LaneInv' /\ \A t \in Tasks : InLane(t)' => InLane(t)
<1>1. UNCHANGED <<g_commit_task_id, g_predecessor_cnt, cut>>
  BY DEF graphHeld
<1>2. \A t : Due(t)' <=> Due(t)
  BY <1>1 DEF Due, Committed, Committing
<1>3. \A t \in Tasks : InLane(t)' => InLane(t)
  BY DEF InLane
<1>4. \A y \in Types : \A t \in ToSet(Lane(y)') : Due(t)' /\ TypeOf[t] = y
  BY <1>2 DEF LaneInv
<1> QED BY <1>1, <1>2, <1>3, <1>4 DEF LaneInv

(* Claims stand in a step after which the same slots hold the same tasks,  *)
(* no block is claimed and no task joins a line.                           *)
LEMMA ClaimsStand ==
  ASSUME ClaimInv, UNCHANGED graphHeld, UNCHANGED <<runs, completed_queue>>,
         \A t \in Tasks : \A u \in Units : /\ (Holds(u, t)' <=> Holds(u, t))
                                           /\ (Occupies(u, t)' <=> Occupies(u, t)),
         \A t \in Tasks : ed'[t].next_block = ed[t].next_block,
         \A t \in Tasks : ~ED_ENABLE /\ InLane(t)' => InLane(t)
  PROVE  ClaimInv'
<1>1. UNCHANGED <<g_commit_task_id, g_state_buf, g_predecessor_cnt, cut>>
  BY DEF graphHeld
<1>2. \A t : /\ (Due(t)' <=> Due(t)) /\ (Committed(t)' <=> Committed(t))
             /\ (Completed(t)' <=> Completed(t)) /\ (Ran(t)' <=> Ran(t))
  BY <1>1 DEF Due, Committed, Committing, Completed, Ran
<1>3. \A t \in Tasks : Claimed(t) => Claimed(t)'
  BY <1>2 DEF Claimed
<1> QED BY <1>2, <1>3 DEF ClaimInv, HeldOnce, RunOnce, ToldOnce

(* Doorbells and starts stand in a step that changes no slot and sets no   *)
(* task DISPATCHED.                                                        *)
LEMMA DueStands ==
  ASSUME DueInv, UNCHANGED graphHeld, UNCHANGED exe,
         \A t \in Tasks : ed'[t].spec = "DISPATCHED" => ed[t].spec = "DISPATCHED"
  PROVE  DueInv'
<1>1. UNCHANGED <<g_commit_task_id, g_predecessor_cnt, cut>>
  BY DEF graphHeld
<1>2. \A t : (Due(t)' <=> Due(t)) /\ (Committed(t)' <=> Committed(t))
  BY <1>1 DEF Due, Committed, Committing
<1> QED BY <1>2 DEF DueInv

(* Gates and records stand in a step that changes no slot and no record    *)
(* and does not advance a staging.                                         *)
LEMMA StagesStand ==
  ASSUME StageInv, UNCHANGED graphHeld, UNCHANGED exe, \A t \in Tasks : MetaHeld(t),
         Staging' <=> Staging, disp'.pc = "check" <=> disp.pc = "check",
         Staging \/ disp.pc = "check" => disp'.unit = disp.unit,
         disp'.pc \in {"ed", "try", "mask", "record", "check"} => ED_ENABLE
  PROVE  StageInv'
<1>1. UNCHANGED <<g_commit_task_id, cut>>
  BY DEF graphHeld
<1>2. \A t : Committed(t)' <=> Committed(t)
  BY <1>1 DEF Committed, Committing
<1>3. \A t \in Tasks : Recorded(t) => Recorded(t)'
  BY DEF Recorded, MetaHeld
<1>4. \A t \in Tasks : NotifierOwed(t)' <=> NotifierOwed(t)
  BY <1>1 DEF NotifierOwed, Staging
<1>5. \A t \in Tasks : \A u \in Units : Gated(u, t) => Gated(u, t)'
  BY <1>4 DEF Gated, MetaHeld
<1>6. \A t \in Tasks : ED_ENABLE /\ Committed(t)' => Recorded(t)'
  BY <1>2, <1>3 DEF StageInv
<1>7. \A t \in Tasks : \A u \in Units : exe'[u].state = "GATED" /\ exe'[u].task = t => Gated(u, t)'
  BY <1>5 DEF StageInv
<1>8. \A t \in Tasks : Staging' /\ exe'[disp'.unit].task = t =>
        exe'[disp'.unit].state = "GATED" /\ ed'[t].staged = INVALID
  BY DEF StageInv, MetaHeld
<1>9. \A t \in Tasks : disp'.pc = "check" /\ exe'[disp'.unit].task = t =>
        Committed(t)' /\ ed'[t].staged = Record(t, disp'.unit)
  BY <1>2 DEF StageInv, MetaHeld
<1> QED BY <1>6, <1>7, <1>8, <1>9 DEF StageInv

----------------------------------------------------------------------------
(* What a step of the dispatcher leaves of the lines: `w' is what it has   *)
(* in hand, of the type of the pass.                                       *)
LaneWith(y, w) == ((IF Type = y THEN w ELSE <<>>) \o ready_queue[y]) \o cut.ready[y]

(* send_task takes the first task of the batch out of its line.            *)
LEMMA SentLanes ==
  ASSUME TypeOK, NEW d \in DispRegs, d.batch = disp.batch, d.pass = disp.pass,
         disp.batch # <<>>, disp' = AfterSend(d), UNCHANGED <<ready_queue, cut>>
  PROVE  /\ \A y \in Types : Lane(y)' = LaneWith(y, Tail(disp.batch))
         /\ disp'.pc \in {"send", "dequeue", "ed", "round"}
         /\ disp'.pc # "send" => disp'.batch = <<>>
         /\ disp'.pc = "ed" => ED_ENABLE
<1> DEFINE b == disp.batch
<1>1. b \in Seq(Tasks) /\ b # <<>>
  BY DEF TypeOK, DispTypes, DispRegs
<1>2. CASE Len(b) > 1
  <2>1. disp' = [d EXCEPT !.pc = "send", !.batch = Tail(@)]
    BY <1>2 DEF AfterSend
  <2>2. disp'.pc = "send" /\ disp'.batch = Tail(b) /\ disp'.pass = disp.pass
    BY <2>1 DEF DispRegs
  <2>3. Type' = Type /\ Waiting' = Tail(b)
    BY <2>2 DEF Type, Waiting
  <2> QED BY <2>2, <2>3 DEF Lane, LaneWith
<1>3. CASE ~(Len(b) > 1)
  <2>1. disp' = NextPass(d)
    BY <1>3 DEF AfterSend
  <2>2. /\ disp'.batch = <<>> /\ disp'.pc \in {"dequeue", "ed", "round"}
        /\ disp'.pc = "ed" => ED_ENABLE
    BY <2>1 DEF NextPass, DispRegs
  <2>3. Tail(b) = <<>>
    <3>1. Len(b) \in Nat /\ Len(b) # 0
      BY <1>1, LenProperties, EmptySeq
    <3>2. Tail(b) \in Seq(Tasks) /\ Len(Tail(b)) = Len(b) - 1
      BY <1>1, HeadTailProperties
    <3>3. Len(b) = 1
      <4> DEFINE n == Len(b)
      <4>1. n \in Nat /\ n # 0 /\ ~(n > 1)
        BY <1>3, <3>1
      <4> HIDE DEF n
      <4>2. n = 1
        BY <4>1
      <4> QED BY <4>2 DEF n
    <3>4. Len(Tail(b)) = 0
      BY <3>2, <3>3
    <3> QED BY <3>2, <3>4, EmptySeq
  <2>4. Waiting' = <<>>
    BY <2>2 DEF Waiting
  <2>5. \A y : (IF Type' = y THEN Waiting' ELSE <<>>) = (IF Type = y THEN Tail(b) ELSE <<>>)
    BY <2>3, <2>4
  <2> QED BY <2>2, <2>5 DEF Lane, LaneWith
<1> QED BY <1>2, <1>3

(* The task at the head of a batch is due, and leaves its line when the    *)
(* batch goes on.                                                          *)
LEMMA HeadLeaves ==
  ASSUME TypeOK, LaneInv, disp.pc = "send"
  PROVE  LET t == Head(disp.batch) IN
         /\ t \in Tasks /\ Due(t) /\ InLane(t) /\ disp.batch # <<>>
         /\ \A y \in Types :
              /\ Distinct(LaneWith(y, Tail(disp.batch)))
              /\ ToSet(LaneWith(y, Tail(disp.batch))) = ToSet(Lane(y)) \ {t}
<1> DEFINE b == disp.batch
           t == Head(b)
           c == Tail(b)
<1>1. b \in Seq(Tasks) /\ b # <<>> /\ Type \in Types
  BY PickedCoreAvailable, Passes DEF TypeOK, DispTypes, DispRegs, Type
<1>2. /\ t \in Tasks /\ c \in Seq(Tasks) /\ ToSet(b) = ToSet(c) \cup {t}
      /\ (Distinct(b) <=> Distinct(c) /\ t \notin ToSet(c))
  BY <1>1, TailOfList
<1>3. ASSUME NEW y \in Types, Type = y
      PROVE  /\ t \in ToSet(Lane(y))
             /\ Distinct(LaneWith(y, c)) /\ ToSet(LaneWith(y, c)) = ToSet(Lane(y)) \ {t}
  <2> DEFINE q == ready_queue[y]
             r == cut.ready[y]
  <2>1. q \in Seq(Tasks) /\ r \in Seq(Tasks)
    BY LaneTypes
  <2>2. Distinct(Lane(y)) /\ \A x \in ToSet(Lane(y)) : TypeOf[x] = y
    BY DEF LaneInv
  <2>3. Waiting = b
    BY DEF Waiting
  <2> HIDE DEF q, r, b, c, t
  <2>4. Lane(y) = (b \o q) \o r /\ LaneWith(y, c) = (c \o q) \o r
    BY <2>3, <1>3 DEF Lane, LaneWith, q, r
  <2>5. /\ b \o q \in Seq(Tasks) /\ ToSet(b \o q) = ToSet(b) \cup ToSet(q)
        /\ (Distinct(b \o q) <=> Distinct(b) /\ Distinct(q) /\ ToSet(b) \cap ToSet(q) = {})
    BY <1>1, <2>1, ConcatLists
  <2>6. /\ c \o q \in Seq(Tasks) /\ ToSet(c \o q) = ToSet(c) \cup ToSet(q)
        /\ (Distinct(c \o q) <=> Distinct(c) /\ Distinct(q) /\ ToSet(c) \cap ToSet(q) = {})
    BY <1>2, <2>1, ConcatLists
  <2> DEFINE bq == b \o q
             cq == c \o q
  <2> HIDE DEF bq, cq
  <2>7. bq \in Seq(Tasks) /\ cq \in Seq(Tasks)
    BY <2>5, <2>6 DEF bq, cq
  <2>8. /\ ToSet(bq \o r) = ToSet(bq) \cup ToSet(r)
        /\ (Distinct(bq \o r) <=> Distinct(bq) /\ Distinct(r) /\ ToSet(bq) \cap ToSet(r) = {})
    BY <2>1, <2>7, ConcatLists
  <2>9. /\ ToSet(cq \o r) = ToSet(cq) \cup ToSet(r)
        /\ (Distinct(cq \o r) <=> Distinct(cq) /\ Distinct(r) /\ ToSet(cq) \cap ToSet(r) = {})
    BY <2>1, <2>7, ConcatLists
  <2>10. Lane(y) = bq \o r /\ LaneWith(y, c) = cq \o r
    BY <2>4 DEF bq, cq
  <2>11. /\ ToSet(bq) = ToSet(b) \cup ToSet(q) /\ ToSet(cq) = ToSet(c) \cup ToSet(q)
        /\ (Distinct(bq) <=> Distinct(b) /\ Distinct(q) /\ ToSet(b) \cap ToSet(q) = {})
        /\ (Distinct(cq) <=> Distinct(c) /\ Distinct(q) /\ ToSet(c) \cap ToSet(q) = {})
    BY <2>5, <2>6 DEF bq, cq
  <2>12. Distinct(bq) /\ Distinct(r) /\ ToSet(bq) \cap ToSet(r) = {}
    BY <2>2, <2>8, <2>10
  <2>13. Distinct(c) /\ t \notin ToSet(c) /\ Distinct(q) /\ ToSet(b) \cap ToSet(q) = {}
    BY <1>2, <2>11, <2>12
  <2> QED BY <1>2, <2>8, <2>9, <2>10, <2>11, <2>12, <2>13
<1>4. t \in ToSet(Lane(Type)) /\ Due(t) /\ InLane(t)
  BY <1>1, <1>3 DEF LaneInv, InLane
<1>5. \A y \in Types : y # Type => t \notin ToSet(Lane(y)) /\ LaneWith(y, c) = Lane(y)
  <2> TAKE y \in Types
  <2> HAVE y # Type
  <2>1. LaneWith(y, c) = Lane(y)
    BY DEF Lane, LaneWith
  <2>2. TypeOf[t] = Type /\ \A x \in ToSet(Lane(y)) : TypeOf[x] = y
    BY <1>1, <1>4 DEF LaneInv
  <2> QED BY <2>1, <2>2
<1>6. \A y \in Types : /\ Distinct(LaneWith(y, c))
                       /\ ToSet(LaneWith(y, c)) = ToSet(Lane(y)) \ {t}
  BY <1>3, <1>5 DEF LaneInv
<1> QED BY <1>1, <1>2, <1>4, <1>6

(* send_task_dequeue moves tasks from the queue to the batch of the same   *)
(* line.                                                                   *)
LEMMA DequeueLanes ==
  ASSUME TypeOK, LaneInv, send_task_dequeue
  PROVE  /\ \A y \in Types : Lane(y)' = Lane(y)
         /\ disp.pc = "dequeue" /\ disp'.pc \in {"send", "dequeue", "ed", "round"}
         /\ disp'.pc # "send" => disp'.batch = <<>>
         /\ disp'.pc = "ed" => ED_ENABLE
<1> DEFINE avail == AvailAny(Type)
           q == ready_queue[Type]
           n == IF Len(q) < Cardinality(avail) THEN Len(q) ELSE Cardinality(avail)
           a == SubSeq(q, 1, n)
           b == SubSeq(q, n + 1, Len(q))
<1>1. /\ disp.pc = "dequeue" /\ UNCHANGED cut
      /\ ready_queue' = [ready_queue EXCEPT ![Type] = b]
      /\ disp' = IF n = 0 THEN NextPass(disp)
                 ELSE [disp EXCEPT !.pc = "send", !.batch = a, !.avail = avail]
  BY DEF send_task_dequeue, dispFrame
<1>2. /\ disp \in DispRegs /\ ready_queue \in [Types -> Seq(Tasks)]
      /\ Type \in Types
  BY Passes DEF TypeOK, DispTypes, QueueTypes, DispRegs, Type
<1>3. disp.batch = <<>> /\ Waiting = <<>>
  BY <1>1 DEF LaneInv, Waiting
<1>4. q \in Seq(Tasks) /\ Len(q) \in Nat /\ n \in 0 .. Len(q)
  <2>1. avail \subseteq Cores
    BY DEF AvailAny
  <2>2. Cardinality(avail) \in Nat
    BY <2>1, CoresCardinality
  <2>3. q \in Seq(Tasks) /\ Len(q) \in Nat
    BY <1>2, LenProperties
  <2> QED BY <2>2, <2>3
<1> HIDE DEF n
<1>5. a \in Seq(Tasks) /\ b \in Seq(Tasks) /\ q = a \o b
  BY <1>4, CutList
<1>6. a = Waiting' \/ (Waiting' = <<>> /\ a = <<>>)
  <2>1. CASE n = 0
    <3>1. disp'.batch = <<>> /\ disp'.pc # "hook0"
      BY <1>1, <1>2, <2>1 DEF NextPass, DispRegs
    <3>2. a = <<>>
      <4>1. Len(a) = 0
        BY <1>4, <2>1, SubSeqProperties
      <4> HIDE DEF a
      <4> QED BY <1>5, <4>1, EmptySeq
    <3> QED BY <3>1, <3>2 DEF Waiting
  <2>2. CASE n # 0
    <3> HIDE DEF a, avail
    <3>1. disp' = [disp EXCEPT !.pc = "send", !.batch = a, !.avail = avail]
      BY <1>1, <2>2
    <3>2. disp'.batch = a /\ disp'.pc = "send"
      BY <1>2, <3>1 DEF DispRegs
    <3> QED BY <3>2 DEF Waiting
  <2> QED BY <2>1, <2>2
<1>7. /\ disp'.pc \in {"send", "dequeue", "ed", "round"}
      /\ disp'.pc # "send" => disp'.batch = <<>>
      /\ disp'.pc = "ed" => ED_ENABLE
      /\ a # <<>> => disp'.pass = disp.pass
  <2>1. CASE n = 0
    <3>1. a = <<>>
      <4>1. Len(a) = 0
        BY <1>4, <2>1, SubSeqProperties
      <4> HIDE DEF a
      <4> QED BY <1>5, <4>1, EmptySeq
    <3> QED BY <1>1, <1>2, <2>1, <3>1 DEF NextPass, DispRegs
  <2>2. CASE n # 0
    <3> HIDE DEF a, avail
    <3>1. disp' = [disp EXCEPT !.pc = "send", !.batch = a, !.avail = avail]
      BY <1>1, <2>2
    <3> QED BY <1>2, <3>1 DEF DispRegs
  <2> QED BY <2>1, <2>2
<1>8. ASSUME NEW y \in Types
      PROVE  Lane(y)' = Lane(y)
  <2> DEFINE r == cut.ready[y]
  <2>1. ready_queue'[y] = IF y = Type THEN b ELSE ready_queue[y]
    BY <1>1, <1>2
  <2>2. \A s \in Seq(Tasks) : <<>> \o s = s
    BY ConcatSimplifications
  <2>3. ready_queue[y] \in Seq(Tasks) /\ r \in Seq(Tasks)
    BY LaneTypes
  <2>4. Lane(y) = ready_queue[y] \o r
    BY <1>3, <2>2, <2>3 DEF Lane
  <2> HIDE DEF a, b
  <2>5. Lane(y)' = ((IF Type' = y THEN Waiting' ELSE <<>>) \o ready_queue'[y]) \o r
    BY <1>1 DEF Lane
  <2>6. (IF Type' = y THEN Waiting' ELSE <<>>) = IF Type = y THEN a ELSE <<>>
    <3>1. a # <<>> => Type' = Type
      BY <1>7 DEF Type
    <3> QED BY <1>6, <3>1
  <2>7. CASE Type = y
    BY <1>5, <2>1, <2>4, <2>5, <2>6, <2>7
  <2>8. CASE Type # y
    <3>1. Lane(y)' = (<<>> \o ready_queue[y]) \o r
      BY <2>1, <2>5, <2>6, <2>8
    <3> QED BY <2>2, <2>3, <2>4, <3>1
  <2> QED BY <2>7, <2>8
<1> QED BY <1>1, <1>7, <1>8

(* A step that fills, opens and frees no slot and stages no task.          *)
LEMMA QuietKeeps ==
  ASSUME TypeOK, RunInv, UNCHANGED graphHeld, UNCHANGED <<exe, runs, completed_queue>>,
         \A t \in Tasks : MetaHeld(t),
         \A t \in Tasks : \A u \in Units : Holds(u, t)' <=> Holds(u, t),
         \A y \in Types : Distinct(Lane(y)') /\ ToSet(Lane(y)') \subseteq ToSet(Lane(y)),
         disp'.pc \notin {"send", "hook0"} => disp'.batch = <<>>,
         Staging' <=> Staging, disp'.pc = "check" <=> disp.pc = "check",
         Staging \/ disp.pc = "check" => disp'.unit = disp.unit,
         disp'.pc \in {"ed", "try", "mask", "record", "check"} => ED_ENABLE
  PROVE  RunInv'
<1>1. LaneInv' /\ \A t \in Tasks : InLane(t)' => InLane(t)
  BY LanesShrink DEF RunInv
<1>2. \A t \in Tasks : \A u \in Units : Occupies(u, t)' <=> Occupies(u, t)
  BY DEF Occupies
<1>3. ClaimInv'
  BY <1>1, <1>2, ClaimsStand DEF RunInv, MetaHeld
<1>4. DueInv'
  BY DueStands DEF RunInv, MetaHeld
<1>5. StageInv'
  BY StagesStand DEF RunInv
<1> QED BY <1>1, <1>3, <1>4, <1>5 DEF RunInv

(* Lines that stay as they are have no duplicates and no new tasks.        *)
LEMMA LanesSame ==
  ASSUME LaneInv, \A y \in Types : Lane(y)' = Lane(y)
  PROVE  \A y \in Types : Distinct(Lane(y)') /\ ToSet(Lane(y)') \subseteq ToSet(Lane(y))
BY DEF LaneInv

(* What no step of the dispatcher writes.                                  *)
LEMMA DispatcherHolds ==
  ASSUME DispatcherNext
  PROVE  /\ UNCHANGED graphHeld
         /\ UNCHANGED <<exec, runs, g_task_id, orch, g_basic_buf, g_predecessors>>
BY DEF DispatcherNext, drain_completed_snapshot, dispatch_finish, send_task_dequeue,
   send_task, dispatcher_hook0, dispatcher_credit, begin_ed, try_nothing, try_no_slot, try_stage,
   stage_mask, stage_record, stage_check, hook0Frame, edFrame, dispFrame, orchVars,
   graphVars, graphHeld

(* The dispatcher's own moves: the end of a pass, the walk of Hook 0, the  *)
(* mask, a staging that finds nothing to do, a task ED has claimed.        *)
SkipsTask == send_task /\ ED_ENABLE /\ ~Claimable(Head(disp.batch))
DropsTask == try_stage /\ ed[Idx(Head(g_ed_ready_queue))].next_block # 0
DispatcherWalks ==
  \/ dispatch_finish \/ send_task_dequeue \/ SkipsTask
  \/ dispatcher_hook0 \/ dispatcher_credit
  \/ begin_ed \/ try_nothing \/ try_no_slot \/ DropsTask \/ stage_mask

(* What its steps that neither claim nor stage leave alone as well.        *)
LEMMA WalkMeta ==
  ASSUME NoReuse, TypeOK, SlotInv, DispatcherWalks
  PROVE  /\ \A t \in Tasks : MetaHeld(t)
         /\ UNCHANGED <<exe, runs, completed_queue, msg_bitmap, exec>>
         /\ UNCHANGED graphHeld
<1>1. DispatcherNext
  BY DEF DispatcherWalks, DispatcherNext, SkipsTask, DropsTask
<1>2. UNCHANGED graphHeld /\ UNCHANGED <<exec, runs>>
  BY <1>1, DispatcherHolds
<1>3. CASE dispatcher_hook0
  <2>1. Head(disp.batch) \in Tasks
    <3>1. disp.batch \in Seq(Tasks) /\ disp.batch # <<>>
      BY <1>3 DEF dispatcher_hook0, TypeOK, DispTypes, DispRegs
    <3> QED BY <3>1, TailOfList
  <2>2. \A t \in Tasks : MetaHeld(t)
    BY <1>3, <2>1, Hook0MetaHeld DEF dispatcher_hook0
  <2> QED BY <1>2, <1>3, <2>2 DEF dispatcher_hook0, hook0Frame
<1>4. CASE dispatcher_credit
  <2>1. Head(disp.todo) \in Tasks
    <3>1. disp.todo \in Seq(Tasks) /\ disp.todo # <<>>
      BY <1>4 DEF dispatcher_credit, TypeOK, DispTypes, DispRegs
    <3> QED BY <3>1, TailOfList
  <2>2. \A t \in Tasks : MetaHeld(t)
    BY <1>4, <2>1, CreditKeeps DEF dispatcher_credit
  <2> QED BY <1>2, <1>4, <2>2 DEF dispatcher_credit, hook0Frame
<1>5. CASE SkipsTask
  <2>1. UNCHANGED <<exe, completed_queue, msg_bitmap, ed>>
    BY <1>5 DEF SkipsTask, send_task
  <2> QED BY <1>2, <2>1 DEF MetaHeld
<1>6. CASE DropsTask
  <2>1. UNCHANGED <<exe, ed>>
    BY <1>6, TryStageStep DEF DropsTask
  <2>2. UNCHANGED <<completed_queue, msg_bitmap>>
    BY <1>6 DEF DropsTask, try_stage, edFrame
  <2> QED BY <1>2, <2>1, <2>2 DEF MetaHeld
<1>7. CASE dispatch_finish \/ send_task_dequeue \/ begin_ed \/ try_nothing \/ try_no_slot
           \/ stage_mask
  <2>1. UNCHANGED <<exe, completed_queue, msg_bitmap, ed>>
    BY <1>7 DEF dispatch_finish, send_task_dequeue, begin_ed, try_nothing, try_no_slot,
       stage_mask, edFrame
  <2> QED BY <1>2, <2>1 DEF MetaHeld
<1> QED BY <1>3, <1>4, <1>5, <1>6, <1>7 DEF DispatcherWalks

(* The lines, and where the dispatcher stands afterwards.                  *)
LEMMA WalkLanes ==
  ASSUME TypeOK, SlotInv, LaneInv, StageInv, DispatcherWalks
  PROVE  /\ \A y \in Types : Distinct(Lane(y)') /\ ToSet(Lane(y)') \subseteq ToSet(Lane(y))
         /\ disp'.pc \notin {"send", "hook0"} => disp'.batch = <<>>
         /\ Staging' <=> Staging
         /\ disp'.pc = "check" <=> disp.pc = "check"
         /\ Staging \/ disp.pc = "check" => disp'.unit = disp.unit
         /\ disp'.pc \in {"ed", "try", "mask", "record", "check"} => ED_ENABLE
<1>1. UNCHANGED cut
  <2>1. DispatcherNext
    BY DEF DispatcherWalks, DispatcherNext, SkipsTask, DropsTask
  <2> QED BY <2>1, DispatcherHolds DEF graphHeld
<1>2. disp \in DispRegs
  BY DEF TypeOK, DispTypes
<1>3. ASSUME disp'.pc \notin {"send", "hook0"}, disp'.batch = disp.batch,
             disp.pc \notin {"send", "hook0"}, UNCHANGED ready_queue
      PROVE  /\ \A y \in Types : Distinct(Lane(y)') /\ ToSet(Lane(y)') \subseteq ToSet(Lane(y))
             /\ disp'.batch = <<>>
  <2>1. disp.batch = <<>>
    BY <1>3 DEF LaneInv
  <2>2. Waiting = <<>> /\ Waiting' = <<>>
    BY <1>3, <2>1 DEF Waiting
  <2>3. \A y \in Types : Lane(y)' = Lane(y)
    BY <1>1, <1>3, <2>2 DEF Lane
  <2> QED BY <1>3, <2>1, <2>3, LanesSame
<1>4. CASE SkipsTask
  <2>1. disp.pc = "send" /\ disp' = AfterSend(disp) /\ UNCHANGED ready_queue
    BY <1>4 DEF SkipsTask, send_task
  <2>2. /\ disp.batch # <<>>
        /\ \A y \in Types :
             /\ Distinct(LaneWith(y, Tail(disp.batch)))
             /\ ToSet(LaneWith(y, Tail(disp.batch))) \subseteq ToSet(Lane(y))
    BY <2>1, HeadLeaves
  <2>3. /\ \A y \in Types : Lane(y)' = LaneWith(y, Tail(disp.batch))
        /\ disp'.pc \in {"send", "dequeue", "ed", "round"}
        /\ disp'.pc # "send" => disp'.batch = <<>>
        /\ disp'.pc = "ed" => ED_ENABLE
    BY <1>1, <1>2, <2>1, <2>2, SentLanes
  <2> QED BY <2>1, <2>2, <2>3 DEF Staging
<1>5. CASE send_task_dequeue
  <2>1. /\ \A y \in Types : Lane(y)' = Lane(y)
        /\ disp.pc = "dequeue" /\ disp'.pc \in {"send", "dequeue", "ed", "round"}
        /\ disp'.pc # "send" => disp'.batch = <<>>
        /\ disp'.pc = "ed" => ED_ENABLE
    BY <1>5, DequeueLanes
  <2> QED BY <2>1, LanesSame DEF Staging
<1>6. CASE dispatcher_hook0 \/ dispatcher_credit
  <2>1. disp.pc = "hook0" /\ UNCHANGED ready_queue
    BY <1>6 DEF dispatcher_hook0, dispatcher_credit, hook0Frame, TypeOK, DispTypes
  <2>2. disp.batch # <<>>
    BY <2>1 DEF TypeOK, DispTypes
  <2>3. \/ disp'.pc = "hook0" /\ disp'.batch = disp.batch /\ disp'.pass = disp.pass
        \/ \E d \in DispRegs : d.batch = disp.batch /\ d.pass = disp.pass /\ disp' = AfterSend(d)
    <3>1. CASE dispatcher_hook0
      <4> DEFINE h == Head(disp.batch)
                 w == Hook0Todo(h)
      <4>1. disp' = IF w = <<>> THEN AfterSend(disp)
                    ELSE [disp EXCEPT !.hook = h, !.todo = w]
        BY <3>1 DEF dispatcher_hook0
      <4> HIDE DEF h, w
      <4> QED BY <1>2, <2>1, <4>1 DEF DispRegs
    <3>2. CASE dispatcher_credit
      <4> DEFINE d == [disp EXCEPT !.hook = INVALID, !.todo = <<>>]
                 w == Tail(disp.todo)
      <4>1. disp' = IF Len(disp.todo) > 1 THEN [disp EXCEPT !.todo = w] ELSE AfterSend(d)
        BY <3>2 DEF dispatcher_credit
      <4>2. d \in DispRegs /\ d.batch = disp.batch /\ d.pass = disp.pass
        BY <1>2, EmptyList DEF DispRegs, MaybeTask
      <4> HIDE DEF d, w
      <4> QED BY <1>2, <2>1, <4>1, <4>2 DEF DispRegs
    <3> QED BY <1>6, <3>1, <3>2
  <2>4. /\ \A y \in Types : Lane(y)' = Lane(y)
        /\ disp'.pc \in {"hook0", "send", "dequeue", "ed", "round"}
        /\ disp'.pc \notin {"send", "hook0"} => disp'.batch = <<>>
        /\ disp'.pc = "ed" => ED_ENABLE
    <3>1. CASE disp'.pc = "hook0" /\ disp'.batch = disp.batch /\ disp'.pass = disp.pass
      BY <1>1, <2>1, <3>1 DEF Lane, Waiting, Type
    <3>2. ASSUME NEW d \in DispRegs, d.batch = disp.batch, d.pass = disp.pass, disp' = AfterSend(d)
          PROVE  /\ \A y \in Types : Lane(y)' = Lane(y)
                 /\ disp'.pc \in {"hook0", "send", "dequeue", "ed", "round"}
                 /\ disp'.pc \notin {"send", "hook0"} => disp'.batch = <<>>
                 /\ disp'.pc = "ed" => ED_ENABLE
      <4>1. \A y \in Types : Lane(y) = LaneWith(y, Tail(disp.batch))
        BY <2>1 DEF Lane, LaneWith, Waiting
      <4> QED BY <1>1, <2>1, <2>2, <3>2, <4>1, SentLanes
    <3> QED BY <2>3, <3>1, <3>2
  <2> QED BY <2>1, <2>4, LanesSame DEF Staging
<1>7. CASE dispatch_finish \/ try_nothing \/ try_no_slot \/ DropsTask
  <2>1. /\ disp.pc \in {"round", "ed", "try"} /\ UNCHANGED ready_queue
        /\ disp' = [disp EXCEPT !.pc = "done"] \/ disp' = EndOfED(disp)
    <3>1. CASE DropsTask
      BY <3>1, TryStageStep DEF DropsTask, edFrame
    <3>2. CASE dispatch_finish \/ try_nothing \/ try_no_slot
      BY <3>2 DEF dispatch_finish, try_nothing, try_no_slot, TryHead, edFrame
    <3> QED BY <1>7, <3>1, <3>2
  <2>2. disp'.pc \in {"done", "round"} /\ disp'.batch = disp.batch
    BY <1>2, <2>1 DEF EndOfED, DispRegs
  <2> QED BY <1>3, <2>1, <2>2 DEF Staging
<1>8. CASE stage_mask
  <2>1. disp.pc = "mask" /\ disp' = [disp EXCEPT !.pc = "record"] /\ UNCHANGED ready_queue
    BY <1>8 DEF stage_mask, edFrame
  <2>2. disp'.pc = "record" /\ disp'.batch = disp.batch /\ disp'.unit = disp.unit
    BY <1>2, <2>1 DEF DispRegs
  <2>3. ED_ENABLE
    BY <2>1 DEF StageInv
  <2> QED BY <1>3, <2>1, <2>2, <2>3 DEF Staging
<1>9. CASE begin_ed
  <2>1. /\ disp.pc = "ed" /\ UNCHANGED ready_queue
        /\ \/ disp' = EndOfED(disp)
           \/ disp' = [disp EXCEPT !.pc = "try", !.tries = ED_DRAIN_MAX_PER_ROUND]
    BY <1>9 DEF begin_ed, edFrame
  <2>2. disp'.pc \in {"round", "try"} /\ disp'.batch = disp.batch
    BY <1>2, <2>1 DEF EndOfED, DispRegs
  <2>3. ED_ENABLE
    BY <2>1 DEF StageInv
  <2> QED BY <1>3, <2>1, <2>2, <2>3 DEF Staging
<1> QED BY <1>4, <1>5, <1>6, <1>7, <1>8, <1>9 DEF DispatcherWalks

(* Those steps keep lines, claims, starts and gates.                       *)
LEMMA DispatcherWalkKeeps ==
  ASSUME NoReuse, TypeOK, SlotInv, RunInv, DispatcherWalks
  PROVE  RunInv'
<1>1. /\ \A t \in Tasks : MetaHeld(t)
      /\ UNCHANGED <<exe, runs, completed_queue, msg_bitmap, exec>>
      /\ UNCHANGED graphHeld
  BY WalkMeta
<1>2. \A t \in Tasks : \A u \in Units : Holds(u, t)' <=> Holds(u, t)
  BY <1>1 DEF Holds, Occupies
<1>3. /\ \A y \in Types : Distinct(Lane(y)') /\ ToSet(Lane(y)') \subseteq ToSet(Lane(y))
      /\ disp'.pc \notin {"send", "hook0"} => disp'.batch = <<>>
      /\ Staging' <=> Staging
      /\ disp'.pc = "check" <=> disp.pc = "check"
      /\ Staging \/ disp.pc = "check" => disp'.unit = disp.unit
      /\ disp'.pc \in {"ed", "try", "mask", "record", "check"} => ED_ENABLE
  BY WalkLanes DEF RunInv
<1> QED BY <1>1, <1>2, <1>3, QuietKeeps

----------------------------------------------------------------------------
(* Steps that claim a task: it goes to one free slot.                      *)
LEMMA ClaimStep ==
  ASSUME NoReuse, TypeOK, SlotInv, WatermarkInv, EntryInv, ClaimInv, UNCHANGED graphHeld,
         UNCHANGED <<runs, completed_queue, msg_bitmap, exec>>,
         NEW t \in Tasks, ~Claimed(t), Claimed(t)',
         \A s \in Tasks : Claimed(s) => Claimed(s)',
         NEW u \in free_bitmap, exe'[u].state # "EMPTY", exe'[u].task = t,
         \A v \in Units \ {u} : exe'[v] = exe[v]
  PROVE  /\ ClaimInv' /\ u \in Units
         /\ \A v \in Units : ~Holds(v, t)
<1>1. /\ u \in Units /\ exe[u].state = "EMPTY" /\ u \notin msg_bitmap
      /\ ~(exec.pc = "signal" /\ exec.unit = u)
  BY DEF TypeOK, SlotTypes, SlotInv, SlotHandoff, SignalOwed
<1>2. \A v \in Units : ~Holds(v, t)
  BY DEF ClaimInv, HeldOnce
<1>3. \A s \in Tasks : ~Holds(u, s)
  BY <1>1 DEF Holds, Occupies
<1>4. \A s \in Tasks : \A v \in Units :
        /\ Holds(v, s)' => Holds(v, s) \/ (v = u /\ s = t)
        /\ Occupies(v, s)' => Occupies(v, s) \/ (v = u /\ s = t)
  <2> TAKE s \in Tasks
  <2> TAKE v \in Units
  <2>1. CASE v = u
    BY <2>1 DEF Holds, Occupies
  <2>2. CASE v # u
    <3>1. exe'[v] = exe[v]
      BY <2>2
    <3> QED BY <3>1 DEF Holds, Occupies
  <2> QED BY <2>1, <2>2
<1>5. /\ \A s : (Ran(s)' <=> Ran(s)) /\ (Completed(s)' <=> Completed(s))
      /\ completed_queue' = completed_queue
  BY DEF graphHeld, Ran, Completed
<1>6. ~Ran(t) /\ ~Completed(t) /\ t \notin ToSet(completed_queue)
  BY ToldRan DEF ClaimInv, RunOnce
<1>7. HeldOnce'
  <2> SUFFICES ASSUME NEW s \in Tasks, NEW v \in Units, Holds(v, s)'
               PROVE  Claimed(s)' /\ \A w \in Units : Holds(w, s)' => w = v
    BY DEF HeldOnce
  <2>1. CASE s = t
    BY <1>2, <1>4, <2>1
  <2>2. CASE s # t
    BY <1>4, <2>2 DEF ClaimInv, HeldOnce
  <2> QED BY <2>1, <2>2
<1>8. RunOnce'
  BY <1>4, <1>5, <1>6 DEF ClaimInv, RunOnce
<1>9. ToldOnce'
  BY <1>4, <1>5, <1>6 DEF ClaimInv, ToldOnce
<1> QED BY <1>1, <1>2, <1>7, <1>8, <1>9 DEF ClaimInv

(* send_task claims a task that is in line and publishes it RUNNABLE.      *)
LEMMA SendTaskMeta ==
  ASSUME NoReuse, TypeOK, send_task, ~SkipsTask, disp.pc = "send", Head(disp.batch) \in Tasks
  PROVE  LET t == Head(disp.batch) IN
         /\ ED_ENABLE => ed[t].next_block = 0 /\ CountOf(Idx(t)) # 0
         /\ ED_ENABLE => ed'[t].next_block = CountOf(Idx(t))
         /\ ~ED_ENABLE => ed' = ed
         /\ \A s \in Tasks :
              /\ s # t => ed'[s] = ed[s]
              /\ ed'[s].ring_task_tag = ed[s].ring_task_tag /\ ed'[s].spec = ed[s].spec
              /\ ed'[s].staged = ed[s].staged /\ ed'[s].claimed = ed[s].claimed
         /\ \/ ED_ENABLE /\ disp'.pc = "hook0" /\ disp'.batch = disp.batch /\ disp'.pass = disp.pass
            \/ ~ED_ENABLE /\ \E d \in DispRegs :
                 d.batch = disp.batch /\ d.pass = disp.pass /\ disp' = AfterSend(d)
         /\ UNCHANGED <<ready_queue, completed_queue, msg_bitmap>>
<1> DEFINE t == Head(disp.batch)
           u == FirstFree(Type, PickedCore)
           k == CountOf(Idx(t))
           r == Record(t, u)
           avail == disp.avail \ {u[2]}
           m2 == [ed[t] EXCEPT !.next_block = k, !.dispatch = r]
<1>1. t \in Tasks /\ Idx(t) = t /\ t \in Rings /\ Tasks \subseteq Rings
  BY IdxSame
<1>2. ed \in [Rings -> EdMeta] /\ disp \in DispRegs
  BY DEF TypeOK, EdTypes, DispTypes
<1>3. ED_ENABLE => Claimable(t)
  BY DEF SkipsTask
<1>4. /\ ed' = IF ED_ENABLE
               THEN [ed EXCEPT ![Idx(t)].next_block = k, ![Idx(t)].dispatch = r]
               ELSE ed
      /\ disp' = LET d == [disp EXCEPT !.avail = avail]
                 IN IF ED_ENABLE THEN [d EXCEPT !.pc = "hook0"] ELSE AfterSend(d)
      /\ UNCHANGED <<ready_queue, completed_queue, msg_bitmap>>
  BY <1>3 DEF send_task
<1>5. ED_ENABLE => ed' = [ed EXCEPT ![t] = m2]
  BY <1>1, <1>2, <1>4
<1>6. /\ m2.next_block = k /\ m2.ring_task_tag = ed[t].ring_task_tag /\ m2.spec = ed[t].spec
      /\ m2.staged = ed[t].staged /\ m2.claimed = ed[t].claimed
  <2>1. ed[t] \in EdMeta
    BY <1>1, <1>2
  <2> HIDE DEF k, r
  <2> QED BY <2>1 DEF EdMeta
<1>7. \/ ED_ENABLE /\ disp'.pc = "hook0" /\ disp'.batch = disp.batch /\ disp'.pass = disp.pass
      \/ ~ED_ENABLE /\ \E d \in DispRegs :
           d.batch = disp.batch /\ d.pass = disp.pass /\ disp' = AfterSend(d)
  <2> DEFINE d == [disp EXCEPT !.avail = avail]
  <2>1. d \in DispRegs /\ d.batch = disp.batch /\ d.pass = disp.pass
    <3>1. avail \in SUBSET Cores
      BY <1>2 DEF DispRegs
    <3> HIDE DEF avail
    <3> QED BY <1>2, <3>1 DEF DispRegs
  <2>2. disp' = IF ED_ENABLE THEN [d EXCEPT !.pc = "hook0"] ELSE AfterSend(d)
    BY <1>4
  <2> HIDE DEF d
  <2> QED BY <2>1, <2>2, ConfigAssumption DEF DispRegs
<1> HIDE DEF m2, k
<1>8. /\ ED_ENABLE => ed'[t] = m2
      /\ \A s \in Tasks : s # t => ed'[s] = ed[s]
  BY <1>1, <1>2, <1>4, <1>5
<1>9. ED_ENABLE => ed[t].next_block = 0 /\ k # 0
  BY <1>1, <1>3 DEF Claimable, k
<1>10. \A s \in Tasks :
         /\ ed'[s].ring_task_tag = ed[s].ring_task_tag /\ ed'[s].spec = ed[s].spec
         /\ ed'[s].staged = ed[s].staged /\ ed'[s].claimed = ed[s].claimed
  <2>1. CASE ED_ENABLE
    BY <1>6, <1>8, <2>1
  <2>2. CASE ~ED_ENABLE
    BY <1>4, <2>2
  <2> QED BY <2>1, <2>2
<1> QED BY <1>4, <1>6, <1>7, <1>8, <1>9, <1>10 DEF k

(* A free slot is nobody's recorded slot, and filling it touches no gate.  *)
LEMMA ClaimStages ==
  ASSUME NoReuse, TypeOK, StageInv, UNCHANGED graphHeld, NEW u \in Units, exe[u].state = "EMPTY",
         \A v \in Units \ {u} : exe'[v] = exe[v], ~Staging, disp.pc # "check",
         NEW t \in Tasks, \A v \in Units : ~Holds(v, t),
         \A s \in Tasks : s # t => ed'[s] = ed[s],
         ED_ENABLE => ed'[t].next_block # 0,
         ed'[t].staged = ed[t].staged, ed'[t].claimed = ed[t].claimed
  PROVE  /\ \A s \in Tasks : ED_ENABLE /\ Committed(s)' => Recorded(s)'
         /\ \A s \in Tasks : \A v \in Units \ {u} :
              exe'[v].state = "GATED" /\ exe'[v].task = s => Gated(v, s)'
<1>1. UNCHANGED <<g_commit_task_id, cut>>
  BY DEF graphHeld
<1>2. \A s : Committed(s)' <=> Committed(s)
  BY <1>1 DEF Committed, Committing
<1>3. ASSUME NEW s \in Tasks, ED_ENABLE, Committed(s)'
      PROVE  Recorded(s)'
  <2>1. Recorded(s)
    BY <1>2, <1>3 DEF StageInv
  <2>2. ed'[s].staged = ed[s].staged /\ ed'[s].claimed = ed[s].claimed
        /\ (ed'[s].next_block = 0 => ed[s].next_block = 0)
    BY <1>3
  <2>3. ed[s].staged # INVALID => ed[s].staged.unit \in Units
    <3>1. ed[s] \in EdMeta \/ s \notin Rings
      BY DEF TypeOK, EdTypes
    <3>2. s \in Rings
      BY IdxSame
    <3> QED BY <3>1, <3>2 DEF EdMeta, MetaRecords
  <2>4. ed[s].staged # INVALID /\ ed[s].claimed = 0 =>
          exe'[ed[s].staged.unit] = exe[ed[s].staged.unit]
    BY <2>1, <2>3 DEF Recorded
  <2> QED BY <2>1, <2>2, <2>4 DEF Recorded
<1>4. ASSUME NEW s \in Tasks, NEW v \in Units \ {u}, exe'[v].state = "GATED", exe'[v].task = s
      PROVE  Gated(v, s)'
  <2>1. exe'[v] = exe[v]
    BY <1>4
  <2>2. exe[v].state = "GATED" /\ exe[v].task = s
    BY <1>4, <2>1
  <2>3. Gated(v, s) /\ Holds(v, s)
    BY <2>2 DEF StageInv, Holds, Occupies
  <2>4. s # t /\ ed'[s] = ed[s]
    BY <2>3
  <2>5. ed[s].staged # INVALID /\ (NotifierOwed(s) => NotifierOwed(s)')
    BY <1>1, <2>3 DEF Gated, NotifierOwed, Staging
  <2> QED BY <2>1, <2>3, <2>4, <2>5 DEF Gated
<1> QED BY <1>3, <1>4

(* send_task gives a due task that nobody claimed its one slot.            *)
LEMMA SendKeepsDag ==
  ASSUME NoReuse, TypeOK, SlotInv, WatermarkInv, EntryInv, RunInv, send_task, ~SkipsTask
  PROVE  RunInv' /\ TagsHeld
<1>1. UNCHANGED graphHeld /\ UNCHANGED <<exec, runs>>
  BY DispatcherHolds DEF DispatcherNext
<1>2. /\ disp.pc = "send" /\ disp.batch # <<>>
      /\ Head(disp.batch) \in Tasks /\ Due(Head(disp.batch)) /\ InLane(Head(disp.batch))
  BY HeadLeaves DEF RunInv, send_task
<1>3. PICK t \in Tasks : t = Head(disp.batch)
  BY <1>2
<1>4. PICK u \in free_bitmap :
        /\ u \in Units /\ exe[u].state = "EMPTY"
        /\ exe'[u].state = "RUNNABLE" /\ exe'[u].task = t
        /\ exe'[u].doorbell = exe[u].doorbell
        /\ \A v \in Units \ {u} : exe'[v] = exe[v]
  BY <1>3, SendTaskStep DEF SkipsTask
<1>5. /\ ED_ENABLE => ed[t].next_block = 0 /\ CountOf(Idx(t)) # 0
      /\ ED_ENABLE => ed'[t].next_block = CountOf(Idx(t))
      /\ ~ED_ENABLE => ed' = ed
      /\ \A s \in Tasks :
           /\ s # t => ed'[s] = ed[s]
           /\ ed'[s].ring_task_tag = ed[s].ring_task_tag /\ ed'[s].spec = ed[s].spec
           /\ ed'[s].staged = ed[s].staged /\ ed'[s].claimed = ed[s].claimed
      /\ \/ ED_ENABLE /\ disp'.pc = "hook0" /\ disp'.batch = disp.batch /\ disp'.pass = disp.pass
         \/ ~ED_ENABLE /\ \E d \in DispRegs :
              d.batch = disp.batch /\ d.pass = disp.pass /\ disp' = AfterSend(d)
      /\ UNCHANGED <<ready_queue, completed_queue, msg_bitmap>>
  BY <1>2, <1>3, SendTaskMeta
<1>6. /\ \A y \in Types : Lane(y)' = LaneWith(y, Tail(disp.batch))
      /\ disp'.pc \in {"hook0", "send", "dequeue", "ed", "round"}
      /\ disp'.pc \notin {"hook0", "send"} => disp'.batch = <<>>
      /\ disp'.pc = "ed" => ED_ENABLE
  <2>1. UNCHANGED <<cut, ready_queue>>
    BY <1>1, <1>5 DEF graphHeld
  <2>2. CASE disp'.pc = "hook0" /\ disp'.batch = disp.batch /\ disp'.pass = disp.pass
    BY <2>1, <2>2 DEF Lane, LaneWith, Waiting, Type
  <2>3. ASSUME NEW d \in DispRegs, d.batch = disp.batch, d.pass = disp.pass, disp' = AfterSend(d)
        PROVE  /\ \A y \in Types : Lane(y)' = LaneWith(y, Tail(disp.batch))
               /\ disp'.pc \in {"hook0", "send", "dequeue", "ed", "round"}
               /\ disp'.pc \notin {"hook0", "send"} => disp'.batch = <<>>
               /\ disp'.pc = "ed" => ED_ENABLE
    BY <1>2, <2>1, <2>3, SentLanes
  <2> QED BY <1>5, <2>2, <2>3
<1>7. \A y \in Types : Distinct(Lane(y)') /\ ToSet(Lane(y)') = ToSet(Lane(y)) \ {t}
  BY <1>2, <1>3, <1>6, HeadLeaves DEF RunInv
<1>8. LaneInv'
  BY <1>1, <1>6, <1>7, LanesShrink DEF RunInv
<1>9. \A s \in Tasks : InLane(s)' <=> InLane(s) /\ s # t
  BY <1>7 DEF InLane
<1>10. \A s : (Due(s)' <=> Due(s)) /\ (Committed(s)' <=> Committed(s))
  BY <1>1 DEF graphHeld, Due, Committed, Committing
<1>11. ~Claimed(t) /\ Claimed(t)' /\ \A s \in Tasks : Claimed(s) => Claimed(s)'
  <2>1. Due(t) /\ InLane(t) /\ Committed(t)
    BY <1>2, <1>3 DEF Due
  <2>2. CASE ED_ENABLE
    BY <1>5, <1>10, <2>1, <2>2 DEF Claimed
  <2>3. CASE ~ED_ENABLE
    BY <1>9, <1>10, <2>1, <2>3 DEF Claimed
  <2> QED BY <2>2, <2>3
<1>12. ClaimInv' /\ \A v \in Units : ~Holds(v, t)
  BY <1>1, <1>4, <1>5, <1>11, ClaimStep DEF RunInv
<1>13. DueInv'
  <2>1. exe'[u].doorbell # 1
    BY <1>4 DEF RunInv, DueInv
  <2>2. Due(t)'
    BY <1>2, <1>3, <1>10
  <2>3. \A v \in Units : exe'[v].doorbell = 1 => exe'[v].state = "GATED"
    BY <1>4, <2>1 DEF RunInv, DueInv
  <2>4. ASSUME NEW s \in Tasks, NEW v \in Units, exe'[v].task = s,
               exe'[v].state = "RUNNABLE" \/ exe'[v].doorbell = 1
        PROVE  Due(s)'
    <3>1. CASE v = u
      BY <1>4, <2>2, <2>4, <3>1
    <3>2. CASE v # u
      <4>1. exe'[v] = exe[v]
        BY <1>4, <3>2
      <4> QED BY <1>10, <2>4, <4>1 DEF RunInv, DueInv
    <3> QED BY <3>1, <3>2
  <2>5. \A s \in Tasks : ED_ENABLE /\ Committed(s)' /\ ed'[s].spec = "DISPATCHED" => Due(s)'
    BY <1>5, <1>10 DEF RunInv, DueInv
  <2> QED BY <2>3, <2>4, <2>5 DEF DueInv
<1>14. StageInv'
  <2>1. ~Staging /\ disp.pc # "check" /\ ~Staging' /\ disp'.pc # "check"
    BY <1>2, <1>6 DEF Staging
  <2>2. ED_ENABLE => ed'[t].next_block # 0
    BY <1>5
  <2>3. /\ \A s \in Tasks : ED_ENABLE /\ Committed(s)' => Recorded(s)'
        /\ \A s \in Tasks : \A v \in Units \ {u} :
              exe'[v].state = "GATED" /\ exe'[v].task = s => Gated(v, s)'
    BY <1>1, <1>4, <1>5, <1>12, <2>1, <2>2, ClaimStages DEF RunInv
  <2>4. \A s \in Tasks : \A v \in Units :
              exe'[v].state = "GATED" /\ exe'[v].task = s => Gated(v, s)'
    BY <1>4, <2>3
  <2> QED BY <1>6, <2>1, <2>3, <2>4 DEF StageInv, Staging
<1>15. TagsHeld
  BY <1>5 DEF TagsHeld
<1> QED BY <1>8, <1>12, <1>13, <1>14, <1>15 DEF RunInv

(* try_early_dispatch claims the task at the head of its queue and puts it *)
(* behind a gate; the record follows.                                      *)
LEMMA StageMeta ==
  ASSUME NoReuse, TypeOK, NEW t \in Tasks, NEW n \in Nat,
         ed' = [ed EXCEPT ![Idx(t)].next_block = n]
  PROVE  /\ ed'[t].next_block = n
         /\ \A s \in Tasks :
              /\ s # t => ed'[s] = ed[s]
              /\ ed'[s].ring_task_tag = ed[s].ring_task_tag /\ ed'[s].spec = ed[s].spec
              /\ ed'[s].staged = ed[s].staged /\ ed'[s].claimed = ed[s].claimed
<1> DEFINE m2 == [ed[t] EXCEPT !.next_block = n]
<1>1. t \in Rings /\ Idx(t) = t /\ ed \in [Rings -> EdMeta] /\ Tasks \subseteq Rings
  BY IdxSame DEF TypeOK, EdTypes
<1>2. /\ m2.next_block = n /\ m2.ring_task_tag = ed[t].ring_task_tag /\ m2.spec = ed[t].spec
      /\ m2.staged = ed[t].staged /\ m2.claimed = ed[t].claimed
  BY <1>1 DEF EdMeta
<1>3. ed' = [ed EXCEPT ![t] = m2]
  BY <1>1
<1> HIDE DEF m2
<1>4. ed'[t] = m2 /\ \A s \in Tasks : s # t => ed'[s] = ed[s]
  BY <1>1, <1>3
<1> QED BY <1>2, <1>4

(* try_stage claims a committed task and gates its slot.                   *)
LEMMA StageClaimKeeps ==
  ASSUME NoReuse, TypeOK, SlotInv, WatermarkInv, CreationInv, EntryInv, RunInv,
         try_stage, ~DropsTask
  PROVE  RunInv' /\ TagsHeld
<1>1. UNCHANGED graphHeld /\ UNCHANGED <<exec, runs>>
  BY DispatcherHolds DEF DispatcherNext
<1>2. /\ disp.pc \in {"ed", "try"} /\ Head(g_ed_ready_queue) \in Tasks
      /\ StagingStill(Head(g_ed_ready_queue))
      /\ UNCHANGED <<ready_queue, completed_queue, msg_bitmap>>
  BY TryStageStep DEF edFrame
<1>3. PICK t \in Tasks : t = Head(g_ed_ready_queue)
  BY <1>2
<1>4. t \in Rings /\ Idx(t) = t /\ Tasks \subseteq Rings /\ ED_ENABLE
  BY <1>2, IdxSame DEF RunInv, StageInv
<1>5. /\ ed[t].next_block = 0 /\ ed' = [ed EXCEPT ![Idx(t)].next_block = CountOf(Idx(t))]
      /\ \E u \in Units : \E k \in Nat :
           /\ u \in free_bitmap /\ exe[u].state = "EMPTY"
           /\ exe'[u].state = "GATED" /\ exe'[u].task = t /\ exe'[u].doorbell = 0
           /\ \A v \in Units \ {u} : exe'[v] = exe[v]
           /\ disp' = [disp EXCEPT !.pc = "mask", !.unit = u, !.tries = k]
           /\ disp'.pc = "mask" /\ disp'.unit = u
  BY <1>3, <1>4, TryStageStep DEF DropsTask
<1>6. PICK u \in Units, k \in Nat :
        /\ u \in free_bitmap /\ exe[u].state = "EMPTY"
        /\ exe'[u].state = "GATED" /\ exe'[u].task = t /\ exe'[u].doorbell = 0
        /\ \A v \in Units \ {u} : exe'[v] = exe[v]
        /\ disp' = [disp EXCEPT !.pc = "mask", !.unit = u, !.tries = k]
        /\ disp'.pc = "mask" /\ disp'.unit = u
  BY <1>5
<1>7. disp'.batch = disp.batch
  BY <1>6 DEF TypeOK, DispTypes, DispRegs
<1>8. Committed(t) /\ ed[t].spec = "STAGING"
  BY <1>2, <1>3, <1>4 DEF StagingStill, EntryInv
<1>9. CountOf(Idx(t)) \in Nat /\ CountOf(Idx(t)) # 0
  BY <1>8, CommittedIsCreated, GraphAssumption
<1>10. /\ ed'[t].next_block # 0
       /\ \A s \in Tasks :
            /\ s # t => ed'[s] = ed[s]
            /\ ed'[s].ring_task_tag = ed[s].ring_task_tag /\ ed'[s].spec = ed[s].spec
            /\ ed'[s].staged = ed[s].staged /\ ed'[s].claimed = ed[s].claimed
  BY <1>5, <1>9, StageMeta
<1>11. \A s : (Due(s)' <=> Due(s)) /\ (Committed(s)' <=> Committed(s))
  BY <1>1 DEF graphHeld, Due, Committed, Committing
<1>12. LaneInv'
  <2>1. disp.batch = <<>> /\ Waiting = <<>> /\ Waiting' = <<>>
    BY <1>2, <1>6, <1>7 DEF RunInv, LaneInv, Waiting
  <2>2. \A y \in Types : Lane(y)' = Lane(y)
    BY <1>1, <1>2, <2>1 DEF Lane, graphHeld
  <2>3. \A y \in Types : Distinct(Lane(y)') /\ ToSet(Lane(y)') \subseteq ToSet(Lane(y))
    BY <2>2, LanesSame DEF RunInv
  <2> QED BY <1>1, <1>7, <2>1, <2>3, LanesShrink DEF RunInv
<1>13. ~Claimed(t) /\ Claimed(t)' /\ \A s \in Tasks : Claimed(s) => Claimed(s)'
  BY <1>4, <1>5, <1>8, <1>10, <1>11 DEF Claimed
<1>14. ClaimInv' /\ \A v \in Units : ~Holds(v, t)
  BY <1>1, <1>2, <1>6, <1>13, ClaimStep DEF RunInv
<1>15. DueInv'
  <2>1. \A v \in Units : exe'[v].doorbell = 1 => exe'[v].state = "GATED"
    BY <1>6 DEF RunInv, DueInv
  <2>2. ASSUME NEW s \in Tasks, NEW v \in Units, exe'[v].task = s,
               exe'[v].state = "RUNNABLE" \/ exe'[v].doorbell = 1
        PROVE  Due(s)'
    <3>1. v # u /\ exe'[v] = exe[v]
      BY <1>6, <2>2
    <3> QED BY <1>11, <2>2, <3>1 DEF RunInv, DueInv
  <2>3. \A s \in Tasks : ED_ENABLE /\ Committed(s)' /\ ed'[s].spec = "DISPATCHED" => Due(s)'
    BY <1>10, <1>11 DEF RunInv, DueInv
  <2> QED BY <2>1, <2>2, <2>3 DEF DueInv
<1>16. StageInv'
  <2>1. /\ \A s \in Tasks : ED_ENABLE /\ Committed(s)' => Recorded(s)'
        /\ \A s \in Tasks : \A v \in Units \ {u} :
              exe'[v].state = "GATED" /\ exe'[v].task = s => Gated(v, s)'
    <3>1. ~Staging /\ disp.pc # "check"
      BY <1>2 DEF Staging
    <3> QED BY <1>1, <1>6, <1>10, <1>14, <3>1, ClaimStages DEF RunInv
  <2>2. Staging'
    BY <1>6 DEF Staging
  <2>3. ed'[t].staged = INVALID /\ ed'[t].claimed = 0
    BY <1>4, <1>5, <1>8, <1>10 DEF RunInv, StageInv, Recorded
  <2>4. Gated(u, t)'
    BY <1>4, <1>6, <1>8, <1>10, <2>2, <2>3 DEF Gated
  <2>5. \A s \in Tasks : \A v \in Units :
              exe'[v].state = "GATED" /\ exe'[v].task = s => Gated(v, s)'
    BY <1>6, <2>1, <2>4
  <2> QED BY <1>4, <1>6, <2>1, <2>2, <2>3, <2>5 DEF StageInv
<1>17. TagsHeld
  BY <1>10 DEF TagsHeld
<1> QED BY <1>12, <1>14, <1>15, <1>16, <1>17 DEF RunInv

----------------------------------------------------------------------------
(* The length of a list without duplicates is the number of its tasks.     *)
LEMMA DistinctLength ==
  ASSUME NEW q \in Seq(Tasks), Distinct(q)
  PROVE  /\ IsFiniteSet(ToSet(q)) /\ Cardinality(ToSet(q)) = Len(q)
         /\ Len(q) <= N
<1>1. Len(q) \in Nat /\ DOMAIN q = 1 .. Len(q) /\ ToSet(q) \subseteq Tasks
  BY ListFacts
<1>2. /\ IsFiniteSet(1 .. Len(q)) /\ Cardinality(1 .. Len(q)) = Len(q)
      /\ IsFiniteSet(Tasks) /\ Cardinality(Tasks) = N
  <2>1. \A a, b \in Int : IsFiniteSet(a .. b) /\ Cardinality(a .. b) = IF a > b THEN 0 ELSE b - a + 1
    BY FS_Interval
  <2>2. N \in Nat \ {0}
    BY ConfigAssumption
  <2> DEFINE l == Len(q)
  <2>3. l \in Nat
    BY <1>1
  <2> HIDE DEF l
  <2>4. IsFiniteSet(1 .. l) /\ Cardinality(1 .. l) = l
    BY <2>1, <2>3
  <2>5. IsFiniteSet(0 .. N - 1) /\ Cardinality(0 .. N - 1) = N
    BY <2>1, <2>2
  <2> QED BY <2>4, <2>5 DEF Tasks, l
<1>3. q \in Bijection(1 .. Len(q), ToSet(q))
  <2>1. \A k \in 1 .. Len(q) : q[k] \in ToSet(q)
    BY <1>1, ListFacts
  <2>2. \A x \in ToSet(q) : \E k \in 1 .. Len(q) : q[k] = x
    BY <1>1, ListFacts
  <2>3. q \in [1 .. Len(q) -> ToSet(q)]
    BY <1>1, <2>1
  <2> QED BY <1>1, <2>2, <2>3 DEF Distinct, IsInjective, Bijection, Injection, Surjection
<1>4. IsFiniteSet(ToSet(q)) /\ Cardinality(ToSet(q)) = Len(q)
  BY <1>2, <1>3, FS_Bijection DEF ExistsBijection
<1>5. Cardinality(ToSet(q)) <= Cardinality(Tasks)
  BY <1>1, <1>2, FS_Subset
<1> QED BY <1>2, <1>4, <1>5

(* The sweep counts and reports each signalled task once: each is on one   *)
(* slot, and the bit was its own.  completed_queue has room for them all.  *)
LEMMA SweepStep ==
  ASSUME NoReuse, TypeOK, SlotInv, RunInv, drain_completed_snapshot
  PROVE  \E done \in Seq(Tasks) :
           /\ completed_queue' = completed_queue \o done
           /\ g_completed_cnt' = g_completed_cnt + Len(done)
           /\ ToSet(completed_queue') = ToSet(completed_queue) \cup ToSet(done)
           /\ Distinct(completed_queue')
           /\ \A t \in ToSet(done) :
                t \in Tasks /\ \E v \in msg_bitmap : v \in Units /\ exe[v].task = t /\ Holds(v, t)
<1> DEFINE n == Cardinality(msg_bitmap)
<1>3. n \in Nat /\ msg_bitmap \subseteq Units
  BY UnitsFinite, FS_Subset, FS_CardinalityType DEF TypeOK, SlotTypes
<1>4. PICK order \in [1 .. n -> msg_bitmap] :
        /\ \A j, k \in DOMAIN order : j < k => SweepsBefore(order[j], order[k])
        /\ LET done == [k \in DOMAIN order |-> task_id_map[order[k]]] IN
           /\ completed_queue' = IF HasRoom(completed_queue, Len(done))
                                 THEN completed_queue \o done ELSE completed_queue
           /\ g_completed_cnt' = g_completed_cnt + Len(done)
  BY DEF drain_completed_snapshot, SweepOrder
<1> DEFINE done == [k \in DOMAIN order |-> task_id_map[order[k]]]
<1>5. /\ completed_queue' = IF HasRoom(completed_queue, Len(done))
                            THEN completed_queue \o done ELSE completed_queue
      /\ g_completed_cnt' = g_completed_cnt + Len(done)
  BY <1>4
<1> HIDE DEF n
<1>6. \A k \in 1 .. n :
        LET v == order[k] IN
        /\ v \in msg_bitmap /\ v \in Units /\ done[k] = exe[v].task
        /\ exe[v].task \in Tasks /\ Holds(v, exe[v].task)
  <2> TAKE k \in 1 .. n
  <2>1. order[k] \in msg_bitmap /\ done[k] = task_id_map[order[k]]
    BY <1>4
  <2>2. task_id_map[order[k]] = exe[order[k]].task
    BY <1>3, <2>1 DEF SlotInv, SlotHandoff
  <2>3. exe[order[k]] \in Slot
    BY <1>3, <2>1 DEF TypeOK, SlotTypes
  <2> QED BY <1>3, <2>1, <2>2, <2>3 DEF Slot, Holds
<1>7. \A v \in Units : ~SweepsBefore(v, v)
  <2> SUFFICES ASSUME NEW v \in Units PROVE ~SweepsBefore(v, v)
    OBVIOUS
  <2>1. v[1] \in Nat /\ v[2] \in Nat /\ v[3] \in Nat
    BY TypesFacts DEF Units, Cores, Slots
  <2> QED BY <2>1 DEF SweepsBefore
<1>8. done \in [1 .. n -> Tasks]
  BY <1>4, <1>6
<1> HIDE DEF done
<1>9. done \in Seq(Tasks) /\ DOMAIN done = 1 .. n
  BY <1>3, <1>8, SeqDef
<1>10. Distinct(done)
  <2> SUFFICES ASSUME NEW j \in 1 .. n, NEW k \in 1 .. n, done[j] = done[k], j < k
               PROVE  FALSE
    <3>1. \A j, k \in 1 .. n : j # k => j < k \/ k < j
      BY <1>3
    <3> QED BY <1>9, <3>1 DEF Distinct
  <2>1. order[j] = order[k]
    BY <1>6 DEF RunInv, ClaimInv, HeldOnce
  <2>2. SweepsBefore(order[j], order[k])
    BY <1>4
  <2> QED BY <1>6, <1>7, <2>1, <2>2
<1>11. \A t \in ToSet(done) :
         t \in Tasks /\ \E v \in msg_bitmap : v \in Units /\ exe[v].task = t /\ Holds(v, t)
  <2> TAKE t \in ToSet(done)
  <2>1. PICK k \in 1 .. n : done[k] = t
    BY <1>9 DEF ToSet
  <2> QED BY <1>6, <2>1
<1>12. completed_queue \in Seq(Tasks) /\ Distinct(completed_queue)
  BY DEF TypeOK, QueueTypes, RunInv, ClaimInv, ToldOnce
<1>13. ToSet(completed_queue) \cap ToSet(done) = {}
  BY <1>11 DEF RunInv, ClaimInv, ToldOnce
<1> DEFINE both == completed_queue \o done
<1>14. both \in Seq(Tasks) /\ Distinct(both) /\ ToSet(both) = ToSet(completed_queue) \cup ToSet(done)
  BY <1>9, <1>10, <1>12, <1>13, ConcatLists
<1>15. HasRoom(completed_queue, Len(done))
  <2>1. Len(both) <= N
    BY <1>14, DistinctLength
  <2>2. Len(both) = Len(completed_queue) + Len(done)
    BY <1>9, <1>12
  <2> QED BY <2>1, <2>2, <1>9, <1>12, ConfigAssumption DEF NoReuse, HasRoom
<1>16. completed_queue' = both
  BY <1>5, <1>15
<1> QED BY <1>5, <1>9, <1>11, <1>14, <1>16

(* The sweep hands every signalled task over once: each is on one slot,    *)
(* and its bit was the last of it there.                                   *)
LEMMA DrainKeepsDag ==
  ASSUME NoReuse, TypeOK, SlotInv, WatermarkInv, EntryInv, RunInv,
         drain_completed_snapshot
  PROVE  RunInv' /\ TagsHeld
<1>1. UNCHANGED graphHeld /\ UNCHANGED <<exec, runs>>
  BY DispatcherHolds DEF DispatcherNext
<1>2. /\ disp.pc = "round" /\ msg_bitmap' = {} /\ UNCHANGED <<exe, ed, ready_queue>>
      /\ disp'.pc = "dequeue" /\ disp'.batch = disp.batch
  BY DEF drain_completed_snapshot, TypeOK, DispTypes, DispRegs
<1>3. PICK done \in Seq(Tasks) :
        /\ ToSet(completed_queue') = ToSet(completed_queue) \cup ToSet(done)
        /\ Distinct(completed_queue')
        /\ \A t \in ToSet(done) :
             t \in Tasks /\ \E v \in msg_bitmap : v \in Units /\ exe[v].task = t /\ Holds(v, t)
  BY SweepStep
<1>4. LaneInv' /\ \A t \in Tasks : InLane(t)' => InLane(t)
  <2>1. disp.batch = <<>> /\ Waiting = <<>> /\ Waiting' = <<>>
    BY <1>2 DEF RunInv, LaneInv, Waiting
  <2>2. \A y \in Types : Lane(y)' = Lane(y)
    BY <1>1, <1>2, <2>1 DEF Lane, graphHeld
  <2>3. \A y \in Types : Distinct(Lane(y)') /\ ToSet(Lane(y)') \subseteq ToSet(Lane(y))
    BY <2>2, LanesSame DEF RunInv
  <2> QED BY <1>1, <1>2, <2>1, <2>3, LanesShrink DEF RunInv
<1>5. \A t : /\ (Due(t)' <=> Due(t)) /\ (Committed(t)' <=> Committed(t))
              /\ (Completed(t)' <=> Completed(t)) /\ (Ran(t)' <=> Ran(t))
  BY <1>1 DEF graphHeld, Due, Committed, Committing, Completed, Ran
<1>6. \A t \in Tasks : Claimed(t) => Claimed(t)'
  BY <1>2, <1>4, <1>5 DEF Claimed
<1>7. \A t \in Tasks : \A u \in Units :
         /\ (Occupies(u, t)' <=> Occupies(u, t))
         /\ Holds(u, t)' => Holds(u, t) /\ t \notin ToSet(done)
  <2> TAKE t \in Tasks
  <2> TAKE u \in Units
  <2>1. Occupies(u, t)' <=> Occupies(u, t)
    BY <1>2 DEF Occupies
  <2>2. ASSUME Holds(u, t)'
        PROVE  Holds(u, t) /\ u \notin msg_bitmap
    <3>1. Occupies(u, t) \/ (exe[u].task = t /\ exec.pc = "signal" /\ exec.unit = u)
      BY <1>1, <1>2, <2>1, <2>2 DEF Holds
    <3>2. u \notin msg_bitmap
      BY <3>1 DEF Occupies, SlotInv, SlotHandoff, SignalOwed
    <3> QED BY <3>1, <3>2 DEF Holds
  <2>3. ASSUME Holds(u, t), u \notin msg_bitmap
        PROVE  t \notin ToSet(done)
    <3> SUFFICES ASSUME t \in ToSet(done) PROVE FALSE
      OBVIOUS
    <3>1. PICK v \in msg_bitmap : v \in Units /\ Holds(v, t)
      BY <1>3
    <3> QED BY <2>3, <3>1 DEF RunInv, ClaimInv, HeldOnce
  <2> QED BY <2>1, <2>2, <2>3
<1>8. ClaimInv'
  <2>1. HeldOnce'
    BY <1>6, <1>7 DEF RunInv, ClaimInv, HeldOnce
  <2>2. RunOnce'
    BY <1>1, <1>5, <1>6, <1>7 DEF RunInv, ClaimInv, RunOnce
  <2>3. \A t \in ToSet(done) : ~Completed(t)
    BY <1>3 DEF RunInv, ClaimInv, ToldOnce
  <2>4. ToldOnce'
    BY <1>3, <1>5, <1>7, <2>3 DEF RunInv, ClaimInv, ToldOnce
  <2> QED BY <2>1, <2>2, <2>4 DEF ClaimInv
<1>9. DueInv'
  BY <1>1, <1>2, DueStands DEF RunInv
<1>10. StageInv'
  <2>1. \A t \in Tasks : MetaHeld(t)
    BY <1>2 DEF MetaHeld
  <2>2. ~Staging /\ ~Staging'
    BY <1>2 DEF Staging
  <2> QED BY <1>1, <1>2, <2>1, <2>2, StagesStand DEF RunInv
<1> QED BY <1>2, <1>4, <1>8, <1>9, <1>10 DEF RunInv, TagsHeld

----------------------------------------------------------------------------
(* The record of a staging names a gate that is there, and whoever is      *)
(* missing to open it has still to look: the check that follows.           *)
LEMMA IdleLanes ==
  ASSUME TypeOK, LaneInv, UNCHANGED graphHeld, UNCHANGED ready_queue,
         disp'.batch = disp.batch,
         disp.pc \notin {"send", "hook0"}, disp'.pc \notin {"send", "hook0"}
  PROVE  LaneInv' /\ \A t \in Tasks : InLane(t)' => InLane(t)
<1>1. disp.batch = <<>> /\ Waiting = <<>> /\ Waiting' = <<>>
  BY DEF LaneInv, Waiting
<1>2. \A y \in Types : Lane(y)' = Lane(y)
  BY <1>1 DEF Lane, graphHeld
<1>3. \A y \in Types : Distinct(Lane(y)') /\ ToSet(Lane(y)') \subseteq ToSet(Lane(y))
  BY <1>2, LanesSame
<1> QED BY <1>1, <1>3, LanesShrink

(* What writing the record of a task changes in its metadata.              *)
LEMMA RecordMeta ==
  ASSUME NoReuse, TypeOK, NEW t \in Tasks, NEW u \in Units,
         ed' = [ed EXCEPT ![Idx(t)].staged = Record(t, u)]
  PROVE  /\ ed'[t].staged = Record(t, u) /\ Record(t, u) # INVALID
         /\ Record(t, u).tag = t /\ Record(t, u).unit = u
         /\ ed'[t].claimed = ed[t].claimed /\ ed'[t].next_block = ed[t].next_block
         /\ ed'[t].ring_task_tag = ed[t].ring_task_tag /\ ed'[t].spec = ed[t].spec
         /\ \A s \in Tasks : s # t => ed'[s] = ed[s]
<1> DEFINE r == Record(t, u)
           m2 == [ed[t] EXCEPT !.staged = r]
<1>1. t \in Rings /\ Idx(t) = t /\ ed \in [Rings -> EdMeta] /\ Tasks \subseteq Rings
  BY IdxSame DEF TypeOK, EdTypes
<1>2. r # INVALID /\ r.tag = t /\ r.unit = u
  BY InvalidAssumption DEF Record
<1> HIDE DEF r
<1>3. /\ m2.staged = r /\ m2.claimed = ed[t].claimed /\ m2.next_block = ed[t].next_block
      /\ m2.ring_task_tag = ed[t].ring_task_tag /\ m2.spec = ed[t].spec
  BY <1>1 DEF EdMeta
<1>4. ed' = [ed EXCEPT ![t] = m2]
  BY <1>1 DEF r
<1> HIDE DEF m2
<1>5. ed'[t] = m2 /\ \A s \in Tasks : s # t => ed'[s] = ed[s]
  BY <1>1, <1>4
<1> QED BY <1>2, <1>3, <1>5 DEF r

(* stage_record names the gated slot; its doorbell has not rung.           *)
LEMMA RecordKeepsDag ==
  ASSUME NoReuse, TypeOK, SlotInv, RunInv, stage_record
  PROVE  RunInv' /\ TagsHeld
<1>1. UNCHANGED graphHeld /\ UNCHANGED <<exec, runs>>
  BY DispatcherHolds DEF DispatcherNext
<1>2. /\ disp.pc = "record" /\ disp.unit \in Units
      /\ UNCHANGED <<exe, ready_queue, completed_queue, msg_bitmap>>
      /\ disp'.pc = "check" /\ disp'.batch = disp.batch /\ disp'.unit = disp.unit
  BY DEF stage_record, edFrame, TypeOK, DispTypes, DispRegs
<1>3. PICK u \in Units, t \in Tasks : u = disp.unit /\ t = exe[u].task
  BY <1>2 DEF TypeOK, SlotTypes, Slot
<1>4. /\ ed'[t].staged = Record(t, u) /\ Record(t, u) # INVALID
      /\ Record(t, u).tag = t /\ Record(t, u).unit = u
      /\ ed'[t].claimed = ed[t].claimed /\ ed'[t].next_block = ed[t].next_block
      /\ ed'[t].ring_task_tag = ed[t].ring_task_tag /\ ed'[t].spec = ed[t].spec
      /\ \A s \in Tasks : s # t => ed'[s] = ed[s]
  <2>1. ed' = [ed EXCEPT ![Idx(t)].staged = Record(t, u)]
    BY <1>3 DEF stage_record
  <2> QED BY <2>1, RecordMeta
<1>5. /\ Staging /\ ED_ENABLE
      /\ exe[u].state = "GATED" /\ ed[t].staged = INVALID /\ Holds(u, t)
  BY <1>2, <1>3 DEF Staging, RunInv, StageInv, Holds, Occupies
<1>6. /\ Committed(t) /\ ed[t].next_block # 0 /\ Gated(u, t) /\ ed[t].claimed = 0
      /\ \A v \in Units : Holds(v, t) => v = u
  BY <1>3, <1>5 DEF RunInv, StageInv, Recorded, ClaimInv, HeldOnce, Claimed
<1>7. \A s : (Due(s)' <=> Due(s)) /\ (Committed(s)' <=> Committed(s))
  BY <1>1 DEF graphHeld, Due, Committed, Committing
<1>8. LaneInv' /\ \A s \in Tasks : InLane(s)' => InLane(s)
  BY <1>1, <1>2, IdleLanes DEF RunInv
<1>9. ClaimInv'
  <2>1. \A s \in Tasks : \A v \in Units : /\ (Holds(v, s)' <=> Holds(v, s))
                                          /\ (Occupies(v, s)' <=> Occupies(v, s))
    BY <1>1, <1>2 DEF Holds, Occupies
  <2>2. \A s \in Tasks : ed'[s].next_block = ed[s].next_block
    BY <1>4
  <2> QED BY <1>1, <1>2, <1>8, <2>1, <2>2, ClaimsStand DEF RunInv
<1>10. DueInv'
  <2>1. \A s \in Tasks : ed'[s].spec = "DISPATCHED" => ed[s].spec = "DISPATCHED"
    BY <1>4
  <2> QED BY <1>1, <1>2, <2>1, DueStands DEF RunInv
<1>11. StageInv'
  <2>1. ASSUME NEW s \in Tasks, Committed(s)'
        PROVE  Recorded(s)'
    <3>1. CASE s = t
      BY <1>2, <1>3, <1>4, <1>5, <1>6, <3>1 DEF Recorded
    <3>2. CASE s # t
      <4>1. Recorded(s) /\ ed'[s] = ed[s]
        BY <1>4, <1>5, <1>7, <2>1, <3>2 DEF RunInv, StageInv
      <4> QED BY <1>2, <4>1 DEF Recorded
    <3> QED BY <3>1, <3>2
  <2>2. ASSUME NEW s \in Tasks, NEW v \in Units, exe'[v].state = "GATED", exe'[v].task = s
        PROVE  Gated(v, s)'
    <3>1. Gated(v, s) /\ Holds(v, s)
      BY <1>2, <2>2 DEF RunInv, StageInv, Holds, Occupies
    <3>2. CASE s = t
      <4>1. v = u /\ NotifierOwed(t)'
        BY <1>2, <1>3, <1>6, <3>1, <3>2 DEF NotifierOwed
      <4> QED BY <1>2, <1>4, <3>1, <3>2, <4>1 DEF Gated
    <3>3. CASE s # t
      <4>1. ed'[s] = ed[s]
        BY <1>4, <3>3
      <4>2. ed[s].staged # INVALID
        BY <1>2, <1>3, <2>2, <3>1, <3>3 DEF Gated
      <4>3. NotifierOwed(s) => NotifierOwed(s)'
        BY <1>1, <1>2 DEF NotifierOwed, graphHeld
      <4> QED BY <1>2, <3>1, <4>1, <4>2, <4>3 DEF Gated
    <3> QED BY <3>2, <3>3
  <2>3. ~Staging'
    BY <1>2 DEF Staging
  <2>4. \A s \in Tasks : exe'[disp'.unit].task = s =>
          Committed(s)' /\ ed'[s].staged = Record(s, disp'.unit)
    BY <1>2, <1>3, <1>4, <1>6, <1>7
  <2> QED BY <1>5, <2>1, <2>2, <2>3, <2>4 DEF StageInv
<1>12. TagsHeld
  BY <1>4 DEF TagsHeld
<1> QED BY <1>8, <1>9, <1>10, <1>11, <1>12 DEF RunInv

(* The check rings the doorbell, unless the other notifier has.            *)
LEMMA NotifyStep ==
  ASSUME NoReuse, TypeOK, NEW t \in Tasks, NEW u \in Units, ed[t].staged = Record(t, u),
         TagIs(t), ed_notify_once(t, Record(t, u))
  PROVE  /\ \A s \in Tasks :
              /\ s # t => ed'[s] = ed[s]
              /\ ed'[s].ring_task_tag = ed[s].ring_task_tag /\ ed'[s].spec = ed[s].spec
              /\ ed'[s].next_block = ed[s].next_block /\ ed'[s].staged = ed[s].staged
         /\ ed'[t].claimed = 1
         /\ \/ /\ ed[t].claimed = 0 /\ exe'[u].doorbell = 1
               /\ exe'[u].state = exe[u].state /\ exe'[u].task = exe[u].task
               /\ \A v \in Units : v # u => exe'[v] = exe[v]
            \/ ed' = ed /\ exe' = exe
<1> DEFINE r == Record(t, u)
           m2 == [ed[t] EXCEPT !.claimed = 1]
<1>1. t \in Rings /\ Idx(t) = t /\ ed \in [Rings -> EdMeta] /\ Tasks \subseteq Rings
      /\ exe \in [Units -> Slot]
  BY IdxSame DEF TypeOK, EdTypes, SlotTypes
<1>2. r # INVALID /\ r.tag = t /\ r.unit = u
  BY InvalidAssumption DEF Record
<1> HIDE DEF r
<1>3. NotifyLive(t, r) <=> ed[t].claimed = 0
  BY <1>1, <1>2 DEF NotifyLive, Unclaimed, TagIs, r
<1>4. /\ m2.staged = ed[t].staged /\ m2.claimed = 1 /\ m2.next_block = ed[t].next_block
      /\ m2.ring_task_tag = ed[t].ring_task_tag /\ m2.spec = ed[t].spec
  BY <1>1 DEF EdMeta
<1>5. CASE ed[t].claimed = 0
  <2>1. ed' = [ed EXCEPT ![t] = m2] /\ exe' = [exe EXCEPT ![u].doorbell = 1]
    BY <1>1, <1>2, <1>3, <1>5 DEF ed_notify_once, r
  <2> HIDE DEF m2
  <2>2. ed'[t] = m2 /\ \A s \in Tasks : s # t => ed'[s] = ed[s]
    BY <1>1, <2>1
  <2>3. /\ exe'[u].doorbell = 1 /\ exe'[u].state = exe[u].state /\ exe'[u].task = exe[u].task
        /\ \A v \in Units : v # u => exe'[v] = exe[v]
    BY <1>1, <2>1 DEF Slot
  <2> QED BY <1>4, <1>5, <2>2, <2>3
<1>6. CASE ed[t].claimed # 0
  <2>1. ed' = ed /\ exe' = exe
    BY <1>3, <1>6 DEF ed_notify_once, r
  <2>2. ed[t].claimed = 1
    BY <1>1, <1>6 DEF EdMeta
  <2> QED BY <2>1, <2>2
<1> QED BY <1>5, <1>6

(* What stage_check writes: at most claimed and one doorbell.              *)
LEMMA CheckStep ==
  ASSUME NoReuse, TypeOK, StageInv, EntryInv, stage_check,
         NEW t \in Tasks, t = exe[disp.unit].task
  PROVE  /\ disp.pc = "check" /\ ED_ENABLE /\ Committed(t) /\ ed[t].staged = Record(t, disp.unit)
         /\ UNCHANGED <<ready_queue, completed_queue, msg_bitmap>>
         /\ disp'.pc \in {"try", "round"} /\ disp'.batch = disp.batch
         /\ \A s \in Tasks :
              /\ s # t => ed'[s] = ed[s]
              /\ ed'[s].ring_task_tag = ed[s].ring_task_tag /\ ed'[s].spec = ed[s].spec
              /\ ed'[s].next_block = ed[s].next_block /\ ed'[s].staged = ed[s].staged
         /\ ed[t].spec = "DISPATCHED" => ed'[t].claimed = 1
         /\ \/ /\ ed[t].claimed = 0 /\ ed[t].spec = "DISPATCHED" /\ ed'[t].claimed = 1
               /\ exe'[disp.unit].doorbell = 1
               /\ exe'[disp.unit].state = exe[disp.unit].state /\ exe'[disp.unit].task = t
               /\ \A v \in Units : v # disp.unit => exe'[v] = exe[v]
            \/ ed' = ed /\ exe' = exe
<1>1. /\ disp.pc = "check" /\ disp.unit \in Units /\ disp \in DispRegs
      /\ UNCHANGED <<ready_queue, completed_queue, msg_bitmap>>
  BY DEF stage_check, edFrame, TypeOK, DispTypes
<1>2. ED_ENABLE /\ Committed(t) /\ ed[t].staged = Record(t, disp.unit) /\ TagIs(t)
  BY <1>1 DEF StageInv, EntryInv
<1>3. disp'.pc \in {"try", "round"} /\ disp'.batch = disp.batch
  <2>1. disp' = LET d == [disp EXCEPT !.unit = INVALID]
                IN IF disp.tries > 1 THEN [d EXCEPT !.pc = "try", !.tries = @ - 1]
                                     ELSE EndOfED(d)
    BY DEF stage_check
  <2> QED BY <1>1, <2>1 DEF EndOfED, DispRegs
<1>4. Idx(t) = t
  BY IdxSame
<1>5. CASE ed[t].spec = "DISPATCHED"
  <2>1. ed_notify_once(t, Record(t, disp.unit))
    BY <1>4, <1>5 DEF stage_check, SelfNotify
  <2>2. /\ \A s \in Tasks :
             /\ s # t => ed'[s] = ed[s]
             /\ ed'[s].ring_task_tag = ed[s].ring_task_tag /\ ed'[s].spec = ed[s].spec
             /\ ed'[s].next_block = ed[s].next_block /\ ed'[s].staged = ed[s].staged
        /\ ed'[t].claimed = 1
        /\ \/ /\ ed[t].claimed = 0 /\ exe'[disp.unit].doorbell = 1
              /\ exe'[disp.unit].state = exe[disp.unit].state
              /\ exe'[disp.unit].task = exe[disp.unit].task
              /\ \A v \in Units : v # disp.unit => exe'[v] = exe[v]
           \/ ed' = ed /\ exe' = exe
    BY <1>1, <1>2, <2>1, NotifyStep
  <2> QED BY <1>1, <1>2, <1>3, <1>5, <2>2
<1>6. CASE ed[t].spec # "DISPATCHED"
  <2>1. ed' = ed /\ exe' = exe
    BY <1>4, <1>6 DEF stage_check, SelfNotify
  <2> QED BY <1>1, <1>2, <1>3, <1>6, <2>1
<1> QED BY <1>5, <1>6

(* stage_check rings the doorbell only of a DISPATCHED task, which is due, *)
(* and only if it is the first to claim the record.                        *)
LEMMA CheckKeepsDag ==
  ASSUME NoReuse, TypeOK, SlotInv, EntryInv, RunInv, stage_check
  PROVE  RunInv' /\ TagsHeld
<1>1. UNCHANGED graphHeld /\ UNCHANGED <<exec, runs>>
  BY DispatcherHolds DEF DispatcherNext
<1>2. PICK u \in Units, t \in Tasks : u = disp.unit /\ t = exe[u].task
  BY DEF stage_check, TypeOK, DispTypes, SlotTypes, Slot
<1>3. /\ disp.pc = "check" /\ ED_ENABLE /\ Committed(t) /\ ed[t].staged = Record(t, u)
      /\ UNCHANGED <<ready_queue, completed_queue, msg_bitmap>>
      /\ disp'.pc \in {"try", "round"} /\ disp'.batch = disp.batch
      /\ \A s \in Tasks :
           /\ s # t => ed'[s] = ed[s]
           /\ ed'[s].ring_task_tag = ed[s].ring_task_tag /\ ed'[s].spec = ed[s].spec
           /\ ed'[s].next_block = ed[s].next_block /\ ed'[s].staged = ed[s].staged
      /\ ed[t].spec = "DISPATCHED" => ed'[t].claimed = 1
      /\ \/ /\ ed[t].claimed = 0 /\ ed[t].spec = "DISPATCHED" /\ ed'[t].claimed = 1
            /\ exe'[u].doorbell = 1 /\ exe'[u].state = exe[u].state /\ exe'[u].task = t
            /\ \A v \in Units : v # u => exe'[v] = exe[v]
         \/ ed' = ed /\ exe' = exe
  BY <1>2, CheckStep DEF RunInv
<1>4. Record(t, u) # INVALID /\ Record(t, u).tag = t /\ Record(t, u).unit = u
  BY InvalidAssumption DEF Record
<1>5. /\ \A v \in Units : exe'[v].state = exe[v].state /\ exe'[v].task = exe[v].task
      /\ \A v \in Units : exe'[v].doorbell = 1 /\ exe[v].doorbell # 1 =>
           v = u /\ ed[t].spec = "DISPATCHED" /\ ed[t].claimed = 0
  <2>1. CASE ed' = ed /\ exe' = exe
    BY <2>1
  <2>2. CASE /\ exe'[u].state = exe[u].state /\ exe'[u].task = t
             /\ ed[t].spec = "DISPATCHED" /\ ed[t].claimed = 0
             /\ \A v \in Units : v # u => exe'[v] = exe[v]
    BY <1>2, <2>2
  <2> QED BY <1>3, <2>1, <2>2
<1>6. \A s : (Due(s)' <=> Due(s)) /\ (Committed(s)' <=> Committed(s))
              /\ (Ran(s)' <=> Ran(s)) /\ (Completed(s)' <=> Completed(s))
  BY <1>1 DEF graphHeld, Due, Committed, Committing, Ran, Completed
<1>7. LaneInv' /\ \A s \in Tasks : InLane(s)' => InLane(s)
  BY <1>1, <1>3, IdleLanes DEF RunInv
<1>8. ClaimInv'
  <2>1. \A s \in Tasks : \A v \in Units : /\ (Holds(v, s)' <=> Holds(v, s))
                                          /\ (Occupies(v, s)' <=> Occupies(v, s))
    BY <1>1, <1>3, <1>5 DEF Holds, Occupies
  <2>2. \A s \in Tasks : ed'[s].next_block = ed[s].next_block
    BY <1>3
  <2> QED BY <1>1, <1>3, <1>7, <2>1, <2>2, ClaimsStand DEF RunInv
<1>9. ed[t].claimed = 0 => exe[u].state = "GATED" /\ exe[u].task = t
  BY <1>3, <1>4 DEF RunInv, StageInv, Recorded
<1>10. DueInv'
  <2>1. \A v \in Units : exe'[v].doorbell = 1 => exe'[v].state = "GATED"
    BY <1>5, <1>9 DEF RunInv, DueInv
  <2>2. ASSUME NEW s \in Tasks, NEW v \in Units, exe'[v].task = s,
               exe'[v].state = "RUNNABLE" \/ exe'[v].doorbell = 1
        PROVE  Due(s)'
    <3>1. CASE exe[v].state = "RUNNABLE" \/ exe[v].doorbell = 1
      BY <1>5, <1>6, <2>2, <3>1 DEF RunInv, DueInv
    <3>2. CASE ~(exe[v].state = "RUNNABLE" \/ exe[v].doorbell = 1)
      <4>1. v = u /\ ed[t].spec = "DISPATCHED" /\ s = t
        BY <1>2, <1>5, <2>2, <3>2
      <4> QED BY <1>3, <1>6, <4>1 DEF RunInv, DueInv
    <3> QED BY <3>1, <3>2
  <2>3. \A s \in Tasks : ED_ENABLE /\ Committed(s)' /\ ed'[s].spec = "DISPATCHED" => Due(s)'
    BY <1>3, <1>6 DEF RunInv, DueInv
  <2> QED BY <2>1, <2>2, <2>3 DEF DueInv
<1>11. StageInv'
  <2>1. ASSUME NEW s \in Tasks, Committed(s)'
        PROVE  Recorded(s)'
    <3>1. Recorded(s)
      BY <1>3, <1>6, <2>1 DEF RunInv, StageInv
    <3>2. CASE s = t
      BY <1>3, <1>4, <1>5, <3>1, <3>2 DEF Recorded
    <3>3. CASE s # t
      <4>1. ed'[s] = ed[s]
        BY <1>3, <3>3
      <4>2. ed[s].staged # INVALID => ed[s].staged.unit \in Units
        <5>1. ed[s] \in EdMeta
          BY IdxSame DEF TypeOK, EdTypes
        <5> QED BY <5>1 DEF EdMeta, MetaRecords
      <4> QED BY <1>5, <3>1, <4>1, <4>2 DEF Recorded
    <3> QED BY <3>2, <3>3
  <2>2. ASSUME NEW s \in Tasks, NEW v \in Units, exe'[v].state = "GATED", exe'[v].task = s
        PROVE  Gated(v, s)'
    <3>1. Gated(v, s) /\ Holds(v, s) /\ exe[v].task = s /\ exe[v].state = "GATED"
      BY <1>5, <2>2 DEF RunInv, StageInv, Holds, Occupies
    <3>2. CASE s = t
      <4>1. ed'[t].claimed = 0 \/ ed'[t].claimed = 1
        <5>1. ed[t] \in EdMeta
          BY IdxSame DEF TypeOK, EdTypes
        <5> QED BY <1>3, <5>1 DEF EdMeta
      <4>2. exe'[v].doorbell = ed'[t].claimed
        <5>1. CASE ed' = ed /\ exe' = exe
          BY <3>1, <3>2, <5>1 DEF Gated
        <5>2. CASE ed[t].claimed = 0 /\ ed'[t].claimed = 1 /\ exe'[u].doorbell = 1
          <6>1. Holds(u, t)
            BY <1>9, <5>2 DEF Holds, Occupies
          <6>2. v = u
            BY <3>1, <3>2, <6>1 DEF RunInv, ClaimInv, HeldOnce
          <6> QED BY <5>2, <6>2
        <5> QED BY <1>3, <5>1, <5>2
      <4> QED BY <1>3, <1>4, <3>1, <3>2, <4>1, <4>2 DEF Gated
    <3>3. CASE s # t
      <4>1. ed'[s] = ed[s] /\ v # u /\ exe'[v] = exe[v]
        BY <1>2, <1>3, <3>1, <3>3
      <4>2. ed[s].staged # INVALID
        BY <1>3, <3>1 DEF Gated, Staging
      <4>3. NotifierOwed(s) => NotifierOwed(s)'
        BY <1>1, <1>2, <1>3, <3>3 DEF NotifierOwed, graphHeld
      <4> QED BY <3>1, <4>1, <4>2, <4>3 DEF Gated
    <3> QED BY <3>2, <3>3
  <2>3. ~Staging' /\ disp'.pc # "check"
    BY <1>3 DEF Staging
  <2> QED BY <1>3, <2>1, <2>2, <2>3 DEF StageInv
<1>12. TagsHeld
  BY <1>3 DEF TagsHeld
<1> QED BY <1>7, <1>8, <1>10, <1>11, <1>12 DEF RunInv

(* With that every step of the dispatcher is accounted for.                *)
LEMMA DispatcherKeepsDag ==
  ASSUME NoReuse, TypeOK, SlotInv, WatermarkInv, DagInv, DispatcherNext
  PROVE  DagInv'
<1>1. RunInv /\ GraphInv
  BY DEF DagInv, RunInv, GraphInv
<1>2. RunInv' /\ TagsHeld
  <2>1. CASE DispatcherWalks
    <3>1. TagsHeld
      BY <2>1, WalkMeta DEF TagsHeld, MetaHeld
    <3> QED BY <1>1, <2>1, <3>1, DispatcherWalkKeeps
  <2>2. CASE send_task /\ ~SkipsTask
    BY <1>1, <2>2, SendKeepsDag DEF DagInv
  <2>3. CASE try_stage /\ ~DropsTask
    BY <1>1, <2>3, StageClaimKeeps DEF DagInv
  <2>4. CASE drain_completed_snapshot
    BY <1>1, <2>4, DrainKeepsDag DEF DagInv
  <2>5. CASE stage_record
    BY <1>1, <2>5, RecordKeepsDag
  <2>6. CASE stage_check
    BY <1>1, <2>6, CheckKeepsDag DEF DagInv
  <2> QED BY <2>1, <2>2, <2>3, <2>4, <2>5, <2>6 DEF DispatcherNext, DispatcherWalks
<1>3. /\ UNCHANGED graphHeld
      /\ UNCHANGED <<exec, runs, g_task_id, orch, g_basic_buf, g_predecessors>>
  BY DispatcherHolds
<1>4. RunsGrow
  BY <1>3 DEF RunsGrow, Ran
<1>5. GraphInv'
  BY <1>1, <1>2, <1>3, <1>4, GraphFrame
<1>6. CreationInv'
  BY <1>3, <1>4, CreationFrame DEF DagInv, graphHeld
<1> QED BY <1>2, <1>5, <1>6 DEF DagInv, RunInv, GraphInv

----------------------------------------------------------------------------
(* The executor.                                                           *)
LEMMA ExecutorHolds ==
  ASSUME ExecutorNext
  PROVE  /\ UNCHANGED graphHeld
         /\ UNCHANGED <<disp, ready_queue, completed_queue, g_task_id, orch, g_basic_buf,
                        g_predecessors>>
BY DEF ExecutorNext, start, complete_slot, signal, drain_mask, poll_core, poll_not_rung,
   poll_open, executor_hook0, executor_credit, executor_exit, exeFrame, orchVars,
   graphVars, graphHeld

(* The executor leaves lines alone.                                        *)
LEMMA ExecutorLanes ==
  ASSUME TypeOK, LaneInv, ExecutorNext
  PROVE  /\ LaneInv' /\ \A t \in Tasks : InLane(t)' => InLane(t)
         /\ \A y \in Types : Distinct(Lane(y)') /\ ToSet(Lane(y)') \subseteq ToSet(Lane(y))
         /\ disp'.pc \notin {"send", "hook0"} => disp'.batch = <<>>
<1>1. UNCHANGED graphHeld /\ UNCHANGED <<disp, ready_queue, cut>>
  BY ExecutorHolds DEF graphHeld
<1>2. \A y \in Types : Lane(y)' = Lane(y)
  BY <1>1 DEF Lane, Waiting, Type
<1>3. \A y \in Types : Distinct(Lane(y)') /\ ToSet(Lane(y)') \subseteq ToSet(Lane(y))
  BY <1>2, LanesSame
<1>4. disp'.pc \notin {"send", "hook0"} => disp'.batch = <<>>
  BY <1>1 DEF LaneInv
<1> QED BY <1>1, <1>3, <1>4, LanesShrink

(* Its own moves: no slot changes but for the completion bit, which it     *)
(* takes over from the register.                                           *)
ExecutorWalks ==
  \/ \E u \in Units : start(u)
  \/ \E y \in Types : drain_mask(y)
  \/ \E c \in Types \X Cores : poll_core(c)
  \/ poll_not_rung \/ executor_hook0 \/ executor_credit \/ executor_exit \/ signal

(* What the steps of the executor that neither open a gate nor complete a  *)
(* task leave alone.                                                       *)
LEMMA ExecutorWalkMeta ==
  ASSUME NoReuse, TypeOK, ExecutorWalks
  PROVE  /\ \A t \in Tasks : MetaHeld(t)
         /\ UNCHANGED <<exe, runs>>
<1>1. CASE executor_hook0
  <2>1. exe[exec.unit].task \in Tasks
    BY <1>1 DEF executor_hook0, TypeOK, ExecTypes, SlotTypes, Slot
  <2>2. \A t \in Tasks : MetaHeld(t)
    BY <1>1, <2>1, Hook0MetaHeld DEF executor_hook0
  <2> QED BY <1>1, <2>2 DEF executor_hook0
<1>2. CASE executor_credit
  <2>1. Head(exec.todo) \in Tasks
    <3>1. exec.todo \in Seq(Tasks) /\ exec.todo # <<>>
      BY <1>2 DEF executor_credit, TypeOK, ExecTypes, ExecRegs
    <3> QED BY <3>1, TailOfList
  <2>2. \A t \in Tasks : MetaHeld(t)
    BY <1>2, <2>1, CreditKeeps DEF executor_credit
  <2> QED BY <1>2, <2>2 DEF executor_credit
<1>3. CASE ~executor_hook0 /\ ~executor_credit
  <2>1. UNCHANGED <<exe, runs, ed>>
    BY <1>3 DEF ExecutorWalks, start, drain_mask, poll_core, poll_not_rung, executor_exit,
       signal
  <2> QED BY <2>1 DEF MetaHeld
<1> QED BY <1>1, <1>2, <1>3

(* A task stays with its slot until the bit of the slot is drained.        *)
LEMMA ExecutorWalkHolds ==
  ASSUME TypeOK, ExecutorWalks, UNCHANGED exe
  PROVE  \A t \in Tasks : \A u \in Units : Holds(u, t)' <=> Holds(u, t)
<1>1. exec \in ExecRegs
  BY DEF TypeOK, ExecTypes
<1>2. CASE signal
  <2>1. exec'.pc = "scan" /\ exec.pc = "signal" /\ msg_bitmap' = msg_bitmap \cup {exec.unit}
    BY <1>1, <1>2 DEF signal, ExecRegs
  <2> QED BY <2>1 DEF Holds, Occupies
<1>3. CASE ~signal
  <2>1. UNCHANGED msg_bitmap
    BY <1>3 DEF ExecutorWalks, start, drain_mask, poll_core, poll_not_rung, executor_exit,
       executor_hook0, executor_credit
  <2>2. exec.pc # "signal" /\ exec'.pc # "signal"
    <3>1. CASE poll_not_rung \/ executor_hook0 \/ executor_credit
      BY <3>1, WalkStep DEF poll_not_rung
    <3>2. CASE \E u \in Units : start(u)
      BY <1>1, <3>2 DEF start, ExecRegs
    <3>3. CASE executor_exit \/ \E y \in Types : drain_mask(y)
      BY <1>1, <3>3 DEF drain_mask, executor_exit, ExecRegs
    <3>4. CASE \E c \in Types \X Cores : poll_core(c)
      BY <1>1, <3>4 DEF poll_core, ExecRegs
    <3> QED BY <1>3, <3>1, <3>2, <3>3, <3>4 DEF ExecutorWalks
  <2> QED BY <2>1, <2>2 DEF Holds, Occupies
<1> QED BY <1>2, <1>3

(* They keep lines, claims, starts and gates.                              *)
LEMMA ExecutorWalkKeeps ==
  ASSUME NoReuse, TypeOK, RunInv, ExecutorWalks
  PROVE  RunInv' /\ TagsHeld /\ RunsGrow
<1>1. ExecutorNext
  BY DEF ExecutorWalks, ExecutorNext
<1>2. UNCHANGED graphHeld /\ UNCHANGED <<disp, completed_queue>>
  BY <1>1, ExecutorHolds
<1>3. (\A t \in Tasks : MetaHeld(t)) /\ UNCHANGED <<exe, runs>>
  BY ExecutorWalkMeta
<1>4. \A t \in Tasks : \A u \in Units : Holds(u, t)' <=> Holds(u, t)
  BY <1>3, ExecutorWalkHolds
<1>5. /\ \A y \in Types : Distinct(Lane(y)') /\ ToSet(Lane(y)') \subseteq ToSet(Lane(y))
      /\ disp'.pc \notin {"send", "hook0"} => disp'.batch = <<>>
  BY <1>1, ExecutorLanes DEF RunInv
<1>6. /\ Staging' <=> Staging
      /\ disp'.pc = "check" <=> disp.pc = "check"
      /\ Staging \/ disp.pc = "check" => disp'.unit = disp.unit
      /\ disp'.pc \in {"ed", "try", "mask", "record", "check"} => ED_ENABLE
  BY <1>2 DEF Staging, RunInv, StageInv
<1>7. RunInv'
  BY <1>2, <1>3, <1>4, <1>5, <1>6, QuietKeeps
<1> QED BY <1>3, <1>7 DEF TagsHeld, MetaHeld, RunsGrow, Ran

(* Gates only go: one that is opened has had its doorbell rung, so that    *)
(* its record is known and notified.                                       *)
LEMMA GatesGo ==
  ASSUME NoReuse, TypeOK, StageInv, UNCHANGED graphHeld, UNCHANGED disp,
         \A t \in Tasks : MetaHeld(t),
         NEW u \in Units, exe'[u].state # "GATED", exe'[u].task = exe[u].task,
         \A v \in Units \ {u} : exe'[v] = exe[v],
         exe[u].state = "GATED" =>
           \A t \in Tasks : exe[u].task = t => ed[t].claimed # 0 /\ ed[t].staged # INVALID
  PROVE  StageInv'
<1>1. UNCHANGED <<g_commit_task_id, cut>>
  BY DEF graphHeld
<1>2. \A t : Committed(t)' <=> Committed(t)
  BY <1>1 DEF Committed, Committing
<1>3. \A v \in Units : exe'[v].task = exe[v].task
  OBVIOUS
<1>4. disp.pc \in {"mask", "record", "check"} => disp.unit \in Units
  BY DEF TypeOK, DispTypes
<1>5. \A t \in Tasks : NotifierOwed(t) => NotifierOwed(t)'
  BY <1>1, <1>3, <1>4 DEF NotifierOwed
<1>6. ASSUME NEW t \in Tasks, ED_ENABLE, Committed(t)'
      PROVE  Recorded(t)'
  <2>1. Recorded(t)
    BY <1>2, <1>6 DEF StageInv
  <2>2. ed[t].staged # INVALID => ed[t].staged.unit \in Units
    <3>1. ed[t] \in EdMeta
      BY IdxSame DEF TypeOK, EdTypes
    <3> QED BY <3>1 DEF EdMeta, MetaRecords
  <2>3. ed[t].staged # INVALID /\ ed[t].claimed = 0 =>
          ed[t].staged.unit # u /\ exe'[ed[t].staged.unit] = exe[ed[t].staged.unit]
    BY <2>1, <2>2 DEF Recorded
  <2> QED BY <2>1, <2>3 DEF Recorded, MetaHeld
<1>7. ASSUME NEW t \in Tasks, NEW v \in Units, exe'[v].state = "GATED", exe'[v].task = t
      PROVE  Gated(v, t)'
  <2>1. v # u /\ exe'[v] = exe[v]
    BY <1>7
  <2>2. Gated(v, t)
    BY <1>7, <2>1 DEF StageInv
  <2> QED BY <1>5, <2>1, <2>2 DEF Gated, MetaHeld, Staging
<1>8. \A t \in Tasks : Staging' /\ exe'[disp'.unit].task = t =>
        exe'[disp'.unit].state = "GATED" /\ ed'[t].staged = INVALID
  <2> SUFFICES ASSUME NEW t \in Tasks, Staging, exe[disp.unit].task = t
               PROVE  exe'[disp.unit].state = "GATED" /\ ed'[t].staged = INVALID
    BY <1>3, <1>4 DEF Staging
  <2>1. exe[disp.unit].state = "GATED" /\ ed[t].staged = INVALID
    BY DEF StageInv
  <2>2. disp.unit \in Units \ {u}
    BY <1>4, <2>1 DEF Staging
  <2> QED BY <2>1, <2>2 DEF MetaHeld
<1>9. \A t \in Tasks : disp'.pc = "check" /\ exe'[disp'.unit].task = t =>
        Committed(t)' /\ ed'[t].staged = Record(t, disp'.unit)
  BY <1>2, <1>3, <1>4 DEF StageInv, MetaHeld
<1>10. disp'.pc \in {"ed", "try", "mask", "record", "check"} => ED_ENABLE
  BY DEF StageInv
<1> QED BY <1>6, <1>7, <1>8, <1>9, <1>10 DEF StageInv

(* poll_open starts a task whose doorbell has rung, hence a due one.       *)
LEMMA OpenKeepsDag ==
  ASSUME NoReuse, TypeOK, RunInv, poll_open
  PROVE  RunInv' /\ TagsHeld /\ RunsGrow
<1>1. ExecutorNext
  BY DEF ExecutorNext
<1>2. UNCHANGED graphHeld /\ UNCHANGED <<disp, completed_queue, ready_queue>>
  BY <1>1, ExecutorHolds
<1>3. UNCHANGED <<ed, runs, msg_bitmap>>
  BY DEF poll_open
<1>4. PICK u \in Units :
        /\ exec.pc = "poll" /\ exec'.pc = "hook0"
        /\ exe[u].state = "GATED" /\ exe[u].doorbell = 1
        /\ exe'[u].state = "RUNNABLE" /\ exe'[u].task = exe[u].task /\ exe'[u].doorbell = 0
        /\ \A v \in Units \ {u} : exe'[v] = exe[v]
  BY PollOpenStep
<1>5. PICK t \in Tasks : exe[u].task = t
  BY DEF TypeOK, SlotTypes, Slot
<1>6. LaneInv' /\ \A s \in Tasks : InLane(s)' => InLane(s)
  BY <1>1, ExecutorLanes DEF RunInv
<1>7. \A s : (Due(s)' <=> Due(s)) /\ (Committed(s)' <=> Committed(s))
  BY <1>2 DEF graphHeld, Due, Committed, Committing
<1>8. \A s \in Tasks : MetaHeld(s)
  BY <1>3 DEF MetaHeld
<1>9. ClaimInv'
  <2>1. \A s \in Tasks : \A v \in Units :
          (Holds(v, s)' <=> Holds(v, s)) /\ (Occupies(v, s)' <=> Occupies(v, s))
    <3> TAKE s \in Tasks
    <3> TAKE v \in Units
    <3>1. exe'[v].task = exe[v].task /\ (exe'[v].state # "EMPTY" <=> exe[v].state # "EMPTY")
      BY <1>4
    <3> QED BY <1>3, <1>4, <3>1 DEF Holds, Occupies
  <2> QED BY <1>2, <1>3, <1>6, <2>1, ClaimsStand DEF RunInv
<1>10. DueInv'
  <2>1. Due(t)'
    BY <1>4, <1>5, <1>7 DEF RunInv, DueInv
  <2>2. \A v \in Units : exe'[v].doorbell = 1 => exe'[v].state = "GATED"
    BY <1>4 DEF RunInv, DueInv
  <2>3. ASSUME NEW s \in Tasks, NEW v \in Units, exe'[v].task = s,
               exe'[v].state = "RUNNABLE" \/ exe'[v].doorbell = 1
        PROVE  Due(s)'
    <3>1. CASE v = u
      BY <1>4, <1>5, <2>1, <2>3, <3>1
    <3>2. CASE v # u
      <4>1. exe'[v] = exe[v]
        BY <1>4, <3>2
      <4> QED BY <1>7, <2>3, <4>1 DEF RunInv, DueInv
    <3> QED BY <3>1, <3>2
  <2>4. \A s \in Tasks : ED_ENABLE /\ Committed(s)' /\ ed'[s].spec = "DISPATCHED" => Due(s)'
    BY <1>3, <1>7 DEF RunInv, DueInv
  <2> QED BY <2>2, <2>3, <2>4 DEF DueInv
<1>11. StageInv'
  <2>1. Gated(u, t) /\ Committed(t)
    <3>1. Gated(u, t) /\ Holds(u, t)
      BY <1>4, <1>5 DEF RunInv, StageInv, Holds, Occupies
    <3>2. Claimed(t) /\ ED_ENABLE
      BY <3>1 DEF RunInv, ClaimInv, HeldOnce, Gated
    <3> QED BY <3>1, <3>2 DEF Claimed
  <2>2. ed[t].claimed = 1 /\ ed[t].staged # INVALID
    BY <1>4, <2>1 DEF Gated, RunInv, StageInv, Recorded
  <2> QED BY <1>2, <1>4, <1>5, <1>8, <2>2, GatesGo DEF RunInv
<1> QED BY <1>3, <1>6, <1>9, <1>10, <1>11 DEF RunInv, TagsHeld, RunsGrow, Ran

(* complete_slot runs the task, and owes its completion to the slot.       *)
LEMMA ClearMeta ==
  ASSUME NoReuse, TypeOK, NEW t \in Tasks,
         ed' = IF ED_ENABLE THEN [ed EXCEPT ![Idx(t)] = ClearedRecord(@, t)] ELSE ed
  PROVE  \A s \in Tasks : MetaHeld(s)
<1> DEFINE m2 == ClearedRecord(ed[t], t)
<1>1. t \in Rings /\ Idx(t) = t /\ ed \in [Rings -> EdMeta] /\ Tasks \subseteq Rings
  BY IdxSame DEF TypeOK, EdTypes
<1>2. /\ m2.staged = ed[t].staged /\ m2.claimed = ed[t].claimed /\ m2.spec = ed[t].spec
      /\ m2.ring_task_tag = ed[t].ring_task_tag /\ m2.next_block = ed[t].next_block
  BY <1>1 DEF ClearedRecord, EdMeta
<1>3. ed' = ed \/ ed' = [ed EXCEPT ![t] = m2]
  BY <1>1
<1> HIDE DEF m2
<1> QED BY <1>1, <1>2, <1>3 DEF MetaHeld

(* complete_slot records that a task has run, for the first time.          *)
LEMMA CompleteKeepsDag ==
  ASSUME NoReuse, TypeOK, SlotInv, RunInv, NEW u \in Units, complete_slot(u)
  PROVE  RunInv' /\ TagsHeld /\ RunsGrow
<1>1. ExecutorNext
  BY DEF ExecutorNext
<1>2. UNCHANGED graphHeld /\ UNCHANGED <<disp, completed_queue, ready_queue>>
  BY <1>1, ExecutorHolds
<1>3. UNCHANGED msg_bitmap
  BY DEF complete_slot
<1>4. PICK t \in Tasks : t = exe[u].task
  BY CompleteSlotStep
<1>5. /\ exec.pc = "scan"
      /\ \/ exec'.pc = "scan" /\ UNCHANGED <<exe, ed, runs>>
         \/ /\ exec'.pc = "signal" /\ exec'.unit = u
            /\ exe[u].state = "RUNNABLE"
            /\ exe'[u].state = "EMPTY" /\ exe'[u].task = t
            /\ exe'[u].doorbell = exe[u].doorbell
            /\ \A v \in Units \ {u} : exe'[v] = exe[v]
            /\ runs' = [runs EXCEPT ![t] = @ + 1]
  BY <1>4, CompleteSlotStep
<1>6. LaneInv' /\ \A s \in Tasks : InLane(s)' => InLane(s)
  BY <1>1, ExecutorLanes DEF RunInv
<1>7. \A s \in Tasks : MetaHeld(s)
  <2>1. CASE UNCHANGED ed
    BY <2>1 DEF MetaHeld
  <2>2. CASE exe[u].state = "RUNNABLE"
    <3>1. ed' = IF ED_ENABLE THEN [ed EXCEPT ![Idx(t)] = ClearedRecord(@, t)] ELSE ed
      BY <1>4, <2>2 DEF complete_slot
    <3> QED BY <3>1, ClearMeta
  <2> QED BY <1>5, <2>1, <2>2
<1>8. CASE exec'.pc = "scan" /\ UNCHANGED <<exe, ed, runs>>
  <2>1. \A s \in Tasks : \A v \in Units : Holds(v, s)' <=> Holds(v, s)
    BY <1>3, <1>5, <1>8 DEF Holds, Occupies
  <2>2. /\ \A y \in Types : Distinct(Lane(y)') /\ ToSet(Lane(y)') \subseteq ToSet(Lane(y))
        /\ disp'.pc \notin {"send", "hook0"} => disp'.batch = <<>>
    BY <1>1, ExecutorLanes DEF RunInv
  <2>3. /\ Staging' <=> Staging
        /\ disp'.pc = "check" <=> disp.pc = "check"
        /\ Staging \/ disp.pc = "check" => disp'.unit = disp.unit
        /\ disp'.pc \in {"ed", "try", "mask", "record", "check"} => ED_ENABLE
    BY <1>2 DEF Staging, RunInv, StageInv
  <2>4. RunInv'
    BY <1>2, <1>7, <1>8, <2>1, <2>2, <2>3, QuietKeeps
  <2> QED BY <1>8, <2>4 DEF TagsHeld, RunsGrow, Ran
<1>9. CASE /\ exec'.pc = "signal" /\ exec'.unit = u
           /\ exe[u].state = "RUNNABLE"
           /\ exe'[u].state = "EMPTY" /\ exe'[u].task = t
           /\ exe'[u].doorbell = exe[u].doorbell
           /\ \A v \in Units \ {u} : exe'[v] = exe[v]
           /\ runs' = [runs EXCEPT ![t] = @ + 1]
  <2>1. \A s : /\ (Due(s)' <=> Due(s)) /\ (Committed(s)' <=> Committed(s))
               /\ (Completed(s)' <=> Completed(s))
    BY <1>2 DEF graphHeld, Due, Committed, Committing, Completed
  <2>2. \A s \in Tasks : \A v \in Units :
          /\ (Holds(v, s)' <=> Holds(v, s))
          /\ (Occupies(v, s)' => Occupies(v, s) /\ v # u)
    <3> TAKE s \in Tasks
    <3> TAKE v \in Units
    <3>1. CASE v = u
      BY <1>4, <1>9, <3>1 DEF Holds, Occupies
    <3>2. CASE v # u
      <4>1. exe'[v] = exe[v]
        BY <1>9, <3>2
      <4> QED BY <1>3, <1>5, <1>9, <3>2, <4>1 DEF Holds, Occupies
    <3> QED BY <3>1, <3>2
  <2>3. Occupies(u, t) /\ Holds(u, t)
    BY <1>4, <1>9 DEF Occupies, Holds
  <2>4. \A s \in Tasks : runs'[s] = IF s = t THEN runs[t] + 1 ELSE runs[s]
    BY <1>9 DEF TypeOK, QueueTypes
  <2>5. runs[t] = 0 /\ runs'[t] = 1 /\ runs \in [Tasks -> Nat]
    <3>1. runs \in [Tasks -> Nat] /\ ~(runs[t] > 0)
      BY <2>3 DEF TypeOK, QueueTypes, RunInv, ClaimInv, RunOnce, Ran
    <3> QED BY <2>4, <3>1
  <2>6. \A s \in Tasks : Ran(s)' <=> Ran(s) \/ s = t
    BY <2>4, <2>5 DEF Ran
  <2>7. \A s \in Tasks : Claimed(s) => Claimed(s)'
    BY <1>6, <1>7, <2>1 DEF Claimed, MetaHeld
  <2>8. ClaimInv'
    <3>1. HeldOnce'
      BY <2>2, <2>7 DEF RunInv, ClaimInv, HeldOnce
    <3>2. RunOnce'
      <4> SUFFICES ASSUME NEW s \in Tasks
                   PROVE  /\ runs'[s] <= 1 /\ (Ran(s)' => Claimed(s)')
                          /\ \A v \in Units : Occupies(v, s)' => ~Ran(s)'
        BY DEF RunOnce
      <4>1. CASE s = t
        <5>1. \A v \in Units : ~Occupies(v, s)'
          <6> SUFFICES ASSUME NEW v \in Units, Occupies(v, s)' PROVE FALSE
            OBVIOUS
          <6>1. Holds(v, t) /\ v # u
            BY <2>2, <4>1 DEF Holds
          <6> QED BY <2>3, <6>1 DEF RunInv, ClaimInv, HeldOnce
        <5>2. Claimed(s)'
          BY <2>3, <2>7, <4>1 DEF RunInv, ClaimInv, HeldOnce
        <5> QED BY <2>5, <4>1, <5>1, <5>2
      <4>2. CASE s # t
        BY <2>2, <2>4, <2>6, <2>7, <4>2 DEF RunInv, ClaimInv, RunOnce
      <4> QED BY <4>1, <4>2
    <3>3. ToldOnce'
      BY <1>2, <2>1, <2>2 DEF RunInv, ClaimInv, ToldOnce
    <3> QED BY <3>1, <3>2, <3>3 DEF ClaimInv
  <2>9. exe'[u].doorbell # 1
    BY <1>9 DEF RunInv, DueInv
  <2>10. DueInv'
    <3>1. \A v \in Units : exe'[v].doorbell = 1 => exe'[v].state = "GATED"
      BY <1>9, <2>9 DEF RunInv, DueInv
    <3>2. ASSUME NEW s \in Tasks, NEW v \in Units, exe'[v].task = s,
                 exe'[v].state = "RUNNABLE" \/ exe'[v].doorbell = 1
          PROVE  Due(s)'
      <4>1. v # u /\ exe'[v] = exe[v]
        BY <1>9, <2>9, <3>2
      <4> QED BY <2>1, <3>2, <4>1 DEF RunInv, DueInv
    <3>3. \A s \in Tasks : ED_ENABLE /\ Committed(s)' /\ ed'[s].spec = "DISPATCHED" => Due(s)'
      BY <1>7, <2>1 DEF RunInv, DueInv, MetaHeld
    <3> QED BY <3>1, <3>2, <3>3 DEF DueInv
  <2>11. StageInv'
    BY <1>2, <1>4, <1>7, <1>9, GatesGo DEF RunInv
  <2>12. RunsGrow
    BY <2>6 DEF RunsGrow
  <2> QED BY <1>6, <1>7, <2>8, <2>10, <2>11, <2>12 DEF RunInv, TagsHeld, MetaHeld
<1> QED BY <1>5, <1>8, <1>9

(* Every step of the executor keeps the invariant.                         *)
LEMMA ExecutorKeepsDag ==
  ASSUME NoReuse, TypeOK, SlotInv, DagInv, ExecutorNext
  PROVE  DagInv'
<1>1. RunInv /\ GraphInv
  BY DEF DagInv, RunInv, GraphInv
<1>2. RunInv' /\ TagsHeld /\ RunsGrow
  <2>1. CASE ExecutorWalks
    BY <1>1, <2>1, ExecutorWalkKeeps
  <2>2. CASE poll_open
    BY <1>1, <2>2, OpenKeepsDag
  <2>3. ASSUME NEW u \in Units, complete_slot(u)
        PROVE  RunInv' /\ TagsHeld /\ RunsGrow
    BY <1>1, <2>3, CompleteKeepsDag
  <2> QED BY <2>1, <2>2, <2>3 DEF ExecutorNext, ExecutorWalks
<1>3. /\ UNCHANGED graphHeld
      /\ UNCHANGED <<g_task_id, orch, g_basic_buf, g_predecessors>>
  BY ExecutorHolds
<1>4. GraphInv'
  BY <1>1, <1>2, <1>3, GraphFrame
<1>5. CreationInv'
  BY <1>2, <1>3, CreationFrame DEF DagInv, graphHeld
<1> QED BY <1>2, <1>4, <1>5 DEF DagInv, RunInv, GraphInv

----------------------------------------------------------------------------
(* The invariant holds.                                                    *)
LEMMA DagInit ==
  ASSUME NoReuse, Init
  PROVE  DagInv
<1>1. /\ g_task_id = 0 /\ orch = "new" /\ g_commit_task_id = 0
      /\ g_state_buf = [i \in Rings |-> [task_id |-> 0, state |-> "CREATING", successor_cnt |-> 0]]
      /\ g_successor_buf = [i \in Rings |-> <<>>]
      /\ exe = [u \in Units |-> [state |-> "EMPTY", task |-> 0, doorbell |-> 0]]
      /\ msg_bitmap = {} /\ ready_queue = [y \in Types |-> <<>>] /\ completed_queue = <<>>
      /\ runs = [t \in Tasks |-> 0]
  BY DEF Init, StateInit
<1>2. cut.pc = "take" /\ cut.batch = <<>> /\ cut.work = <<>> /\ cut.ready = [y \in Types |-> <<>>]
  BY DEF Init, StateInit
<1>3. disp.pc = "round" /\ disp.batch = <<>> /\ exec.pc = "scan"
  BY DEF Init, StateInit
<1>4. /\ Tasks \subseteq Rings /\ Tasks \subseteq Nat
      /\ \A t \in Tasks : Idx(t) = t /\ ed[t].ring_task_tag = INVALID
  <2>1. ed = [i \in Rings |-> NoEdMeta]
    BY DEF Init, StateInit
  <2> QED BY <2>1, IdxSame DEF NoEdMeta
<1>5. \A t \in Tasks : ~(t < 0)
  BY <1>4
<1>6. \A t : ~Committing(t)
  BY <1>2 DEF Committing
<1>7. \A t \in Tasks : ~Committed(t)
  BY <1>1, <1>5, <1>6 DEF Committed
<1>8. CreationInv
  BY <1>1, <1>5 DEF CreationInv, Created, Listed
<1>9. EntryInv
  <2>1. \A t \in Tasks : ~TagIs(t)
    BY <1>4, InvalidAssumption DEF TagIs
  <2>2. \A t \in Tasks : g_state_buf[t].successor_cnt = Len(g_successor_buf[t]) /\ Untouched(t)
    BY <1>1, <1>4 DEF Untouched
  <2> QED BY <1>7, <2>1, <2>2 DEF EntryInv
<1>10. EdgeInv
  <2>1. \A p \in Tasks : ToSet(g_successor_buf[p]) = {}
    BY <1>1, <1>4, EmptyList
  <2>2. ToSet(cut.work) = {}
    BY <1>2, EmptyList
  <2> QED BY <1>2, <2>1, <2>2 DEF EdgeInv
<1>11. RoundInv
  BY <1>2, EmptyList DEF RoundInv
<1>12. CountInv /\ ReasonInv
  BY <1>7 DEF CountInv, ReasonInv
<1>13. LaneInv
  <2>1. Waiting = <<>>
    BY <1>3 DEF Waiting
  <2>2. \A y \in Types : Lane(y) = <<>>
    <3>1. \A s \in Seq(Tasks) : <<>> \o s = s
      BY ConcatSimplifications
    <3>2. <<>> \o <<>> = <<>>
      BY <3>1, EmptyList
    <3> QED BY <1>1, <1>2, <2>1, <3>2 DEF Lane
  <2> QED BY <1>2, <1>3, <2>2, EmptyList DEF LaneInv
<1>14. \A u \in Units : exe[u].state = "EMPTY" /\ exe[u].doorbell = 0
  BY <1>1
<1>15. ClaimInv
  <2>1. \A t \in Tasks : \A u \in Units : ~Holds(u, t) /\ ~Occupies(u, t)
    BY <1>1, <1>3, <1>14 DEF Holds, Occupies
  <2>2. \A t \in Tasks : runs[t] <= 1 /\ ~Ran(t)
    BY <1>1 DEF Ran
  <2> QED BY <1>1, <2>1, <2>2, EmptyList DEF ClaimInv, HeldOnce, RunOnce, ToldOnce
<1>16. DueInv
  BY <1>7, <1>14 DEF DueInv
<1>17. StageInv
  BY <1>3, <1>7, <1>14 DEF StageInv, Staging
<1> QED BY <1>8, <1>9, <1>10, <1>11, <1>12, <1>13, <1>15, <1>16, <1>17 DEF DagInv

(* Every step of the proxy keeps the invariant.                            *)
LEMMA DagStep ==
  ASSUME NoReuse, TypeOK, SlotInv, WatermarkInv, DagInv, [Next]_vars
  PROVE  DagInv'
<1>1. CASE OrchestratorNext
  <2>1. CreationInv /\ GraphInv /\ RunInv
    BY DEF DagInv, GraphInv, RunInv
  <2>2. CreationInv' /\ GraphInv' /\ RunInv'
    BY <1>1, <2>1, OrchestratorKeepsDag
  <2> QED BY <2>2 DEF DagInv, GraphInv, RunInv
<1>2. CASE CutterNext
  BY <1>2, CutterKeepsDag
<1>3. CASE DispatcherNext
  BY <1>3, DispatcherKeepsDag
<1>4. CASE ExecutorNext
  BY <1>4, ExecutorKeepsDag
<1>5. CASE UNCHANGED vars
  <2>1. CreationInv /\ GraphInv /\ RunInv
    BY DEF DagInv, GraphInv, RunInv
  <2>2. /\ UNCHANGED graphHeld /\ UNCHANGED runHeld
        /\ UNCHANGED <<g_task_id, orch, g_basic_buf, g_predecessors, g_commit_task_id, cut>>
    BY <1>5 DEF vars, orchVars, graphVars, ctrlVars, graphHeld, runHeld
  <2>3. TagsHeld /\ RunsGrow
    BY <2>2 DEF TagsHeld, RunsGrow, runHeld, Ran
  <2>4. CreationInv' /\ GraphInv' /\ RunInv'
    BY <2>1, <2>2, <2>3, CreationFrame, GraphFrame, RunFrame
  <2> QED BY <2>4 DEF DagInv, GraphInv, RunInv
<1> QED BY <1>1, <1>2, <1>3, <1>4, <1>5 DEF Next

(* For a graph that fits into the ring, every state of the proxy has the   *)
(* parts of DagInv: entries, edges and counters agree, a ready task is in  *)
(* one line or on one slot, and a gate's record, its claim and its         *)
(* doorbell belong together.                                               *)
THEOREM DagHolds ==
  ASSUME NoReuse
  PROVE  Spec => []DagInv
<1>1. Init => DagInv
  BY DagInit
<1>2. TypeOK /\ SlotInv /\ WatermarkInv /\ DagInv /\ [Next]_vars => DagInv'
  BY DagStep
<1> QED BY <1>1, <1>2, InvariantHolds, CompletionsTold, PTL DEF Spec

----------------------------------------------------------------------------
(* What the invariant says of the properties the runs check.               *)
LEMMA CommittedInRing ==
  ASSUME NoReuse, EntryInv, NEW s \in Tasks
  PROVE  /\ s \in CommittedTasks <=> Committed(s)
         /\ g_successor_buf[s] # <<>> => Committed(s)
         /\ Committed(s) /\ ~Completed(s) => Unresolved(s)
<1>1. Idx(s) = s
  BY IdxSame
<1>2. Committed(s) => g_state_buf[s].task_id = s /\ g_state_buf[s].state # "CREATING"
  BY DEF EntryInv
<1>3. ~Committed(s) => g_successor_buf[s] = <<>>
  BY DEF EntryInv, Untouched
<1> QED BY <1>1, <1>2, <1>3 DEF CommittedTasks, InRing, Committed, Completed, Unresolved

(* A task is due when all its predecessors have run.                       *)
LEMMA DueMeansReady ==
  ASSUME NoReuse, TypeOK, EntryInv, CountInv, ReasonInv, NEW t \in Tasks, Due(t)
  PROVE  \A p \in PredSet[t] : Ran(p)
<1>1. Committed(t) /\ g_predecessor_cnt[t] = 0
  BY DEF Due
<1> DEFINE a == Cardinality(OpenEdges(t))
           b == Occurrences(t, WorkLeft)
           c == EdgesLeft(t)
<1>2. a \in Nat /\ b \in Nat /\ c \in Nat /\ 0 = a + b + c
  BY <1>1, CountTypes DEF CountInv
<1> HIDE DEF a, b, c
<1>3. a = 0 /\ c = 0
  BY <1>2
<1>4. OpenEdges(t) = {}
  <2>1. OpenEdges(t) = Edges(OpenTasks, g_successor_buf, t)
    BY OpenEdgesAre
  <2>2. OpenTasks \in SUBSET Tasks
    BY DEF OpenTasks
  <2>3. \A p \in OpenTasks : g_successor_buf[p] \in Seq(Tasks)
    BY <2>2, IdxSame DEF TypeOK, GraphTypes
  <2>4. IsFiniteSet(OpenEdges(t))
    BY <2>1, <2>2, <2>3, EdgesFacts
  <2> QED BY <1>3, <2>4, FS_EmptySet DEF a
<1>5. Committing(t) => ToAppend = {}
  <2> HAVE Committing(t)
  <2>1. Cardinality(ToAppend) = 0
    BY <1>3 DEF EdgesLeft, c
  <2>2. ToAppend \subseteq DOMAIN cut.surv /\ IsFiniteSet(DOMAIN cut.surv)
    BY CountTypes DEF ToAppend
  <2>3. IsFiniteSet(ToAppend)
    BY <2>2, FS_Subset
  <2> QED BY <2>1, <2>3, FS_EmptySet
<1>6. ASSUME NEW p \in PredSet[t], Owed(p, t)
      PROVE  FALSE
  <2>1. p \in Tasks
    <3>1. Preds[t] \in Seq(Tasks)
      BY GraphAssumption
    <3> QED BY <3>1, ListFacts DEF PredSet
  <2>2. ~Completed(p) /\ t \in ToSet(g_successor_buf[p])
    BY <1>5, <1>6 DEF Owed
  <2>3. g_successor_buf[p] \in Seq(Tasks) /\ Idx(p) = p
    BY <2>1, IdxSame DEF TypeOK, GraphTypes
  <2>4. PICK k \in DOMAIN g_successor_buf[p] : g_successor_buf[p][k] = t
    BY <2>2, <2>3, ListFacts
  <2>5. g_successor_buf[p] # <<>>
    BY <2>2, EmptyList
  <2>6. Unresolved(p)
    BY <2>1, <2>2, <2>5, CommittedInRing
  <2>7. <<p, k>> \in OpenEdges(t)
    BY <2>1, <2>3, <2>4, <2>6 DEF OpenEdges
  <2> QED BY <1>4, <2>7
<1> QED BY <1>1, <1>6 DEF ReasonInv

(* resolve_dep counts down a counter that is not zero: the successor it    *)
(* looks at is one of those the counter counts.                            *)
LEMMA ResolvedWasCounted ==
  ASSUME NoReuse, TypeOK, DagInv, resolve_dep
  PROVE  LET s == Head(cut.work)
         IN g_predecessor_cnt[s] \in Nat /\ g_predecessor_cnt[s] >= 1
<1> DEFINE s == Head(cut.work)
<1>1. cut.pc = "resolve" /\ s \in Tasks /\ Committed(s)
  BY ResolveStep DEF DagInv
<1>2. cut.work \in Seq(Tasks) /\ cut.work # <<>>
  BY WalkedList DEF DagInv
<1> HIDE DEF s
<1>3. g_predecessor_cnt[s] =
        Cardinality(OpenEdges(s)) + Occurrences(s, cut.work) + EdgesLeft(s)
  BY <1>1 DEF DagInv, CountInv, WorkLeft
<1>4. Cardinality(OpenEdges(s)) \in Nat /\ EdgesLeft(s) \in Nat
  BY <1>1, CountTypes DEF DagInv
<1>5. /\ Occurrences(s, cut.work) = Occurrences(s, Tail(cut.work)) + 1
      /\ Occurrences(s, Tail(cut.work)) \in Nat
  <2>1. Tail(cut.work) \in Seq(Tasks)
    BY <1>2, TailOfList
  <2>2. Occurrences(s, cut.work)
          = Occurrences(s, Tail(cut.work)) + (IF Head(cut.work) = s THEN 1 ELSE 0)
    BY <1>2, OccurrencesTail
  <2>3. Occurrences(s, Tail(cut.work)) \in Nat
    BY <2>1, OccurrencesType
  <2> QED BY <2>2, <2>3 DEF s
<1>6. g_predecessor_cnt[s] \in Nat /\ g_predecessor_cnt[s] >= 1
  BY <1>3, <1>4, <1>5
<1> QED BY <1>6 DEF s

(* unfin_pred_cnt is written where the counter is: by the commit and by    *)
(* resolve_dep.  A credit, a mark of Hook 0, a claim, a record, a notice   *)
(* and a completion leave it alone.                                        *)
LEMMA UnfinOfEntry ==
  ASSUME TypeOK, NEW i, NEW m, ed' = [ed EXCEPT ![i] = m],
         i \in Rings => m.unfin = ed[i].unfin
  PROVE  \A t \in Rings : ed'[t].unfin = ed[t].unfin
BY DEF TypeOK, EdTypes

LEMMA CreditLeavesUnfin ==
  ASSUME TypeOK, NEW s, AddFanin(s, ed[Idx(s)])
  PROVE  \A t \in Rings : ed'[t].unfin = ed[t].unfin
<1> DEFINE i == Idx(s)
           stage == EntersStaging(ed[i], i)
           m == [ed[i] EXCEPT !.fanin = @ + 1, !.spec = IF stage THEN "STAGING" ELSE @]
<1>1. ed' = [ed EXCEPT ![i] = m]
  BY DEF AddFanin
<1>2. i \in Rings => m.unfin = ed[i].unfin
  <2> HIDE DEF stage
  <2> QED BY DEF TypeOK, EdTypes, EdMeta
<1> HIDE DEF m, i
<1> QED BY <1>1, <1>2, UnfinOfEntry

LEMMA NotifyLeavesUnfin ==
  ASSUME TypeOK, NEW s, NEW r, ed_notify_once(s, r)
  PROVE  \A t \in Rings : ed'[t].unfin = ed[t].unfin
<1> DEFINE i == Idx(s)
           m == [ed[i] EXCEPT !.claimed = 1]
<1>1. ed' = ed \/ ed' = [ed EXCEPT ![i] = m]
  BY DEF ed_notify_once
<1>2. i \in Rings => m.unfin = ed[i].unfin
  BY DEF TypeOK, EdTypes, EdMeta
<1> HIDE DEF m, i
<1> QED BY <1>1, <1>2, UnfinOfEntry

LEMMA Hook0LeavesUnfin ==
  ASSUME TypeOK, NEW p, Hook0Enter(p)
  PROVE  \A t \in Rings : ed'[t].unfin = ed[t].unfin
<1> DEFINE i == Idx(p)
           m == MarkDispatched(ed[i], p)
<1>1. ed' = ed \/ ed' = [ed EXCEPT ![i] = m]
  BY DEF Hook0Enter
<1>2. i \in Rings => m.unfin = ed[i].unfin
  BY DEF MarkDispatched, TypeOK, EdTypes, EdMeta
<1> HIDE DEF m, i
<1> QED BY <1>1, <1>2, UnfinOfEntry

LEMMA DispatcherLeavesUnfin ==
  ASSUME TypeOK, DispatcherNext
  PROVE  \A t \in Rings : ed'[t].unfin = ed[t].unfin
<1>1. CASE send_task
  <2> DEFINE i == Idx(Head(disp.batch))
  <2>1. PICK n, r : ed' = ed \/ ed' = [ed EXCEPT ![i].next_block = n, ![i].dispatch = r]
    BY <1>1 DEF send_task
  <2> DEFINE m == [ed[i] EXCEPT !.next_block = n, !.dispatch = r]
  <2>2. ed' = ed \/ ed' = [ed EXCEPT ![i] = m]
    <3> HIDE DEF i
    <3> QED BY <2>1 DEF TypeOK, EdTypes
  <2>3. i \in Rings => m.unfin = ed[i].unfin
    <3> HIDE DEF i
    <3> QED BY DEF TypeOK, EdTypes, EdMeta
  <2> HIDE DEF i, m
  <2> QED BY <2>2, <2>3, UnfinOfEntry
<1>2. CASE dispatcher_hook0
  BY <1>2, Hook0LeavesUnfin DEF dispatcher_hook0
<1>3. CASE dispatcher_credit
  BY <1>3, CreditLeavesUnfin DEF dispatcher_credit
<1>4. CASE try_stage
  <2> DEFINE i == Idx(Head(g_ed_ready_queue))
             n == CountOf(i)
             m == [ed[i] EXCEPT !.next_block = n]
  <2>1. ed' = ed \/ ed' = [ed EXCEPT ![i] = m]
    BY <1>4 DEF try_stage
  <2> HIDE DEF i, n
  <2>2. i \in Rings => m.unfin = ed[i].unfin
    BY DEF TypeOK, EdTypes, EdMeta
  <2> HIDE DEF m
  <2> QED BY <2>1, <2>2, UnfinOfEntry
<1>5. CASE stage_record
  <2> DEFINE i == Idx(exe[disp.unit].task)
             r == Record(exe[disp.unit].task, disp.unit)
             m == [ed[i] EXCEPT !.staged = r]
  <2>1. ed' = [ed EXCEPT ![i] = m]
    BY <1>5 DEF stage_record
  <2> HIDE DEF i, r
  <2>2. i \in Rings => m.unfin = ed[i].unfin
    BY DEF TypeOK, EdTypes, EdMeta
  <2> HIDE DEF m
  <2> QED BY <2>1, <2>2, UnfinOfEntry
<1>6. CASE stage_check
  <2>1. \/ ed' = ed
        \/ ed_notify_once(exe[disp.unit].task, Record(exe[disp.unit].task, disp.unit))
    BY <1>6 DEF stage_check
  <2> QED BY <2>1, NotifyLeavesUnfin
<1>7. CASE drain_completed_snapshot \/ dispatch_finish \/ send_task_dequeue \/ begin_ed
           \/ try_nothing \/ try_no_slot \/ stage_mask
  BY <1>7 DEF drain_completed_snapshot, dispatch_finish, send_task_dequeue, begin_ed,
     try_nothing, try_no_slot, stage_mask
<1> QED BY <1>1, <1>2, <1>3, <1>4, <1>5, <1>6, <1>7 DEF DispatcherNext

LEMMA ExecutorLeavesUnfin ==
  ASSUME TypeOK, ExecutorNext
  PROVE  \A t \in Rings : ed'[t].unfin = ed[t].unfin
<1>1. ASSUME NEW u \in Units, complete_slot(u)
      PROVE  \A t \in Rings : ed'[t].unfin = ed[t].unfin
  <2> DEFINE t == exe[u].task
             i == Idx(t)
             m == ClearedRecord(ed[i], t)
  <2>1. ed' = ed \/ ed' = [ed EXCEPT ![i] = m]
    BY <1>1 DEF complete_slot
  <2> HIDE DEF i, t
  <2>2. i \in Rings => m.unfin = ed[i].unfin
    BY DEF ClearedRecord, TypeOK, EdTypes, EdMeta
  <2> HIDE DEF m
  <2> QED BY <2>1, <2>2, UnfinOfEntry
<1>2. CASE executor_hook0
  BY <1>2, Hook0LeavesUnfin DEF executor_hook0
<1>3. CASE executor_credit
  BY <1>3, CreditLeavesUnfin DEF executor_credit
<1>4. CASE \/ \E u \in Units : start(u)
           \/ \E y \in Types : drain_mask(y)
           \/ \E c \in Types \X Cores : poll_core(c)
           \/ signal \/ poll_not_rung \/ poll_open \/ executor_exit
  BY <1>4 DEF start, drain_mask, poll_core, signal, poll_not_rung, poll_open, executor_exit,
     exeFrame
<1> QED BY <1>1, <1>2, <1>3, <1>4 DEF ExecutorNext

(* The two counts of a task's unresolved edges never differ.  An edge from *)
(* a stale entry, which takes one from unfin alone, does not happen where  *)
(* every entry is its task's own; and resolve_dep never counts below zero. *)
LEMMA UnfinStep ==
  ASSUME NoReuse, TypeOK, SlotInv, WatermarkInv, DagInv, UnfinInv, [Next]_vars
  PROVE  UnfinInv'
<1> SUFFICES ASSUME ED_ENABLE, NEW s \in Tasks, Committed(s)'
             PROVE  ed'[s].unfin = g_predecessor_cnt'[s]
  BY DEF UnfinInv
<1>1. s \in Rings /\ Idx(s) = s /\ ed \in [Rings -> EdMeta]
  BY IdxSame DEF TypeOK, EdTypes
<1>2. ASSUME Committed(s), ed'[s].unfin = ed[s].unfin,
             g_predecessor_cnt' = g_predecessor_cnt
      PROVE  ed'[s].unfin = g_predecessor_cnt'[s]
  BY <1>2 DEF UnfinInv
<1>3. ASSUME UNCHANGED <<cut, g_commit_task_id, g_predecessor_cnt>>,
             \A t \in Rings : ed'[t].unfin = ed[t].unfin
      PROVE  ed'[s].unfin = g_predecessor_cnt'[s]
  <2>1. Committed(s)
    BY <1>3 DEF Committed, Committing
  <2> QED BY <1>1, <1>2, <1>3, <2>1
<1>4. CASE OrchestratorNext
  <2>1. UNCHANGED <<cut, g_commit_task_id, g_predecessor_cnt, ed>>
    BY <1>4 DEF OrchestratorNext, new_task, add_predecessors, publish, orchestration_done,
       orchFrame, graphVars
  <2> QED BY <1>3, <2>1
<1>5. CASE DispatcherNext
  BY <1>3, <1>5, DispatcherHolds, DispatcherLeavesUnfin DEF graphHeld
<1>6. CASE ExecutorNext
  BY <1>3, <1>6, ExecutorHolds, ExecutorLeavesUnfin DEF graphHeld
<1>7. CASE UNCHANGED vars
  <2>1. UNCHANGED <<cut, g_commit_task_id, g_predecessor_cnt, ed>>
    BY <1>7 DEF vars, graphVars
  <2> QED BY <1>3, <2>1
<1>8. CASE CutterNext
  <2>1. Committed(s) \/ (commit /\ s = g_commit_task_id)
    BY <1>8, CommittedMoves DEF DagInv
  <2>2. CASE commit
    <3>1. CASE s = g_commit_task_id
      <4> DEFINE surv == Survivors(s)
                 m == FreshMeta(s, surv)
      <4>1. ed' = [ed EXCEPT ![s] = m]
        BY <1>1, <2>2, <3>1 DEF commit
      <4>2. m.unfin = Cardinality(DOMAIN surv)
        <5> HIDE DEF surv
        <5> QED BY DEF FreshMeta, NoEdMeta
      <4>3. g_predecessor_cnt'[s] = Cardinality(DOMAIN surv)
        BY <2>2, <3>1, CommitStep DEF DagInv
      <4> HIDE DEF surv, m
      <4> QED BY <1>1, <4>1, <4>2, <4>3
    <3>2. CASE s # g_commit_task_id
      BY <2>1, <2>2, <3>2, CommitStep DEF DagInv, UnfinInv
    <3> QED BY <3>1, <3>2
  <2>3. CASE resolve_dep
    <3> DEFINE h == Head(cut.work)
               n == Dec(g_predecessor_cnt[h], UINT32_MAX)
    <3>1. /\ h \in Tasks /\ Committed(h) /\ g_predecessor_cnt'[h] = n
          /\ \A t \in Tasks : t # h => /\ g_predecessor_cnt'[t] = g_predecessor_cnt[t]
                                       /\ ed'[t] = ed[t]
      BY <2>3, ResolveStep DEF DagInv
    <3>2. Committed(s)
      BY <2>1, <2>3 DEF resolve_dep, commit
    <3>3. CASE s # h
      BY <3>1, <3>2, <3>3 DEF UnfinInv
    <3>4. CASE s = h
      <4>1. g_predecessor_cnt[s] \in Nat /\ g_predecessor_cnt[s] >= 1
        BY <2>3, <3>2, <3>4, ResolvedWasCounted
      <4>2. ed'[s].unfin = Dec(ed[s].unfin, UINT16_MAX)
        BY <1>1, <2>3, <3>4 DEF resolve_dep, EdMeta
      <4>3. ed[s].unfin = g_predecessor_cnt[s]
        BY <3>2 DEF UnfinInv
      <4> QED BY <3>1, <3>4, <4>1, <4>2, <4>3 DEF Dec
    <3> QED BY <3>3, <3>4
  <2>4. CASE edge
    BY <1>2, <2>1, <2>4, EdgeStep DEF DagInv, edge, commit
  <2>5. CASE late_arrival
    <3>1. AddFanin(g_commit_task_id, ed[Idx(g_commit_task_id)])
      BY <2>5 DEF late_arrival
    <3>2. g_predecessor_cnt' = g_predecessor_cnt /\ Committed(s)
      BY <2>1, <2>5 DEF late_arrival, commit
    <3> QED BY <1>1, <1>2, <3>1, <3>2, CreditLeavesUnfin
  <2>6. CASE hook2
    <3>1. \A t \in Rings : ed'[t].unfin = ed[t].unfin
      BY <2>6, NotifyLeavesUnfin DEF hook2
    <3>2. g_predecessor_cnt' = g_predecessor_cnt /\ Committed(s)
      BY <2>1, <2>6 DEF hook2, graphVars, commit
    <3> QED BY <1>1, <1>2, <3>1, <3>2
  <2>7. CASE take_completed \/ cutter_exit \/ add_successors_enter \/ resolve_dep_load
             \/ send_2_ready_queue
    <3>1. ed' = ed /\ g_predecessor_cnt' = g_predecessor_cnt /\ ~commit
      BY <2>7 DEF take_completed, cutter_exit, add_successors_enter, resolve_dep_load,
         send_2_ready_queue, graphVars, commit
    <3> QED BY <1>2, <2>1, <3>1
  <2> QED BY <1>8, <2>2, <2>3, <2>4, <2>5, <2>6, <2>7 DEF CutterNext
<1> QED BY <1>4, <1>5, <1>6, <1>7, <1>8 DEF Next

LEMMA UnfinHolds ==
  ASSUME NoReuse
  PROVE  Spec => []UnfinInv
<1>1. Init => UnfinInv
  <2>1. Init => g_commit_task_id = 0 /\ cut.pc = "take" /\ Tasks \subseteq Nat
    BY TasksAreNat DEF Init, StateInit
  <2> QED BY <2>1 DEF UnfinInv, Committed, Committing
<1>2. TypeOK /\ SlotInv /\ WatermarkInv /\ DagInv /\ UnfinInv /\ [Next]_vars => UnfinInv'
  BY UnfinStep
<1> QED BY <1>1, <1>2, DagHolds, InvariantHolds, CompletionsTold, PTL DEF Spec

(* resolve_dep counts down exactly: the counter of a committed task is the *)
(* number of its edges not resolved yet, so it never wraps below zero and  *)
(* reaches zero when the last predecessor is resolved, not before.         *)
THEOREM CountersExact ==
  ASSUME NoReuse
  PROVE  Spec => []PredecessorCntExact
<1>1. DagInv /\ UnfinInv => PredecessorCntExact
  <2> SUFFICES ASSUME DagInv, UnfinInv, NEW s \in CommittedTasks
               PROVE  /\ g_predecessor_cnt[Idx(s)] =
                          Cardinality(OpenEdges(s)) + Occurrences(s, WorkLeft) + EdgesLeft(s)
                      /\ ED_ENABLE => ed[Idx(s)].unfin = g_predecessor_cnt[Idx(s)]
    BY DEF PredecessorCntExact
  <2>1. s \in Tasks /\ Idx(s) = s
    BY IdxSame DEF CommittedTasks
  <2>2. Committed(s)
    BY <2>1, CommittedInRing DEF DagInv
  <2> QED BY <2>1, <2>2 DEF DagInv, CountInv, UnfinInv
<1> QED BY <1>1, DagHolds, UnfinHolds, PTL

(* A doorbell rings only at a gated slot, and only when every predecessor  *)
(* of the task behind the gate has run: ed_notify_once opens no gate early.*)
THEOREM NoEarlyDoorbell ==
  ASSUME NoReuse
  PROVE  Spec => []DoorbellMeansReady
<1>1. TypeOK /\ DagInv => DoorbellMeansReady
  <2> SUFFICES ASSUME TypeOK, DagInv, NEW u \in Units, exe[u].doorbell = 1
               PROVE  exe[u].state = "GATED" /\ \A p \in PredSet[exe[u].task] : Ran(p)
    BY DEF DoorbellMeansReady
  <2>1. PICK t \in Tasks : t = exe[u].task
    BY DEF TypeOK, SlotTypes, Slot
  <2>2. exe[u].state = "GATED" /\ Due(t)
    BY <2>1 DEF DagInv, DueInv
  <2> QED BY <2>1, <2>2, DueMeansReady DEF DagInv
<1> QED BY <1>1, DagHolds, TypeCorrect, PTL

(* A staged task whose predecessors are all resolved has been released, or *)
(* the cutter's Hook 2 or the dispatcher's Hook 1 is still to ring for it. *)
THEOREM StagedIsReleased ==
  ASSUME NoReuse
  PROVE  Spec => []ReleasedOrOwed
<1>1. TypeOK /\ DagInv => ReleasedOrOwed
  <2> SUFFICES ASSUME TypeOK, DagInv, NEW u \in Units, exe[u].state = "GATED",
                      ed[Idx(exe[u].task)].spec = "DISPATCHED"
               PROVE  exe[u].doorbell = 1 \/ NotifierOwed(exe[u].task)
    BY DEF ReleasedOrOwed, InState
  <2>1. PICK t \in Tasks : t = exe[u].task
    BY DEF TypeOK, SlotTypes, Slot
  <2>2. Idx(t) = t
    BY IdxSame
  <2> QED BY <2>1, <2>2 DEF DagInv, StageInv, Gated
<1> QED BY <1>1, DagHolds, TypeCorrect, PTL

(* A task holds at most one slot, and none once it has run; it runs once.  *)
(* (The ED claim, or without Early Dispatch the one place in line, is      *)
(* taken before the slot is filled.)                                       *)
THEOREM OneSlotEach ==
  ASSUME NoReuse
  PROVE  Spec => []OneSlotPerTask
<1>1. TypeOK /\ DagInv => OneSlotPerTask
  <2> SUFFICES ASSUME TypeOK, DagInv, NEW t \in Tasks
               PROVE  Cardinality(SlotsOf(t, "GATED") \cup SlotsOf(t, "RUNNABLE")) + runs[t] <= 1
    BY DEF OneSlotPerTask
  <2> DEFINE S == SlotsOf(t, "GATED") \cup SlotsOf(t, "RUNNABLE")
  <2>1. \A u \in S : u \in Units /\ Occupies(u, t) /\ Holds(u, t)
    BY DEF SlotsOf, InState, Occupies, Holds
  <2>2. runs[t] \in Nat /\ runs[t] <= 1
    BY DEF TypeOK, QueueTypes, DagInv, ClaimInv, RunOnce
  <2> HIDE DEF S
  <2>3. CASE S = {}
    <3>1. Cardinality(S) = 0
      BY <2>3, FS_EmptySet
    <3> QED BY <2>2, <3>1 DEF S
  <2>4. ASSUME NEW u \in S
        PROVE  Cardinality(S) + runs[t] <= 1
    <3>1. S = {u}
      BY <2>1 DEF DagInv, ClaimInv, HeldOnce
    <3>2. Cardinality(S) = 1
      BY <3>1, FS_Singleton
    <3>3. runs[t] = 0
      BY <2>1, <2>2 DEF DagInv, ClaimInv, RunOnce, Ran
    <3> QED BY <3>2, <3>3
  <2>5. Cardinality(S) + runs[t] <= 1
    BY <2>3, <2>4 DEF S
  <2> QED BY <2>5 DEF S
<1> QED BY <1>1, DagHolds, TypeCorrect, PTL

(* In a list without duplicates a task occurs once or not at all.          *)
LEMMA OccurrencesOfDistinct ==
  ASSUME NEW q \in Seq(Tasks), Distinct(q), NEW x
  PROVE  Occurrences(x, q) = IF x \in ToSet(q) THEN 1 ELSE 0
<1> DEFINE K == {k \in DOMAIN q : q[k] = x}
<1>1. CASE x \in ToSet(q)
  <2>1. PICK k \in DOMAIN q : q[k] = x
    BY <1>1, ListFacts
  <2>2. K = {k}
    BY <2>1 DEF Distinct
  <2>3. Cardinality(K) = 1
    BY <2>2, FS_Singleton
  <2> QED BY <1>1, <2>3 DEF Occurrences
<1>2. CASE x \notin ToSet(q)
  <2>1. K = {}
    BY <1>2, ListFacts
  <2>2. Cardinality(K) = 0
    BY <2>1, FS_EmptySet
  <2> QED BY <1>2, <2>2 DEF Occurrences
<1> QED BY <1>1, <1>2

(* Of each type, the queue and the cutter's buffer are pieces of one line. *)
LEMMA LanePieces ==
  ASSUME TypeOK, LaneInv, NEW y \in Types, NEW t \in Tasks
  PROVE  /\ Occurrences(t, ready_queue[y]) =
              IF t \in ToSet(ready_queue[y]) THEN 1 ELSE 0
         /\ Occurrences(t, cut.ready[y]) = IF t \in ToSet(cut.ready[y]) THEN 1 ELSE 0
         /\ ~(t \in ToSet(ready_queue[y]) /\ t \in ToSet(cut.ready[y]))
         /\ t \in ToSet(ready_queue[y]) \cup ToSet(cut.ready[y]) => Due(t) /\ TypeOf[t] = y
<1> DEFINE w == IF Type = y THEN Waiting ELSE <<>>
           q == ready_queue[y]
           r == cut.ready[y]
<1>1. q \in Seq(Tasks) /\ r \in Seq(Tasks)
  BY LaneTypes
<1>2. w \in Seq(Tasks)
  <2>1. disp.batch \in Seq(Tasks) /\ (disp.pc = "hook0" => disp.batch # <<>>)
    BY DEF TypeOK, DispTypes, DispRegs
  <2>2. Waiting \in Seq(Tasks)
    BY <2>1, TailOfList DEF Waiting
  <2> QED BY <2>2, EmptyList
<1> HIDE DEF w, q, r
<1>3. Lane(y) = (w \o q) \o r
  BY DEF Lane, w, q, r
<1> DEFINE wq == w \o q
<1>4. /\ wq \in Seq(Tasks) /\ ToSet(wq) = ToSet(w) \cup ToSet(q)
      /\ (Distinct(wq) <=> Distinct(w) /\ Distinct(q) /\ ToSet(w) \cap ToSet(q) = {})
  BY <1>1, <1>2, ConcatLists
<1> HIDE DEF wq
<1>5. /\ ToSet(wq \o r) = ToSet(wq) \cup ToSet(r)
      /\ (Distinct(wq \o r) <=> Distinct(wq) /\ Distinct(r) /\ ToSet(wq) \cap ToSet(r) = {})
  BY <1>1, <1>4, ConcatLists
<1>6. Lane(y) = wq \o r
  BY <1>3 DEF wq
<1>7. Distinct(Lane(y)) /\ \A s \in ToSet(Lane(y)) : Due(s) /\ TypeOf[s] = y
  BY DEF LaneInv
<1>8. Distinct(q) /\ Distinct(r) /\ ToSet(q) \cap ToSet(r) = {}
  BY <1>4, <1>5, <1>6, <1>7
<1>9. ToSet(q) \cup ToSet(r) \subseteq ToSet(Lane(y))
  BY <1>4, <1>5, <1>6
<1>10. /\ Occurrences(t, q) = IF t \in ToSet(q) THEN 1 ELSE 0
       /\ Occurrences(t, r) = IF t \in ToSet(r) THEN 1 ELSE 0
  BY <1>1, <1>8, OccurrencesOfDistinct
<1> QED BY <1>7, <1>8, <1>9, <1>10 DEF q, r

(* A task reaches a ready queue when all it depends on has run, and is     *)
(* there at most once, whichever of commit and resolve_dep put it there.   *)
THEOREM ReadyOnceAndReady ==
  ASSUME NoReuse
  PROVE  Spec => []ReadyIsReady
<1>1. TypeOK /\ DagInv => ReadyIsReady
  <2> SUFFICES ASSUME TypeOK, DagInv, NEW t \in Tasks
               PROVE  /\ ReadyCopies(t) <= 1
                      /\ ReadyCopies(t) = 1 => \A p \in PredSet[t] : Ran(p)
    BY DEF ReadyIsReady
  <2> DEFINE A == t \in ToSet(ready_queue[0])
             B == t \in ToSet(ready_queue[1])
             C == t \in ToSet(cut.ready[0])
             D == t \in ToSet(cut.ready[1])
  <2>1. 0 \in Types /\ 1 \in Types
    BY TypesFacts
  <2>2. /\ Occurrences(t, ready_queue[0]) = IF A THEN 1 ELSE 0
        /\ Occurrences(t, cut.ready[0]) = IF C THEN 1 ELSE 0
        /\ ~(A /\ C) /\ (A \/ C => Due(t) /\ TypeOf[t] = 0)
    BY <2>1, LanePieces DEF DagInv
  <2>3. /\ Occurrences(t, ready_queue[1]) = IF B THEN 1 ELSE 0
        /\ Occurrences(t, cut.ready[1]) = IF D THEN 1 ELSE 0
        /\ ~(B /\ D) /\ (B \/ D => Due(t) /\ TypeOf[t] = 1)
    BY <2>1, LanePieces DEF DagInv
  <2>4. (A \/ C) => ~(B \/ D)
    BY <2>2, <2>3
  <2> HIDE DEF A, B, C, D
  <2>5. ReadyCopies(t) =
          (IF A THEN 1 ELSE 0) + (IF B THEN 1 ELSE 0) + (IF C THEN 1 ELSE 0)
          + (IF D THEN 1 ELSE 0)
    BY <2>2, <2>3 DEF ReadyCopies
  <2>6. ReadyCopies(t) <= 1 /\ (ReadyCopies(t) = 1 => A \/ B \/ C \/ D)
    <3>1. CASE A \/ C
      BY <2>2, <2>4, <2>5, <3>1
    <3>2. CASE ~(A \/ C)
      BY <2>3, <2>5, <3>2
    <3> QED BY <3>1, <3>2
  <2>7. A \/ B \/ C \/ D => \A p \in PredSet[t] : Ran(p)
    BY <2>2, <2>3, DueMeansReady DEF DagInv
  <2> QED BY <2>6, <2>7
<1> QED BY <1>1, DagHolds, TypeCorrect, PTL

----------------------------------------------------------------------------
(* The refinement: submitting is publish, starting is send_task or the     *)
(* opening of a gate, finishing is complete_slot.                          *)
Holding(u, t) == exe[u].state = "RUNNABLE" /\ exe[u].task = t

(* A task is running while some slot holds it RUNNABLE.                    *)
LEMMA RunningIs ==
  /\ \A t \in Tasks : Running(t) <=> \E u \in Units : Holding(u, t)
  /\ \A t \in Tasks : Running(t)' <=> \E u \in Units : Holding(u, t)'
BY DEF Running, SlotsOf, InState, Holding

(* What the invariant says of the status of a task.                        *)
LEMMA StatusFacts ==
  ASSUME NoReuse, TypeOK, WatermarkInv, DagInv, NEW t \in Tasks
  PROVE  /\ Running(t) => ~Ran(t)
         /\ Running(t) \/ Ran(t) => t < g_task_id
         /\ \A u \in Units : Holding(u, t) => Holds(u, t) /\ ~Ran(t)
         /\ \A u, v \in Units : Holding(u, t) /\ Holds(v, t) => u = v
         /\ DagStatus[t] = "absent" <=> ~(t < g_task_id)
         /\ DagStatus[t] = "done" <=> Ran(t)
         /\ DagStatus[t] = "waiting" <=> ~Running(t) /\ ~Ran(t) /\ t < g_task_id
         /\ DagStatus[t] = "running" <=> Running(t)
<1>1. \A u \in Units : Holding(u, t) => Holds(u, t) /\ Occupies(u, t)
  BY DEF Holding, Holds, Occupies
<1>2. \A u \in Units : Holding(u, t) => ~Ran(t) /\ Claimed(t)
  BY <1>1 DEF DagInv, ClaimInv, HeldOnce, RunOnce
<1>3. Ran(t) => Claimed(t)
  BY DEF DagInv, ClaimInv, RunOnce
<1>4. Claimed(t) => t < g_task_id
  BY ToldRan, CommittedIsCreated DEF DagInv
<1>5. Running(t) => ~Ran(t) /\ t < g_task_id
  BY <1>2, <1>4, RunningIs
<1>6. \A u, v \in Units : Holding(u, t) /\ Holds(v, t) => u = v
  BY <1>1 DEF DagInv, ClaimInv, HeldOnce
<1>7. DagStatus[t] = IF Running(t) THEN "running" ELSE IF Ran(t) THEN "done"
                     ELSE IF t < g_task_id THEN "waiting" ELSE "absent"
  BY DEF DagStatus
<1> QED BY <1>1, <1>2, <1>3, <1>4, <1>5, <1>6, <1>7

(* The status changes only with the slots, the runs and the published      *)
(* tasks,                                                                  *)
LEMMA StatusStays ==
  ASSUME UNCHANGED <<runs, g_task_id>>,
         \A t \in Tasks : Running(t)' <=> Running(t)
  PROVE  UNCHANGED DagStatus
BY DEF DagStatus, Ran

(* ... and that of one task when only its slot, runs or publication do.    *)
LEMMA StatusMoves ==
  ASSUME NEW t \in Tasks, NEW s,
         \A x \in Tasks : x # t => /\ (Running(x)' <=> Running(x)) /\ (Ran(x)' <=> Ran(x))
                                   /\ (x < g_task_id' <=> x < g_task_id),
         s = IF Running(t)' THEN "running" ELSE IF Ran(t)' THEN "done"
             ELSE IF t < g_task_id' THEN "waiting" ELSE "absent"
  PROVE  DagStatus' = [DagStatus EXCEPT ![t] = s]
<1>1. DagStatus' = [x \in Tasks |-> IF Running(x)' THEN "running" ELSE IF Ran(x)' THEN "done"
                      ELSE IF x < g_task_id' THEN "waiting" ELSE "absent"]
  BY DEF DagStatus
<1>2. \A x \in Tasks : x # t => DagStatus'[x] = DagStatus[x]
  BY <1>1 DEF DagStatus
<1>3. DagStatus'[t] = s
  BY <1>1
<1>4. DagStatus' = [x \in Tasks |-> DagStatus'[x]]
  BY <1>1
<1>5. DagStatus = [x \in Tasks |-> DagStatus[x]]
  BY DEF DagStatus
<1> QED BY <1>2, <1>3, <1>4, <1>5

(* The same tasks are running while slots keep their state and task.       *)
LEMMA SameSlots ==
  ASSUME \A u \in Units : exe'[u].state = exe[u].state /\ exe'[u].task = exe[u].task
  PROVE  \A t \in Tasks : Running(t)' <=> Running(t)
BY RunningIs DEF Holding

(* Publication is Submit; all else of the orchestrator is a stutter.       *)
LEMMA OrchestratorRefines ==
  ASSUME NoReuse, TypeOK, WatermarkInv, DagInv, OrchestratorNext
  PROVE  [Dag!DagNext]_DagStatus
<1>1. UNCHANGED <<exe, runs>>
  BY DEF OrchestratorNext, new_task, add_predecessors, publish, orchestration_done, orchFrame
<1>2. \A t \in Tasks : (Running(t)' <=> Running(t)) /\ (Ran(t)' <=> Ran(t))
  BY <1>1, SameSlots DEF Ran
<1>3. CASE ~publish
  <2>1. UNCHANGED g_task_id
    BY <1>3 DEF OrchestratorNext, new_task, add_predecessors, orchestration_done, orchVars
  <2> QED BY <1>1, <1>2, <2>1, StatusStays
<1>4. CASE publish
  <2>1. g_task_id' = g_task_id + 1 /\ g_task_id \in Nat /\ g_task_id \in Tasks
    BY <1>4, ConfigAssumption DEF publish, TypeOK, OrchTypes, Tasks
  <2>2. PICK t \in Tasks : t = g_task_id
    BY <2>1
  <2>3. \A x \in Tasks : x \in Nat
    BY TasksAreNat
  <2>4. \A x \in Tasks : x # t => (x < g_task_id' <=> x < g_task_id)
    BY <2>1, <2>2, <2>3
  <2>5. ~(t < g_task_id) /\ t < g_task_id'
    BY <2>1, <2>2
  <2>6. DagStatus[t] = "absent" /\ ~Running(t)' /\ ~Ran(t)'
    BY <1>2, <2>5, StatusFacts
  <2>7. DagStatus' = [DagStatus EXCEPT ![t] = "waiting"]
    BY <1>2, <2>4, <2>5, <2>6, StatusMoves
  <2>8. \A p \in PredSet[t] : DagStatus[p] # "absent"
    <3> TAKE p \in PredSet[t]
    <3>1. Preds[t] \in Seq(Tasks)
      BY GraphAssumption
    <3>2. PICK k \in DOMAIN Preds[t] : Preds[t][k] = p
      BY <3>1, ListFacts DEF PredSet
    <3>3. p \in Tasks /\ p < t
      BY <3>1, <3>2, ListFacts DEF NoReuse
    <3> QED BY <2>2, <3>3, StatusFacts
  <2>9. Dag!Submit(t)
    BY <2>6, <2>7, <2>8 DEF Dag!Submit
  <2> QED BY <2>9 DEF Dag!DagNext
<1> QED BY <1>3, <1>4

(* The cutter starts and finishes nothing.                                 *)
LEMMA CutterRefines ==
  ASSUME TypeOK, CutterNext
  PROVE  [Dag!DagNext]_DagStatus
<1>1. /\ UNCHANGED runs
      /\ \A u \in Units : exe'[u].state = exe[u].state /\ exe'[u].task = exe[u].task
  BY CutterHoldsSlots DEF CutterHolds
<1>2. UNCHANGED g_task_id
  BY DEF CutterNext, take_completed, cutter_exit, add_successors_enter, commit, edge,
     late_arrival, resolve_dep_load, resolve_dep, hook2, send_2_ready_queue, cutFrame,
     orchVars
<1> QED BY <1>1, <1>2, SameSlots, StatusStays

(* A task that starts: before, it was on no slot but perhaps its gated one.*)
LEMMA StartRefines ==
  ASSUME NoReuse, TypeOK, WatermarkInv, DagInv, NEW t \in Tasks, NEW u \in Units,
         Due(t), ~Ran(t), UNCHANGED <<runs, g_task_id>>,
         exe[u].state # "RUNNABLE", \A v \in Units : Holds(v, t) => v = u,
         exe'[u].state = "RUNNABLE", exe'[u].task = t,
         \A v \in Units \ {u} : exe'[v] = exe[v]
  PROVE  Dag!DagNext
<1>1. ~Running(t)
  <2> SUFFICES ASSUME NEW v \in Units, Holding(v, t) PROVE FALSE
    BY RunningIs
  <2>1. Holds(v, t)
    BY StatusFacts
  <2> QED BY <2>1 DEF Holding
<1>2. Running(t)'
  BY RunningIs DEF Holding
<1>3. \A x \in Tasks : x # t => (Running(x)' <=> Running(x))
  <2> TAKE x \in Tasks
  <2> HAVE x # t
  <2>1. \A v \in Units : Holding(v, x)' <=> Holding(v, x)
    BY DEF Holding
  <2> QED BY <2>1, RunningIs
<1>4. \A x \in Tasks : Ran(x)' <=> Ran(x)
  BY DEF Ran
<1>5. DagStatus' = [DagStatus EXCEPT ![t] = "running"]
  BY <1>2, <1>3, <1>4, StatusMoves
<1>6. t < g_task_id
  BY CommittedIsCreated DEF Due, DagInv
<1>7. DagStatus[t] = "waiting"
  BY <1>1, <1>6, StatusFacts
<1>8. \A p \in PredSet[t] : DagStatus[p] = "done"
  <2> TAKE p \in PredSet[t]
  <2>1. Ran(p)
    BY DueMeansReady DEF DagInv
  <2>2. p \in Tasks
    <3>1. Preds[t] \in Seq(Tasks)
      BY GraphAssumption
    <3> QED BY <3>1, ListFacts DEF PredSet
  <2> QED BY <2>1, <2>2, StatusFacts
<1>9. Dag!Start(t)
  BY <1>5, <1>7, <1>8 DEF Dag!Start
<1> QED BY <1>9 DEF Dag!DagNext

(* send_task is Start.                                                     *)
LEMMA DispatcherRefines ==
  ASSUME NoReuse, TypeOK, SlotInv, WatermarkInv, DagInv, DispatcherNext
  PROVE  [Dag!DagNext]_DagStatus
<1>1. UNCHANGED <<runs, g_task_id>>
  BY DispatcherHolds
<1>2. RunInv
  BY DEF DagInv, RunInv
<1>3. CASE DispatcherWalks \/ drain_completed_snapshot \/ stage_record
  <2>1. UNCHANGED exe
    <3>1. CASE DispatcherWalks
      BY <3>1, WalkMeta
    <3>2. CASE drain_completed_snapshot \/ stage_record
      BY <3>2 DEF drain_completed_snapshot, stage_record
    <3> QED BY <1>3, <3>1, <3>2
  <2> QED BY <1>1, <2>1, SameSlots, StatusStays
<1>4. CASE stage_check
  <2>1. PICK t \in Tasks : t = exe[disp.unit].task
    BY <1>4 DEF stage_check, TypeOK, DispTypes, SlotTypes, Slot
  <2>2. \/ /\ exe'[disp.unit].state = exe[disp.unit].state /\ exe'[disp.unit].task = t
           /\ \A v \in Units : v # disp.unit => exe'[v] = exe[v]
        \/ exe' = exe
    BY <1>4, <2>1, CheckStep DEF DagInv
  <2>3. \A u \in Units : exe'[u].state = exe[u].state /\ exe'[u].task = exe[u].task
    BY <2>1, <2>2
  <2> QED BY <1>1, <2>3, SameSlots, StatusStays
<1>5. CASE try_stage /\ ~DropsTask
  <2>1. \E u \in Units : /\ exe[u].state = "EMPTY" /\ exe'[u].state = "GATED"
                         /\ \A v \in Units \ {u} : exe'[v] = exe[v]
    BY <1>5, TryStageStep DEF DropsTask
  <2>2. PICK u \in Units : /\ exe[u].state = "EMPTY" /\ exe'[u].state = "GATED"
                           /\ \A v \in Units \ {u} : exe'[v] = exe[v]
    BY <2>1
  <2>3. \A t \in Tasks : \A v \in Units : Holding(v, t)' <=> Holding(v, t)
    BY <2>2 DEF Holding
  <2>4. \A t \in Tasks : Running(t)' <=> Running(t)
    BY <2>3, RunningIs
  <2> QED BY <1>1, <2>4, StatusStays
<1>6. CASE send_task /\ ~SkipsTask
  <2>1. /\ disp.pc = "send" /\ Head(disp.batch) \in Tasks
        /\ Due(Head(disp.batch)) /\ InLane(Head(disp.batch))
    BY <1>6, HeadLeaves DEF DagInv, send_task
  <2>2. PICK t \in Tasks : t = Head(disp.batch)
    BY <2>1
  <2>3. PICK u \in Units :
          /\ exe[u].state = "EMPTY" /\ exe'[u].state = "RUNNABLE" /\ exe'[u].task = t
          /\ \A v \in Units \ {u} : exe'[v] = exe[v]
    BY <1>6, <2>2, SendTaskStep DEF SkipsTask
  <2>4. ED_ENABLE => ed[t].next_block = 0
    BY <1>6, <2>1, <2>2, SendTaskMeta
  <2>5. ~Claimed(t)
    BY <2>1, <2>2, <2>4 DEF Claimed
  <2>6. ~Ran(t) /\ \A v \in Units : ~Holds(v, t)
    BY <2>5 DEF DagInv, ClaimInv, HeldOnce, RunOnce
  <2> QED BY <1>1, <2>1, <2>2, <2>3, <2>6, StartRefines
<1> QED BY <1>3, <1>4, <1>5, <1>6 DEF DispatcherNext, DispatcherWalks

(* poll_open is Start, and complete_slot is Finish.                        *)
LEMMA ExecutorRefines ==
  ASSUME NoReuse, TypeOK, SlotInv, WatermarkInv, DagInv, ExecutorNext
  PROVE  [Dag!DagNext]_DagStatus
<1>1. UNCHANGED g_task_id
  BY ExecutorHolds
<1>2. CASE ExecutorWalks
  <2>1. UNCHANGED <<exe, runs>>
    BY <1>2, ExecutorWalkMeta
  <2> QED BY <1>1, <2>1, SameSlots, StatusStays
<1>3. CASE poll_open
  <2>1. PICK u \in Units :
          /\ exe[u].state = "GATED" /\ exe[u].doorbell = 1
          /\ exe'[u].state = "RUNNABLE" /\ exe'[u].task = exe[u].task
          /\ \A v \in Units \ {u} : exe'[v] = exe[v]
    BY <1>3, PollOpenStep
  <2>2. PICK t \in Tasks : t = exe[u].task
    BY DEF TypeOK, SlotTypes, Slot
  <2>3. Due(t) /\ Occupies(u, t) /\ Holds(u, t)
    BY <2>1, <2>2 DEF DagInv, DueInv, Occupies, Holds
  <2>4. ~Ran(t) /\ \A v \in Units : Holds(v, t) => v = u
    BY <2>3 DEF DagInv, ClaimInv, HeldOnce, RunOnce
  <2>5. UNCHANGED runs
    BY <1>3 DEF poll_open
  <2> QED BY <1>1, <2>1, <2>2, <2>3, <2>4, <2>5, StartRefines
<1>4. ASSUME NEW u \in Units, complete_slot(u)
      PROVE  [Dag!DagNext]_DagStatus
  <2>1. PICK t \in Tasks : t = exe[u].task
    BY <1>4, CompleteSlotStep
  <2>2. \/ UNCHANGED <<exe, runs>>
        \/ /\ exe[u].state = "RUNNABLE" /\ exe'[u].state = "EMPTY"
           /\ \A v \in Units \ {u} : exe'[v] = exe[v]
           /\ runs' = [runs EXCEPT ![t] = @ + 1]
    BY <1>4, <2>1, CompleteSlotStep
  <2>3. CASE UNCHANGED <<exe, runs>>
    BY <1>1, <2>3, SameSlots, StatusStays
  <2>4. CASE /\ exe[u].state = "RUNNABLE" /\ exe'[u].state = "EMPTY"
             /\ \A v \in Units \ {u} : exe'[v] = exe[v]
             /\ runs' = [runs EXCEPT ![t] = @ + 1]
    <3>1. Holding(u, t) /\ Running(t)
      BY <2>1, <2>4, RunningIs DEF Holding
    <3>2. ~Running(t)'
      <4> SUFFICES ASSUME NEW v \in Units, Holding(v, t)' PROVE FALSE
        BY RunningIs
      <4>1. v # u /\ Holding(v, t)
        BY <2>4 DEF Holding
      <4> QED BY <3>1, <4>1, StatusFacts
    <3>3. \A x \in Tasks : x # t => (Running(x)' <=> Running(x))
      <4> TAKE x \in Tasks
      <4> HAVE x # t
      <4>1. \A v \in Units : Holding(v, x)' <=> Holding(v, x)
        BY <2>1, <2>4 DEF Holding
      <4> QED BY <4>1, RunningIs
    <3>4. Ran(t)' /\ \A x \in Tasks : x # t => (Ran(x)' <=> Ran(x))
      <4>1. runs \in [Tasks -> Nat]
        BY DEF TypeOK, QueueTypes
      <4>2. runs'[t] = runs[t] + 1 /\ runs[t] \in Nat /\ \A x \in Tasks : x # t => runs'[x] = runs[x]
        BY <2>4, <4>1
      <4> QED BY <4>2 DEF Ran
    <3>5. DagStatus' = [DagStatus EXCEPT ![t] = "done"]
      BY <1>1, <3>2, <3>3, <3>4, StatusMoves
    <3>6. DagStatus[t] = "running"
      BY <3>1, StatusFacts
    <3>7. Dag!Finish(t)
      BY <3>5, <3>6 DEF Dag!Finish
    <3> QED BY <3>7 DEF Dag!DagNext
  <2> QED BY <2>2, <2>3, <2>4
<1> QED BY <1>2, <1>3, <1>4 DEF ExecutorNext, ExecutorWalks

(* Every step of the proxy is a step of DagExec or none.                   *)
LEMMA StepRefines ==
  ASSUME NoReuse, TypeOK, SlotInv, WatermarkInv, DagInv, [Next]_vars
  PROVE  [Dag!DagNext]_DagStatus
<1>1. CASE OrchestratorNext
  BY <1>1, OrchestratorRefines
<1>2. CASE CutterNext
  BY <1>2, CutterRefines
<1>3. CASE DispatcherNext
  BY <1>3, DispatcherRefines
<1>4. CASE ExecutorNext
  BY <1>4, ExecutorRefines
<1>5. CASE UNCHANGED vars
  <2>1. UNCHANGED <<exe, runs, g_task_id>>
    BY <1>5 DEF vars, orchVars
  <2> QED BY <2>1, SameSlots, StatusStays
<1> QED BY <1>1, <1>2, <1>3, <1>4, <1>5 DEF Next

(* The proxy implements DagExec: every graph that fits into the ring is    *)
(* submitted in order, each task starts only when all its predecessors     *)
(* have finished, by whichever of the two ways, and runs exactly once.     *)
THEOREM ProxyRefinesDag ==
  ASSUME NoReuse
  PROVE  Spec => ImplementsDag
<1>1. Init => Dag!DagInit
  <2> SUFFICES ASSUME Init PROVE DagStatus = [t \in Tasks |-> "absent"]
    BY DEF Dag!DagInit
  <2>1. /\ exe = [u \in Units |-> [state |-> "EMPTY", task |-> 0, doorbell |-> 0]]
        /\ runs = [t \in Tasks |-> 0] /\ g_task_id = 0
    BY DEF Init, StateInit
  <2>2. \A u \in Units : exe[u].state = "EMPTY"
    BY <2>1
  <2>3. \A t \in Tasks : ~Running(t) /\ ~Ran(t) /\ ~(t < g_task_id)
    BY <2>1, <2>2, RunningIs, TasksAreNat DEF Holding, Ran
  <2> QED BY <2>3 DEF DagStatus
<1>2. TypeOK /\ SlotInv /\ WatermarkInv /\ DagInv /\ [Next]_vars => [Dag!DagNext]_DagStatus
  BY StepRefines
<1> QED BY <1>1, <1>2, InvariantHolds, CompletionsTold, DagHolds, PTL
    DEF Spec, ImplementsDag, Dag!DagSpec
=============================================================================
