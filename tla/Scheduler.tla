----------------------------- MODULE Scheduler -----------------------------
(***************************************************************************)
(* The scheduler proxy (src/scheduler): painters that each resolve the     *)
(* tasks of a subgraph of their own, and dispatchers that each drive their *)
(* own cores and share the ready queues of dispatcher 0.  A dispatcher     *)
(* tells its painter of completions through a single-reader queue and the  *)
(* others through a ring with a cursor per painter.                        *)
(*                                                                         *)
(* The cores are outside the repository.  A core runs the task written to  *)
(* its register and then raises a message bit; before the first round any  *)
(* cores may have raised theirs in answer to the handshake, and only such  *)
(* an answer ever sets the painters going.                                 *)
(***************************************************************************)
EXTENDS Integers, Sequences, FiniteSets, SequencesExt, FiniteSetsExt

CONSTANTS
    PAINTER_THREAD_CNT, DISPATCH_THREAD_CNT,
    AIC_CNT_PER_THREAD,
    test_graph,       \* painter -> sequence of [id, type, predecessors]
    CQ_BATCH_SIZE, PRE_BATCH_SIZE, QUEUE_DEPTH,
    CntWidth,         \* bound: values of a uint32_t counter
    Replies           \* bound: which units may have answered each dispatcher's handshake

ASSUME SchedulerAssumption ==
    {PAINTER_THREAD_CNT, DISPATCH_THREAD_CNT, AIC_CNT_PER_THREAD, CQ_BATCH_SIZE, QUEUE_DEPTH,
     CntWidth} \subseteq Nat \ {0} /\ PRE_BATCH_SIZE \in Nat

Painters    == 0 .. PAINTER_THREAD_CNT - 1
Dispatchers == 0 .. DISPATCH_THREAD_CNT - 1
CUBE   == 0
VECTOR == 1        \* TASK_TYPE_MIX has the same value
Types  == {CUBE, VECTOR}
Cores  == 0 .. AIC_CNT_PER_THREAD - 1
Units  == Types \X Cores \X {0, 1}     \* type, core, slot

Records == UNION { Range(test_graph[p]) : p \in Painters }
Tasks   == { r.id : r \in Records }
TypeOf  == [t \in Tasks |-> (CHOOSE r \in Records : r.id = t).type]
PredsOf == [t \in Tasks |-> Range((CHOOSE r \in Records : r.id = t).predecessors)]
\* The arrays are indexed by task ids, of which 0 is one; a task is in one subgraph, and no
\* list names a predecessor twice.
ASSUME GraphAssumption ==
    /\ DOMAIN test_graph = Painters
    /\ \A p \in Painters : test_graph[p] \in Seq([id : Nat, type : Types, predecessors : Seq(Nat)])
    /\ \A p, q \in Painters : \A j \in DOMAIN test_graph[p], k \in DOMAIN test_graph[q] :
         test_graph[p][j].id = test_graph[q][k].id => p = q /\ j = k
    /\ \A r \in Records : Range(r.predecessors) \subseteq Tasks /\ IsInjective(r.predecessors)
    /\ 0 \in Tasks
    /\ Replies \subseteq [Dispatchers -> SUBSET Units]
total_task_cnt == Cardinality(Tasks)

VARIABLES
    disp,         \* per dispatcher: pc, free_bitmap and task_id_map
    ready_queue,  \* per dispatcher and type
    cq,           \* per dispatcher: the completions written, and the write positions
    paint,        \* per painter: pc, the dispatcher in turn, its own tables, its batches
    g_predecessor_cnt,
    completed_task_cnt, g_is_done,
    cores,        \* external, per dispatcher: the task each unit runs, the message bits
    ran,          \* history: the tasks a core has finished
    launched      \* history: how often each task was written to a core

vars == <<disp, ready_queue, cq, paint, g_predecessor_cnt, completed_task_cnt, g_is_done,
          cores, ran, launched>>

NoTask == -1

Init ==
    /\ disp = [d \in Dispatchers |->
         [pc |-> "msgq", free |-> Units, map |-> [u \in Units |-> 0]]]
    /\ ready_queue = [d \in Dispatchers |-> [y \in Types |-> <<>>]]
    /\ cq = [d \in Dispatchers |-> [log |-> <<>>, spsc |-> 0, remote |-> 0]]
    /\ paint = [p \in Painters |->
         [ pc |-> "deal", turn |-> 0, read |-> [d \in Dispatchers |-> 0], commit |-> 0,
           done |-> {}, successors |-> [t \in Tasks |-> <<>>],
           ready |-> [y \in Types |-> <<>>] ]]
    /\ g_predecessor_cnt = [t \in Tasks |-> 0]
    /\ completed_task_cnt = 0 /\ g_is_done = FALSE
    /\ \E replies \in Replies :
         cores = [d \in Dispatchers |-> [runs |-> [u \in Units |-> NoTask], msg |-> replies[d]]]
    /\ ran = {}
    /\ launched = [t \in Tasks |-> 0]

----------------------------------------------------------------------------
(* The painters.  A painter works on s: its own tables and the counters of   *)
(* its tasks, which no other thread touches.                                  *)

Tables(p) == [ cnt |-> g_predecessor_cnt, commit |-> paint[p].commit, done |-> paint[p].done,
               successors |-> paint[p].successors, ready |-> paint[p].ready ]

\* Op applied for one element of list q after the other.
Iterate(Op(_, _), s, q) ==
    LET after[k \in 0 .. Len(q)] == IF k = 0 THEN s ELSE Op(after[k - 1], q[k])
    IN after[Len(q)]

\* The tasks of the commit window: PRE_BATCH_SIZE + 1 of them, as the end is inclusive.
Window(p, commit) ==
    SubSeq(test_graph[p], commit + 1, Min({commit + PRE_BATCH_SIZE + 1, Len(test_graph[p])}))

SurvivesAlways(s, t) == TRUE
Survives(s, t) == t \notin s.done

PushReady(s, t) == [s EXCEPT !.ready[TypeOf[t]] = Append(@, t)]

\* One task of add_successors: its uncompleted predecessors get it as a successor.
CommitOne(s, r) ==
    LET waits == { q \in Range(r.predecessors) : Survives(s, q) }
        held == [s EXCEPT !.cnt[r.id] = Cardinality(waits), !.commit = @ + 1,
                          !.successors = [q \in Tasks |->
                             IF q \in waits THEN Append(@[q], r.id) ELSE @[q]]]
    IN IF waits = {} THEN PushReady(held, r.id) ELSE held

add_successors(p, s) == Iterate(CommitOne, s, Window(p, s.commit))

CountdownEarly(s, t) ==
    LET counted == [s EXCEPT !.cnt[t] = @ - 1]
    IN IF s.cnt[t] < 3 THEN PushReady(counted, t) ELSE counted
\* One edge of resolve_dep, on an unsigned counter.
Countdown(s, t) ==
    LET left == (s.cnt[t] - 1) % CntWidth
        counted == [s EXCEPT !.cnt[t] = left]
    IN IF left < 1 THEN PushReady(counted, t) ELSE counted

CountSuccessors(s, t) == Iterate(Countdown, s, s.successors[t])
resolve_dep(s, batch) == Iterate(CountSuccessors, s, batch)

update_task_state(s, batch) == [s EXCEPT !.done = @ \cup Range(batch)]

\* What painter p may read of dispatcher d's completions now.
Visible(p, d) == IF p = d THEN cq[d].spsc ELSE cq[d].remote
Batch(p, d) ==
    SubSeq(cq[d].log, paint[p].read[d] + 1, Min({Visible(p, d), paint[p].read[d] + CQ_BATCH_SIZE}))

\* The thread reads g_is_done at the end of a round, here with the round's last step: a
\* flag set just after makes it go round once more.
Again(pc) == IF g_is_done' THEN "left" ELSE pc
NextTurn(s) == IF s.turn + 1 < DISPATCH_THREAD_CNT THEN [s EXCEPT !.turn = @ + 1, !.pc = "deal"]
                                                   ELSE [s EXCEPT !.turn = 0, !.pc = Again("deal")]
ToSend(s) == IF s.ready[CUBE] # <<>> THEN [s EXCEPT !.pc = "cube"]
             ELSE IF s.ready[VECTOR] # <<>> THEN [s EXCEPT !.pc = "vector"]
             ELSE NextTurn(s)

deal_completed_queue(p) ==
    LET d == paint[p].turn
        batch == Batch(p, d)
        s == resolve_dep(add_successors(p, update_task_state(Tables(p), batch)), batch)
        heard == [paint[p] EXCEPT !.read[d] = @ + Len(batch), !.commit = s.commit,
                     !.done = s.done, !.successors = s.successors, !.ready = s.ready]
        counted == completed_task_cnt + (IF p = 0 THEN Len(batch) ELSE 0)
    IN /\ paint[p].pc = "deal" /\ batch # <<>>
       /\ g_predecessor_cnt' = s.cnt
       /\ completed_task_cnt' = counted
       /\ g_is_done' = (g_is_done \/ counted >= total_task_cnt)
       /\ paint' = [paint EXCEPT ![p] = ToSend(heard)]
       /\ UNCHANGED <<disp, ready_queue, cq, cores, ran, launched>>

deal_nothing(p) ==
    /\ paint[p].pc = "deal" /\ Batch(p, paint[p].turn) = <<>>
    /\ UNCHANGED <<disp, ready_queue, cq, g_predecessor_cnt, completed_task_cnt, g_is_done,
                   cores, ran, launched>>
    /\ paint' = [paint EXCEPT ![p] = NextTurn(@)]

\* Always dispatcher 0's queue; a batch that does not fit is lost.
HasRoom(q, batch) == QUEUE_DEPTH - Len(q) >= Len(batch)
send_2_ready_queue(p) ==
    LET y == IF paint[p].pc = "cube" THEN CUBE ELSE VECTOR
        sent == [paint[p] EXCEPT !.ready[y] = <<>>]
    IN /\ paint[p].pc \in {"cube", "vector"}
       /\ ready_queue' = [ready_queue EXCEPT ![0][y] =
             IF HasRoom(@, paint[p].ready[y]) THEN @ \o paint[p].ready[y] ELSE @]
       /\ UNCHANGED <<disp, cq, g_predecessor_cnt, completed_task_cnt, g_is_done,
                      cores, ran, launched>>
       /\ paint' = [paint EXCEPT ![p] = ToSend(sent)]

----------------------------------------------------------------------------
(* The dispatchers.                                                          *)

\* MIX shares VECTOR's bits, so a vector slot beside a busy cube slot is dropped.
set_mix(free) == { u \in free : u[1] = CUBE \/ <<CUBE, u[2], u[3]>> \in free }

\* The elements of S in ascending order.
InOrder(S, before(_, _)) ==
    { q \in [1 .. Cardinality(S) -> S] :
        Range(q) = S /\ \A j, k \in DOMAIN q : j < k => before(q[j], q[k]) }

\* The order push_2_completed_queue takes the message bits in.
Before(u, v) ==
    u[1] * 2 * AIC_CNT_PER_THREAD + u[3] * AIC_CNT_PER_THREAD + u[2]
      < v[1] * 2 * AIC_CNT_PER_THREAD + v[3] * AIC_CNT_PER_THREAD + v[2]

\* Reading the message register and writing the value back clears it.
AcknowledgedNever(d) == cores[d].msg
Acknowledged(d) == {}

FreedAlways(d) == Units
Freed(d) == disp[d].free \cup cores[d].msg

\* read_msgq takes the message bits and frees their units; push_2_completed_queue turns
\* them into tasks, for the dispatcher's own painter first.
read_msgq(d) ==
  \E units \in InOrder(cores[d].msg, Before) :
    LET tasks == [k \in DOMAIN units |-> disp[d].map[units[k]]]
    IN /\ disp[d].pc = "msgq"
       /\ disp' = [disp EXCEPT ![d].free = set_mix(Freed(d)), 
                               ![d].pc = IF units = <<>> THEN "mix" ELSE "remote"]
       /\ cores' = [cores EXCEPT ![d].msg = Acknowledged(d)]
       /\ cq' = [cq EXCEPT ![d].log = @ \o tasks, ![d].spsc = @ + Len(tasks)]
       /\ UNCHANGED <<ready_queue, paint, g_predecessor_cnt, completed_task_cnt, g_is_done,
                      ran, launched>>

remote_cq_write_batch(d) ==
    /\ disp[d].pc = "remote"
    /\ cq' = [cq EXCEPT ![d].remote = Len(cq[d].log)]
    /\ disp' = [disp EXCEPT ![d].pc = "mix"]
    /\ UNCHANGED <<ready_queue, paint, g_predecessor_cnt, completed_task_cnt, g_is_done,
                   cores, ran, launched>>

\* dispatch serves MIX, VECTOR and CUBE; the first two are one type, so that a first
\* pass that finds nothing may as well be the second.
TypeServed(d) == IF disp[d].pc = "cube" THEN CUBE ELSE VECTOR
AfterSend(d, sent) == CASE disp[d].pc = "mix" /\ sent -> "vector"
                        [] disp[d].pc = "cube"        -> Again("msgq")
                        [] OTHER                      -> "cube"

Lower(c, e) == c < e

\* A core takes a task only when both its slots are free.
FreeCores(d) == { c \in Cores : {<<TypeServed(d), c, 0>>, <<TypeServed(d), c, 1>>} \subseteq disp[d].free }

\* The queues with something to send: the own one, else another dispatcher's.
Victims(d) ==
    LET full == { v \in Dispatchers : ready_queue[v][TypeServed(d)] # <<>> }
    IN IF d \in full THEN {d} ELSE { v \in full : \A w \in full : v <= w }

send_task(d) ==
    \E v \in Victims(d), free \in InOrder(FreeCores(d), Lower) :
      LET y == TypeServed(d)
          got == Min({Len(free), Len(ready_queue[v][y])})
          tasks == SubSeq(ready_queue[v][y], 1, got)
          given == [k \in 1 .. got |->
                      <<y, free[k], IF <<y, free[k], 0>> \in disp[d].free THEN 0 ELSE 1>>]
          Given(u) == CHOOSE k \in 1 .. got : given[k] = u
          Filled(f) == [u \in Units |-> IF u \in Range(given) THEN tasks[Given(u)] ELSE f[u]]
      IN /\ disp[d].pc \in {"mix", "vector", "cube"}
         /\ got > 0
         /\ UNCHANGED <<cq, paint, g_predecessor_cnt, completed_task_cnt, g_is_done, ran>>
         /\ ready_queue' = [ready_queue EXCEPT ![v][y] = SubSeq(@, got + 1, Len(@))]
         /\ disp' = [disp EXCEPT ![d].free = @ \ Range(given), ![d].map = Filled(@),
                                 ![d].pc = AfterSend(d, TRUE)]
         /\ cores' = [cores EXCEPT ![d].runs = Filled(@)]
         /\ launched' = [t \in Tasks |-> launched[t] + Cardinality({ k \in 1 .. got : tasks[k] = t })]

send_nothing(d) ==
    /\ disp[d].pc \in {"mix", "vector", "cube"}
    /\ FreeCores(d) = {} \/ Victims(d) = {}
    /\ UNCHANGED <<ready_queue, cq, paint, g_predecessor_cnt, completed_task_cnt, g_is_done,
                   cores, ran, launched>>
    /\ disp' = [disp EXCEPT ![d].pc = AfterSend(d, FALSE)]

\* External: a core finishes its task and raises its message bit.
core_finishes(d) ==
    \E u \in Units :
      /\ cores[d].runs[u] # NoTask
      /\ cores' = [cores EXCEPT ![d].runs[u] = NoTask, ![d].msg = @ \cup {u}]
      /\ ran' = ran \cup {cores[d].runs[u]}
      /\ UNCHANGED <<disp, ready_queue, cq, paint, g_predecessor_cnt, completed_task_cnt,
                     g_is_done, launched>>

Painter(p) == deal_completed_queue(p) \/ deal_nothing(p) \/ send_2_ready_queue(p)
Dispatcher(d) == read_msgq(d) \/ remote_cq_write_batch(d) \/ send_task(d) \/ send_nothing(d)

Joined == (\A p \in Painters : paint[p].pc = "left") /\ (\A d \in Dispatchers : disp[d].pc = "left")
Returned == Joined /\ UNCHANGED vars

Next ==
    \/ \E p \in Painters : Painter(p)
    \/ \E d \in Dispatchers : Dispatcher(d) \/ core_finishes(d)
    \/ Returned

Spec == Init /\ [][Next]_vars
----------------------------------------------------------------------------
\* No cursor passes what was written, no thread names a task, unit or turn that is not there.
TypeOK ==
    /\ disp \in [Dispatchers -> [ pc : {"msgq", "remote", "mix", "vector", "cube", "left"},
                                  free : SUBSET Units, map : [Units -> Tasks] ]]
    /\ ready_queue \in [Dispatchers -> [Types -> Seq(Tasks)]]
    /\ cq \in [Dispatchers -> [log : Seq(Tasks), spsc : Nat, remote : Nat]]
    /\ \A d \in Dispatchers : cq[d].remote <= Len(cq[d].log) /\ cq[d].spsc = Len(cq[d].log)
    /\ paint \in [Painters -> [ pc : {"deal", "cube", "vector", "left"}, turn : Dispatchers,
                                read : [Dispatchers -> Nat], commit : Nat, done : SUBSET Tasks,
                                successors : [Tasks -> Seq(Tasks)], ready : [Types -> Seq(Tasks)] ]]
    /\ \A p \in Painters : paint[p].commit <= Len(test_graph[p])
                            /\ \A d \in Dispatchers : paint[p].read[d] <= Visible(p, d)
    /\ g_predecessor_cnt \in [Tasks -> Nat]
    /\ completed_task_cnt \in Nat /\ g_is_done \in BOOLEAN
    /\ cores \in [Dispatchers -> [runs : [Units -> Tasks \cup {NoTask}], msg : SUBSET Units]]
    /\ ran \subseteq Tasks /\ launched \in [Tasks -> Nat]

\* A unit runs a task only while its dispatcher holds it busy and remembers that task,
\* and the message of a busy unit is the completion of the task remembered: no core is
\* given a second task, and no completion is credited to another.
CoresHandedOver ==
    \A d \in Dispatchers, u \in Units :
      /\ cores[d].runs[u] # NoTask =>
           u \notin disp[d].free \cup cores[d].msg /\ disp[d].map[u] = cores[d].runs[u]
      /\ u \in cores[d].msg => disp[d].map[u] \in ran \cup {0}

\* Where a task is once it has been released: in a painter's ready batch, in a ready
\* queue, or with a core.
At(lists, t) == UNION { {i} \X { k \in DOMAIN lists[i] : lists[i][k] = t } : i \in DOMAIN lists }
Places(t) ==
    launched[t]
      + Cardinality(At([p \in Painters |-> paint[p].ready[TypeOf[t]]], t))
      + Cardinality(At([d \in Dispatchers |-> ready_queue[d][TypeOf[t]]], t))

\* No task is released or run twice, whatever order two painters learn of completions
\* in, which dispatcher steals it, and however often a completion of task 0 is told.
ReleasedOnce == \A t \in Tasks : Places(t) <= 1

\* A task its painter has committed is released as soon as that painter has learned of
\* its last predecessor: the completions its edges were added before, and those that
\* were there already, are each counted.
NoneForgotten ==
    \A p \in Painters : \A k \in 1 .. paint[p].commit :
      Range(test_graph[p][k].predecessors) \subseteq paint[p].done => Places(test_graph[p][k].id) = 1

\* Every task but 0 is reported once, by the dispatcher whose core ran it, after it ran.
ReportedOnce ==
    \A t \in Tasks \ {0} :
      Cardinality(At([d \in Dispatchers |-> cq[d].log], t)) <= (IF t \in ran THEN 1 ELSE 0)

\* A painter that hears of task 0 in its first batch releases no task before all its
\* predecessors but 0 have run.  Task 0 is reported by every handshake, before it runs,
\* and once more when it has: a painter that had added edges to it would count them twice.
ReadyIsReady ==
    \A p \in Painters : paint[p].successors[0] = <<>> =>
      \A k \in DOMAIN test_graph[p] :
        Places(test_graph[p][k].id) > 0 => PredsOf[test_graph[p][k].id] \ {0} \subseteq ran
=============================================================================
