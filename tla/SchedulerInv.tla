---------------------------- MODULE SchedulerInv ----------------------------
(***************************************************************************)
(* The inductive invariant of the scheduler proxy: what the properties of  *)
(* Scheduler rest on, in parts that a step preserves together.             *)
(***************************************************************************)
EXTENDS Scheduler

\* The counters hold every number they must: fewer handshake replies, and fewer
\* predecessors of a task, than a counter has values.
CountersWide ==
    /\ \A replies \in Replies :
         Cardinality({ x \in Dispatchers \X Units : x[2] \in replies[x[1]] }) < CntWidth
    /\ \A r \in Records : Cardinality(Range(r.predecessors)) < CntWidth

\* A ready queue has room for all tasks of its type.
QueuesDeep == \A y \in Types : Cardinality({ t \in Tasks : TypeOf[t] = y }) <= QUEUE_DEPTH

----------------------------------------------------------------------------
(* Dispatchers, cores and completion queues.                                *)

\* A completion told, or about to be told, is of a task that ran, or the reply to the
\* handshake, which reads as task 0; messages taken belong to units not yet free.
CoresKept ==
    /\ CoresHandedOver
    /\ \A d \in Dispatchers :
         /\ disp[d].pc # "msgq" => disp[d].free \cap cores[d].msg = {}
         /\ Range(cq[d].log) \subseteq ran \cup {0}

\* Where the one completion of a launch is: with the core that runs the task, in its
\* message bit, or told.
Tokens(t) ==
    { <<"runs", x[1], x[2]>> : x \in { v \in Dispatchers \X Units : cores[v[1]].runs[v[2]] = t } }
      \cup { <<"msg", x[1], x[2]>> : x \in { v \in Dispatchers \X Units :
                 v[2] \in cores[v[1]].msg /\ disp[v[1]].map[v[2]] = t } }
      \cup { <<"told", x[1], x[2]>> : x \in At([d \in Dispatchers |-> cq[d].log], t) }

\* The replies to the handshake count as completions of task 0.
OneTokenEach ==
    \A t \in Tasks : /\ IsFiniteSet(Tokens(t))
                     /\ Cardinality(Tokens(t)) <= launched[t] + (IF t = 0 THEN CntWidth - 1 ELSE 0)

\* Only the queues of dispatcher 0 are filled, each with different tasks of its type
\* that no core was given.
QueuesSound ==
    /\ \A d \in Dispatchers \ {0}, y \in Types : ready_queue[d][y] = <<>>
    /\ \A y \in Types :
         /\ IsInjective(ready_queue[0][y])
         /\ \A t \in Range(ready_queue[0][y]) : TypeOf[t] = y /\ launched[t] = 0
    /\ \A t \in Tasks : launched[t] <= 1

----------------------------------------------------------------------------
(* Painters.                                                                *)

CommittedBy(p, s) == { test_graph[p][k].id : k \in 1 .. s.commit }
Own(p) == { test_graph[p][k].id : k \in DOMAIN test_graph[p] }

\* The completions painter p has read, as places in the logs, and the task each tells of.
Heard(p) == UNION { {d} \X (1 .. paint[p].read[d]) : d \in Dispatchers }
Told(x) == cq[x[1]].log[x[2]]

\* The predecessors that count for t, and the completions among H that counted it down.
Waits(s, t) == { q \in Tasks : t \in Range(s.successors[q]) }
Answers(s, H, t) == { x \in H : Told(x) \in Waits(s, t) }

\* A task that left its painter, and one that its painter made ready.
LeftPainter(t) == launched[t] = 1 \/ t \in Range(ready_queue[0][TypeOf[t]])
MadeReady(s, t) == LeftPainter(t) \/ t \in Range(s.ready[TypeOf[t]])

\* The counter of a task that waited for as many predecessors, after so many answers:
\* it passes zero once, when the last predecessor is told, and more answers, of the
\* handshake, do not bring it back to zero.
CountAfter(waits, answers) ==
    IF answers <= waits THEN waits - answers ELSE CntWidth + waits - answers

\* A committed task counts exactly the predecessors that were not done; it is made ready
\* when they all have answered.
CountedSound(p, s, H) ==
    \A t \in CommittedBy(p, s) :
      LET waits == Cardinality(Waits(s, t))
          answers == Cardinality(Answers(s, H, t))
      IN /\ Waits(s, t) \subseteq PredsOf[t]
         /\ PredsOf[t] \ Waits(s, t) \subseteq s.done
         /\ s.cnt[t] = CountAfter(waits, answers)
         /\ MadeReady(s, t) => answers >= waits
         /\ QueuesDeep => (answers >= waits => MadeReady(s, t))

ListsSound(p, s) ==
    /\ \A q \in Tasks : IsInjective(s.successors[q]) /\ Range(s.successors[q]) \subseteq CommittedBy(p, s)
    /\ \A y \in Types :
         /\ IsInjective(s.ready[y])
         /\ \A t \in Range(s.ready[y]) : t \in CommittedBy(p, s) /\ TypeOf[t] = y /\ ~ LeftPainter(t)
    /\ \A t \in Own(p) \ CommittedBy(p, s) : ~ LeftPainter(t)

PainterSound(p, s, H) == CountedSound(p, s, H) /\ ListsSound(p, s)

PaintersSound ==
    \A p \in Painters :
      /\ PainterSound(p, Tables(p), Heard(p))
      /\ paint[p].done = { Told(x) : x \in Heard(p) }

----------------------------------------------------------------------------
\* The inductive invariant: cores and completion queues for every configuration, and
\* the way of a task through its painter wherever the counters are wide enough.
SchedInductive ==
    /\ TypeOK
    /\ CoresKept
    /\ CountersWide => OneTokenEach /\ QueuesSound /\ PaintersSound
=============================================================================
