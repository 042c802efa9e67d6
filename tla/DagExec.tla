------------------------------- MODULE DagExec -------------------------------
(***************************************************************************)
(* What the proxy promises its caller, with no rings, queues, bitmaps or   *)
(* threads: a task is submitted after its predecessors, starts only when   *)
(* every one of them has finished, and runs exactly once.                  *)
(***************************************************************************)
EXTENDS Integers

CONSTANTS
  Task,    \* the tasks of the graph
  PredSet  \* PredSet[t]: the tasks t depends on

VARIABLE status

Status == {"absent", "waiting", "running", "done"}

DagTypeOK == status \in [Task -> Status]

DagInit == status = [t \in Task |-> "absent"]

Submit(t) ==
  /\ status[t] = "absent"
  /\ \A p \in PredSet[t] : status[p] # "absent"
  /\ status' = [status EXCEPT ![t] = "waiting"]

Start(t) ==
  /\ status[t] = "waiting"
  /\ \A p \in PredSet[t] : status[p] = "done"
  /\ status' = [status EXCEPT ![t] = "running"]

Finish(t) ==
  /\ status[t] = "running"
  /\ status' = [status EXCEPT ![t] = "done"]

DagNext == \E t \in Task : Submit(t) \/ Start(t) \/ Finish(t)

DagSpec == DagInit /\ [][DagNext]_status
=============================================================================
