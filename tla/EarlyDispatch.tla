---------------------------- MODULE EarlyDispatch ----------------------------
(***************************************************************************)
(* Early Dispatch (ED): what the cutter, the dispatcher and the executor   *)
(* share to stage a task on a gated slot before its predecessors are done. *)
(*                                                                         *)
(* A task enters staging when all its predecessors have been dispatched    *)
(* (dispatch_fanin = target).  It is released by the one that finds both   *)
(* facts true: its last predecessor completed, its staged slot is known.   *)
(***************************************************************************)
EXTENDS ProxyState

(* The edge lock of an entry is held while Hook 0 walks its successors;    *)
(* the cutter takes and releases it within one step.                       *)
EdgeLockFree(i) ==
  ED_ENABLE => \A h \in {disp.hook, exec.hook} \ {INVALID} : Idx(h) # i

ed_count_admitted(n) == 1 <= n /\ n <= ED_SPMD_MAX_BLOCKS

FaninReachedEarly(m) == m.fanin + 1 >= 1     \* mutant: at the first credit
FaninReached(m) == m.fanin + 1 = m.target

(* ed_maybe_enter_staging and cutter_maybe_enter_staging; a full ED queue  *)
(* puts the state back to NONE at once.                                    *)
EntersStaging(m, i) ==
  /\ FaninReached(m)
  /\ ed_count_admitted(CountOf(i))
  /\ m.unfin <= ED_UNFIN_THRESHOLD
  /\ m.spec = "NONE"
  /\ HasRoom(g_ed_ready_queue, 1)

(* One dispatched predecessor is credited to s, whose metadata is m.       *)
AddFanin(s, m) ==
  LET stage == EntersStaging(m, Idx(s)) IN
  /\ ed' = [ed EXCEPT ![Idx(s)] =
       [m EXCEPT !.fanin = @ + 1, !.spec = IF stage THEN "STAGING" ELSE @]]
  /\ g_ed_ready_queue' =
       IF stage THEN Append(g_ed_ready_queue, s) ELSE g_ed_ready_queue

(* Hook 0, propagate_dispatch_fanin: under the edge lock of p, mark p as   *)
(* dispatched and take its successors; they are credited one at a time     *)
(* before the lock is released.  `todo' is what is left to credit.         *)
MarkDispatched(m, p) == [m EXCEPT !.dispatch_tag = p]
TagIs(p) == ed[Idx(p)].ring_task_tag = p

Hook0Todo(p) == IF TagIs(p) THEN g_successor_buf[Idx(p)] ELSE <<>>

Hook0Enter(p) ==
  /\ EdgeLockFree(Idx(p))
  /\ ed' = IF TagIs(p) THEN [ed EXCEPT ![Idx(p)] = MarkDispatched(@, p)] ELSE ed

(* ed_notify_once: the staged record must still be the live one of this    *)
(* generation; whoever sets notify_claimed rings the doorbell.             *)
Unclaimed(m) == m.claimed = 0
NotifyLive(t, r) ==
  LET m == ed[Idx(t)] IN
  /\ m.ring_task_tag = t /\ m.staged = r /\ r # INVALID
  /\ r.tag = t
  /\ Unclaimed(m)

ed_notify_once(t, r) ==
  IF NotifyLive(t, r)
  THEN /\ ed' = [ed EXCEPT ![Idx(t)].claimed = 1]
       /\ exe' = [exe EXCEPT ![r.unit].doorbell = 1]
       /\ stats' = [stats EXCEPT !.bell = @ + 1]
  ELSE UNCHANGED <<ed, exe, stats>>
=============================================================================
