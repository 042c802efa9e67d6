----------------------------- MODULE TensorMap -----------------------------
(***************************************************************************)
(* The orchestration glue of include/algorithm/tensormap.h: a case names   *)
(* the tensors of a task with tm_in, tm_out and tm_inout, and tm_submit    *)
(* looks its producers up in g_tm_deps.map, hands them to add_predecessors *)
(* and enters what the task writes.  One thread submits; the watermark     *)
(* g_min_uncomplete_task moves under it between any two of its steps.      *)
(***************************************************************************)
EXTENDS TensorMapCore, FiniteSets

CONSTANTS
    Windows,       \* bound: the tensors whose overlap is compared
    Programs,      \* bound: the access lists a task may have, <<tensor, kind>> each
    RING_SIZE,
    MaxPendingIO,  \* TM_PENDING_MAX_IO
    MaxTask        \* bound: number of tasks submitted

\* The bounds the programs keep: fewer tasks are alive than the map has task slots, and
\* every tensor a task may name has a bucket.
ASSUME TensorMapConfig ==
    /\ RING_SIZE \in Nat \ {0} /\ MaxPendingIO \in Nat \ {0} /\ MaxTask \in Nat
    /\ RING_SIZE <= TaskWindow
    /\ \A list \in Programs :
         /\ list \in Seq({ list[k] : k \in DOMAIN list })
         /\ \A k \in DOMAIN list : list[k][1].addr \in DOMAIN Hash

Tasks == 0 .. MaxTask - 1

VARIABLES
    pc,         \* "new", "pend", "lookup" or "insert"
    tid,        \* the task under construction
    pend,       \* g_tm_deps.pend
    found,      \* ctx.preds of tm_submit
    map,        \* g_tm_deps.map
    g_min_uncomplete_task,
    preds,      \* g_predecessors: the predecessors registered for a task
    accs,       \* history: what each task that is not retired accesses
    dropped     \* history: some tensor or predecessor did not fit its array

vars == <<pc, tid, pend, found, map, g_min_uncomplete_task, preds, accs, dropped>>

Init ==
    /\ pc = "new" /\ tid = 0 /\ pend = <<>> /\ found = <<>>
    /\ map = tm_init
    /\ g_min_uncomplete_task = 0
    /\ preds = [t \in Tasks |-> {}]
    /\ accs = [t \in Tasks |-> <<>>]
    /\ dropped = FALSE

\* new_task waits for the ring slot, then the case names the task's tensors.
new_task ==
    /\ pc = "new" /\ tid < MaxTask
    /\ tid - g_min_uncomplete_task < RING_SIZE
    /\ pc' = "pend"
    /\ UNCHANGED <<tid, pend, found, map, g_min_uncomplete_task, preds, accs, dropped>>

\* tm_pending_push silently ignores what does not fit in pend.
tm_pending_push(list) == IF Len(list) > MaxPendingIO THEN SubSeq(list, 1, MaxPendingIO) ELSE list

name_tensors ==
    /\ pc = "pend"
    /\ \E list \in Programs :
         /\ pend' = tm_pending_push(list)
         /\ accs' = [accs EXCEPT ![tid] = list]
         /\ dropped' = (dropped \/ Len(list) > MaxPendingIO)
    /\ pc' = "lookup"
    /\ UNCHANGED <<tid, found, map, g_min_uncomplete_task, preds>>

\* The synchronisation with the watermark, then a lookup for every tensor read.
lookup ==
    /\ pc = "lookup"
    /\ LET synced == tm_sync_tensormap(map, g_min_uncomplete_task, tid)
           s == LookupAll(synced, pend)
       IN map' = s.map /\ found' = s.found /\ dropped' = (dropped \/ s.lost)
    /\ pc' = "insert"
    /\ UNCHANGED <<tid, pend, g_min_uncomplete_task, preds, accs>>

\* add_predecessors reads the watermark again, and the writes enter the map.
insert ==
    /\ pc = "insert"
    /\ preds' = [preds EXCEPT ![tid] =
                   {p \in {found[k] : k \in DOMAIN found} : p >= g_min_uncomplete_task}]
    /\ map' = InsertAll(map, pend, tid)
    /\ dropped' = (dropped \/ Cardinality({ k \in DOMAIN pend : Writes(pend[k][2]) })
                                 > Len(map.free_list) + PoolSize - map.next_entry_idx)
    /\ pend' = <<>> /\ found' = <<>>
    /\ tid' = tid + 1 /\ pc' = "new"
    /\ UNCHANGED <<g_min_uncomplete_task, accs>>

\* The cutter's watermark passes a completed task: its history is not needed any more.
retire ==
    /\ g_min_uncomplete_task < tid
    /\ g_min_uncomplete_task' = g_min_uncomplete_task + 1
    /\ accs' = [accs EXCEPT ![g_min_uncomplete_task] = <<>>]
    /\ preds' = [preds EXCEPT ![g_min_uncomplete_task] = {}]
    /\ UNCHANGED <<pc, tid, pend, found, map, dropped>>

Next == new_task \/ name_tensors \/ lookup \/ insert \/ retire

Spec == Init /\ [][Next]_vars

----------------------------------------------------------------------------
Live == g_min_uncomplete_task .. tid - 1

\* A task slot never holds the entries of two tasks, although slots are reused and
\* retired entries are only swept once in a while: a later sweep of the older task
\* would take the younger one's entries with it.
OneProducerPerSlot ==
    \A i, j \in Entries :
      (map.pool[i].bucket # -1 /\ map.pool[j].bucket # -1
         /\ Slot(map.pool[i].producer) = Slot(map.pool[j].producer))
      => map.pool[i].producer = map.pool[j].producer

\* Between the operations both families of chains of g_tm_deps.map are whole, and the
\* chain of a task slot is that of one task.
ChainsSound == LinksSound(map) /\ OneProducerPerSlot

\* The tasks a task waits for, directly or through its predecessors.
Awaited ==
    LET anc[t \in Tasks] == preds[t] \cup UNION {anc[p] : p \in preds[t]} IN anc

\* a reads an element that b writes.
ReadsFrom(a, b) ==
    \E k \in DOMAIN accs[a], j \in DOMAIN accs[b] :
        Reads(accs[a][k][2]) /\ Writes(accs[b][j][2]) /\ SharesElement(accs[a][k][1], accs[b][j][1])

\* Every task waits for every earlier task that is not complete and wrote an element
\* it reads: an entry an INOUT took out of the map is reached through the task that
\* took it, and the lazy sweeps and reused slots never lose a live producer.
DepsComplete ==
    \A t \in Live, p \in Live : p < t /\ ReadsFrom(t, p) => p \in Awaited[t]

\* A registered predecessor is an earlier task and did write what the task reads: a
\* bucket shared by two buffers, a reused entry or a stale one adds no edge.
NoFalseEdge == \A t \in Live : \A p \in preds[t] : p < t /\ (p \in Live => ReadsFrom(t, p))

\* Nothing a retired and swept task wrote is left in the map, and every entry it
\* held can be handed out again.
SweptClean ==
    \A i \in Entries : map.pool[i].bucket # -1 => map.pool[i].producer >= map.last_cleanup

\* With an entry for every write of the tasks that may be alive or not yet swept the
\* pool never runs out, so that no producer is dropped without a word.
MaxWrites == Max({ Cardinality({ k \in DOMAIN l : Writes(l[k][2]) }) : l \in Programs })
UnsweptTasks == Min({ TaskWindow, RING_SIZE + CleanupInterval - 1 })
PoolSuffices == PoolSize >= MaxWrites * UnsweptTasks => ~ dropped

\* The elements one window misses of another that begins at its end.
LastElement(t) == t.start + Reach(t.shapes, t.strides)
Corners(a, b) ==
    (IF a.contig THEN {} ELSE {LastElement(a)} \cap {b.start})
      \cup (IF b.contig THEN {} ELSE {LastElement(b)} \cap {a.start})

\* For every two windows a task may name: NONE is answered only when no element is
\* shared, save that the last element of a window that is not contiguous is not seen
\* where the other window begins; and COVERED only when the entry lies inside.  The
\* answer depends on the windows alone, so the empty map stands for every map.
OverlapSound ==
  map = tm_init =>
    \A a, b \in Windows : a.addr = b.addr =>
        LET r == tm_check_overlap(a, tm_copy_tensor_to_entry(b)) IN
        /\ r = "NONE" => Elements(a) \cap Elements(b) \subseteq Corners(a, b)
        /\ r = "COVERED" => Elements(b) \subseteq Elements(a)
=============================================================================
