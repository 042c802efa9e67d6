--------------------------- MODULE TensorMapCore ---------------------------
(***************************************************************************)
(* The producer-lookup map of include/algorithm/tensormap_core.h: a pool   *)
(* of entries, each linked into the chain of its hash bucket and into the  *)
(* chain of its producer's task slot, a stack of freed entries and the     *)
(* cursors of lazy invalidation.  Every operation is a function of a map   *)
(* value, so a program may keep one map or one per thread.  Only ring 0    *)
(* is modelled: num_rings is 1 in every build.                             *)
(***************************************************************************)
EXTENDS TensorOverlap, FiniteSets

CONSTANTS
    NumBuckets,       \* TMD_NUM_BUCKETS
    PoolSize,         \* TMD_POOL_SIZE
    TaskWindow,       \* TMD_TASK_WINDOW
    CleanupInterval,  \* TM_CLEANUP_INTERVAL
    Hash,             \* tm_hash: buffer address -> bucket
    MaxPred           \* TM_PENDING_MAX_PRED, DETECT_PENDING_MAX_PRED

ASSUME TensorMapAssumption ==
    /\ {NumBuckets, PoolSize, TaskWindow, CleanupInterval, MaxPred} \subseteq Nat \ {0}
    /\ \A a \in DOMAIN Hash : Hash[a] \in 0 .. NumBuckets - 1

NoEntry == -1
Entries == 0 .. PoolSize - 1
Slot(task) == task % TaskWindow

\* An entry outside every chain.  The code leaves the old tensor and producer in
\* it; nothing reads them before tm_link_entry writes the entry again.
Unlinked == [ tensor |-> "none", producer |-> -1, bucket |-> -1,
              next_in_bucket |-> NoEntry, prev_in_bucket |-> NoEntry,
              next_in_task |-> NoEntry, prev_in_task |-> NoEntry ]

tm_init ==
    [ pool |-> [i \in Entries |-> Unlinked],
      buckets |-> [b \in 0 .. NumBuckets - 1 |-> NoEntry],
      task_heads |-> [s \in 0 .. TaskWindow - 1 |-> NoEntry],
      free_list |-> <<>>, next_entry_idx |-> 0,
      last_alive |-> 0, last_cleanup |-> 0 ]

\* The indices met by following the links next from first.
Chain(first, next) ==
    LET walk[left \in 0 .. PoolSize] ==
          [i \in Entries \cup {NoEntry} |->
             IF i = NoEntry \/ left = 0 THEN <<>> ELSE <<i>> \o walk[left - 1][next[i]]]
    IN walk[PoolSize][first]

BucketChain(m, b) == Chain(m.buckets[b], [i \in Entries |-> m.pool[i].next_in_bucket])
TaskChain(m, s)   == Chain(m.task_heads[s], [i \in Entries |-> m.pool[i].next_in_task])

----------------------------------------------------------------------------
\* tm_new_entry: a freed entry first, then a fresh one, then nothing.
NewEntry(m) ==
    IF m.free_list # <<>> THEN Last(m.free_list)
    ELSE IF m.next_entry_idx < PoolSize THEN m.next_entry_idx
    ELSE NoEntry

TakeEntry(m) ==
    IF m.free_list # <<>> THEN [m EXCEPT !.free_list = Front(@)]
                          ELSE [m EXCEPT !.next_entry_idx = @ + 1]

\* Push entry idx at the front of its bucket chain and of its task chain.
tm_link_entry(m, idx, t, task) ==
    LET b == Hash[t.addr]
        s == Slot(task)
    IN [m EXCEPT
          !.buckets[b] = idx,
          !.task_heads[s] = idx,
          !.pool = [i \in Entries |->
              IF i = idx
                THEN [ tensor |-> tm_copy_tensor_to_entry(t), producer |-> task, bucket |-> b,
                       next_in_bucket |-> m.buckets[b], prev_in_bucket |-> NoEntry,
                       next_in_task |-> m.task_heads[s], prev_in_task |-> NoEntry ]
                ELSE [m.pool[i] EXCEPT
                       !.prev_in_bucket = IF i = m.buckets[b] THEN idx ELSE @,
                       !.prev_in_task = IF i = m.task_heads[s] THEN idx ELSE @]]]

\* A full pool drops the tensor and tells nobody.
tm_insert_tensor(m, t, task) ==
    IF NewEntry(m) = NoEntry THEN m
    ELSE tm_link_entry(TakeEntry(m), NewEntry(m), t, task)

tm_remove_from_task(m, idx) ==
    LET e == m.pool[idx]
    IN [m EXCEPT
          !.task_heads = IF e.prev_in_task = NoEntry
                           THEN [@ EXCEPT ![Slot(e.producer)] = e.next_in_task] ELSE @,
          !.pool = [i \in Entries |->
              IF i = idx
                THEN [e EXCEPT !.next_in_task = NoEntry, !.prev_in_task = NoEntry]
                ELSE [m.pool[i] EXCEPT
                       !.next_in_task = IF i = e.prev_in_task THEN e.next_in_task ELSE @,
                       !.prev_in_task = IF i = e.next_in_task THEN e.prev_in_task ELSE @]]]

\* Entry i once its neighbour e has left their bucket chain.
BypassForward(m, i, e) ==
    [m.pool[i] EXCEPT !.next_in_bucket = IF i = e.prev_in_bucket THEN e.next_in_bucket ELSE @]
Bypass(m, i, e) ==
    [m.pool[i] EXCEPT !.next_in_bucket = IF i = e.prev_in_bucket THEN e.next_in_bucket ELSE @,
                      !.prev_in_bucket = IF i = e.next_in_bucket THEN e.prev_in_bucket ELSE @]

PushFreeNever(m, idx) == m.free_list
PushFree(m, idx) == Append(m.free_list, idx)

\* Unlink idx from its bucket chain and push it on the free stack.
tm_free_entry(m, idx) ==
    LET e == m.pool[idx]
    IN [m EXCEPT
          !.buckets = IF e.prev_in_bucket = NoEntry
                        THEN [@ EXCEPT ![e.bucket] = e.next_in_bucket] ELSE @,
          !.free_list = PushFree(m, idx),
          !.pool = [i \in Entries |-> IF i = idx THEN Unlinked ELSE Bypass(m, i, e)]]

tm_remove(m, idx) == tm_free_entry(tm_remove_from_task(m, idx), idx)

----------------------------------------------------------------------------
\* The buffers in one bucket are told apart by address.
AnyBuffer(e, t) == TRUE
SameBuffer(e, t) == e.tensor.addr = t.addr

tm_entry_valid(m, idx) == m.pool[idx].producer >= m.last_alive

RetiredButLast(m, alive) ==
    [k \in 1 .. alive - m.last_cleanup - 1 |-> m.last_cleanup + k - 1]
Retired(m, alive) == [k \in 1 .. alive - m.last_cleanup |-> m.last_cleanup + k - 1]

\* Free whatever hangs on the slot of a task ...
FreeSlot(m, task) ==
    [FoldLeft(tm_free_entry, m, TaskChain(m, Slot(task))) EXCEPT !.task_heads[Slot(task)] = NoEntry]

\* ... and so for the slots of the tasks [last_cleanup, alive).
tm_cleanup_retired(m, alive) ==
    [FoldLeft(FreeSlot, m, Retired(m, alive)) EXCEPT !.last_cleanup = alive]

\* The new task lands in the slot of the oldest task not cleaned up.
SlotOverlap(m, task) == Slot(task) = Slot(m.last_cleanup)

tm_sync_tensormap(m, alive, task) ==
    LET synced == [m EXCEPT !.last_alive = alive]
    IN IF alive - m.last_cleanup >= CleanupInterval \/ SlotOverlap(m, task)
         THEN tm_cleanup_retired(synced, alive) ELSE synced

----------------------------------------------------------------------------
\* What a task does with a tensor.
Reads(kind)  == kind \in {"in", "inout"}
Writes(kind) == kind \in {"out", "inout"}

\* tm_collect_on_match: remember the producer once, and let an INOUT that covers
\* the entry take it out of the map.  s holds the map and the producers found.
Collected(list, p) ==
    IF p \in ToSet(list) \/ Len(list) >= MaxPred
      THEN list ELSE Append(list, p)

RemovesWhenRead(kind, t, e) == tm_check_overlap(t, e.tensor) = "COVERED"
Removes(kind, t, e) == kind = "inout" /\ tm_check_overlap(t, e.tensor) = "COVERED"

tm_collect_on_match(s, access, i) ==
    LET e == s.map.pool[i]
    IN [ map   |-> IF Removes(access[2], access[1], e) THEN tm_remove(s.map, i) ELSE s.map,
         found |-> Collected(s.found, e.producer),
         lost  |-> s.lost \/ (e.producer \notin ToSet(s.found) /\ Len(s.found) >= MaxPred) ]

\* One entry of the walk.  The callback may remove the entry it is given: the walk has
\* read its successor before.
Visit(s, access, i) ==
    IF /\ tm_entry_valid(s.map, i)
       /\ SameBuffer(s.map.pool[i], access[1])
       /\ tm_check_overlap(access[1], s.map.pool[i].tensor) # "NONE"
      THEN tm_collect_on_match(s, access, i) ELSE s

tm_lookup_tensor(s, access) ==
    FoldLeft(LAMBDA r, i : Visit(r, access, i), s, BucketChain(s.map, Hash[access[1].addr]))

\* The two loops over the tensors of a task, before and after its predecessors are
\* registered.
LookupOne(s, access) == IF Reads(access[2]) THEN tm_lookup_tensor(s, access) ELSE s
LookupAll(m, accesses) ==
    FoldLeft(LookupOne, [map |-> m, found |-> <<>>, lost |-> FALSE], accesses)

InsertOne(m, access, task) ==
    IF Writes(access[2]) THEN tm_insert_tensor(m, access[1], task) ELSE m
InsertAll(m, accesses, task) == FoldLeft(LAMBDA n, a : InsertOne(n, a, task), m, accesses)

----------------------------------------------------------------------------
\* The two chains of every entry are sound: each is doubly linked and ends, a linked
\* entry is in the one bucket chain and the one task chain its fields name, and every
\* other entry was never handed out or is on the free stack, once.
LinksSound(m) ==
    LET Linked == { i \in Entries : m.pool[i].bucket # -1 }
        Freed  == { m.free_list[k] : k \in DOMAIN m.free_list }
        Doubly(chain, prev) ==
            \A k \in DOMAIN chain : prev[chain[k]] = IF k = 1 THEN NoEntry ELSE chain[k - 1]
    IN /\ \A b \in DOMAIN m.buckets :
            LET c == BucketChain(m, b)
            IN /\ Doubly(c, [i \in Entries |-> m.pool[i].prev_in_bucket])
               /\ { c[k] : k \in DOMAIN c } = { i \in Linked : m.pool[i].bucket = b }
       /\ \A s \in DOMAIN m.task_heads :
            LET c == TaskChain(m, s)
            IN /\ Doubly(c, [i \in Entries |-> m.pool[i].prev_in_task])
               /\ { c[k] : k \in DOMAIN c } = { i \in Linked : Slot(m.pool[i].producer) = s }
       /\ Freed = (0 .. m.next_entry_idx - 1) \ Linked
       /\ IsInjective(m.free_list)
       /\ Linked \subseteq 0 .. m.next_entry_idx - 1
=============================================================================
