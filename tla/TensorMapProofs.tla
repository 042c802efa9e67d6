--------------------------- MODULE TensorMapProofs ---------------------------
(***************************************************************************)
(* The map of a submitting thread in every behaviour: its two families of  *)
(* chains stay whole under insertions, removals and lazy sweeps, no task   *)
(* slot holds the entries of two tasks, and nothing swept is left.         *)
(***************************************************************************)
EXTENDS TensorMap, TensorMapSteps

(* What an entry may hold, and the lists of tensors a task may carry.      *)
Tensors ==
  {"none"} \cup UNION { { tm_copy_tensor_to_entry(l[k][1]) : k \in DOMAIN l } : l \in Programs }

Loads(q) ==
  /\ Len(q) \in Nat /\ DOMAIN q = 1 .. Len(q)
  /\ \A k \in 1 .. Len(q) : Fits(q[k][1], Tensors)

(* The map is whole; its cursor of invalidation is behind the watermark and *)
(* less than the window behind the task that is about to enter its tensors; *)
(* and every entry was produced by a task that is not swept.               *)
MapInv ==
  /\ pc \in {"new", "pend", "lookup", "insert"}
  /\ tid \in Nat /\ g_min_uncomplete_task \in Nat /\ g_min_uncomplete_task <= tid
  /\ Loads(pend)
  /\ map \in MapType(Tensors) /\ Whole(map)
  /\ map.last_cleanup <= g_min_uncomplete_task
  /\ pc # "new" => tid - g_min_uncomplete_task < RING_SIZE
  /\ tid - map.last_cleanup <= TaskWindow
  /\ pc = "insert" => tid - map.last_cleanup < TaskWindow
  /\ \A i \in Linked(map) : map.pool[i].producer \in map.last_cleanup .. tid - 1

LEMMA ConfigFacts ==
  /\ RING_SIZE \in Nat \ {0} /\ MaxPendingIO \in Nat \ {0} /\ MaxTask \in Nat
  /\ RING_SIZE <= TaskWindow
  /\ \A list \in Programs :
       /\ list \in Seq({ list[k] : k \in DOMAIN list })
       /\ \A k \in DOMAIN list : list[k][1].addr \in DOMAIN Hash
BY TensorMapConfig

(* The tensors kept of a list that is named.                               *)
LEMMA PushLoads ==
  ASSUME NEW list \in Programs
  PROVE  Loads(tm_pending_push(list))
<1> DEFINE S == { list[k] : k \in DOMAIN list }
<1>1. list \in Seq(S) /\ MaxPendingIO \in Nat \ {0}
  BY ConfigFacts
<1>2. Len(list) \in Nat /\ DOMAIN list = 1 .. Len(list)
  <2> HIDE DEF S
  <2> QED BY <1>1
<1>3. \A k \in 1 .. Len(list) : Fits(list[k][1], Tensors)
  <2>1. ASSUME NEW k \in 1 .. Len(list)
        PROVE  Fits(list[k][1], Tensors)
    <3>1. k \in DOMAIN list /\ list[k][1].addr \in DOMAIN Hash
      BY <1>2, ConfigFacts
    <3>2. tm_copy_tensor_to_entry(list[k][1]) \in Tensors
      <4> DEFINE E(l) == { tm_copy_tensor_to_entry(l[j][1]) : j \in DOMAIN l }
      <4>1. tm_copy_tensor_to_entry(list[k][1]) \in E(list)
        BY <3>1
      <4>2. E(list) \in { E(l) : l \in Programs }
        OBVIOUS
      <4>3. Tensors = {"none"} \cup UNION { E(l) : l \in Programs }
        BY DEF Tensors
      <4> HIDE DEF E
      <4> QED BY <4>1, <4>2, <4>3
    <3> QED BY <3>1, <3>2 DEF Fits
  <2> QED BY <2>1
<1>4. CASE Len(list) > MaxPendingIO
  <2> DEFINE q == SubSeq(list, 1, MaxPendingIO)
  <2>1. \A k \in 1 .. MaxPendingIO : k \in 1 .. Len(list) /\ list[k] \in S
    BY <1>1, <1>2, <1>4
  <2>2. Len(q) = MaxPendingIO /\ q \in Seq(S) /\ \A k \in 1 .. MaxPendingIO : q[k] = list[k]
    <3> HIDE DEF S
    <3>1. /\ q \in Seq(S) /\ Len(q) = IF 1 <= MaxPendingIO THEN MaxPendingIO - 1 + 1 ELSE 0
          /\ \A i \in 1 .. MaxPendingIO - 1 + 1 : q[i] = list[1 + i - 1]
      BY <1>1, <2>1, SubSeqProperties
    <3> QED BY <1>1, <3>1
  <2>3. DOMAIN q = 1 .. MaxPendingIO
    <3> HIDE DEF q, S
    <3> QED BY <2>2
  <2> HIDE DEF q
  <2>4. Loads(q)
    BY <1>1, <1>3, <2>1, <2>2, <2>3 DEF Loads
  <2> QED BY <1>4, <2>4 DEF tm_pending_push, q
<1>5. CASE ~ (Len(list) > MaxPendingIO)
  BY <1>2, <1>3, <1>5 DEF tm_pending_push, Loads
<1> QED BY <1>4, <1>5

LEMMA InitMapInv == Init => MapInv
<1> SUFFICES ASSUME Init PROVE MapInv
  OBVIOUS
<1>1. "none" \in Tensors
  BY DEF Tensors
<1>2. map \in MapType(Tensors) /\ Whole(map) /\ Linked(map) = {} /\ map.last_cleanup = 0
  BY <1>1, InitType, InitWhole DEF Init, tm_init
<1>3. Loads(<<>>)
  <2>1. Len(<<>>) = 0 /\ DOMAIN <<>> = {} /\ 1 .. 0 = {}
    OBVIOUS
  <2> QED BY <2>1 DEF Loads
<1> QED BY <1>2, <1>3, MapConstants DEF Init, MapInv

LEMMA NextMapInv == MapInv /\ [Next]_vars => MapInv'
<1> SUFFICES ASSUME MapInv, [Next]_vars PROVE MapInv'
  OBVIOUS
<1>c. RING_SIZE \in Nat /\ RING_SIZE <= TaskWindow /\ TaskWindow \in Nat /\ "none" \in Tensors
  BY ConfigFacts, MapConstants DEF Tensors
<1>0. map.last_cleanup \in Nat
  BY DEF MapInv, MapType
<1>1. CASE new_task
  BY <1>1, <1>c DEF new_task, MapInv
<1>2. CASE name_tensors
  <2>1. Loads(pend')
    BY <1>2, PushLoads DEF name_tensors
  <2> QED BY <1>2, <2>1 DEF name_tensors, MapInv
<1>3. CASE lookup
  <2> DEFINE g == g_min_uncomplete_task
             lc == map.last_cleanup
             n == tm_sync_tensormap(map, g, tid)
             s == LookupAll(n, pend)
  <2>1. /\ map' = s.map /\ pc' = "insert" /\ UNCHANGED <<tid, pend, g>>
    BY <1>3 DEF lookup
  <2>2. /\ n \in MapType(Tensors) /\ Whole(n) /\ n.last_alive = g
        /\ \/ /\ Slot(tid) # Slot(lc) /\ n.last_cleanup = lc /\ n.pool = map.pool
           \/ /\ n.last_cleanup = g
              /\ \A i \in Linked(n) :
                   /\ i \in Linked(map) /\ n.pool[i].producer = map.pool[i].producer
                   /\ n.pool[i].producer \notin lc .. g - 1
    BY <1>c, SyncWhole DEF MapInv
  <2>3. Accesses(pend)
    BY DEF MapInv, Loads, Accesses, Fits, Found
  <2> HIDE DEF n, g, lc
  <2>4. s \in FindType(Tensors) /\ Whole(s.map) /\ Shrunk(n, s.map)
    BY <1>c, <2>2, <2>3, LookupAllType, LookupAllWhole
  <2> HIDE DEF s
  <2>5. s.map \in MapType(Tensors)
    BY <2>4 DEF FindType
  <2>6. /\ tid \in Nat /\ g \in Nat /\ g <= tid /\ lc \in Nat /\ lc <= g
        /\ tid - g < RING_SIZE /\ tid - lc <= TaskWindow
        /\ \A i \in Linked(map) : map.pool[i].producer \in lc .. tid - 1
    BY <1>3, <1>0 DEF MapInv, lookup, g, lc
  <2>7. /\ n.last_cleanup \in Nat /\ n.last_cleanup <= g /\ tid - n.last_cleanup < TaskWindow
        /\ \A i \in Linked(n) : n.pool[i].producer \in n.last_cleanup .. tid - 1
    <3>1. CASE Slot(tid) # Slot(lc) /\ n.last_cleanup = lc /\ n.pool = map.pool
      <4>1. Linked(n) = Linked(map)
        BY <3>1 DEF Linked
      <4>2. tid - lc # TaskWindow
        <5>1. SUFFICES ASSUME tid - lc = TaskWindow PROVE FALSE
          OBVIOUS
        <5>2. tid = lc + TaskWindow
          BY <1>c, <2>6, <5>1
        <5>3. Slot(lc + TaskWindow) = Slot(lc)
          BY <2>6, SlotWraps
        <5> QED BY <3>1, <5>2, <5>3
      <4> QED BY <1>c, <2>6, <3>1, <4>1, <4>2
    <3>2. CASE /\ n.last_cleanup = g
               /\ \A i \in Linked(n) :
                    /\ i \in Linked(map) /\ n.pool[i].producer = map.pool[i].producer
                    /\ n.pool[i].producer \notin lc .. g - 1
      <4>1. tid - n.last_cleanup < TaskWindow
        BY <1>c, <2>6, <3>2
      <4>2. ASSUME NEW i \in Linked(n)
            PROVE  n.pool[i].producer \in g .. tid - 1
        <5>1. n.pool[i].producer \in lc .. tid - 1 /\ n.pool[i].producer \notin lc .. g - 1
          BY <2>6, <3>2
        <5> QED BY <2>6, <5>1
      <4> QED BY <2>6, <3>2, <4>1, <4>2
    <3> QED BY <2>2, <3>1, <3>2
  <2>8. /\ s.map.last_cleanup = n.last_cleanup
        /\ \A i \in Linked(s.map) : s.map.pool[i].producer \in n.last_cleanup .. tid - 1
    BY <2>4, <2>7 DEF Shrunk
  <2>9. g' = g_min_uncomplete_task' /\ g = g_min_uncomplete_task
    BY DEF g
  <2>10. /\ map' \in MapType(Tensors) /\ Whole(map') /\ map'.last_cleanup <= g
         /\ map'.last_cleanup \in Nat /\ tid - map'.last_cleanup < TaskWindow
         /\ \A i \in Linked(map') : map'.pool[i].producer \in map'.last_cleanup .. tid - 1
    BY <2>1, <2>4, <2>5, <2>7, <2>8
  <2>11. tid' = tid /\ pend' = pend /\ g_min_uncomplete_task' = g /\ pc' = "insert"
    BY <2>1, <2>9
  <2>12. tid - map'.last_cleanup <= TaskWindow
    BY <1>c, <2>6, <2>10
  <2>13. Loads(pend) /\ tid - g < RING_SIZE
    BY <2>6 DEF MapInv
  <2> QED BY <2>6, <2>10, <2>11, <2>12, <2>13 DEF MapInv
<1>4. CASE insert
  <2> DEFINE n == InsertAll(map, pend, tid)
  <2>1. map' = n /\ pc' = "new" /\ pend' = <<>> /\ tid' = tid + 1 /\ UNCHANGED g_min_uncomplete_task
    BY <1>4 DEF insert
  <2>2. Len(pend) \in Nat /\ DOMAIN pend = 1 .. Len(pend) /\ tid \in Int
        /\ \A k \in 1 .. Len(pend) : Fits(pend[k][1], Tensors)
    BY DEF MapInv, Loads
  <2>3. n \in MapType(Tensors) /\ Whole(n) /\ Grown(map, n, tid)
    BY <2>2, InsertAllType, InsertAllWhole DEF MapInv
  <2> HIDE DEF n
  <2>4. Loads(<<>>)
    <3>1. Len(<<>>) = 0 /\ DOMAIN <<>> = {} /\ 1 .. 0 = {}
      OBVIOUS
    <3> QED BY <3>1 DEF Loads
  <2>5. /\ tid \in Nat /\ g_min_uncomplete_task <= tid /\ map.last_cleanup <= g_min_uncomplete_task
        /\ g_min_uncomplete_task \in Nat
        /\ tid - map.last_cleanup < TaskWindow
        /\ \A i \in Linked(map) : map.pool[i].producer \in map.last_cleanup .. tid - 1
    BY <1>4 DEF MapInv, insert
  <2>6. n.last_cleanup = map.last_cleanup
    BY <2>3 DEF Grown
  <2>7. ASSUME NEW i \in Linked(n)
        PROVE  n.pool[i].producer \in n.last_cleanup .. (tid + 1) - 1
    <3>1. n.pool[i].producer = tid \/ n.pool[i].producer \in map.last_cleanup .. tid - 1
      BY <2>3, <2>5 DEF Grown
    <3> QED BY <1>0, <2>5, <2>6, <3>1
  <2>8. tid + 1 - map.last_cleanup <= TaskWindow /\ g_min_uncomplete_task <= tid + 1
    BY <1>0, <1>c, <2>5
  <2>9. /\ map' \in MapType(Tensors) /\ Whole(map') /\ map'.last_cleanup = map.last_cleanup
        /\ \A i \in Linked(map') : map'.pool[i].producer \in map'.last_cleanup .. tid' - 1
    BY <2>1, <2>3, <2>6, <2>7
  <2>10. tid' \in Nat /\ tid' = tid + 1 /\ pc' = "new" /\ Loads(pend')
    BY <2>1, <2>4, <2>5
  <2>11. g_min_uncomplete_task' = g_min_uncomplete_task
    BY <2>1
  <2>12. /\ tid' - map'.last_cleanup <= TaskWindow
         /\ g_min_uncomplete_task' <= tid' /\ g_min_uncomplete_task' \in Nat
         /\ map'.last_cleanup <= g_min_uncomplete_task'
    BY <1>0, <1>c, <2>5, <2>8, <2>9, <2>10, <2>11
  <2>13. pc' \in {"new", "pend", "lookup", "insert"} /\ ~ (pc' # "new") /\ ~ (pc' = "insert")
    BY <2>10
  <2> QED BY <2>9, <2>10, <2>12, <2>13 DEF MapInv
<1>5. CASE retire
  BY <1>5, <1>c, <1>0 DEF retire, MapInv
<1>6. CASE UNCHANGED vars
  BY <1>6 DEF vars, MapInv
<1> QED BY <1>1, <1>2, <1>3, <1>4, <1>5, <1>6 DEF Next

(* The inductive invariant of the map holds in every behaviour.            *)
THEOREM MapInvHolds == Spec => []MapInv
BY InitMapInv, NextMapInv, PTL DEF Spec

(* No task slot holds the entries of two tasks, although slots are reused  *)
(* and swept lazily: the producers of linked entries are fewer than the    *)
(* task window apart.                                                      *)
LEMMA MapInvSlots == MapInv => OneProducerPerSlot
<1> SUFFICES ASSUME MapInv, NEW i \in Entries, NEW j \in Entries,
                    map.pool[i].bucket # -1, map.pool[j].bucket # -1,
                    Slot(map.pool[i].producer) = Slot(map.pool[j].producer)
             PROVE  map.pool[i].producer = map.pool[j].producer
  BY DEF OneProducerPerSlot
<1>1. i \in Linked(map) /\ j \in Linked(map)
  BY DEF Linked
<1> DEFINE s == map.pool[i].producer
           t == map.pool[j].producer
           lc == map.last_cleanup
<1>2. s \in lc .. tid - 1 /\ t \in lc .. tid - 1 /\ tid - lc <= TaskWindow /\ tid \in Nat /\ lc \in Nat
  BY <1>1 DEF MapInv, MapType
<1>3. Slot(s) = Slot(t)
  OBVIOUS
<1> HIDE DEF s, t, lc
<1>4. s \in Nat /\ t \in Nat /\ s - t < TaskWindow /\ t - s < TaskWindow
  BY <1>2, MapConstants
<1>5. s = t
  <2>1. CASE s < t
    BY <1>3, <1>4, <2>1, SlotDistinct
  <2>2. CASE t < s
    BY <1>3, <1>4, <2>2, SlotDistinct
  <2> QED BY <1>4, <2>1, <2>2
<1> QED BY <1>5 DEF s, t

(* Both families of chains of the map are whole between the operations of a *)
(* submitting thread, whatever the pool, the hash and the programs: every  *)
(* linked entry is in the chain of its bucket and in that of its task slot, *)
(* once and doubly linked, the others are free, and a slot is one task's.  *)
THEOREM ChainsSoundHolds == Spec => []ChainsSound
<1>1. MapInv => ChainsSound
  BY WholeSound, MapInvSlots DEF MapInv, ChainsSound
<1> QED BY <1>1, MapInvHolds, PTL

(* What a retired and swept task wrote is not left in the map.             *)
THEOREM SweptCleanHolds == Spec => []SweptClean
<1>1. MapInv => SweptClean
  <2> SUFFICES ASSUME MapInv, NEW i \in Entries, map.pool[i].bucket # -1
               PROVE  map.pool[i].producer >= map.last_cleanup
    BY DEF SweptClean
  <2>1. i \in Linked(map)
    BY DEF Linked
  <2>2. map.pool[i].producer \in map.last_cleanup .. tid - 1 /\ map.last_cleanup \in Nat /\ tid \in Nat
    BY <2>1 DEF MapInv, MapType
  <2> QED BY <2>2
<1> QED BY <1>1, MapInvHolds, PTL
=============================================================================
