------------------------ MODULE OrchPipelineProofs -------------------------
(***************************************************************************)
(* Proofs about OrchPipeline, for every list of tasks, every number of     *)
(* threads and every batch size: the stripes of the desc threads cover the *)
(* tasks once, a map of one's own finds what a single map would find, and  *)
(* one detect thread leaves its words unmixed.                             *)
(***************************************************************************)
EXTENDS OrchPipeline, TensorMapSteps

----------------------------------------------------------------------------
(* The invariant.  A thread's stripe starts at a block of its own, and its *)
(* cursor is never more than a round of stripes behind the stripe's end.   *)
Block(start, size, threads, d) == \E c \in Nat : c % threads = d /\ start = c * size

AllTensors ==
  UNION { ToSet(td.in) \cup ToSet(td.out) \cup ToSet(td.inout) : td \in ToSet(TaskList) }
EntryTensors == {"none"} \cup { tm_copy_tensor_to_entry(t) : t \in AllTensors }

(* The tensors of one task, as the desc threads write them.                *)
IsTaskData(td) ==
  td.in \in Seq(AllTensors) /\ td.out \in Seq(AllTensors) /\ td.inout \in Seq(AllTensors)

DescType ==
  [id : 0 .. total_task_cnt, start : Nat, end : Nat]
DetectType ==
  [at : 0 .. total_task_cnt, start : Nat, map : MapType(EntryTensors),
   pc : {"scan", "exp", "slot"}, todo : Seq(Int)]

PipeTypeOK ==
  /\ desc_thread_count \in Nat \ {0} /\ detect_thread_count \in Nat \ {0}
  /\ desc \in [Desc -> DescType]
  /\ described \in [Tasks -> Nat]
  /\ g_task_tensor_buf = [t \in Tasks |-> g_task_tensor_buf[t]]
  /\ \A t \in Tasks : IsTaskData(g_task_tensor_buf[t])
  /\ detect \in [Detect -> DetectType]
  /\ found \in [Tasks -> Seq(Int)]
  /\ g_predecessors \in [Tasks -> [cnt : Nat, exp : Nat]]
  /\ g_predecessor_ring \in Seq(Int)

(* Of a desc thread, and of the tasks.                                     *)
DescCursor(w, d) ==
  /\ Block(w.start, desc_batch_size, desc_thread_count, d)
  /\ w.end = w.start + desc_batch_size
  /\ w.start - Stride + desc_batch_size <= w.id /\ w.id <= w.end
DescOwner(t) == (t \div desc_batch_size) % desc_thread_count
DescribedBy(t, w) ==
  /\ described[t] = IF t < w.id THEN 1 ELSE 0
  /\ t < w.id => g_task_tensor_buf[t] = TaskList[t + 1]
DescInv ==
  /\ \A d \in Desc : DescCursor(desc[d], d)
  /\ desc_thread_count > 1 => \A t \in Tasks : DescribedBy(t, desc[DescOwner(t)])

(* Of a detect thread.                                                     *)
DetectStride == detect_batch_size * detect_thread_count
DetectOwner(t) == (t \div detect_batch_size) % detect_thread_count
DetectCursor(w, d) ==
  /\ Block(w.start, detect_batch_size, detect_thread_count, d)
  /\ w.start < total_task_cnt =>
       /\ w.start - DetectStride + detect_batch_size <= w.at
       /\ w.at < w.start + detect_batch_size
       /\ w.at < total_task_cnt
  /\ w.pc # "scan" => DescJoined /\ w.start < total_task_cnt /\ w.start <= w.at
CursorInv == \A d \in Detect : DetectCursor(detect[d], d)

(* What a map that takes the tasks in order holds and finds.               *)
SequentialRun ==
  CHOOSE run : run = [t \in -1 .. total_task_cnt - 1 |->
          IF t = -1 THEN [map |-> tm_init, found |-> <<>>]
          ELSE detect_task(run[t - 1].map, TaskList[t + 1], t)]

FoundBy(w, d, fd) ==
  /\ w.map = SequentialRun[IF w.pc = "scan" THEN w.at - 1 ELSE w.at].map
  /\ w.pc # "scan" => fd[w.at] = SequentialRun[w.at].found
  /\ \A t \in Tasks : t < w.at /\ DetectOwner(t) = d => fd[t] = SequentialRun[t].found
FoundInv == desc_thread_count > 1 => \A d \in Detect : FoundBy(detect[d], d, found)

(* The words of the only detect thread.  Of the task in work, those written *)
(* and those to write are together what was found.                         *)
Written(p, ring, f, todo) ==
  LET n == Len(ring) - p.exp
  IN /\ p.exp <= Len(ring)
     /\ Len(f) = n + Len(todo)
     /\ \A k \in 1 .. n : ring[p.exp + k] = f[k]
     /\ \A k \in 1 .. Len(todo) : todo[k] = f[n + k]
WordsOf(p, ring, f) ==
  /\ p.exp + p.cnt <= Len(ring)
  /\ p.cnt = Len(f)
  /\ \A k \in 1 .. Len(f) : ring[p.exp + k] = f[k]
DumpBy(w, fd, gp, ring) ==
  /\ w.start >= total_task_cnt => w.at = total_task_cnt
  /\ w.start < total_task_cnt => w.start <= w.at
  /\ \A t \in Tasks : t < w.at => WordsOf(gp[t], ring, fd[t])
  /\ \A t \in Tasks : t > w.at \/ (t = w.at /\ w.pc = "scan") => gp[t].cnt = 0 /\ gp[t].exp = 0
  /\ w.pc # "scan" => gp[w.at].cnt = 0
  /\ w.pc = "exp" => w.todo = fd[w.at]
  /\ w.pc = "slot" => Written(gp[w.at], ring, fd[w.at], w.todo)
DumpInv ==
  detect_thread_count = 1 => DumpBy(detect[0], found, g_predecessors, g_predecessor_ring)

PipeInv == PipeTypeOK /\ DescInv /\ CursorInv /\ FoundInv /\ DumpInv

----------------------------------------------------------------------------
(* Blocks of a size, shared out in turn.                                   *)
LEMMA DivMod ==
  ASSUME NEW t \in Nat, NEW b \in Nat \ {0}
  PROVE  /\ t \div b \in Nat /\ t % b \in 0 .. b - 1
         /\ t = b * (t \div b) + (t % b)
<1> DEFINE a == t \div b
           m == t % b
<1>1. t = b * a + m /\ a \in Int /\ m \in Int /\ 0 <= m /\ m < b
  OBVIOUS
<1> HIDE DEF a, m
<1>2. a >= 0
  <2> SUFFICES ASSUME a <= -1 PROVE FALSE
    BY <1>1
  <2>1. b * a <= b * (-1)
    BY <1>1
  <2> QED BY <1>1, <2>1
<1> QED BY <1>1, <1>2 DEF a, m

LEMMA MulStep ==
  ASSUME NEW b \in Nat \ {0}, NEW x \in Int, NEW y \in Int, x < y
  PROVE  b * x + b <= b * y
<1> DEFINE u == y - x
<1>1. u \in Int /\ u >= 1 /\ y = x + u
  OBVIOUS
<1> HIDE DEF u
<1>2. b * u >= b * 1
  BY <1>1
<1>3. b * y = b * x + b * u
  BY <1>1
<1>4. b * x \in Int /\ b * u \in Int /\ b * y \in Int
  BY <1>1
<1> QED BY <1>2, <1>3, <1>4

LEMMA DivIs ==
  ASSUME NEW t \in Nat, NEW b \in Nat \ {0}, NEW c \in Int, b * c <= t, t < b * c + b
  PROVE  t \div b = c
<1> DEFINE a == t \div b
           m == t % b
<1>1. t = b * a + m /\ a \in Nat /\ m \in 0 .. b - 1
  BY DivMod
<1> HIDE DEF a, m
<1>2. b * a \in Int /\ b * c \in Int
  BY <1>1
<1>3. ~ (a < c)
  BY <1>1, <1>2, MulStep
<1>4. ~ (c < a)
  BY <1>1, <1>2, MulStep
<1> QED BY <1>1, <1>3, <1>4 DEF a

(* Numbers less than n apart differ modulo n.                              *)
LEMMA ModApart ==
  ASSUME NEW n \in Nat \ {0}, NEW k \in Nat, NEW c \in Nat, k < c, c < k + n
  PROVE  k % n # c % n
<1> DEFINE p == k \div n
           q == c \div n
           i == k % n
           j == c % n
<1>1. k = n * p + i /\ c = n * q + j /\ p \in Nat /\ q \in Nat /\ i \in Nat /\ j \in Nat
  BY DivMod
<1> HIDE DEF p, q, i, j
<1>2. n * p \in Int /\ n * q \in Int
  BY <1>1
<1> SUFFICES ASSUME i = j PROVE FALSE
  BY DEF i, j
<1>3. p < q
  <2> SUFFICES ASSUME q <= p PROVE FALSE
    BY <1>1
  <2>1. q = p \/ n * q + n <= n * p
    BY <1>1, MulStep
  <2> QED BY <1>1, <1>2, <2>1
<1>4. n * p + n <= n * q
  BY <1>1, <1>3, MulStep
<1> QED BY <1>1, <1>2, <1>4

LEMMA ModAgain ==
  ASSUME NEW n \in Nat \ {0}, NEW c \in Nat
  PROVE  (c + n) % n = c % n
<1> DEFINE q == c \div n
           j == c % n
           p == (c + n) \div n
           i == (c + n) % n
<1>1. c = n * q + j /\ q \in Nat /\ j \in 0 .. n - 1
  BY DivMod
<1>2. c + n = n * p + i /\ p \in Nat /\ i \in 0 .. n - 1
  <2> DEFINE x == c + n
  <2>1. x \in Nat
    OBVIOUS
  <2> HIDE DEF x
  <2>2. x = n * (x \div n) + (x % n) /\ x \div n \in Nat /\ x % n \in 0 .. n - 1
    BY <2>1, DivMod
  <2> QED BY <2>2 DEF x
<1>3. p = q + 1
  <2> HIDE DEF q, j, p, i
  <2>1. n * (q + 1) = n * q + n /\ n * q \in Int /\ n * (q + 1) \in Int
    BY <1>1
  <2>2. n * (q + 1) <= c + n /\ c + n < n * (q + 1) + n
    BY <1>1, <2>1
  <2>3. (c + n) \div n = q + 1
    BY <1>1, <2>2, DivIs
  <2> QED BY <2>3 DEF p
<1> HIDE DEF q, j, p, i
<1>4. n * p = n * q + n /\ n * q \in Int
  BY <1>1, <1>3
<1>5. i = j
  BY <1>1, <1>2, <1>4
<1> QED BY <1>5 DEF i, j

(* Whose a task is, seen from a thread's stripe.                           *)
LEMMA StripeOwner ==
  ASSUME NEW size \in Nat \ {0}, NEW threads \in Nat \ {0}, NEW d, NEW start \in Nat,
         Block(start, size, threads, d), NEW t \in Nat
  PROVE  /\ start <= t /\ t < start + size => (t \div size) % threads = d
         /\ start - size * threads + size <= t /\ t < start => (t \div size) % threads # d
         /\ threads > 1 /\ t = start + size => (t \div size) % threads # d
<1>1. PICK c \in Nat : c % threads = d /\ start = c * size
  BY DEF Block
<1>2. size * c = start
  BY <1>1
<1>3. ASSUME start <= t, t < start + size PROVE (t \div size) % threads = d
  <2>1. t \div size = c
    BY <1>2, <1>3, DivIs
  <2> QED BY <1>1, <2>1
<1> DEFINE k == t \div size
<1>4. k \in Nat /\ t = size * k + (t % size) /\ t % size \in 0 .. size - 1
  BY DivMod
<1>5. ASSUME start - size * threads + size <= t, t < start PROVE k % threads # d
  <2> HIDE DEF k
  <2>1. size * k \in Int /\ size * threads \in Int
    BY <1>4
  <2>2. k < c
    <3> SUFFICES ASSUME c <= k PROVE FALSE
      BY <1>4
    <3>1. c = k \/ size * c + size <= size * k
      BY <1>4, MulStep
    <3> QED BY <1>2, <1>4, <1>5, <2>1, <3>1
  <2>3. c < k + threads
    <3> SUFFICES ASSUME k + threads <= c PROVE FALSE
      BY <1>4
    <3> DEFINE x == k + threads
    <3>1. size * x = size * k + size * threads /\ x \in Nat
      BY <1>4
    <3>2. x = c \/ x < c
      BY <1>4
    <3> HIDE DEF x
    <3>3. x = c \/ size * x + size <= size * c
      BY <3>1, <3>2, MulStep
    <3> QED BY <1>2, <1>4, <1>5, <2>1, <3>1, <3>3
  <2> QED BY <1>1, <1>4, <2>2, <2>3, ModApart
<1>6. ASSUME threads > 1, t = start + size PROVE k % threads # d
  <2> DEFINE x == c + 1
  <2>1. size * x = size * c + size /\ x \in Nat /\ c < x /\ x < c + threads
    BY <1>1, <1>6
  <2> HIDE DEF x, k
  <2>2. size * x <= t /\ t < size * x + size
    BY <1>2, <1>6, <2>1
  <2>3. t \div size = x
    BY <2>1, <2>2, DivIs
  <2>4. c % threads # x % threads
    BY <2>1, ModApart
  <2> QED BY <1>1, <2>3, <2>4 DEF k
<1> QED BY <1>3, <1>5, <1>6

LEMMA BlockMoves ==
  ASSUME NEW size \in Nat \ {0}, NEW threads \in Nat \ {0}, NEW d, NEW start \in Nat,
         Block(start, size, threads, d)
  PROVE  Block(start + size * threads, size, threads, d)
<1>1. PICK c \in Nat : c % threads = d /\ start = c * size
  BY DEF Block
<1>2. (c + threads) % threads = d
  BY <1>1, ModAgain
<1>3. start + size * threads = (c + threads) * size
  BY <1>1
<1>4. c + threads \in Nat
  BY <1>1
<1> QED BY <1>2, <1>3, <1>4 DEF Block

----------------------------------------------------------------------------
(* The constants, and the tensors of a task.                               *)
LEMMA PipeConstants ==
  /\ MaxThreads \in Nat \ {0} /\ desc_batch_size \in Nat \ {0} /\ detect_batch_size \in Nat \ {0}
  /\ total_task_cnt \in Nat
  /\ "none" \in EntryTensors
<1>1. total_task_cnt \in Nat
  BY PipelineAssumption, LenProperties DEF total_task_cnt
<1> QED BY <1>1, PipelineAssumption DEF EntryTensors

LEMMA TensorFits ==
  ASSUME NEW t \in AllTensors
  PROVE  Fits(t, EntryTensors)
<1>1. PICK td \in ToSet(TaskList) : t \in ToSet(td.in) \cup ToSet(td.out) \cup ToSet(td.inout)
  BY DEF AllTensors
<1>2. t.addr \in DOMAIN Hash
  BY <1>1, PipelineAssumption
<1> QED BY <1>2 DEF Fits, EntryTensors

LEMMA TaskData ==
  ASSUME NEW t \in Tasks
  PROVE  IsTaskData(TaskList[t + 1])
<1> DEFINE td == TaskList[t + 1]
<1>1. td \in ToSet(TaskList)
  <2>1. t + 1 \in 1 .. Len(TaskList)
    BY PipeConstants DEF Tasks, total_task_cnt
  <2>2. t + 1 \in DOMAIN TaskList
    BY <2>1, PipelineAssumption, LenProperties
  <2> QED BY <2>2 DEF ToSet
<1> HIDE DEF td
<1>2. ASSUME NEW list \in {td.in, td.out, td.inout}
      PROVE  list \in Seq(AllTensors)
  <2>1. list \in Seq(ToSet(list))
    BY <1>1, PipelineAssumption
  <2>2. ToSet(list) \subseteq AllTensors
    BY <1>1, <1>2 DEF AllTensors
  <2>3. Len(list) \in Nat /\ DOMAIN list = 1 .. Len(list) /\ list \in [1 .. Len(list) -> ToSet(list)]
    BY <2>1, LenProperties
  <2>4. list \in [1 .. Len(list) -> AllTensors]
    BY <2>2, <2>3
  <2> QED BY <2>3, <2>4, SeqDef
<1> QED BY <1>2 DEF IsTaskData, td

(* The accesses of one kind, and of two kinds one after the other.         *)
LEMMA AsAccess ==
  ASSUME NEW list \in Seq(AllTensors), NEW kind
  PROVE  /\ As(list, kind) \in Seq(AllTensors \X {kind})
         /\ Len(As(list, kind)) = Len(list)
         /\ Accesses(As(list, kind))
<1> DEFINE q == As(list, kind)
<1>1. Len(list) \in Nat /\ DOMAIN list = 1 .. Len(list) /\ \A k \in 1 .. Len(list) : list[k] \in AllTensors
  BY LenProperties
<1>2. q = [k \in 1 .. Len(list) |-> <<list[k], kind>>]
  BY <1>1 DEF As
<1> HIDE DEF q
<1>3. q \in [1 .. Len(list) -> AllTensors \X {kind}]
  BY <1>1, <1>2
<1>4. q \in Seq(AllTensors \X {kind}) /\ Len(q) = Len(list)
  BY <1>1, <1>3, SeqDef, LenProperties
<1>5. \A k \in 1 .. Len(q) : Found(q[k])
  BY <1>1, <1>2, <1>4, TensorFits DEF Fits, Found
<1> QED BY <1>1, <1>3, <1>4, <1>5 DEF Accesses, q

LEMMA TwoLoops ==
  ASSUME NEW k1, NEW k2, NEW p \in Seq(AllTensors \X {k1}), NEW q \in Seq(AllTensors \X {k2})
  PROVE  /\ Accesses(p \o q) /\ Catenates(p \o q, p, q)
         /\ \A k \in 1 .. Len(p \o q) : Fits((p \o q)[k][1], EntryTensors)
<1> DEFINE S == AllTensors \X {k1, k2}
           r == p \o q
<1>1. p \in Seq(S) /\ q \in Seq(S)
  <2>1. ASSUME NEW K, NEW l \in Seq(AllTensors \X {K}), K \in {k1, k2}
        PROVE  l \in Seq(S)
    <3>1. Len(l) \in Nat /\ l \in [1 .. Len(l) -> AllTensors \X {K}]
      BY LenProperties
    <3>2. l \in [1 .. Len(l) -> S]
      BY <2>1, <3>1
    <3> QED BY <3>1, <3>2, SeqDef
  <2> QED BY <2>1
<1>2. Len(p) \in Nat /\ Len(q) \in Nat
  BY LenProperties
<1> HIDE DEF S
<1>3. /\ r \in Seq(S) /\ Len(r) = Len(p) + Len(q)
      /\ \A k \in 1 .. Len(p) + Len(q) : r[k] = IF k <= Len(p) THEN p[k] ELSE q[k - Len(p)]
  BY <1>1, ConcatProperties
<1> HIDE DEF r
<1>4. DOMAIN r = 1 .. Len(r) /\ Len(r) \in Nat /\ \A k \in 1 .. Len(r) : r[k] \in S
  BY <1>3, LenProperties
<1>5. \A k \in 1 .. Len(p) : r[k] = p[k]
  BY <1>2, <1>3
<1>6. \A k \in 1 .. Len(q) : r[Len(p) + k] = q[k]
  <2> TAKE k \in 1 .. Len(q)
  <2>1. Len(p) + k \in 1 .. Len(p) + Len(q) /\ ~ (Len(p) + k <= Len(p)) /\ Len(p) + k - Len(p) = k
    BY <1>2
  <2> QED BY <1>3, <2>1
<1>7. \A k \in 1 .. Len(r) : Fits(r[k][1], EntryTensors)
  BY <1>4, TensorFits DEF S
<1>8. Accesses(r)
  BY <1>4, <1>7 DEF Accesses, Found, Fits
<1>9. Catenates(r, p, q)
  BY <1>3, <1>5, <1>6 DEF Catenates
<1> QED BY <1>7, <1>8, <1>9 DEF r

LEMMA InsertOutsType ==
  ASSUME NEW m \in MapType(EntryTensors), NEW td, IsTaskData(td), NEW t \in Int
  PROVE  detect_insert_outs(m, td, t) \in MapType(EntryTensors)
<1> DEFINE p == As(td.out, "out")
           q == As(td.inout, "inout")
<1>1. p \in Seq(AllTensors \X {"out"}) /\ q \in Seq(AllTensors \X {"inout"})
  BY AsAccess DEF IsTaskData
<1> HIDE DEF p, q
<1>2. Accesses(p \o q) /\ \A k \in 1 .. Len(p \o q) : Fits((p \o q)[k][1], EntryTensors)
  BY <1>1, TwoLoops
<1>3. InsertAll(m, p \o q, t) \in MapType(EntryTensors)
  BY <1>2, InsertAllType DEF Accesses
<1> QED BY <1>3 DEF detect_insert_outs, p, q

(* A task detected: a map and a list of tasks.  Entering the task of       *)
(* another thread gives the same map.                                      *)
LEMMA TaskDetected ==
  ASSUME NEW m \in MapType(EntryTensors), NEW td, IsTaskData(td), NEW t \in Int
  PROVE  /\ detect_task(m, td, t).map \in MapType(EntryTensors)
         /\ detect_task(m, td, t).found \in Seq(Int)
         /\ prepare_hash(m, td, t) = detect_task(m, td, t).map
<1> DEFINE p == As(td.in, "in")
           q == As(td.inout, "inout")
           s == LookupAll(m, p \o q)
           n == LookupAll(m, q)
<1>1. /\ p \in Seq(AllTensors \X {"in"}) /\ q \in Seq(AllTensors \X {"inout"})
      /\ Accesses(p) /\ Accesses(q)
  BY AsAccess DEF IsTaskData
<1>2. /\ detect_task(m, td, t).map = detect_insert_outs(s.map, td, t)
      /\ detect_task(m, td, t).found = s.found
      /\ prepare_hash(m, td, t) = detect_insert_outs(n.map, td, t)
  BY DEF detect_task, prepare_hash
<1> HIDE DEF p, q
<1>3. Accesses(p \o q) /\ Catenates(p \o q, p, q)
  BY <1>1, TwoLoops
<1>4. \A k \in 1 .. Len(p) : p[k][2] = "in"
  <2>1. \A k \in 1 .. Len(p) : p[k] \in AllTensors \X {"in"}
    BY <1>1, LenProperties
  <2> QED BY <2>1
<1>5. s \in FindType(EntryTensors)
  BY <1>3, PipeConstants, LookupAllType
<1>6. s.map = n.map
  BY <1>1, <1>3, <1>4, PipeConstants, LookupInFirst
<1> HIDE DEF s, n
<1>7. s.map \in MapType(EntryTensors) /\ s.found \in Seq(Int)
  BY <1>5 DEF FindType
<1>8. detect_insert_outs(s.map, td, t) \in MapType(EntryTensors)
  BY <1>7, InsertOutsType
<1> QED BY <1>2, <1>6, <1>7, <1>8

----------------------------------------------------------------------------
(* The map that takes the tasks in order: there is such a run, and its maps *)
(* are maps.                                                               *)
Runs(w, n) ==
  /\ w = [t \in -1 .. n - 1 |-> w[t]]
  /\ w[-1] = [map |-> tm_init, found |-> <<>>]
  /\ \A t \in 0 .. n - 1 : w[t] = detect_task(w[t - 1].map, TaskList[t + 1], t)

LEMMA RunExists == \E w : Runs(w, total_task_cnt)
<1> DEFINE N == total_task_cnt
           b == [map |-> tm_init, found |-> <<>>]
           S == { n \in 0 .. N : \E w : Runs(w, n) }
<1>1. N \in Nat
  BY PipeConstants
<1> HIDE DEF N
<1>2. 0 \in S
  <2> DEFINE w == [t \in -1 .. 0 - 1 |-> b]
  <2>1. Runs(w, 0)
    <3>1. -1 \in -1 .. 0 - 1
      OBVIOUS
    <3>2. w = [t \in -1 .. 0 - 1 |-> w[t]] /\ w[-1] = b
      BY <3>1, Zenon
    <3>3. 0 .. 0 - 1 = {}
      OBVIOUS
    <3> HIDE DEF w
    <3> QED BY <3>2, <3>3 DEF Runs
  <2> HIDE DEF w
  <2>2. \E x : Runs(x, 0)
    BY <2>1
  <2> QED BY <1>1, <2>2
<1>3. ASSUME NEW n \in 1 .. N, n - 1 \in S
      PROVE  n \in S
  <2>1. PICK w : Runs(w, n - 1)
    BY <1>3
  <2> DEFINE last == detect_task(w[n - 2].map, TaskList[n], n - 1)
             v == [t \in -1 .. n - 1 |-> IF t = n - 1 THEN last ELSE w[t]]
  <2>2. v = [t \in -1 .. n - 1 |-> v[t]]
    OBVIOUS
  <2>3. \A t \in -1 .. n - 2 : v[t] = w[t]
    <3> TAKE t \in -1 .. n - 2
    <3>1. t \in -1 .. n - 1 /\ t # n - 1
      BY <1>1
    <3> QED BY <3>1
  <2>4. v[n - 1] = last
    <3>1. n - 1 \in -1 .. n - 1
      BY <1>1
    <3> QED BY <3>1
  <2> HIDE DEF v
  <2>5. v[-1] = b
    <3>1. -1 \in -1 .. n - 2
      BY <1>1
    <3>2. v[-1] = w[-1]
      BY <2>3, <3>1, Zenon
    <3> QED BY <2>1, <3>2 DEF Runs
  <2>6. ASSUME NEW t \in 0 .. n - 1
        PROVE  v[t] = detect_task(v[t - 1].map, TaskList[t + 1], t)
    <3>1. t - 1 \in -1 .. n - 2 /\ v[t - 1] = w[t - 1]
      BY <1>1, <2>3
    <3>2. CASE t = n - 1
      <4>1. t - 1 = n - 2 /\ t + 1 = n
        BY <1>1, <3>2
      <4> QED BY <2>4, <3>1, <3>2, <4>1
    <3>3. CASE t # n - 1
      <4>1. t \in 0 .. n - 1 - 1 /\ t \in -1 .. n - 2
        BY <1>1, <3>3
      <4>2. w[t] = detect_task(w[t - 1].map, TaskList[t + 1], t)
        BY <2>1, <4>1 DEF Runs
      <4> QED BY <2>3, <3>1, <4>1, <4>2
    <3> QED BY <3>2, <3>3
  <2>7. \E x : Runs(x, n)
    <3>1. Runs(v, n)
      BY <2>2, <2>5, <2>6 DEF Runs
    <3> QED BY <3>1
  <2> QED BY <1>1, <2>7
<1>4. \A n \in 1 .. N : n - 1 \in S => n \in S
  BY <1>3
<1>5. N \in S
  <2> HIDE DEF S
  <2>1. 0 .. N \subseteq S
    BY <1>1, <1>2, <1>4, UpTo
  <2> QED BY <1>1, <2>1
<1> QED BY <1>5 DEF N

LEMMA SequentialRuns == Runs(SequentialRun, total_task_cnt)
<1> DEFINE N == total_task_cnt
           E(run) == run = [t \in -1 .. N - 1 |->
                             IF t = -1 THEN [map |-> tm_init, found |-> <<>>]
                             ELSE detect_task(run[t - 1].map, TaskList[t + 1], t)]
<1>1. N \in Nat
  BY PipeConstants
<1>2. PICK w : Runs(w, N)
  BY RunExists
<1> HIDE DEF N
<1>3. E(w)
  <2>1. \A t \in -1 .. N - 1 :
          w[t] = IF t = -1 THEN [map |-> tm_init, found |-> <<>>]
                 ELSE detect_task(w[t - 1].map, TaskList[t + 1], t)
    <3> TAKE t \in -1 .. N - 1
    <3>1. t = -1 \/ t \in 0 .. N - 1
      BY <1>1
    <3>2. t \in 0 .. N - 1 => t # -1
      BY <1>1
    <3> QED BY <1>2, <3>1, <3>2, Zenon DEF Runs
  <2>2. w = [t \in -1 .. N - 1 |-> w[t]]
    BY <1>2 DEF Runs
  <2> QED BY <2>1, <2>2, Zenon
<1>4. E(SequentialRun)
  <2>1. SequentialRun = CHOOSE run : E(run)
    BY Zenon DEF SequentialRun, N
  <2> HIDE DEF E
  <2> QED BY <1>3, <2>1, Zenon
<1>5. \A t \in -1 .. N - 1 :
        SequentialRun[t] = IF t = -1 THEN [map |-> tm_init, found |-> <<>>]
                           ELSE detect_task(SequentialRun[t - 1].map, TaskList[t + 1], t)
  BY <1>4, Zenon
<1>6. SequentialRun = [t \in -1 .. N - 1 |-> SequentialRun[t]]
  BY <1>4, <1>5, Zenon
<1>7. -1 \in -1 .. N - 1 /\ \A t \in 0 .. N - 1 : t \in -1 .. N - 1 /\ t # -1
  BY <1>1
<1> QED BY <1>5, <1>6, <1>7, Zenon DEF Runs, N

LEMMA SequentialIs == \A t \in Tasks : Sequential[t] = SequentialRun[t].found
<1>1. Sequential = [t \in Tasks |-> SequentialRun[t].found]
  BY Zenon DEF Sequential, SequentialRun
<1> QED BY <1>1, Zenon

LEMMA SequentialMaps ==
  /\ SequentialRun[-1].map = tm_init
  /\ \A t \in Tasks : SequentialRun[t] = detect_task(SequentialRun[t - 1].map, TaskList[t + 1], t)
  /\ \A t \in -1 .. total_task_cnt - 1 : SequentialRun[t].map \in MapType(EntryTensors)
<1> DEFINE N == total_task_cnt
           S == { n \in 0 .. N : SequentialRun[n - 1].map \in MapType(EntryTensors) }
<1>1. N \in Nat /\ Tasks = 0 .. N - 1
  BY PipeConstants DEF Tasks
<1> HIDE DEF N
<1>2. SequentialRun[-1].map = tm_init
  BY SequentialRuns DEF Runs
<1>3. \A t \in Tasks : SequentialRun[t] = detect_task(SequentialRun[t - 1].map, TaskList[t + 1], t)
  BY SequentialRuns, <1>1 DEF Runs, N
<1>4. 0 \in S
  BY <1>1, <1>2, InitType, PipeConstants
<1>5. \A n \in 1 .. N : n - 1 \in S => n \in S
  <2> TAKE n \in 1 .. N
  <2> HAVE n - 1 \in S
  <2> DEFINE t == n - 1
  <2>1. t \in Tasks /\ t \in Int /\ SequentialRun[t - 1].map \in MapType(EntryTensors)
    BY <1>1
  <2> HIDE DEF t
  <2>2. SequentialRun[t].map \in MapType(EntryTensors)
    BY <1>3, <2>1, TaskData, TaskDetected
  <2> QED BY <1>1, <2>2 DEF t
<1>6. \A n \in 0 .. N : SequentialRun[n - 1].map \in MapType(EntryTensors)
  <2>1. 0 .. N \subseteq S
    <3> HIDE DEF S
    <3> QED BY <1>1, <1>4, <1>5, UpTo
  <2> QED BY <2>1
<1>7. ASSUME NEW t \in -1 .. N - 1
      PROVE  SequentialRun[t].map \in MapType(EntryTensors)
  <2>1. t + 1 \in 0 .. N /\ t + 1 - 1 = t
    BY <1>1
  <2> QED BY <1>6, <2>1
<1> QED BY <1>2, <1>3, <1>7 DEF N

----------------------------------------------------------------------------
(* The initial states.                                                     *)
LEMMA FirstBlock ==
  ASSUME NEW size \in Nat \ {0}, NEW threads \in Nat \ {0}, NEW d \in 0 .. threads - 1
  PROVE  Block(d * size, size, threads, d) /\ d * size \in Nat
<1> DEFINE q == d \div threads
           j == d % threads
<1>1. d = threads * q + j /\ q \in Nat /\ j \in 0 .. threads - 1
  <2>1. d \in Nat
    OBVIOUS
  <2> QED BY <2>1, DivMod
<1> HIDE DEF q, j
<1>2. q = 0
  <2> SUFFICES ASSUME q >= 1 PROVE FALSE
    BY <1>1
  <2>1. threads * q >= threads * 1
    BY <1>1
  <2> QED BY <1>1, <2>1
<1>3. d % threads = d
  BY <1>1, <1>2 DEF j
<1>4. d \in Nat /\ d * size \in Nat
  OBVIOUS
<1> QED BY <1>3, <1>4 DEF Block

LEMMA BehindFirst ==
  ASSUME NEW size \in Nat \ {0}, NEW threads \in Nat \ {0}, NEW d \in 0 .. threads - 1
  PROVE  d * size - size * threads + size <= 0
<1> DEFINE e == d + 1
<1>1. e \in Nat /\ size * e = d * size + size /\ (e = threads \/ e < threads)
  OBVIOUS
<1> HIDE DEF e
<1>2. e = threads \/ size * e + size <= size * threads
  BY <1>1, MulStep
<1>3. size * threads \in Int /\ size * e \in Int /\ d * size \in Int
  BY <1>1
<1> QED BY <1>1, <1>2, <1>3

LEMMA InitInv == Init => PipeInv
<1> SUFFICES ASSUME Init PROVE PipeInv
  OBVIOUS
<1>1. /\ MaxThreads \in Nat \ {0} /\ desc_batch_size \in Nat \ {0} /\ detect_batch_size \in Nat \ {0}
      /\ total_task_cnt \in Nat /\ "none" \in EntryTensors
  BY PipeConstants
<1>2. desc_thread_count \in Nat \ {0} /\ detect_thread_count \in Nat \ {0}
  BY <1>1 DEF Init
<1>3. \A d \in Desc : Block(d * desc_batch_size, desc_batch_size, desc_thread_count, d)
                      /\ d * desc_batch_size \in Nat
  BY <1>1, <1>2, FirstBlock DEF Desc
<1>4. \A d \in Detect : Block(d * detect_batch_size, detect_batch_size, detect_thread_count, d)
                        /\ d * detect_batch_size \in Nat
  BY <1>1, <1>2, FirstBlock DEF Detect
<1>5. tm_init \in MapType(EntryTensors) /\ <<>> \in Seq(Int) /\ <<>> \in Seq(AllTensors)
  BY <1>1, InitType
<1>6. ASSUME NEW d \in Desc
      PROVE  /\ desc[d].id = 0 /\ desc[d].start = d * desc_batch_size
             /\ desc[d].end = d * desc_batch_size + desc_batch_size
             /\ desc[d] \in DescType
  <2>1. desc[d] = [ id |-> 0, start |-> d * desc_batch_size, end |-> (d + 1) * desc_batch_size ]
    BY DEF Init
  <2>2. (d + 1) * desc_batch_size = d * desc_batch_size + desc_batch_size
    BY <1>1, <1>2 DEF Desc
  <2>3. d * desc_batch_size \in Nat /\ d * desc_batch_size + desc_batch_size \in Nat
        /\ 0 \in 0 .. total_task_cnt
    BY <1>1, <1>3
  <2> QED BY <2>1, <2>2, <2>3 DEF DescType
<1>7. ASSUME NEW d \in Detect
      PROVE  /\ detect[d].at = 0 /\ detect[d].start = d * detect_batch_size
             /\ detect[d].map = tm_init /\ detect[d].pc = "scan"
             /\ detect[d] \in DetectType
  <2>1. detect[d] = [ at |-> 0, start |-> d * detect_batch_size, map |-> tm_init,
                      pc |-> "scan", todo |-> <<>> ]
    BY DEF Init
  <2>2. d * detect_batch_size \in Nat /\ 0 \in 0 .. total_task_cnt
    BY <1>1, <1>4
  <2> QED BY <1>5, <2>1, <2>2 DEF DetectType
<1>8. ASSUME NEW t \in Tasks
      PROVE  /\ described[t] = 0 /\ found[t] = <<>>
             /\ g_predecessors[t].cnt = 0 /\ g_predecessors[t].exp = 0
             /\ IsTaskData(g_task_tensor_buf[t])
  <2>1. /\ described[t] = 0 /\ found[t] = <<>>
        /\ g_predecessors[t] = [cnt |-> 0, exp |-> 0]
        /\ g_task_tensor_buf[t] = [in |-> <<>>, out |-> <<>>, inout |-> <<>>]
    BY DEF Init
  <2> QED BY <1>5, <2>1 DEF IsTaskData
<1>10. PipeTypeOK
  <2>1. desc \in [Desc -> DescType]
    <3>1. \A d \in Desc : desc[d] \in DescType
      BY <1>6
    <3>2. desc = [d \in Desc |-> desc[d]]
      BY DEF Init
    <3> QED BY <3>1, <3>2
  <2>2. detect \in [Detect -> DetectType]
    <3>1. \A d \in Detect : detect[d] \in DetectType
      BY <1>7
    <3>2. detect = [d \in Detect |-> detect[d]]
      BY DEF Init
    <3> QED BY <3>1, <3>2
  <2>3. \A t \in Tasks : IsTaskData(g_task_tensor_buf[t])
    BY <1>8
  <2>4. /\ described \in [Tasks -> Nat] /\ found \in [Tasks -> Seq(Int)]
        /\ g_task_tensor_buf = [t \in Tasks |-> g_task_tensor_buf[t]]
        /\ g_predecessors \in [Tasks -> [cnt : Nat, exp : Nat]]
        /\ g_predecessor_ring \in Seq(Int)
    BY <1>5 DEF Init
  <2> QED BY <1>2, <2>1, <2>2, <2>3, <2>4 DEF PipeTypeOK
<1>11. DescInv
  <2>1. ASSUME NEW d \in Desc
        PROVE  DescCursor(desc[d], d)
    <3>1. d \in 0 .. desc_thread_count - 1
      BY DEF Desc
    <3>2. d * desc_batch_size - desc_batch_size * desc_thread_count + desc_batch_size <= 0
      BY <1>1, <1>2, <3>1, BehindFirst
    <3>3. d * desc_batch_size \in Nat
      BY <1>3
    <3>4. desc[d].id = 0 /\ desc[d].start = d * desc_batch_size /\ desc[d].end = d * desc_batch_size + desc_batch_size
      BY <1>6
    <3>5. Stride = desc_batch_size * desc_thread_count
      BY DEF Stride
    <3> QED BY <1>1, <1>3, <3>2, <3>3, <3>4, <3>5 DEF DescCursor
  <2>2. ASSUME NEW t \in Tasks, desc_thread_count > 1
        PROVE  DescribedBy(t, desc[DescOwner(t)])
    <3>1. t \in Nat
      BY <1>1 DEF Tasks
    <3>2. DescOwner(t) \in Desc
      BY <1>1, <1>2, <3>1, DivMod DEF DescOwner, Desc
    <3>3. desc[DescOwner(t)].id = 0
      BY <1>6, <3>2
    <3> QED BY <1>8, <3>1, <3>3 DEF DescribedBy
  <2> QED BY <2>1, <2>2 DEF DescInv
<1>12. CursorInv
  <2> SUFFICES ASSUME NEW d \in Detect
               PROVE  DetectCursor(detect[d], d)
    BY DEF CursorInv
  <2>1. d \in 0 .. detect_thread_count - 1
    BY DEF Detect
  <2>2. d * detect_batch_size - detect_batch_size * detect_thread_count + detect_batch_size <= 0
    BY <1>1, <1>2, <2>1, BehindFirst
  <2>3. d * detect_batch_size \in Nat
    BY <1>4
  <2>4. detect[d].at = 0 /\ detect[d].start = d * detect_batch_size /\ detect[d].pc = "scan"
    BY <1>7
  <2>5. DetectStride = detect_batch_size * detect_thread_count
    BY DEF DetectStride
  <2> QED BY <1>1, <1>4, <2>2, <2>3, <2>4, <2>5 DEF DetectCursor
<1>13. FoundInv
  <2> SUFFICES ASSUME NEW d \in Detect
               PROVE  FoundBy(detect[d], d, found)
    BY DEF FoundInv
  <2>1. detect[d].at = 0 /\ detect[d].map = tm_init /\ detect[d].pc = "scan"
    BY <1>7
  <2>2. \A t \in Tasks : ~ (t < 0)
    BY <1>1 DEF Tasks
  <2> QED BY <2>1, <2>2, SequentialMaps DEF FoundBy
<1>14. DumpInv
  <2> SUFFICES ASSUME detect_thread_count = 1
               PROVE  DumpBy(detect[0], found, g_predecessors, g_predecessor_ring)
    BY DEF DumpInv
  <2>1. 0 \in Detect
    BY DEF Detect
  <2>2. detect[0].at = 0 /\ detect[0].start = 0 /\ detect[0].pc = "scan"
    BY <1>1, <1>7, <2>1
  <2>3. \A t \in Tasks : ~ (t < 0)
    BY <1>1 DEF Tasks
  <2> QED BY <1>1, <1>8, <2>2, <2>3 DEF DumpBy
<1> QED BY <1>10, <1>11, <1>12, <1>13, <1>14 DEF PipeInv

----------------------------------------------------------------------------
(* A step of a desc thread.                                                *)
LEMMA DescOwnerType ==
  ASSUME PipeTypeOK, NEW t \in Tasks
  PROVE  DescOwner(t) \in Desc
<1>1. desc_batch_size \in Nat \ {0} /\ desc_thread_count \in Nat \ {0} /\ t \in Nat
  BY PipeConstants DEF PipeTypeOK, Tasks
<1>2. t \div desc_batch_size \in Nat
  BY <1>1, DivMod
<1> DEFINE k == t \div desc_batch_size
<1> HIDE DEF k
<1>3. k % desc_thread_count \in 0 .. desc_thread_count - 1
  BY <1>1, <1>2, DivMod DEF k
<1> QED BY <1>3 DEF DescOwner, Desc, k

LEMMA StrideType ==
  ASSUME PipeTypeOK
  PROVE  /\ Stride \in Nat /\ desc_batch_size <= Stride
         /\ desc_thread_count > 1 => desc_batch_size + desc_batch_size <= Stride
         /\ DetectStride \in Nat /\ detect_batch_size <= DetectStride
         /\ DetectStride = detect_thread_count * detect_batch_size
<1>1. /\ desc_batch_size \in Nat \ {0} /\ desc_thread_count \in Nat \ {0}
      /\ detect_batch_size \in Nat \ {0} /\ detect_thread_count \in Nat \ {0}
  BY PipeConstants DEF PipeTypeOK
<1>2. ASSUME NEW b \in Nat \ {0}, NEW n \in Nat \ {0}
      PROVE  b * n \in Nat /\ b <= b * n /\ (n > 1 => b + b <= b * n) /\ b * n = n * b
  <2>1. b * n \in Nat /\ b * n >= b * 1 /\ b * n = n * b
    OBVIOUS
  <2>2. n > 1 => b * n >= b * 2
    OBVIOUS
  <2> QED BY <2>1, <2>2
<1> QED BY <1>1, <1>2 DEF Stride, DetectStride

(* Only before the join, when every detect thread is about to begin.       *)
LEMMA DescFrame ==
  ASSUME PipeInv, NEW d \in Desc, desc[d].id < total_task_cnt, UNCHANGED descFrame
  PROVE  CursorInv' /\ FoundInv' /\ DumpInv'
<1>1. \A e \in Detect : detect[e].pc = "scan"
  <2>1. ~ DescJoined
    BY PipeConstants DEF DescJoined, PipeInv, PipeTypeOK, DescType
  <2> QED BY <2>1 DEF PipeInv, CursorInv, DetectCursor
<1>2. CursorInv'
  BY <1>1 DEF PipeInv, CursorInv, DetectCursor, Detect, DetectStride, Block, descFrame
<1>3. FoundInv'
  BY DEF PipeInv, FoundInv, FoundBy, DetectOwner, Detect, descFrame
<1>4. DumpInv'
  BY DEF PipeInv, DumpInv, DumpBy, descFrame
<1> QED BY <1>2, <1>3, <1>4

LEMMA DescDoInv ==
  ASSUME PipeInv, NEW d \in Desc, desc_do(d)
  PROVE  PipeInv'
<1> DEFINE w == desc[d]
           t0 == w.id
<1>1. PipeTypeOK /\ DescInv
  BY DEF PipeInv
<1>2. /\ t0 < total_task_cnt /\ w.start <= t0 /\ t0 < w.end
      /\ g_task_tensor_buf' = [g_task_tensor_buf EXCEPT ![t0] = TaskList[t0 + 1]]
      /\ described' = [described EXCEPT ![t0] = @ + 1]
      /\ desc' = [desc EXCEPT ![d] = [w EXCEPT !.id = @ + 1]]
      /\ UNCHANGED descFrame
  BY DEF desc_do, Mine
<1>3. w \in DescType /\ total_task_cnt \in Nat /\ desc_batch_size \in Nat \ {0}
      /\ desc_thread_count \in Nat \ {0}
  BY <1>1, PipeConstants DEF PipeTypeOK
<1>4. t0 \in Tasks /\ t0 \in Nat /\ w.start \in Nat /\ w.end \in Nat
  BY <1>2, <1>3 DEF DescType, Tasks
<1>5. DescCursor(w, d)
  BY <1>1 DEF DescInv
<1> DEFINE v == [w EXCEPT !.id = @ + 1]
<1>6. v \in DescType /\ v.id = t0 + 1 /\ v.start = w.start /\ v.end = w.end
  BY <1>2, <1>3, <1>4 DEF DescType
<1>7. Desc' = Desc /\ Stride' = Stride /\ \A t : DescOwner(t)' = DescOwner(t)
  BY <1>2 DEF descFrame, Desc, Stride, DescOwner
<1>8. /\ \A e \in Desc : desc'[e] = IF e = d THEN v ELSE desc[e]
      /\ desc' \in [Desc -> DescType]
  <2> HIDE DEF v
  <2> QED BY <1>1, <1>2, <1>6 DEF PipeTypeOK, v
<1> HIDE DEF v
<1>9. PipeTypeOK'
  <2>1. described' \in [Tasks -> Nat]
    BY <1>1, <1>2, <1>4 DEF PipeTypeOK
  <2>2. /\ g_task_tensor_buf' = [t \in Tasks |-> g_task_tensor_buf'[t]]
        /\ \A t \in Tasks : g_task_tensor_buf'[t] = IF t = t0 THEN TaskList[t0 + 1] ELSE g_task_tensor_buf[t]
    <3> HIDE DEF t0
    <3>1. g_task_tensor_buf = [t \in Tasks |-> g_task_tensor_buf[t]]
      BY <1>1 DEF PipeTypeOK
    <3> QED BY <1>2, <3>1
  <2>3. \A t \in Tasks : IsTaskData(g_task_tensor_buf'[t])
    BY <1>1, <1>4, <2>2, TaskData DEF PipeTypeOK
  <2> QED BY <1>1, <1>2, <1>7, <1>8, <2>1, <2>2, <2>3 DEF PipeTypeOK, descFrame, Detect
<1>10. DescInv'
  <2>1. ASSUME NEW e \in Desc PROVE DescCursor(desc[e], e)'
    <3>1. Stride \in Nat /\ w.start - Stride + desc_batch_size <= w.id
      BY <1>1, <1>5, StrideType DEF DescCursor
    <3>2. CASE e = d
      BY <1>2, <1>3, <1>4, <1>5, <1>6, <1>7, <1>8, <3>1, <3>2 DEF DescCursor, descFrame
    <3>3. CASE e # d
      BY <1>1, <1>2, <1>7, <1>8, <3>3 DEF DescInv, DescCursor, descFrame
    <3> QED BY <3>2, <3>3
  <2>2. ASSUME NEW t \in Tasks, desc_thread_count > 1
        PROVE  DescribedBy(t, desc[DescOwner(t)])'
    <3>1. DescOwner(t) \in Desc /\ DescribedBy(t, desc[DescOwner(t)])
      BY <1>1, <2>2, DescOwnerType DEF DescInv
    <3>2. t \in Nat
      BY <1>3 DEF Tasks
    <3>3. desc'[DescOwner(t)'] = IF DescOwner(t) = d THEN v ELSE desc[DescOwner(t)]
      BY <1>7, <1>8, <3>1
    <3>4. CASE t = t0
      <4>1. DescOwner(t) = d
        <5>1. Block(w.start, desc_batch_size, desc_thread_count, d) /\ t0 < w.start + desc_batch_size
          BY <1>2, <1>5 DEF DescCursor
        <5> QED BY <1>2, <1>3, <1>4, <3>4, <5>1, StripeOwner DEF DescOwner
      <4>2. described[t] = 0
        BY <1>4, <3>1, <3>4, <4>1 DEF DescribedBy
      <4>3. described'[t] = 1 /\ g_task_tensor_buf'[t] = TaskList[t + 1]
        BY <1>1, <1>2, <1>4, <3>4, <4>2 DEF PipeTypeOK
      <4> QED BY <1>4, <1>6, <3>3, <3>4, <4>1, <4>3 DEF DescribedBy
    <3>5. CASE t # t0
      <4>1. described'[t] = described[t] /\ g_task_tensor_buf'[t] = g_task_tensor_buf[t]
        <5>1. t0 \in DOMAIN described /\ t \in DOMAIN described
              /\ g_task_tensor_buf = [x \in Tasks |-> g_task_tensor_buf[x]]
          BY <1>1, <1>4 DEF PipeTypeOK
        <5> QED BY <1>2, <3>5, <5>1
      <4>2. t < t0 + 1 <=> t < t0
        BY <1>4, <3>2, <3>5
      <4> QED BY <1>6, <3>1, <3>3, <4>1, <4>2 DEF DescribedBy
    <3> QED BY <3>4, <3>5
  <2> QED BY <1>2, <1>7, <2>1, <2>2 DEF DescInv, descFrame
<1>11. CursorInv' /\ FoundInv' /\ DumpInv'
  BY <1>2, DescFrame
<1> QED BY <1>9, <1>10, <1>11 DEF PipeInv

LEMMA MovedIs ==
  ASSUME NEW w \in DescType, w.id < total_task_cnt, total_task_cnt \in Nat, Stride \in Nat
  PROVE  /\ Moved(w) \in DescType /\ Moved(w).id = w.id + 1
         /\ IF w.id >= w.end
              THEN Moved(w).start = w.start + Stride /\ Moved(w).end = w.end + Stride
              ELSE Moved(w).start = w.start /\ Moved(w).end = w.end
<1>1. w.id \in Nat /\ w.id + 1 \in 0 .. total_task_cnt /\ w.start \in Nat /\ w.end \in Nat
  BY DEF DescType
<1>2. CASE w.id >= w.end
  <2>1. Moved(w) = [w EXCEPT !.id = @ + 1, !.start = @ + Stride, !.end = @ + Stride]
    BY <1>2 DEF Moved
  <2>2. w.start + Stride \in Nat /\ w.end + Stride \in Nat
    BY <1>1
  <2> QED BY <1>1, <1>2, <2>1, <2>2 DEF DescType
<1>3. CASE ~ (w.id >= w.end)
  <2>1. Moved(w) = [w EXCEPT !.id = @ + 1]
    BY <1>3 DEF Moved
  <2> QED BY <1>1, <1>3, <2>1 DEF DescType
<1> QED BY <1>2, <1>3

LEMMA DescSkipInv ==
  ASSUME PipeInv, NEW d \in Desc, desc_skip(d)
  PROVE  PipeInv'
<1> DEFINE w == desc[d]
           v == Moved(w)
<1>1. PipeTypeOK /\ DescInv
  BY DEF PipeInv
<1>2. /\ w.id < total_task_cnt /\ ~ (w.start <= w.id /\ w.id < w.end)
      /\ desc' = [desc EXCEPT ![d] = v]
      /\ UNCHANGED <<descFrame, g_task_tensor_buf, described>>
  BY DEF desc_skip, Mine
<1>3. w \in DescType /\ total_task_cnt \in Nat /\ desc_batch_size \in Nat \ {0}
      /\ desc_thread_count \in Nat \ {0}
  BY <1>1, PipeConstants DEF PipeTypeOK
<1>4. w.id \in Tasks /\ w.id \in Nat /\ w.start \in Nat /\ w.end \in Nat
  BY <1>2, <1>3 DEF DescType, Tasks
<1>5. DescCursor(w, d) /\ w.end = w.start + desc_batch_size /\ w.id <= w.end
      /\ w.start - Stride + desc_batch_size <= w.id
  BY <1>1 DEF DescInv, DescCursor
<1>6. Stride \in Nat /\ desc_batch_size <= Stride
  BY <1>1, StrideType
<1>7. v \in DescType /\ v.id = w.id + 1
      /\ IF w.id >= w.end THEN v.start = w.start + Stride /\ v.end = w.end + Stride
                          ELSE v.start = w.start /\ v.end = w.end
  BY <1>2, <1>3, <1>6, MovedIs
<1>8. Desc' = Desc /\ Stride' = Stride /\ \A t : DescOwner(t)' = DescOwner(t)
  BY <1>2 DEF descFrame, Desc, Stride, DescOwner
<1>9. /\ \A e \in Desc : desc'[e] = IF e = d THEN v ELSE desc[e]
      /\ desc' \in [Desc -> DescType]
  <2> HIDE DEF v
  <2> QED BY <1>1, <1>2, <1>7 DEF PipeTypeOK
<1> HIDE DEF v
<1>10. PipeTypeOK'
  BY <1>1, <1>2, <1>8, <1>9 DEF PipeTypeOK, descFrame, Detect
<1>11. Block(v.start, desc_batch_size, desc_thread_count, d)
  <2>1. Block(w.start, desc_batch_size, desc_thread_count, d)
    BY <1>5 DEF DescCursor
  <2>2. Block(w.start + Stride, desc_batch_size, desc_thread_count, d)
    BY <1>3, <1>4, <2>1, BlockMoves DEF Stride
  <2> QED BY <1>7, <2>1, <2>2
<1>12. DescInv'
  <2>1. ASSUME NEW e \in Desc PROVE DescCursor(desc[e], e)'
    <3>1. CASE e = d
      <4>1. v.end = v.start + desc_batch_size /\ v.start - Stride + desc_batch_size <= v.id /\ v.id <= v.end
        BY <1>2, <1>3, <1>4, <1>5, <1>6, <1>7
      <4> QED BY <1>2, <1>8, <1>9, <1>11, <3>1, <4>1 DEF DescCursor, descFrame
    <3>2. CASE e # d
      BY <1>1, <1>2, <1>8, <1>9, <3>2 DEF DescInv, DescCursor, descFrame
    <3> QED BY <3>1, <3>2
  <2>2. ASSUME NEW t \in Tasks, desc_thread_count > 1
        PROVE  DescribedBy(t, desc[DescOwner(t)])'
    <3>1. DescOwner(t) \in Desc /\ DescribedBy(t, desc[DescOwner(t)])
      BY <1>1, <2>2, DescOwnerType DEF DescInv
    <3>2. t \in Nat
      BY <1>3 DEF Tasks
    <3>3. desc'[DescOwner(t)'] = IF DescOwner(t) = d THEN v ELSE desc[DescOwner(t)]
      BY <1>8, <1>9, <3>1
    <3>4. CASE DescOwner(t) = d
      <4>1. t # w.id
        <5> SUFFICES ASSUME t = w.id PROVE FALSE
          OBVIOUS
        <5>1. Block(w.start, desc_batch_size, desc_thread_count, d)
          BY <1>5 DEF DescCursor
        <5>2. (w.start - desc_batch_size * desc_thread_count + desc_batch_size <= t /\ t < w.start)
              \/ t = w.start + desc_batch_size
          BY <1>2, <1>4, <1>5 DEF Stride
        <5> QED BY <1>3, <1>4, <2>2, <3>2, <3>4, <5>1, <5>2, StripeOwner DEF DescOwner
      <4>2. t < v.id <=> t < w.id
        BY <1>4, <1>7, <3>2, <4>1
      <4> QED BY <1>2, <3>1, <3>3, <3>4, <4>2 DEF DescribedBy
    <3>5. CASE DescOwner(t) # d
      BY <1>2, <3>1, <3>3, <3>5 DEF DescribedBy
    <3> QED BY <3>4, <3>5
  <2> QED BY <1>2, <1>8, <2>1, <2>2 DEF DescInv, descFrame
<1>13. CursorInv' /\ FoundInv' /\ DumpInv'
  BY <1>2, DescFrame
<1> QED BY <1>10, <1>12, <1>13 DEF PipeInv

----------------------------------------------------------------------------
(* When the desc threads are joined, the tasks are described.              *)
LEMMA AllDescribed ==
  ASSUME PipeTypeOK, DescInv, DescJoined, desc_thread_count > 1, NEW t \in Tasks
  PROVE  described[t] = 1 /\ g_task_tensor_buf[t] = TaskList[t + 1]
<1>1. DescOwner(t) \in Desc
  BY DescOwnerType
<1>2. DescribedBy(t, desc[DescOwner(t)]) /\ desc[DescOwner(t)].id = total_task_cnt
  BY <1>1 DEF DescInv, DescJoined
<1>3. t < total_task_cnt
  BY PipeConstants DEF Tasks
<1> QED BY <1>2, <1>3 DEF DescribedBy

(* Whose the task at a cursor is.                                          *)
LEMMA AtOwner ==
  ASSUME PipeTypeOK, NEW w \in DetectType, NEW d, DetectCursor(w, d)
  PROVE  /\ w.start <= w.at /\ w.at < w.start + detect_batch_size => DetectOwner(w.at) = d
         /\ w.start < total_task_cnt /\ w.at < w.start => DetectOwner(w.at) # d
<1>1. detect_batch_size \in Nat \ {0} /\ detect_thread_count \in Nat \ {0} /\ total_task_cnt \in Nat
  BY PipeConstants DEF PipeTypeOK
<1>2. w.at \in Nat /\ w.start \in Nat
  BY <1>1 DEF DetectType
<1>3. Block(w.start, detect_batch_size, detect_thread_count, d)
  BY DEF DetectCursor
<1>4. w.start < total_task_cnt =>
        w.start - detect_batch_size * detect_thread_count + detect_batch_size <= w.at
  BY DEF DetectCursor, DetectStride
<1> QED BY <1>1, <1>2, <1>3, <1>4, StripeOwner DEF DetectOwner

LEMMA MinOfTwo ==
  ASSUME NEW a \in Int, NEW b \in Int
  PROVE  Min({a, b}) = IF a <= b THEN a ELSE b
<1> DEFINE m == IF a <= b THEN a ELSE b
<1>1. m \in {a, b} /\ \A y \in {a, b} : m <= y
  OBVIOUS
<1>2. \A x \in {a, b} : (\A y \in {a, b} : x <= y) => x = m
  OBVIOUS
<1> HIDE DEF m
<1>3. Min({a, b}) \in {a, b} /\ \A y \in {a, b} : Min({a, b}) <= y
  BY <1>1 DEF Min
<1> QED BY <1>2, <1>3 DEF m

(* The next task of a thread's own, or the next stripe.                    *)
LEMMA AdvanceIs ==
  ASSUME PipeTypeOK, NEW w \in DetectType, NEW d, DetectCursor(w, d),
         w.start < total_task_cnt, w.start <= w.at
  PROVE  /\ Advance(w) \in DetectType /\ Advance(w).at = w.at + 1 /\ Advance(w).pc = "scan"
         /\ Advance(w).map = w.map
         /\ DetectCursor(Advance(w), d)
         /\ detect_thread_count = 1 =>
              /\ Advance(w).start >= total_task_cnt => Advance(w).at = total_task_cnt
              /\ Advance(w).start < total_task_cnt => Advance(w).start <= Advance(w).at
<1>1. /\ detect_batch_size \in Nat \ {0} /\ detect_thread_count \in Nat \ {0} /\ total_task_cnt \in Nat
  BY PipeConstants DEF PipeTypeOK
<1>2. w.at \in Nat /\ w.start \in Nat /\ w.at < total_task_cnt /\ w.at < w.start + detect_batch_size
  BY <1>1 DEF DetectType, DetectCursor
<1>3. DetectStride \in Nat /\ detect_batch_size <= DetectStride
      /\ DetectStride = detect_thread_count * detect_batch_size
  BY StrideType
<1>4. DetectEnd(w) = IF w.start + detect_batch_size <= total_task_cnt
                       THEN w.start + detect_batch_size ELSE total_task_cnt
  BY <1>1, <1>2, MinOfTwo DEF DetectEnd
<1>5. w.at + 1 \in 0 .. total_task_cnt /\ "scan" \in {"scan", "exp", "slot"}
  BY <1>1, <1>2
<1>6. Block(w.start, detect_batch_size, detect_thread_count, d)
      /\ w.start - DetectStride + detect_batch_size <= w.at
  BY DEF DetectCursor
<1>7. CASE w.at + 1 < DetectEnd(w)
  <2> DEFINE v == [w EXCEPT !.at = @ + 1, !.pc = "scan"]
  <2>1. Advance(w) = v
    BY <1>7 DEF Advance
  <2>2. v \in DetectType /\ v.at = w.at + 1 /\ v.pc = "scan" /\ v.map = w.map /\ v.start = w.start
    BY <1>5 DEF DetectType
  <2> HIDE DEF v
  <2>3. DetectCursor(v, d)
    BY <1>1, <1>2, <1>3, <1>4, <1>6, <1>7, <2>2 DEF DetectCursor
  <2> QED BY <1>1, <1>2, <2>1, <2>2, <2>3
<1>8. CASE ~ (w.at + 1 < DetectEnd(w))
  <2> DEFINE v == [w EXCEPT !.at = @ + 1, !.pc = "scan",
                            !.start = @ + detect_thread_count * detect_batch_size]
  <2>1. Advance(w) = v
    BY <1>8 DEF Advance
  <2>2. w.start + detect_thread_count * detect_batch_size \in Nat
    BY <1>2, <1>3
  <2>3. v \in DetectType /\ v.at = w.at + 1 /\ v.pc = "scan" /\ v.map = w.map
        /\ v.start = w.start + DetectStride
    BY <1>3, <1>5, <2>2 DEF DetectType
  <2> HIDE DEF v
  <2>4. v.at = DetectEnd(w)
    BY <1>1, <1>2, <1>4, <1>8, <2>3
  <2>5. Block(v.start, detect_batch_size, detect_thread_count, d)
    BY <1>1, <1>2, <1>6, <2>3, BlockMoves DEF DetectStride
  <2>6. DetectCursor(v, d)
    BY <1>1, <1>2, <1>3, <1>4, <2>3, <2>4, <2>5 DEF DetectCursor
  <2>7. ASSUME detect_thread_count = 1
        PROVE  /\ v.start >= total_task_cnt => v.at = total_task_cnt
               /\ v.start < total_task_cnt => v.start <= v.at
    <3>1. DetectStride = detect_batch_size
      BY <1>1, <2>7 DEF DetectStride
    <3> QED BY <1>1, <1>2, <1>4, <2>3, <2>4, <3>1
  <2> QED BY <2>1, <2>3, <2>6, <2>7
<1> QED BY <1>7, <1>8

(* What is left to show of a step of detect thread d that leaves v of it.  *)
LEMMA DetectUpdate ==
  ASSUME PipeInv, NEW d \in Detect, NEW v \in DetectType, UNCHANGED detectFrame,
         detect' = [detect EXCEPT ![d] = v],
         found' \in [Tasks -> Seq(Int)],
         g_predecessors' \in [Tasks -> [cnt : Nat, exp : Nat]],
         g_predecessor_ring' \in Seq(Int),
         DetectCursor(v, d),
         \A t \in Tasks : DetectOwner(t) # d => found'[t] = found[t],
         desc_thread_count > 1 => FoundBy(v, d, found'),
         detect_thread_count = 1 => DumpBy(v, found', g_predecessors', g_predecessor_ring')
  PROVE  PipeInv'
<1>1. PipeTypeOK /\ DescInv /\ CursorInv /\ FoundInv
  BY DEF PipeInv
<1>2. /\ Detect' = Detect /\ Desc' = Desc /\ DescJoined' = DescJoined
      /\ desc_thread_count' = desc_thread_count /\ detect_thread_count' = detect_thread_count
      /\ DetectStride' = DetectStride
  BY DEF detectFrame, Detect, Desc, DescJoined, DetectStride
<1>3. \A e \in Detect : detect'[e] = IF e = d THEN v ELSE detect[e]
  BY <1>1 DEF PipeTypeOK
<1>4. detect' \in [Detect -> DetectType]
  BY <1>1 DEF PipeTypeOK
<1>5. PipeTypeOK'
  BY <1>1, <1>2, <1>4 DEF PipeTypeOK, detectFrame
<1>6. DescInv'
  BY <1>1, <1>2 DEF DescInv, DescCursor, DescribedBy, DescOwner, Block, Stride, detectFrame
<1>7. CursorInv'
  <2>1. ASSUME NEW e \in Detect PROVE DetectCursor(detect[e], e)'
    <3>1. DetectCursor(detect'[e], e)
      BY <1>1, <1>3 DEF CursorInv
    <3> QED BY <1>2, <3>1 DEF DetectCursor
  <2> QED BY <1>2, <2>1 DEF CursorInv
<1>8. FoundInv'
  <2> SUFFICES ASSUME NEW e \in Detect, desc_thread_count > 1
               PROVE  FoundBy(detect'[e], e, found')
    BY <1>2 DEF FoundInv, FoundBy, DetectOwner
  <2>1. CASE e = d
    BY <1>3, <2>1
  <2>2. CASE e # d
    <3> DEFINE w == detect[e]
    <3>1. detect'[e] = w /\ FoundBy(w, e, found) /\ DetectCursor(w, e) /\ w \in DetectType
      BY <1>1, <1>3, <2>2 DEF FoundInv, CursorInv, PipeTypeOK
    <3> HIDE DEF w
    <3>2. ASSUME w.pc # "scan" PROVE found'[w.at] = found[w.at]
      <4>1. w.start <= w.at /\ w.at < w.start + detect_batch_size /\ w.at < total_task_cnt
        BY <3>1, <3>2 DEF DetectCursor
      <4>2. DetectOwner(w.at) = e
        BY <1>1, <3>1, <4>1, AtOwner
      <4>3. w.at \in Tasks
        BY <3>1, <4>1, PipeConstants DEF DetectType, Tasks
      <4> QED BY <2>2, <4>2, <4>3
    <3> QED BY <2>2, <3>1, <3>2 DEF FoundBy
  <2> QED BY <2>1, <2>2
<1>9. DumpInv'
  <2> SUFFICES ASSUME detect_thread_count = 1
               PROVE  DumpBy(detect'[0], found', g_predecessors', g_predecessor_ring')
    BY <1>2 DEF DumpInv, DumpBy
  <2>1. d = 0
    BY DEF Detect
  <2> QED BY <1>3, <2>1
<1> QED BY <1>5, <1>6, <1>7, <1>8, <1>9 DEF PipeInv

----------------------------------------------------------------------------
(* The steps of a detect thread.                                           *)
LEMMA PrepareInv ==
  ASSUME PipeInv, NEW d \in Detect, prepare(d)
  PROVE  PipeInv'
<1> DEFINE w == detect[d]
           map == prepare_hash(w.map, g_task_tensor_buf[w.at], w.at)
           v == [w EXCEPT !.map = map, !.at = @ + 1]
<1>1. PipeTypeOK /\ DescInv /\ CursorInv /\ FoundInv
  BY DEF PipeInv
<1>2. /\ DescJoined /\ w.start < total_task_cnt /\ w.pc = "scan" /\ w.at < w.start
      /\ UNCHANGED <<detectFrame, found, g_predecessors, g_predecessor_ring>>
      /\ detect' = [detect EXCEPT ![d].map = prepare_hash(@, g_task_tensor_buf[w.at], w.at),
                                  ![d].at = @ + 1]
  BY DEF prepare, Busy
<1>3. detect' = [detect EXCEPT ![d] = v]
  <2>1. detect \in [Detect -> DetectType]
    BY <1>1 DEF PipeTypeOK
  <2> QED BY <1>2, <2>1 DEF DetectType
<1>4. w \in DetectType /\ total_task_cnt \in Nat /\ detect_batch_size \in Nat \ {0}
  BY <1>1, PipeConstants DEF PipeTypeOK
<1>5. w.at \in Tasks /\ w.at \in Nat /\ w.start \in Nat /\ w.at + 1 \in 0 .. total_task_cnt
      /\ w.map \in MapType(EntryTensors)
  BY <1>2, <1>4 DEF DetectType, Tasks
<1>6. IsTaskData(g_task_tensor_buf[w.at])
  BY <1>1, <1>5 DEF PipeTypeOK
<1>7. map \in MapType(EntryTensors)
      /\ map = detect_task(w.map, g_task_tensor_buf[w.at], w.at).map
  BY <1>5, <1>6, TaskDetected
<1> HIDE DEF map
<1>8. v \in DetectType /\ v.at = w.at + 1 /\ v.start = w.start /\ v.pc = "scan" /\ v.map = map
  BY <1>2, <1>4, <1>5, <1>7 DEF DetectType
<1> HIDE DEF v
<1>9. DetectCursor(w, d)
  BY <1>1 DEF CursorInv
<1>10. DetectCursor(v, d)
  <2>1. DetectStride \in Nat
    BY <1>1, StrideType
  <2> QED BY <1>2, <1>4, <1>5, <1>8, <1>9, <2>1 DEF DetectCursor
<1>11. ASSUME desc_thread_count > 1 PROVE FoundBy(v, d, found')
  <2>1. FoundBy(w, d, found)
    BY <1>1, <1>11 DEF FoundInv
  <2>2. g_task_tensor_buf[w.at] = TaskList[w.at + 1]
    BY <1>1, <1>2, <1>5, <1>11, AllDescribed
  <2>3. map = SequentialRun[w.at].map
    <3>1. w.map = SequentialRun[w.at - 1].map
      BY <1>2, <2>1 DEF FoundBy
    <3> QED BY <1>5, <1>7, <2>2, <3>1, SequentialMaps
  <2>4. v.at - 1 = w.at
    BY <1>5, <1>8
  <2>5. DetectOwner(w.at) # d
    BY <1>1, <1>2, <1>4, <1>9, AtOwner
  <2>6. \A t \in Tasks : t < v.at => t < w.at \/ t = w.at
    BY <1>5, <1>8, PipeConstants DEF Tasks
  <2> QED BY <1>2, <1>8, <2>1, <2>3, <2>4, <2>5, <2>6 DEF FoundBy
<1>12. detect_thread_count # 1
  <2> SUFFICES ASSUME detect_thread_count = 1 PROVE FALSE
    OBVIOUS
  <2>1. d = 0
    BY DEF Detect
  <2> QED BY <1>2, <1>5, <2>1 DEF PipeInv, DumpInv, DumpBy
<1>13. found' \in [Tasks -> Seq(Int)] /\ g_predecessors' \in [Tasks -> [cnt : Nat, exp : Nat]]
       /\ g_predecessor_ring' \in Seq(Int) /\ found' = found
  BY <1>1, <1>2 DEF PipeTypeOK
<1> QED BY <1>2, <1>3, <1>8, <1>10, <1>11, <1>12, <1>13, DetectUpdate

LEMMA DetectOwnInv ==
  ASSUME PipeInv, NEW d \in Detect, detect_own(d)
  PROVE  PipeInv'
<1> DEFINE w == detect[d]
           s == detect_task(w.map, g_task_tensor_buf[w.at], w.at)
           u == [w EXCEPT !.map = s.map]
           x == [w EXCEPT !.map = s.map, !.pc = "exp", !.todo = s.found]
           v == IF s.found = <<>> THEN Advance(u) ELSE x
<1>1. PipeTypeOK /\ DescInv /\ CursorInv /\ FoundInv
  BY DEF PipeInv
<1>2. /\ DescJoined /\ w.start < total_task_cnt /\ w.pc = "scan" /\ w.at >= w.start
      /\ UNCHANGED <<detectFrame, g_predecessors, g_predecessor_ring>>
      /\ found' = [found EXCEPT ![w.at] = s.found]
      /\ detect' = [detect EXCEPT ![d] = v]
  BY Zenon DEF detect_own, Busy
<1>3. w \in DetectType /\ total_task_cnt \in Nat /\ detect_batch_size \in Nat \ {0}
      /\ DetectCursor(w, d)
  BY <1>1, PipeConstants DEF PipeTypeOK, CursorInv
<1>4. w.at < w.start + detect_batch_size /\ w.at < total_task_cnt
  BY <1>2, <1>3 DEF DetectCursor
<1>5. w.at \in Tasks /\ w.at \in Nat /\ w.start \in Nat /\ w.map \in MapType(EntryTensors)
      /\ w.start <= w.at
  BY <1>2, <1>3, <1>4 DEF DetectType, Tasks
<1>6. s.map \in MapType(EntryTensors) /\ s.found \in Seq(Int)
  <2>1. IsTaskData(g_task_tensor_buf[w.at])
    BY <1>1, <1>5 DEF PipeTypeOK
  <2> QED BY <1>5, <2>1, TaskDetected
<1>7. ASSUME desc_thread_count > 1
      PROVE  s = SequentialRun[w.at]
  <2>1. w.map = SequentialRun[w.at - 1].map
    BY <1>1, <1>2, <1>7 DEF FoundInv, FoundBy
  <2>2. g_task_tensor_buf[w.at] = TaskList[w.at + 1]
    BY <1>1, <1>2, <1>5, <1>7, AllDescribed
  <2> QED BY <1>5, <2>1, <2>2, SequentialMaps
<1> HIDE DEF s
<1>8. u \in DetectType /\ u.at = w.at /\ u.start = w.start /\ u.pc = w.pc /\ u.map = s.map
  BY <1>3, <1>6 DEF DetectType
<1>9. x \in DetectType /\ x.at = w.at /\ x.start = w.start /\ x.pc = "exp" /\ x.map = s.map
      /\ x.todo = s.found
  BY <1>3, <1>6 DEF DetectType
<1> HIDE DEF u, x
<1>10. DetectCursor(u, d) /\ DetectCursor(x, d)
  BY <1>2, <1>3, <1>5, <1>8, <1>9 DEF DetectCursor
<1>11. /\ Advance(u) \in DetectType /\ Advance(u).at = w.at + 1 /\ Advance(u).pc = "scan"
       /\ Advance(u).map = s.map
       /\ DetectCursor(Advance(u), d)
       /\ detect_thread_count = 1 =>
            /\ Advance(u).start >= total_task_cnt => Advance(u).at = total_task_cnt
            /\ Advance(u).start < total_task_cnt => Advance(u).start <= Advance(u).at
  BY <1>1, <1>2, <1>5, <1>8, <1>10, AdvanceIs
<1> DEFINE a == Advance(u)
<1> HIDE DEF a
<1>12. v \in DetectType /\ DetectCursor(v, d)
  BY <1>9, <1>10, <1>11
<1>13. /\ found' \in [Tasks -> Seq(Int)]
       /\ \A t \in Tasks : found'[t] = IF t = w.at THEN s.found ELSE found[t]
  <2> HIDE DEF w
  <2> QED BY <1>1, <1>2, <1>5, <1>6 DEF PipeTypeOK
<1>14. DetectOwner(w.at) = d
  BY <1>1, <1>3, <1>4, <1>5, AtOwner
<1>15. ASSUME desc_thread_count > 1 PROVE FoundBy(v, d, found')
  <2>1. FoundBy(w, d, found)
    BY <1>1, <1>15 DEF FoundInv
  <2>2. found'[w.at] = SequentialRun[w.at].found /\ s.map = SequentialRun[w.at].map
    BY <1>5, <1>7, <1>13, <1>15
  <2>3. \A t \in Tasks : t < w.at /\ DetectOwner(t) = d => found'[t] = SequentialRun[t].found
    <3>1. \A t \in Tasks : t < w.at => t # w.at
      BY <1>5 DEF Tasks
    <3>2. \A t \in Tasks : t < w.at /\ DetectOwner(t) = d => found[t] = SequentialRun[t].found
      BY <2>1 DEF FoundBy
    <3> HIDE DEF w
    <3> QED BY <1>13, <3>1, <3>2
  <2>4. CASE s.found = <<>>
    <3>1. v = a /\ a.at = w.at + 1 /\ a.pc = "scan" /\ a.map = s.map
      BY <1>11, <2>4 DEF a
    <3>2. a.at - 1 = w.at
      BY <1>5, <3>1
    <3>3. \A t \in Tasks : t < a.at => t < w.at \/ t = w.at
      BY <1>5, <3>1, PipeConstants DEF Tasks
    <3> HIDE DEF v
    <3> QED BY <2>2, <2>3, <3>1, <3>2, <3>3 DEF FoundBy
  <2>5. CASE s.found # <<>>
    <3>1. v = x
      BY <2>5
    <3> HIDE DEF v
    <3> QED BY <1>9, <2>2, <2>3, <3>1 DEF FoundBy
  <2> QED BY <2>4, <2>5
<1>16. ASSUME detect_thread_count = 1
       PROVE  DumpBy(v, found', g_predecessors', g_predecessor_ring')
  <2>1. DumpBy(w, found, g_predecessors, g_predecessor_ring)
    <3>1. d = 0
      BY <1>16 DEF Detect
    <3> QED BY <1>16, <3>1 DEF PipeInv, DumpInv
  <2>2. /\ \A t \in Tasks : t < w.at => WordsOf(g_predecessors'[t], g_predecessor_ring', found'[t])
        /\ \A t \in Tasks : t > w.at \/ t = w.at =>
             g_predecessors'[t].cnt = 0 /\ g_predecessors'[t].exp = 0
    <3>1. \A t \in Tasks : t < w.at => t # w.at
      BY <1>5 DEF Tasks
    <3>2. \A t \in Tasks : t < w.at => found'[t] = found[t]
      BY <1>13, <3>1
    <3>3. g_predecessors' = g_predecessors /\ g_predecessor_ring' = g_predecessor_ring
      BY <1>2
    <3>4. w.pc = "scan"
      BY <1>2
    <3> HIDE DEF w
    <3> QED BY <2>1, <3>2, <3>3, <3>4 DEF DumpBy
  <2>3. CASE s.found = <<>>
    <3>1. v = a /\ a.at = w.at + 1 /\ a.pc = "scan"
      BY <1>11, <2>3 DEF a
    <3>2. /\ a.start >= total_task_cnt => a.at = total_task_cnt
          /\ a.start < total_task_cnt => a.start <= a.at
      BY <1>11, <1>16 DEF a
    <3>3. WordsOf(g_predecessors'[w.at], g_predecessor_ring', found'[w.at])
      <4>1. found'[w.at] = <<>> /\ Len(<<>>) = 0
        BY <1>5, <1>13, <2>3
      <4>2. g_predecessors'[w.at].cnt = 0 /\ g_predecessors'[w.at].exp = 0
        BY <1>5, <2>2
      <4>3. Len(g_predecessor_ring') \in Nat
        BY <1>1, <1>2, LenProperties DEF PipeTypeOK
      <4> QED BY <4>1, <4>2, <4>3 DEF WordsOf
    <3>4. \A t \in Tasks : t < a.at => t < w.at \/ t = w.at
      BY <1>5, <3>1, PipeConstants DEF Tasks
    <3>5. \A t \in Tasks : t > a.at \/ t = a.at => t > w.at
      BY <1>5, <3>1, PipeConstants DEF Tasks
    <3> HIDE DEF v, w
    <3> QED BY <2>2, <3>1, <3>2, <3>3, <3>4, <3>5 DEF DumpBy
  <2>4. CASE s.found # <<>>
    <3>1. v = x
      BY <2>4
    <3>2. found'[w.at] = s.found /\ w.at \in Tasks /\ w.start <= w.at /\ w.start < total_task_cnt
      BY <1>2, <1>5, <1>13
    <3>3. ~ (w.start >= total_task_cnt)
      BY <1>3, <1>5, <3>2
    <3> HIDE DEF v, w
    <3> QED BY <1>9, <2>2, <3>1, <3>2, <3>3 DEF DumpBy
  <2> QED BY <2>3, <2>4
<1>17. \A t \in Tasks : DetectOwner(t) # d => found'[t] = found[t]
  BY <1>13, <1>14
<1>18. g_predecessors' \in [Tasks -> [cnt : Nat, exp : Nat]] /\ g_predecessor_ring' \in Seq(Int)
       /\ UNCHANGED detectFrame
  BY <1>1, <1>2 DEF PipeTypeOK
<1> HIDE DEF v
<1> QED BY <1>2, <1>12, <1>13, <1>15, <1>16, <1>17, <1>18, DetectUpdate

(* Words written: none yet, one more, all of them; and one after the       *)
(* words of another task.                                                  *)
LEMMA WordsBegin ==
  ASSUME NEW p, NEW ring \in Seq(Int), NEW f \in Seq(Int), p.exp = Len(ring)
  PROVE  Written(p, ring, f, f)
<1>1. Len(ring) \in Nat /\ Len(f) \in Nat
  BY LenProperties
<1>2. Len(ring) - p.exp = 0 /\ Len(f) = 0 + Len(f) /\ \A k \in 1 .. Len(f) : 0 + k = k
  BY <1>1
<1> DEFINE n == Len(ring) - p.exp
<1>3. \A k \in 1 .. n : FALSE
  BY <1>2
<1> HIDE DEF n
<1> QED BY <1>1, <1>2, <1>3 DEF Written, n

LEMMA WordsGo ==
  ASSUME NEW p, p.exp \in Nat, NEW ring \in Seq(Int), NEW f \in Seq(Int),
         NEW todo \in Seq(Int), todo # <<>>, Written(p, ring, f, todo)
  PROVE  Written(p, Append(ring, Head(todo)), f, Tail(todo))
<1> DEFINE r == Append(ring, Head(todo))
           n == Len(ring) - p.exp
           m == Len(r) - p.exp
           u == Tail(todo)
           e == p.exp
<1>1. Len(ring) \in Nat /\ Len(f) \in Nat /\ Len(todo) \in Nat \ {0} /\ Head(todo) = todo[1]
  BY LenProperties, EmptySeq
<1>2. /\ Len(r) = Len(ring) + 1 /\ r[Len(ring) + 1] = todo[1]
      /\ \A k \in 1 .. Len(ring) : r[k] = ring[k]
  BY <1>1, AppendProperties
<1>3. /\ Len(u) = Len(todo) - 1
      /\ \A k \in 1 .. Len(todo) - 1 : u[k] = todo[k + 1]
  BY <1>1, HeadTailProperties
<1>4. /\ n \in Int /\ n >= 0 /\ e \in Nat
      /\ Len(f) = n + Len(todo)
      /\ \A k \in 1 .. n : ring[e + k] = f[k]
      /\ \A k \in 1 .. Len(todo) : todo[k] = f[n + k]
  <2>1. p.exp <= Len(ring) /\ p.exp \in Nat
    BY DEF Written
  <2>2. n \in Int /\ n >= 0 /\ e \in Nat
    BY <1>1, <2>1
  <2> QED BY <2>2 DEF Written
<1>5. e + n = Len(ring) /\ m = n + 1
  <2> DEFINE l == Len(ring)
             c == Len(r)
  <2>1. l \in Nat /\ c = l + 1 /\ e \in Nat /\ n = l - e /\ m = c - e
    BY <1>1, <1>2, <1>4
  <2> HIDE DEF l, c, e, n, m
  <2>2. e + n = l /\ m = n + 1
    BY <2>1
  <2> QED BY <2>2 DEF l
<1> HIDE DEF r, n, m, u, e
<1>6. \A k \in 1 .. m : r[e + k] = f[k]
  <2> TAKE k \in 1 .. m
  <2> DEFINE l == Len(ring)
  <2>1. l \in Nat /\ n \in Int /\ e \in Nat /\ e + n = l
    BY <1>1, <1>4, <1>5
  <2> HIDE DEF l
  <2>2. CASE k \in 1 .. n
    <3>1. e + k \in 1 .. l
      BY <2>2, <2>1
    <3>2. r[e + k] = ring[e + k]
      BY <1>2, <3>1 DEF l
    <3>3. ring[e + k] = f[k]
      BY <1>4, <2>2
    <3> QED BY <3>2, <3>3
  <2>3. CASE k = n + 1
    <3>1. e + k = l + 1
      BY <2>3, <2>1
    <3>2. 1 \in 1 .. Len(todo)
      BY <1>1
    <3>3. todo[1] = f[n + 1]
      BY <1>4, <3>2
    <3>4. r[l + 1] = todo[1]
      BY <1>2 DEF l
    <3> QED BY <2>3, <3>1, <3>3, <3>4
  <2>4. k \in 1 .. n \/ k = n + 1
    <3>1. n \in Int /\ m = n + 1
      BY <1>4, <1>5
    <3> QED BY <3>1
  <2> QED BY <2>2, <2>3, <2>4
<1>7. \A k \in 1 .. Len(u) : u[k] = f[m + k]
  <2> TAKE k \in 1 .. Len(u)
  <2>1. k \in 1 .. Len(todo) - 1 /\ k + 1 \in 1 .. Len(todo) /\ n + (k + 1) = m + k
    BY <1>1, <1>3, <1>4, <1>5
  <2> QED BY <1>3, <1>4, <2>1
<1>8. e <= Len(r) /\ Len(f) = m + Len(u)
  BY <1>1, <1>2, <1>3, <1>4, <1>5
<1> QED BY <1>6, <1>7, <1>8 DEF Written, r, m, u, e

LEMMA WordsEnd ==
  ASSUME NEW p, p.exp \in Nat, NEW ring \in Seq(Int), NEW f \in Seq(Int),
         Written(p, ring, f, <<>>), NEW q, q.exp = p.exp, q.cnt = Len(f)
  PROVE  WordsOf(q, ring, f)
<1>1. Len(ring) \in Nat /\ Len(f) \in Nat /\ Len(<<>>) = 0
  BY LenProperties
<1>2. Len(f) = Len(ring) - p.exp /\ p.exp + Len(f) = Len(ring)
  BY <1>1 DEF Written
<1>3. \A k \in 1 .. Len(f) : ring[p.exp + k] = f[k]
  BY <1>2 DEF Written
<1> QED BY <1>1, <1>2, <1>3 DEF WordsOf

LEMMA WordsKept ==
  ASSUME NEW p, p.exp \in Nat, NEW ring \in Seq(Int), NEW f \in Seq(Int), NEW word \in Int,
         WordsOf(p, ring, f)
  PROVE  WordsOf(p, Append(ring, word), f)
<1> DEFINE r == Append(ring, word)
<1>1. Len(ring) \in Nat /\ Len(f) \in Nat
  BY LenProperties
<1>2. Len(r) = Len(ring) + 1 /\ \A k \in 1 .. Len(ring) : r[k] = ring[k]
  BY <1>1, AppendProperties
<1> DEFINE e == p.exp
<1>3. /\ e \in Nat /\ e + p.cnt <= Len(ring) /\ p.cnt = Len(f)
      /\ \A k \in 1 .. Len(f) : ring[e + k] = f[k]
  BY DEF WordsOf
<1> HIDE DEF r, e
<1>4. \A k \in 1 .. Len(f) : r[e + k] = f[k]
  <2> TAKE k \in 1 .. Len(f)
  <2>1. e + k \in 1 .. Len(ring)
    <3> DEFINE l == Len(ring)
               c == Len(f)
    <3>1. l \in Nat /\ c \in Nat /\ e \in Nat /\ e + c <= l /\ k \in 1 .. c
      BY <1>1, <1>3
    <3> HIDE DEF l, c
    <3>2. e + k \in 1 .. l
      BY <3>1
    <3> QED BY <3>2 DEF l
  <2>2. r[e + k] = ring[e + k]
    BY <1>2, <2>1
  <2>3. ring[e + k] = f[k]
    BY <1>3
  <2> QED BY <2>2, <2>3
<1>5. e + p.cnt <= Len(r)
  BY <1>1, <1>2, <1>3
<1> QED BY <1>3, <1>4, <1>5 DEF WordsOf, r, e

(* The task in work of a thread that adds predecessors.                    *)
LEMMA InWork ==
  ASSUME PipeInv, NEW d \in Detect, detect[d].pc # "scan"
  PROVE  LET w == detect[d] IN
         /\ w \in DetectType /\ DetectCursor(w, d) /\ DetectOwner(w.at) = d
         /\ w.at \in Tasks /\ w.start < total_task_cnt /\ w.start <= w.at
         /\ g_predecessors[w.at] \in [cnt : Nat, exp : Nat] /\ found[w.at] \in Seq(Int)
         /\ desc_thread_count > 1 => FoundBy(w, d, found)
         /\ detect_thread_count = 1 => d = 0 /\ DumpBy(w, found, g_predecessors, g_predecessor_ring)
<1> DEFINE w == detect[d]
<1>1. PipeTypeOK /\ CursorInv /\ FoundInv /\ DumpInv
  BY DEF PipeInv
<1>2. w \in DetectType /\ DetectCursor(w, d) /\ total_task_cnt \in Nat
  BY <1>1, PipeConstants DEF PipeTypeOK, CursorInv
<1>3. w.start < total_task_cnt /\ w.start <= w.at /\ w.at < w.start + detect_batch_size
      /\ w.at < total_task_cnt
  BY <1>2 DEF DetectCursor
<1>4. w.at \in Tasks /\ w.at \in Nat
  BY <1>2, <1>3 DEF DetectType, Tasks
<1>5. DetectOwner(w.at) = d
  BY <1>1, <1>2, <1>3, <1>4, AtOwner
<1>6. g_predecessors[w.at] \in [cnt : Nat, exp : Nat] /\ found[w.at] \in Seq(Int)
  BY <1>1, <1>4 DEF PipeTypeOK
<1>7. desc_thread_count > 1 => FoundBy(w, d, found)
  BY <1>1 DEF FoundInv
<1>8. ASSUME detect_thread_count = 1
      PROVE  d = 0 /\ DumpBy(w, found, g_predecessors, g_predecessor_ring)
  <2>1. d = 0
    BY <1>8 DEF Detect
  <2> QED BY <1>1, <1>8, <2>1 DEF DumpInv
<1> QED BY <1>2, <1>3, <1>4, <1>5, <1>6, <1>7, <1>8

LEMMA ExpInv ==
  ASSUME PipeInv, NEW d \in Detect, exp(d)
  PROVE  PipeInv'
<1> DEFINE w == detect[d]
           v == [w EXCEPT !.pc = "slot"]
           p == [g_predecessors[w.at] EXCEPT !.exp = FirstWord(w.at)]
<1>1. PipeTypeOK
  BY DEF PipeInv
<1>2. /\ w.pc = "exp" /\ UNCHANGED <<detectFrame, found, g_predecessor_ring>>
      /\ g_predecessors' = [g_predecessors EXCEPT ![w.at].exp = FirstWord(w.at)]
      /\ detect' = [detect EXCEPT ![d].pc = "slot"]
  BY DEF exp
<1>3. /\ w \in DetectType /\ DetectCursor(w, d) /\ w.at \in Tasks
      /\ w.start < total_task_cnt /\ w.start <= w.at
      /\ g_predecessors[w.at] \in [cnt : Nat, exp : Nat] /\ found[w.at] \in Seq(Int)
      /\ desc_thread_count > 1 => FoundBy(w, d, found)
      /\ detect_thread_count = 1 => d = 0 /\ DumpBy(w, found, g_predecessors, g_predecessor_ring)
  BY <1>2, InWork
<1>4. /\ FirstWord(w.at) \in Nat
      /\ g_predecessors[w.at].cnt = 0 => FirstWord(w.at) = Len(g_predecessor_ring)
  <2>1. Len(g_predecessor_ring) \in Nat
    BY <1>1, LenProperties DEF PipeTypeOK
  <2> QED BY <1>3, <2>1 DEF FirstWord
<1>5. detect' = [detect EXCEPT ![d] = v]
  BY <1>1, <1>2 DEF PipeTypeOK
<1>6. /\ g_predecessors' \in [Tasks -> [cnt : Nat, exp : Nat]]
      /\ \A t \in Tasks : t # w.at => g_predecessors'[t] = g_predecessors[t]
      /\ g_predecessors'[w.at] = p
      /\ p.cnt = g_predecessors[w.at].cnt /\ p.exp = FirstWord(w.at)
  <2> DEFINE x == w.at
             y == FirstWord(x)
  <2>1. x \in Tasks /\ y \in Nat /\ g_predecessors \in [Tasks -> [cnt : Nat, exp : Nat]]
    BY <1>1, <1>3, <1>4 DEF PipeTypeOK
  <2>2. g_predecessors' = [g_predecessors EXCEPT ![x] = [g_predecessors[x] EXCEPT !.exp = y]]
    BY <1>2, <2>1
  <2> HIDE DEF x, y
  <2>3. [g_predecessors[x] EXCEPT !.exp = y] \in [cnt : Nat, exp : Nat]
    BY <2>1
  <2>4. /\ g_predecessors' \in [Tasks -> [cnt : Nat, exp : Nat]]
        /\ \A t \in Tasks : t # x => g_predecessors'[t] = g_predecessors[t]
        /\ g_predecessors'[x] = [g_predecessors[x] EXCEPT !.exp = y]
        /\ [g_predecessors[x] EXCEPT !.exp = y].cnt = g_predecessors[x].cnt
        /\ [g_predecessors[x] EXCEPT !.exp = y].exp = y
    BY <2>1, <2>2, <2>3
  <2> QED BY <2>4 DEF x, y
<1> HIDE DEF p
<1>7. /\ v \in DetectType /\ v.at = w.at /\ v.start = w.start /\ v.pc = "slot"
      /\ v.map = w.map /\ v.todo = w.todo
  BY <1>3 DEF DetectType
<1> HIDE DEF v
<1>8. DetectCursor(v, d)
  BY <1>2, <1>3, <1>7 DEF DetectCursor
<1>9. desc_thread_count > 1 => FoundBy(v, d, found')
  BY <1>2, <1>3, <1>7 DEF FoundBy
<1>10. ASSUME detect_thread_count = 1
       PROVE  DumpBy(v, found', g_predecessors', g_predecessor_ring')
  <2>1. DumpBy(w, found, g_predecessors, g_predecessor_ring)
    BY <1>3, <1>10
  <2>2. w.todo = found[w.at] /\ g_predecessors[w.at].cnt = 0
    BY <1>2, <2>1 DEF DumpBy
  <2>3. Written(p, g_predecessor_ring, found[w.at], w.todo)
    BY <1>1, <1>3, <1>4, <1>6, <2>2, WordsBegin DEF PipeTypeOK
  <2>4. \A t \in Tasks : t < w.at \/ t > w.at => t # w.at
    BY <1>3 DEF Tasks
  <2> HIDE DEF w
  <2> QED BY <1>2, <1>3, <1>6, <1>7, <2>1, <2>2, <2>3, <2>4 DEF DumpBy
<1>11. found' \in [Tasks -> Seq(Int)] /\ g_predecessor_ring' \in Seq(Int) /\ found' = found
       /\ UNCHANGED detectFrame
  BY <1>1, <1>2 DEF PipeTypeOK
<1> QED BY <1>5, <1>6, <1>7, <1>8, <1>9, <1>10, <1>11, DetectUpdate

LEMMA SlotInv ==
  ASSUME PipeInv, NEW d \in Detect, slot(d)
  PROVE  PipeInv'
<1> DEFINE w == detect[d]
           v == [w EXCEPT !.todo = Tail(@)]
           r == Append(g_predecessor_ring, Head(w.todo))
<1>1. PipeTypeOK
  BY DEF PipeInv
<1>2. /\ w.pc = "slot" /\ w.todo # <<>> /\ UNCHANGED <<detectFrame, found, g_predecessors>>
      /\ g_predecessor_ring' = r
      /\ detect' = [detect EXCEPT ![d].todo = Tail(@)]
  BY DEF slot
<1>3. /\ w \in DetectType /\ DetectCursor(w, d) /\ w.at \in Tasks
      /\ w.start < total_task_cnt /\ w.start <= w.at
      /\ g_predecessors[w.at] \in [cnt : Nat, exp : Nat] /\ found[w.at] \in Seq(Int)
      /\ desc_thread_count > 1 => FoundBy(w, d, found)
      /\ detect_thread_count = 1 => d = 0 /\ DumpBy(w, found, g_predecessors, g_predecessor_ring)
  BY <1>2, InWork
<1>4. w.todo \in Seq(Int) /\ Head(w.todo) \in Int /\ Tail(w.todo) \in Seq(Int)
  <2>1. w.todo \in Seq(Int)
    BY <1>3 DEF DetectType
  <2> QED BY <1>2, <2>1, HeadTailProperties
<1>5. r \in Seq(Int)
  BY <1>1, <1>4, AppendProperties DEF PipeTypeOK
<1>6. detect' = [detect EXCEPT ![d] = v]
  BY <1>1, <1>2 DEF PipeTypeOK
<1>7. /\ v \in DetectType /\ v.at = w.at /\ v.start = w.start /\ v.pc = "slot"
      /\ v.map = w.map /\ v.todo = Tail(w.todo)
  BY <1>2, <1>3, <1>4 DEF DetectType
<1> HIDE DEF v
<1>8. DetectCursor(v, d)
  BY <1>2, <1>3, <1>7 DEF DetectCursor
<1>9. desc_thread_count > 1 => FoundBy(v, d, found')
  BY <1>2, <1>3, <1>7 DEF FoundBy
<1>10. ASSUME detect_thread_count = 1
       PROVE  DumpBy(v, found', g_predecessors', g_predecessor_ring')
  <2>1. DumpBy(w, found, g_predecessors, g_predecessor_ring)
    BY <1>3, <1>10
  <2>2. \A t \in Tasks : t < w.at => WordsOf(g_predecessors[t], r, found[t])
    <3> SUFFICES ASSUME NEW t \in Tasks, t < w.at
                 PROVE  WordsOf(g_predecessors[t], r, found[t])
      OBVIOUS
    <3>1. g_predecessors[t].exp \in Nat /\ found[t] \in Seq(Int) /\ g_predecessor_ring \in Seq(Int)
      BY <1>1 DEF PipeTypeOK
    <3>2. WordsOf(g_predecessors[t], g_predecessor_ring, found[t])
      BY <2>1 DEF DumpBy
    <3> QED BY <1>4, <3>1, <3>2, WordsKept
  <2>3. Written(g_predecessors[w.at], r, found[w.at], Tail(w.todo))
    <3>1. g_predecessors[w.at].exp \in Nat /\ g_predecessor_ring \in Seq(Int)
      BY <1>1, <1>3 DEF PipeTypeOK
    <3>2. Written(g_predecessors[w.at], g_predecessor_ring, found[w.at], w.todo)
      BY <1>2, <2>1 DEF DumpBy
    <3> QED BY <1>2, <1>3, <1>4, <3>1, <3>2, WordsGo
  <2> HIDE DEF w, r
  <2> QED BY <1>2, <1>3, <1>7, <2>1, <2>2, <2>3 DEF DumpBy
<1>11. found' \in [Tasks -> Seq(Int)] /\ g_predecessor_ring' \in Seq(Int) /\ found' = found
       /\ g_predecessors' \in [Tasks -> [cnt : Nat, exp : Nat]] /\ UNCHANGED detectFrame
  BY <1>1, <1>2, <1>5 DEF PipeTypeOK
<1> QED BY <1>6, <1>7, <1>8, <1>9, <1>10, <1>11, DetectUpdate

LEMMA CntInv ==
  ASSUME PipeInv, NEW d \in Detect, cnt(d)
  PROVE  PipeInv'
<1> DEFINE w == detect[d]
           v == Advance(w)
           f == found[w.at]
           p == [g_predecessors[w.at] EXCEPT !.cnt = Len(f)]
<1>1. PipeTypeOK
  BY DEF PipeInv
<1>2. /\ w.pc = "slot" /\ w.todo = <<>> /\ UNCHANGED <<detectFrame, found, g_predecessor_ring>>
      /\ g_predecessors' = [g_predecessors EXCEPT ![w.at].cnt = Len(f)]
      /\ detect' = [detect EXCEPT ![d] = v]
  BY Zenon DEF cnt
<1>3. /\ w \in DetectType /\ DetectCursor(w, d) /\ w.at \in Tasks /\ w.at \in Nat
      /\ w.start < total_task_cnt /\ w.start <= w.at
      /\ g_predecessors[w.at] \in [cnt : Nat, exp : Nat] /\ f \in Seq(Int) /\ Len(f) \in Nat
      /\ desc_thread_count > 1 => FoundBy(w, d, found)
      /\ detect_thread_count = 1 => d = 0 /\ DumpBy(w, found, g_predecessors, g_predecessor_ring)
  BY <1>2, InWork, LenProperties DEF Tasks
<1>4. /\ v \in DetectType /\ v.at = w.at + 1 /\ v.pc = "scan" /\ v.map = w.map
      /\ DetectCursor(v, d)
      /\ detect_thread_count = 1 =>
           /\ v.start >= total_task_cnt => v.at = total_task_cnt
           /\ v.start < total_task_cnt => v.start <= v.at
  BY <1>1, <1>3, AdvanceIs
<1> HIDE DEF v
<1>5. /\ g_predecessors' \in [Tasks -> [cnt : Nat, exp : Nat]]
      /\ \A t \in Tasks : t # w.at => g_predecessors'[t] = g_predecessors[t]
      /\ g_predecessors'[w.at] = p
      /\ p.cnt = Len(f) /\ p.exp = g_predecessors[w.at].exp
  <2> DEFINE x == w.at
             y == Len(f)
  <2>1. x \in Tasks /\ y \in Nat /\ g_predecessors \in [Tasks -> [cnt : Nat, exp : Nat]]
    BY <1>1, <1>3 DEF PipeTypeOK
  <2>2. g_predecessors' = [g_predecessors EXCEPT ![x] = [g_predecessors[x] EXCEPT !.cnt = y]]
    BY <1>2, <2>1
  <2> HIDE DEF x, y
  <2>3. [g_predecessors[x] EXCEPT !.cnt = y] \in [cnt : Nat, exp : Nat]
    BY <2>1
  <2>4. /\ g_predecessors' \in [Tasks -> [cnt : Nat, exp : Nat]]
        /\ \A t \in Tasks : t # x => g_predecessors'[t] = g_predecessors[t]
        /\ g_predecessors'[x] = [g_predecessors[x] EXCEPT !.cnt = y]
        /\ [g_predecessors[x] EXCEPT !.cnt = y].cnt = y
        /\ [g_predecessors[x] EXCEPT !.cnt = y].exp = g_predecessors[x].exp
    BY <2>1, <2>2, <2>3
  <2> QED BY <2>4 DEF x, y
<1> HIDE DEF p
<1>6. /\ \A t \in Tasks : t < v.at => t < w.at \/ t = w.at
      /\ \A t \in Tasks : t > v.at \/ t = v.at => t > w.at
      /\ \A t \in Tasks : t > w.at \/ t < w.at => t # w.at
      /\ v.at - 1 = w.at
  <2> DEFINE x == w.at
             y == v.at
  <2>1. x \in Nat /\ y = x + 1 /\ \A t \in Tasks : t \in Nat
    BY <1>3, <1>4, PipeConstants DEF Tasks
  <2> HIDE DEF x, y
  <2>2. \A t \in Nat : /\ t < y => t < x \/ t = x
                       /\ t > y \/ t = y => t > x
                       /\ t > x \/ t < x => t # x
    BY <2>1
  <2>3. y - 1 = x
    BY <2>1
  <2> QED BY <2>1, <2>2, <2>3 DEF x, y
<1>7. ASSUME desc_thread_count > 1 PROVE FoundBy(v, d, found')
  <2>1. FoundBy(w, d, found) /\ found' = found
    BY <1>2, <1>3, <1>7
  <2>2. found[w.at] = SequentialRun[w.at].found /\ w.map = SequentialRun[w.at].map
    BY <1>2, <2>1 DEF FoundBy
  <2> HIDE DEF w
  <2> QED BY <1>4, <1>6, <2>1, <2>2 DEF FoundBy
<1>8. ASSUME detect_thread_count = 1
      PROVE  DumpBy(v, found', g_predecessors', g_predecessor_ring')
  <2>1. DumpBy(w, found, g_predecessors, g_predecessor_ring)
    BY <1>3, <1>8
  <2>2. WordsOf(p, g_predecessor_ring, f)
    <3>1. Written(g_predecessors[w.at], g_predecessor_ring, f, <<>>)
      BY <1>2, <2>1 DEF DumpBy
    <3>2. g_predecessors[w.at].exp \in Nat /\ g_predecessor_ring \in Seq(Int)
      BY <1>1, <1>3 DEF PipeTypeOK
    <3> QED BY <1>3, <1>5, <3>1, <3>2, WordsEnd
  <2>3. found' = found /\ g_predecessor_ring' = g_predecessor_ring /\ found[w.at] = f
    BY <1>2
  <2>4. \A t \in Tasks : t < v.at => WordsOf(g_predecessors'[t], g_predecessor_ring', found'[t])
    <3> HIDE DEF w, f
    <3> QED BY <1>5, <1>6, <2>1, <2>2, <2>3 DEF DumpBy
  <2>5. \A t \in Tasks : t > v.at \/ t = v.at => g_predecessors'[t].cnt = 0 /\ g_predecessors'[t].exp = 0
    <3> HIDE DEF w
    <3> QED BY <1>5, <1>6, <2>1 DEF DumpBy
  <2> HIDE DEF w, f
  <2> QED BY <1>4, <1>8, <2>4, <2>5 DEF DumpBy
<1>9. found' \in [Tasks -> Seq(Int)] /\ g_predecessor_ring' \in Seq(Int) /\ found' = found
      /\ UNCHANGED detectFrame
  BY <1>1, <1>2 DEF PipeTypeOK
<1> QED BY <1>2, <1>4, <1>5, <1>7, <1>8, <1>9, DetectUpdate

----------------------------------------------------------------------------
LEMMA NextInv == PipeInv /\ [Next]_vars => PipeInv'
<1> SUFFICES ASSUME PipeInv, [Next]_vars PROVE PipeInv'
  OBVIOUS
<1>1. ASSUME NEW d \in Desc, DescThread(d) PROVE PipeInv'
  BY <1>1, DescDoInv, DescSkipInv DEF DescThread
<1>2. ASSUME NEW d \in Detect, DetectThread(d) PROVE PipeInv'
  BY <1>2, PrepareInv, DetectOwnInv, ExpInv, SlotInv, CntInv DEF DetectThread
<1>3. ASSUME UNCHANGED vars PROVE PipeInv'
  <2>1. PipeTypeOK'
    BY <1>3 DEF vars, PipeInv, PipeTypeOK, Desc, Detect
  <2>2. DescInv'
    BY <1>3 DEF vars, PipeInv, DescInv, DescCursor, DescribedBy, DescOwner, Stride, Desc
  <2>3. CursorInv'
    BY <1>3 DEF vars, PipeInv, CursorInv, DetectCursor, DetectStride, DescJoined, Desc, Detect
  <2>4. FoundInv'
    BY <1>3 DEF vars, PipeInv, FoundInv, FoundBy, DetectOwner, Detect
  <2>5. DumpInv'
    BY <1>3 DEF vars, PipeInv, DumpInv, DumpBy
  <2> QED BY <2>1, <2>2, <2>3, <2>4, <2>5 DEF PipeInv
<1> QED BY <1>1, <1>2, <1>3 DEF Next, finished

(* In every reachable state of the pipeline the types hold, each thread's  *)
(* cursor is in or behind a stripe of its own, what is described and what  *)
(* is found agrees with the order of the tasks, and the words of a single  *)
(* detect thread follow one another (DESC_DO_OR_SKIP, detect_thread_main,  *)
(* add_predecessors in orchestrator.c).                                    *)
THEOREM PipeInvHolds == Spec => []PipeInv
<1>1. Init => PipeInv
  BY InitInv
<1>2. PipeInv /\ [Next]_vars => PipeInv'
  BY NextInv
<1> QED BY <1>1, <1>2, PTL DEF Spec

(* When the desc threads are joined, each task was described by exactly    *)
(* one of them: for two threads or more the stripes of DESC_DO_OR_SKIP     *)
(* leave out no task and share none, whatever their size.                  *)
THEOREM DescribedOnceHolds == Spec => []DescribedOnce
<1>1. PipeInv => DescribedOnce
  BY AllDescribed DEF PipeInv, DescribedOnce
<1> QED BY <1>1, PipeInvHolds, PTL

(* What a detect thread finds for a task of its own is what one map that   *)
(* takes every task in order finds: prepare_hash leaves the map as         *)
(* detect_task would, for any number of threads and any size of stripe.    *)
THEOREM FoundAsSequentialHolds == Spec => []FoundAsSequential
<1>1. PipeInv => FoundAsSequential
  <2> SUFFICES ASSUME PipeInv, desc_thread_count > 1,
                      NEW d \in Detect, NEW t \in Tasks, t < detect[d].at,
                      (t \div detect_batch_size) % detect_thread_count = d
               PROVE  found[t] = Sequential[t]
    BY DEF FoundAsSequential
  <2>1. FoundBy(detect[d], d, found)
    BY DEF PipeInv, FoundInv
  <2>2. found[t] = SequentialRun[t].found
    BY <2>1 DEF FoundBy, DetectOwner
  <2> QED BY <2>2, SequentialIs
<1> QED BY <1>1, PipeInvHolds, PTL

(* With one detect thread, the words dump_predecessors prints for a task   *)
(* are the predecessors the thread found for it, in their order: no word   *)
(* of another task comes between those of add_predecessors.                *)
THEOREM DumpedAloneHolds == Spec => []DumpedAlone
<1>1. PipeInv => DumpedAlone
  <2> SUFFICES ASSUME PipeInv, DetectJoined, detect_thread_count = 1, NEW t \in Tasks
               PROVE  Dumped(t) = found[t]
    BY DEF DumpedAlone
  <2>1. DumpBy(detect[0], found, g_predecessors, g_predecessor_ring) /\ PipeTypeOK
    BY DEF PipeInv, DumpInv
  <2>2. detect[0].at = total_task_cnt
    <3>1. detect[0].start >= total_task_cnt
      BY DEF DetectJoined, Detect
    <3> QED BY <2>1, <3>1 DEF DumpBy
  <2>3. t < total_task_cnt
    BY PipeConstants DEF Tasks
  <2> DEFINE e == g_predecessors[t].exp
             c == g_predecessors[t].cnt
             f == found[t]
             ring == g_predecessor_ring
  <2>4. WordsOf(g_predecessors[t], ring, f)
    BY <2>1, <2>2, <2>3 DEF DumpBy
  <2>5. e \in Nat /\ c \in Nat /\ f \in Seq(Int) /\ ring \in Seq(Int)
    BY <2>1 DEF PipeTypeOK
  <2>6. e + c <= Len(ring) /\ c = Len(f) /\ \A k \in 1 .. Len(f) : ring[e + k] = f[k]
    BY <2>4 DEF WordsOf
  <2> HIDE DEF e, c, f, ring
  <2>7. Len(ring) \in Nat
    BY <2>5, LenProperties
  <2>8. \A i \in e + 1 .. e + c : i \in 1 .. Len(ring)
    BY <2>5, <2>6, <2>7
  <2> DEFINE s == SubSeq(ring, e + 1, e + c)
  <2>9. s \in Seq(Int) /\ Len(s) = c /\ \A k \in 1 .. c : s[k] = ring[e + k]
    <3>1. /\ s \in Seq(Int)
          /\ Len(s) = IF e + 1 <= e + c THEN e + c - (e + 1) + 1 ELSE 0
          /\ \A k \in 1 .. (e + c - (e + 1) + 1) : s[k] = ring[(e + 1) + k - 1]
      BY <2>5, <2>6, <2>8, SubSeqProperties
    <3>2. e + c - (e + 1) + 1 = c /\ \A k \in 1 .. c : (e + 1) + k - 1 = e + k
      BY <2>5
    <3>3. e + 1 <= e + c <=> c > 0
      BY <2>5
    <3> HIDE DEF s
    <3> QED BY <2>5, <3>1, <3>2, <3>3
  <2> HIDE DEF s
  <2>10. s = f
    BY <2>5, <2>6, <2>9, SeqEqual
  <2> QED BY <2>10 DEF Dumped, s, e, c, f, ring
<1> QED BY <1>1, PipeInvHolds, PTL
=============================================================================
