--------------------------- MODULE RingQueueProofs ----------------------------
(***************************************************************************)
(* queue_t is a bounded first-in first-out queue, for every ring size,     *)
(* batch size and set of items: every call, refused ones included, answers *)
(* as BoundedFifo does, up to the call with which a queue used by batches  *)
(* passes the end of its array.                                            *)
(***************************************************************************)
EXTENDS RingQueue, SequenceTheorems, TLAPS

(* How count, head and tail hang together.  The batch operations never     *)
(* wrap an index, so there the content lies between head and tail.         *)
QueueInv ==
  /\ cnt \in 0 .. RING_SIZE /\ head \in Nat /\ tail \in Nat
  /\ tasks \in [Memory -> Nat] /\ batched \in BOOLEAN
  /\ batched => tail = head + cnt
  /\ ~batched => head < RING_SIZE /\ tail = Masked(head + cnt)

(* No item was put behind the array: a queue used by items never does.     *)
Inside == batched => tail <= RING_SIZE

(* The c entries from h on, oldest first.                                  *)
Segment(mem, h, c) == [k \in 1 .. c |-> mem[Masked(h + k - 1)]]

(* i & RING_MASK, for the indices the operations form.                     *)
LEMMA MaskedOnce ==
  ASSUME NEW i \in Nat, i < 2 * RING_SIZE
  PROVE  Masked(i) = IF i < RING_SIZE THEN i ELSE i - RING_SIZE
<1> DEFINE R == RING_SIZE
           a == i \div R
           m == i % R
<1>1. R \in Nat /\ R > 0 /\ i < 2 * R
  BY QueueAssumption
<1> HIDE DEF R
<1>2. i = R * a + m /\ a \in Int /\ m \in Int /\ 0 <= m /\ m < R
  BY <1>1
<1>3. Masked(i) = m
  BY DEF Masked, R
<1> HIDE DEF a, m
<1>4. a >= 0
  <2> SUFFICES ASSUME a <= -1 PROVE FALSE
    BY <1>2
  <2>1. R * a <= R * (-1)
    BY <1>1, <1>2
  <2> QED BY <1>1, <1>2, <2>1
<1>5. a <= 1
  <2> SUFFICES ASSUME a >= 2 PROVE FALSE
    BY <1>2
  <2>1. R * a >= R * 2
    BY <1>1, <1>2
  <2> QED BY <1>1, <1>2, <2>1
<1>6. CASE a = 0
  BY <1>1, <1>2, <1>3, <1>6 DEF R
<1>7. CASE a = 1
  BY <1>1, <1>2, <1>3, <1>7 DEF R
<1> QED BY <1>2, <1>4, <1>5, <1>6, <1>7

(* A segment is a sequence of items, all of them inside the array.         *)
LEMMA SegmentIsSeq ==
  ASSUME NEW mem \in [Memory -> Nat], NEW h \in Nat, NEW c \in 0 .. RING_SIZE,
         h < RING_SIZE \/ h + c <= RING_SIZE
  PROVE  /\ Segment(mem, h, c) \in Seq(Nat) /\ Len(Segment(mem, h, c)) = c
         /\ \A k \in 1 .. c : /\ Segment(mem, h, c)[k] = mem[Masked(h + k - 1)]
                             /\ Masked(h + k - 1) \in Memory
         /\ Segment(mem, h, c) = <<>> <=> c = 0
<1>1. RING_SIZE \in Nat /\ RING_SIZE > 0 /\ c \in Nat /\ c <= RING_SIZE
  BY QueueAssumption
<1>2. \A k \in 1 .. c : Masked(h + k - 1) \in Memory
  <2> TAKE k \in 1 .. c
  <2> DEFINE i == h + k - 1
  <2>1. i \in Nat /\ i < 2 * RING_SIZE
    BY <1>1
  <2> HIDE DEF i
  <2>2. Masked(i) \in 0 .. RING_SIZE - 1
    BY <1>1, <2>1, MaskedOnce
  <2> QED BY <1>1, <2>2 DEF i, Memory, EndOfQueue
<1>3. Segment(mem, h, c) \in [1 .. c -> Nat]
  BY <1>2 DEF Segment
<1>4. Segment(mem, h, c) \in Seq(Nat)
  BY <1>1, <1>3 DEF Seq
<1>5. Len(Segment(mem, h, c)) = c
  BY <1>1, <1>3, <1>4, LenProperties
<1>6. Segment(mem, h, c) = <<>> <=> c = 0
  BY <1>4, <1>5, EmptySeq
<1> QED BY <1>2, <1>4, <1>5, <1>6 DEF Segment

(* Inside the array no index differs from its masked form, and every word  *)
(* is read as it was written; now and, in the third lemma, after a step.   *)
LEMMA ContentIsSeq ==
  ASSUME QueueInv, Inside
  PROVE  /\ Content = Segment(tasks, head, cnt)
         /\ Content \in Seq(Nat) /\ Len(Content) = cnt
         /\ \A k \in 1 .. cnt : Content[k] = tasks[Masked(head + k - 1)]
         /\ Content = <<>> <=> cnt = 0
<1>1. /\ cnt \in 0 .. RING_SIZE /\ head \in Nat /\ RING_SIZE \in Nat /\ RING_SIZE > 0
      /\ batched => head + cnt <= RING_SIZE
      /\ ~batched => head < RING_SIZE
  BY QueueAssumption DEF QueueInv, Inside
<1>2. \A k \in 1 .. cnt : Word(IndexOf(k)) = tasks[Masked(head + k - 1)]
  <2> TAKE k \in 1 .. cnt
  <2> DEFINE i == head + k - 1
  <2>1. i \in Nat /\ i < 2 * RING_SIZE /\ (batched => i < RING_SIZE)
    BY <1>1
  <2> HIDE DEF i
  <2>2. Masked(i) < RING_SIZE /\ (batched => Masked(i) = i)
    BY <1>1, <2>1, MaskedOnce
  <2>3. IndexOf(k) = Masked(i)
    BY <2>2 DEF IndexOf, i
  <2> HIDE DEF i
  <2>4. Word(Masked(i)) = tasks[Masked(i)]
    BY <1>1, <2>2 DEF Word
  <2> QED BY <2>3, <2>4 DEF i
<1>3. Content = Segment(tasks, head, cnt)
  BY <1>2, Zenon DEF Content, Segment
<1> QED BY <1>1, <1>3, SegmentIsSeq DEF QueueInv

ContentAgrees == Content = Segment(tasks, head, cnt)

LEMMA ContentIsSegment == QueueInv /\ Inside => ContentAgrees
BY ContentIsSeq DEF ContentAgrees

LEMMA NewContentIsSegment ==
  ASSUME QueueInv', Inside'
  PROVE  Content' = Segment(tasks', head', cnt')
<1>1. ContentAgrees'
  BY ContentIsSegment, PTL
<1> QED BY <1>1 DEF ContentAgrees, Segment

(* A refused call changes nothing and says so.                             *)
LEMMA RefusedCall ==
  ASSUME QueueInv, Refuse, UNCHANGED batched
  PROVE  QueueInv' /\ Content' = Content /\ ret' = Fifo!Refused
BY DEF Refuse, QueueInv, Content, Word, IndexOf, Fifo!Refused

(* batch_enqueue puts the items behind the content, or refuses them all.   *)
LEMMA BatchEnqueuePuts ==
  ASSUME QueueInv, batched, NEW items \in Batches,
         batch_enqueue(items), UNCHANGED batched
  PROVE  /\ QueueInv'
         /\ Inside' => IF Len(Content) + Len(items) <= RING_SIZE
                       THEN Content' = Content \o items /\ ret' = Fifo!Accepted
                       ELSE Content' = Content /\ ret' = Fifo!Refused
<1> DEFINE n == Len(items)
           mem == [i \in Memory |-> IF i \in tail .. tail + n - 1
                                    THEN items[i - tail + 1] ELSE tasks[i]]
<1>1. items \in Seq(Nat) /\ n \in Nat /\ n > 0
  <2>1. PICK j \in 1 .. MAX_BATCH : items \in [1 .. j -> Item]
    BY DEF Batches
  <2>2. items \in [1 .. j -> Nat] /\ j \in Nat
    <3>1. Item \subseteq Nat /\ j \in Nat
      BY QueueAssumption
    <3>2. \A k \in 1 .. j : items[k] \in Nat
      BY <2>1, <3>1
    <3> QED BY <2>1, <3>1, <3>2
  <2>3. items \in Seq(Nat)
    BY <2>2 DEF Seq
  <2> QED BY <2>1, <2>2, <2>3, LenProperties
<1>2. /\ RING_SIZE \in Nat /\ RING_SIZE > 0 /\ cnt \in Nat
      /\ head \in Nat /\ tail = head + cnt /\ tasks \in [Memory -> Nat]
  BY QueueAssumption DEF QueueInv
<1>3. ASSUME tail <= RING_SIZE
      PROVE  /\ Content \in Seq(Nat) /\ Len(Content) = cnt
             /\ \A k \in 1 .. cnt : Content[k] = tasks[Masked(head + k - 1)]
  BY <1>3, ContentIsSeq DEF Inside
<1>4. CASE ~Fits(n)
  <2>1. Refuse
    BY <1>4 DEF batch_enqueue
  <2>2. QueueInv' /\ Content' = Content /\ ret' = Fifo!Refused /\ tail' = tail
    BY <2>1, RefusedCall DEF Refuse
  <2>3. Inside' => tail <= RING_SIZE
    BY <2>2 DEF Inside
  <2> QED BY <1>1, <1>2, <1>3, <1>4, <2>2, <2>3 DEF Fits
<1>5. CASE Fits(n)
  <2>1. /\ tasks' = mem /\ tail' = tail + n /\ cnt' = cnt + n
        /\ ret' = Fifo!Accepted /\ head' = head
    BY <1>5 DEF batch_enqueue, Fifo!Accepted
  <2>2. mem \in [Memory -> Nat]
    <3>1. \A i \in tail .. tail + n - 1 : items[i - tail + 1] \in Nat
      BY <1>1, <1>2, ElementOfSeq
    <3> QED BY <1>2, <3>1
  <2>3. \A i \in Memory : mem[i] = IF i \in tail .. tail + n - 1
                                   THEN items[i - tail + 1] ELSE tasks[i]
    OBVIOUS
  <2> HIDE DEF mem
  <2>4. cnt + n \in 0 .. RING_SIZE
    BY <1>1, <1>2, <1>5 DEF Fits
  <2>5. QueueInv'
    BY <1>1, <1>2, <2>1, <2>2, <2>4 DEF QueueInv
  <2>6. ASSUME Inside' PROVE Content' = Content \o items /\ Len(Content) = cnt
    <3>1. tail <= RING_SIZE /\ head + (cnt + n) <= RING_SIZE
      BY <1>1, <1>2, <2>1, <2>6 DEF Inside
    <3>2. /\ Content \in Seq(Nat) /\ Len(Content) = cnt
          /\ \A k \in 1 .. cnt : Content[k] = tasks[Masked(head + k - 1)]
      BY <1>3, <3>1
    <3>3. Content' = Segment(mem, head, cnt + n)
      BY <2>1, <2>5, <2>6, NewContentIsSegment
    <3>4. /\ Content' \in Seq(Nat) /\ Len(Content') = cnt + n
          /\ \A k \in 1 .. cnt + n : Content'[k] = mem[Masked(head + k - 1)]
      BY <1>2, <2>2, <2>4, <3>1, <3>3, SegmentIsSeq
    <3>5. /\ Content \o items \in Seq(Nat) /\ Len(Content \o items) = cnt + n
          /\ \A k \in 1 .. cnt + n : (Content \o items)[k] =
                                       IF k <= cnt THEN Content[k] ELSE items[k - cnt]
      BY <1>1, <3>2, ConcatProperties
    <3>6. \A k \in 1 .. cnt + n : Content'[k] = (Content \o items)[k]
      <4> TAKE k \in 1 .. cnt + n
      <4> DEFINE i == head + k - 1
      <4>1. i \in Nat /\ i < RING_SIZE /\ i \in Memory /\ i - tail + 1 = k - cnt
        BY <1>1, <1>2, <3>1 DEF Memory, EndOfQueue
      <4>2. i \in tail .. tail + n - 1 <=> ~(k <= cnt)
        BY <1>1, <1>2
      <4> HIDE DEF i
      <4>3. Masked(i) = i
        BY <1>2, <4>1, MaskedOnce
      <4>4. Content'[k] = mem[i]
        BY <3>4, <4>3 DEF i
      <4>5. k <= cnt => Content[k] = tasks[i]
        BY <1>2, <3>2, <4>3 DEF i
      <4> QED BY <2>3, <3>5, <4>1, <4>2, <4>4, <4>5
    <3>7. Content' = Content \o items
      BY <1>1, <1>2, <3>4, <3>5, <3>6, SeqEqual
    <3> QED BY <3>2, <3>7
  <2> QED BY <1>1, <1>2, <2>1, <2>4, <2>5, <2>6
<1> QED BY <1>4, <1>5

(* batch_dequeue gives the oldest items, as many as there are.             *)
LEMMA BatchDequeueTakes ==
  ASSUME QueueInv, Inside, batched, NEW wanted \in 1 .. MAX_BATCH,
         batch_dequeue(wanted), UNCHANGED batched
  PROVE  QueueInv' /\ Fifo!Take(wanted)
<1> DEFINE n == Available(wanted)
           q == Content
<1>1. /\ RING_SIZE \in Nat /\ RING_SIZE > 0 /\ cnt \in Nat
      /\ cnt <= RING_SIZE /\ head \in Nat /\ tail = head + cnt /\ tail <= RING_SIZE
      /\ tasks \in [Memory -> Nat] /\ wanted \in Nat /\ wanted > 0
  BY QueueAssumption DEF QueueInv, Inside
<1>2. /\ q \in Seq(Nat) /\ Len(q) = cnt /\ (q = <<>> <=> cnt = 0)
      /\ \A k \in 1 .. cnt : q[k] = tasks[Masked(head + k - 1)]
  BY ContentIsSeq
<1>3. n = IF wanted < Len(q) THEN wanted ELSE Len(q)
  BY <1>1, <1>2 DEF Available
<1>4. CASE cnt = 0
  <2>1. Refuse
    BY <1>1, <1>4 DEF batch_dequeue, Available
  <2>2. QueueInv' /\ Content' = Content /\ ret' = Fifo!Refused
    BY <2>1, RefusedCall
  <2> QED BY <1>2, <1>4, <2>2 DEF Fifo!Take
<1>5. CASE cnt > 0
  <2>1. n \in Nat /\ n > 0 /\ n <= cnt
    BY <1>1, <1>2, <1>3, <1>5
  <2>2. /\ ret' = [ok |-> TRUE, items |-> [k \in 1 .. n |-> tasks[head + k - 1]]]
        /\ head' = head + n /\ cnt' = cnt - n /\ tail' = tail /\ tasks' = tasks
    <3>1. \A k \in 1 .. n : Word(head + k - 1) = tasks[head + k - 1]
      BY <1>1, <2>1 DEF Word
    <3>2. [k \in 1 .. n |-> Word(head + k - 1)] = [k \in 1 .. n |-> tasks[head + k - 1]]
      BY <3>1, Zenon
    <3> QED BY <2>1, <3>2 DEF batch_dequeue
  <2> HIDE DEF n, q
  <2>3. QueueInv'
    BY <1>1, <2>1, <2>2 DEF QueueInv
  <2>4. cnt - n \in 0 .. RING_SIZE /\ head + n \in Nat /\ (head + n) + (cnt - n) <= RING_SIZE
    BY <1>1, <2>1
  <2>5. /\ Content' = Segment(tasks, head + n, cnt - n)
        /\ Content' \in Seq(Nat) /\ Len(Content') = cnt - n
        /\ \A k \in 1 .. cnt - n : Content'[k] = tasks[Masked((head + n) + k - 1)]
    <3>1. Inside'
      BY <1>1, <2>2 DEF Inside
    <3>2. Content' = Segment(tasks, head + n, cnt - n)
      BY <2>2, <2>3, <3>1, NewContentIsSegment
    <3> QED BY <1>1, <2>4, <3>2, SegmentIsSeq
  <2>6. /\ SubSeq(q, n + 1, Len(q)) \in Seq(Nat)
        /\ Len(SubSeq(q, n + 1, Len(q))) = cnt - n
        /\ \A k \in 1 .. cnt - n : SubSeq(q, n + 1, Len(q))[k] = q[n + k]
    <3> DEFINE rest == SubSeq(q, n + 1, cnt)
    <3>1. n + 1 \in Int /\ cnt \in Int /\ \A k \in n + 1 .. cnt : q[k] \in Nat
      BY <1>1, <1>2, <2>1, ElementOfSeq
    <3>2. /\ rest \in Seq(Nat)
          /\ Len(rest) = IF n + 1 <= cnt THEN cnt - (n + 1) + 1 ELSE 0
          /\ \A k \in 1 .. cnt - (n + 1) + 1 : rest[k] = q[(n + 1) + k - 1]
      BY <3>1, SubSeqProperties
    <3> HIDE DEF rest
    <3>3. Len(rest) = cnt - n
      BY <1>1, <2>1, <3>2
    <3>4. ASSUME NEW k \in 1 .. cnt - n PROVE rest[k] = q[n + k]
      <4>1. k \in 1 .. cnt - (n + 1) + 1 /\ (n + 1) + k - 1 = n + k
        BY <1>1, <2>1
      <4>2. rest[k] = q[(n + 1) + k - 1]
        BY <3>2, <4>1
      <4> QED BY <4>1, <4>2
    <3> QED BY <1>2, <3>2, <3>3, <3>4 DEF rest
  <2>7. \A k \in 1 .. cnt - n : Content'[k] = SubSeq(q, n + 1, Len(q))[k]
    <3> TAKE k \in 1 .. cnt - n
    <3>1. n + k \in 1 .. cnt /\ head + (n + k) - 1 = (head + n) + k - 1
      BY <1>1, <2>1
    <3>2. q[n + k] = tasks[Masked(head + (n + k) - 1)]
      BY <1>2, <3>1
    <3>3. Content'[k] = tasks[Masked((head + n) + k - 1)]
      BY <2>5
    <3>4. SubSeq(q, n + 1, Len(q))[k] = q[n + k]
      BY <2>6
    <3> QED BY <3>1, <3>2, <3>3, <3>4
  <2>8. Content' = SubSeq(q, n + 1, Len(q))
    BY <2>4, <2>5, <2>6, <2>7, SeqEqual
  <2>9. [k \in 1 .. n |-> tasks[head + k - 1]] = SubSeq(q, 1, n)
    <3> DEFINE given == [k \in 1 .. n |-> tasks[head + k - 1]]
    <3>1. \A k \in 1 .. n : given[k] = q[k] /\ q[k] \in Nat
      <4> TAKE k \in 1 .. n
      <4>1. k \in 1 .. cnt /\ head + k - 1 \in Nat /\ head + k - 1 < RING_SIZE
        BY <1>1, <2>1
      <4>2. Masked(head + k - 1) = head + k - 1
        BY <1>1, <4>1, MaskedOnce
      <4> QED BY <1>2, <4>1, <4>2, ElementOfSeq
    <3>2. /\ SubSeq(q, 1, n) \in Seq(Nat) /\ Len(SubSeq(q, 1, n)) = n
          /\ \A k \in 1 .. n : SubSeq(q, 1, n)[k] = q[k]
      BY <2>1, <3>1, SubSeqProperties
    <3>3. given \in [1 .. n -> Nat]
      BY <3>1
    <3>4. \A k \in 1 .. n : given[k] = SubSeq(q, 1, n)[k]
      BY <3>1, <3>2
    <3> HIDE DEF given
    <3>5. given \in Seq(Nat) /\ Len(given) = n
      BY <2>1, <3>3, LenProperties DEF Seq
    <3>6. given = SubSeq(q, 1, n)
      BY <3>2, <3>4, <3>5, SeqEqual
    <3> QED BY <3>6 DEF given
  <2>10. /\ Content # <<>> /\ Content' = SubSeq(Content, n + 1, Len(Content))
         /\ ret' = Fifo!Given(SubSeq(Content, 1, n))
         /\ n = IF wanted < Len(Content) THEN wanted ELSE Len(Content)
    <3>1. Content # <<>> /\ Content' = SubSeq(Content, n + 1, Len(Content))
      BY <1>1, <1>2, <1>5, <2>8 DEF q
    <3>2. ret' = Fifo!Given(SubSeq(Content, 1, n))
      BY <2>2, <2>9, Zenon DEF Fifo!Given, q
    <3>3. n = IF wanted < Len(Content) THEN wanted ELSE Len(Content)
      BY <1>3, Zenon DEF q
    <3> QED BY <3>1, <3>2, <3>3, Zenon
  <2>11. LET j == IF wanted < Len(Content) THEN wanted ELSE Len(Content) IN
         /\ Content' = SubSeq(Content, j + 1, Len(Content))
         /\ ret' = Fifo!Given(SubSeq(Content, 1, j))
    BY <2>10
  <2>12. Fifo!Take(wanted)
    BY <2>10, <2>11, Zenon DEF Fifo!Take
  <2> QED BY <2>3, <2>12
<1> QED BY <1>1, <1>4, <1>5

(* enqueue puts one item behind the content, or refuses it.                *)
LEMMA EnqueuePuts ==
  ASSUME QueueInv, ~batched, NEW item \in Item,
         enqueue(item), UNCHANGED batched
  PROVE  /\ QueueInv'
         /\ IF Len(Content) + 1 <= RING_SIZE
            THEN Content' = Content \o <<item>> /\ ret' = Fifo!Accepted
            ELSE Content' = Content /\ ret' = Fifo!Refused
<1>1. /\ RING_SIZE \in Nat /\ RING_SIZE > 0 /\ cnt \in Nat
      /\ cnt <= RING_SIZE /\ head \in Nat /\ head < RING_SIZE
      /\ tail = Masked(head + cnt) /\ tasks \in [Memory -> Nat] /\ item \in Nat
  BY QueueAssumption DEF QueueInv
<1>2. /\ Content \in Seq(Nat) /\ Len(Content) = cnt
      /\ \A k \in 1 .. cnt : Content[k] = tasks[Masked(head + k - 1)]
  BY ContentIsSeq DEF Inside
<1>3. CASE cnt >= RING_SIZE
  BY <1>1, <1>2, <1>3, RefusedCall DEF enqueue
<1>4. CASE cnt < RING_SIZE
  <2> DEFINE mem == [tasks EXCEPT ![tail] = item]
  <2>1. /\ tasks' = mem /\ tail' = Masked(tail + 1) /\ cnt' = cnt + 1
        /\ ret' = Fifo!Accepted /\ head' = head
    BY <1>1, <1>4 DEF enqueue, Fifo!Accepted
  <2>2. tail = IF head + cnt < RING_SIZE THEN head + cnt ELSE head + cnt - RING_SIZE
    BY <1>1, <1>4, MaskedOnce
  <2>3. mem \in [Memory -> Nat] /\ tail \in Memory
    BY <1>1, <1>4, <2>2 DEF Memory, EndOfQueue
  <2>4. \A i \in Memory : mem[i] = IF i = tail THEN item ELSE tasks[i]
    BY <1>1
  <2> HIDE DEF mem
  <2>5. Masked(tail + 1) = Masked(head + (cnt + 1))
    BY <1>1, <1>4, <2>2, MaskedOnce
  <2>6. tail' \in Nat
    BY <1>1, <1>4, <2>1, <2>2, MaskedOnce
  <2>7. QueueInv'
    BY <1>1, <1>4, <2>1, <2>3, <2>5, <2>6 DEF QueueInv
  <2>8. /\ Content' \in Seq(Nat) /\ Len(Content') = cnt + 1
        /\ \A k \in 1 .. cnt + 1 : /\ Content'[k] = mem[Masked(head + k - 1)]
                                  /\ Masked(head + k - 1) \in Memory
    <3>1. Content' = Segment(mem, head, cnt + 1) /\ cnt + 1 \in 0 .. RING_SIZE
      BY <1>1, <1>4, <2>1, <2>7, NewContentIsSegment DEF Inside
    <3> QED BY <1>1, <2>3, <3>1, SegmentIsSeq
  <2>9. /\ Content \o <<item>> \in Seq(Nat) /\ Len(Content \o <<item>>) = cnt + 1
        /\ \A k \in 1 .. cnt + 1 : (Content \o <<item>>)[k] =
                                    IF k <= cnt THEN Content[k] ELSE item
    BY <1>1, <1>2, AppendProperties, AppendIsConcat
  <2>10. \A k \in 1 .. cnt + 1 : Content'[k] = (Content \o <<item>>)[k]
    <3> TAKE k \in 1 .. cnt + 1
    <3> DEFINE i == Masked(head + k - 1)
    <3>1. i = tail <=> k = cnt + 1
      <4>1. i = IF head + k - 1 < RING_SIZE THEN head + k - 1 ELSE head + k - 1 - RING_SIZE
        BY <1>1, <1>4, MaskedOnce
      <4> QED BY <1>1, <1>4, <2>2, <4>1
    <3>2. Content'[k] = mem[i] /\ i \in Memory
      BY <2>8
    <3>3. k <= cnt => Content[k] = tasks[i]
      BY <1>1, <1>2
    <3> HIDE DEF i
    <3> QED BY <1>1, <2>4, <2>9, <3>1, <3>2, <3>3
  <2>11. Content' = Content \o <<item>>
    BY <1>1, <2>8, <2>9, <2>10, SeqEqual
  <2> QED BY <1>1, <1>2, <1>4, <2>1, <2>7, <2>11
<1> QED BY <1>1, <1>3, <1>4

(* dequeue gives the oldest item.                                          *)
LEMMA DequeueTakes ==
  ASSUME QueueInv, ~batched, dequeue, UNCHANGED batched
  PROVE  QueueInv' /\ Fifo!Take(1)
<1> DEFINE q == Content
<1>1. /\ RING_SIZE \in Nat /\ RING_SIZE > 0 /\ cnt \in Nat
      /\ cnt <= RING_SIZE /\ head \in Nat /\ head < RING_SIZE
      /\ tail = Masked(head + cnt) /\ tasks \in [Memory -> Nat]
  BY QueueAssumption DEF QueueInv
<1>2. /\ q \in Seq(Nat) /\ Len(q) = cnt /\ (q = <<>> <=> cnt = 0)
      /\ \A k \in 1 .. cnt : q[k] = tasks[Masked(head + k - 1)]
  BY ContentIsSeq DEF Inside
<1>3. CASE cnt < 1
  <2>1. QueueInv' /\ Content' = Content /\ ret' = Fifo!Refused
    BY <1>3, RefusedCall DEF dequeue
  <2> QED BY <1>1, <1>2, <1>3, <2>1 DEF Fifo!Take
<1>4. CASE cnt >= 1
  <2> HIDE DEF q
  <2>1. /\ ret' = Fifo!Given(<<tasks[head]>>) /\ head' = Masked(head + 1)
        /\ cnt' = cnt - 1 /\ tail' = tail /\ tasks' = tasks
    BY <1>1, <1>4 DEF dequeue, NextHead, Fifo!Given
  <2>2. Masked(head + 1) = IF head + 1 < RING_SIZE THEN head + 1 ELSE 0
    BY <1>1, MaskedOnce
  <2>3. \A j \in 0 .. cnt - 1 : Masked(Masked(head + 1) + j) = Masked(head + 1 + j)
    <3> TAKE j \in 0 .. cnt - 1
    <3>1. CASE head + 1 < RING_SIZE
      BY <2>2, <3>1
    <3>2. CASE head + 1 = RING_SIZE
      <4>1. Masked(head + 1) + j = j /\ j \in Nat /\ j < RING_SIZE
        BY <1>1, <2>2, <3>2
      <4>2. Masked(head + 1 + j) = j
        BY <1>1, <3>2, <4>1, MaskedOnce
      <4>3. Masked(j) = j
        BY <1>1, <4>1, MaskedOnce
      <4> QED BY <4>1, <4>2, <4>3
    <3> QED BY <1>1, <3>1, <3>2
  <2>4. Masked(head + cnt) = Masked(Masked(head + 1) + (cnt - 1))
    BY <1>1, <1>4, <2>3
  <2>5. Masked(head + 1) \in Nat /\ Masked(head + 1) < RING_SIZE
    BY <1>1, <2>2
  <2>6. QueueInv'
    BY <1>1, <1>4, <2>1, <2>4, <2>5 DEF QueueInv
  <2>7. /\ Content' \in Seq(Nat) /\ Len(Content') = cnt - 1
        /\ \A k \in 1 .. cnt - 1 : Content'[k] = tasks[Masked(Masked(head + 1) + k - 1)]
    <3>1. Content' = Segment(tasks, Masked(head + 1), cnt - 1) /\ cnt - 1 \in 0 .. RING_SIZE
      BY <1>1, <1>4, <2>1, <2>6, NewContentIsSegment DEF Inside
    <3> QED BY <1>1, <2>5, <3>1, SegmentIsSeq
  <2>8. /\ SubSeq(q, 2, Len(q)) \in Seq(Nat) /\ Len(SubSeq(q, 2, Len(q))) = cnt - 1
        /\ \A k \in 1 .. cnt - 1 : SubSeq(q, 2, Len(q))[k] = q[1 + k]
    <3>1. \A k \in 2 .. Len(q) : q[k] \in Nat
      BY <1>1, <1>2, ElementOfSeq
    <3> QED BY <1>1, <1>2, <1>4, <3>1, SubSeqProperties
  <2>9. \A k \in 1 .. cnt - 1 : Content'[k] = SubSeq(q, 2, Len(q))[k]
    <3> TAKE k \in 1 .. cnt - 1
    <3>1. /\ 1 + k \in 1 .. cnt /\ k - 1 \in 0 .. cnt - 1
          /\ head + (1 + k) - 1 = head + 1 + (k - 1)
          /\ Masked(head + 1) + k - 1 = Masked(head + 1) + (k - 1)
      BY <1>1, <2>5
    <3>2. q[1 + k] = tasks[Masked(head + (1 + k) - 1)]
      BY <1>2, <3>1
    <3>3. Content'[k] = tasks[Masked(Masked(head + 1) + k - 1)]
      BY <2>7
    <3>4. SubSeq(q, 2, Len(q))[k] = q[1 + k]
      BY <2>8
    <3>5. Masked(head + 1 + (k - 1)) = Masked(Masked(head + 1) + (k - 1))
      BY <2>3, <3>1
    <3> QED BY <3>1, <3>2, <3>3, <3>4, <3>5
  <2>10. Content' = SubSeq(q, 2, Len(q))
    BY <1>1, <1>4, <2>7, <2>8, <2>9, SeqEqual
  <2>11. <<tasks[head]>> = SubSeq(q, 1, 1)
    <3>1. Masked(head) = head /\ q[1] = tasks[Masked(head + 1 - 1)] /\ q[1] \in Nat
      BY <1>1, <1>2, <1>4, MaskedOnce, ElementOfSeq
    <3>2. q[1] = tasks[head]
      BY <1>1, <3>1
    <3>3. /\ SubSeq(q, 1, 1) \in Seq(Nat) /\ Len(SubSeq(q, 1, 1)) = 1
          /\ SubSeq(q, 1, 1)[1] = q[1]
      BY <3>1, SubSeqProperties
    <3>4. <<tasks[head]>> \in Seq(Nat) /\ Len(<<tasks[head]>>) = 1 /\ <<tasks[head]>>[1] = q[1]
      BY <3>1, <3>2
    <3> QED BY <3>3, <3>4, SeqEqual
  <2>12. /\ q # <<>>
         /\ 1 = IF 1 < Len(q) THEN 1 ELSE Len(q)
    BY <1>1, <1>2, <1>4
  <2>13. 1 + 1 = 2
    OBVIOUS
  <2> QED BY <2>1, <2>6, <2>10, <2>11, <2>12, <2>13 DEF Fifo!Take, Fifo!Given, q
<1> QED BY <1>1, <1>3, <1>4

(* Every call keeps the invariant, and is a call of the FIFO until a batch *)
(* passes the end of the array.                                            *)
LEMMA QueueStep ==
  ASSUME QueueInv, [QueueNext]_queueVars
  PROVE  QueueInv' /\ [tail' <= RING_SIZE => Fifo!FifoNext]_<<Content, ret>>
<1>1. CASE UNCHANGED queueVars
  BY <1>1 DEF queueVars, QueueInv, Content, Word, IndexOf
<1>2. ASSUME batched, UNCHANGED batched, NEW items \in Batches, batch_enqueue(items)
      PROVE  QueueInv' /\ (tail' <= RING_SIZE => Fifo!FifoNext)
  <2>1. QueueInv' /\ (Inside' => Fifo!Put(items))
    BY <1>2, BatchEnqueuePuts DEF Fifo!Put
  <2> QED BY <1>2, <2>1 DEF Fifo!FifoNext, Fifo!Batches, Batches, Inside
<1>3. ASSUME batched, UNCHANGED batched, NEW n \in 1 .. MAX_BATCH, batch_dequeue(n)
      PROVE  QueueInv' /\ (tail' <= RING_SIZE => Fifo!FifoNext)
  <2>1. tail' = tail
    BY <1>3 DEF batch_dequeue, Refuse
  <2>2. tail' <= RING_SIZE => Fifo!FifoNext
    BY <1>3, <2>1, BatchDequeueTakes DEF Fifo!FifoNext, Inside
  <2>3. cnt \in Nat /\ n \in Nat /\ Available(n) \in 0 .. cnt
    BY <1>3, QueueAssumption DEF QueueInv, Available
  <2>4. QueueInv'
    BY <1>3, <2>3, QueueAssumption DEF QueueInv, batch_dequeue, Refuse
  <2> QED BY <2>2, <2>4
<1>4. ASSUME ~batched, UNCHANGED batched, NEW x \in Item, enqueue(x)
      PROVE  QueueInv' /\ Fifo!FifoNext
  <2>1. Len(<<x>>) = 1 /\ <<x>> \in Batches /\ 1 \in 1 .. MAX_BATCH
    <3>1. 1 \in 1 .. MAX_BATCH /\ <<x>> \in [1 .. 1 -> Item]
      BY QueueAssumption
    <3> QED BY <3>1 DEF Batches
  <2>2. QueueInv' /\ Fifo!Put(<<x>>)
    BY <1>4, <2>1, EnqueuePuts DEF Fifo!Put
  <2> QED BY <2>1, <2>2 DEF Fifo!FifoNext, Fifo!Batches, Batches
<1>5. ASSUME ~batched, UNCHANGED batched, dequeue
      PROVE  QueueInv' /\ Fifo!FifoNext
  <2>1. 1 \in 1 .. MAX_BATCH
    BY QueueAssumption
  <2> QED BY <1>5, <2>1, DequeueTakes DEF Fifo!FifoNext
<1> QED BY <1>1, <1>2, <1>3, <1>4, <1>5 DEF QueueNext, ByBatches, ByItems

(* queue_t refines the bounded FIFO: used by items, as g_ed_ready_queue    *)
(* is, with every call; used by batches, as ready_queue and                *)
(* completed_queue are, with every call until RING_SIZE items were put in. *)
THEOREM QueueIsFifo == QueueSpec => FifoInsideArray
<1>1. QueueInit => QueueInv /\ Fifo!FifoInit
  <2> SUFFICES ASSUME QueueInit
               PROVE  QueueInv /\ Fifo!FifoInit
    OBVIOUS
  <2>1. /\ cnt = 0 /\ head = 0 /\ tail = 0 /\ batched \in BOOLEAN
        /\ tasks = [i \in Memory |-> 0] /\ ret = Fifo!Refused
    BY DEF QueueInit, Fifo!Refused
  <2>2. tasks \in [Memory -> Nat]
    BY <2>1
  <2>3. Masked(0) = 0
    BY QueueAssumption, MaskedOnce
  <2>4. QueueInv
    <3>1. head + cnt = 0 /\ 0 \in 0 .. RING_SIZE /\ 0 < RING_SIZE
      BY <2>1, QueueAssumption
    <3>2. tail = Masked(head + cnt)
      BY <2>1, <2>3, <3>1
    <3>3. cnt = 0 /\ head = 0 /\ tail = 0 /\ batched \in BOOLEAN
      BY <2>1
    <3> QED BY <2>2, <3>1, <3>2, <3>3 DEF QueueInv
  <2>5. Content = <<>>
    BY <2>1, <2>4, ContentIsSeq, QueueAssumption DEF Inside
  <2> QED BY <2>1, <2>4, <2>5 DEF Fifo!FifoInit
<1>2. QueueInv /\ [QueueNext]_queueVars => QueueInv'
  BY QueueStep
<1>3. QueueInv /\ [QueueNext]_queueVars
        => [tail' <= RING_SIZE => Fifo!FifoNext]_<<Content, ret>>
  BY QueueStep
<1> QED BY <1>1, <1>2, <1>3, PTL DEF QueueSpec, FifoInsideArray
=============================================================================
