------------------------------ MODULE RingQueue -------------------------------
(***************************************************************************)
(* queue_t of the algorithm proxy: an array of RING_SIZE entries with a    *)
(* head, a tail and a count, every operation under the queue's spin lock   *)
(* and so one step.  The single-item operations wrap their index, the      *)
(* batch operations do not, and test the count but not the tail: what they *)
(* put after RING_SIZE items lands behind the array, first of all on the   *)
(* queue's own lock.  A program queue is used in one way only: ready_queue *)
(* and completed_queue by batches, g_ed_ready_queue by items.              *)
(***************************************************************************)
EXTENDS Integers, Sequences

CONSTANTS Item,        \* task ids, 32-bit words
          RING_SIZE,   \* a power of two
          MAX_BATCH

ASSUME QueueAssumption ==
  /\ RING_SIZE \in Nat \ {0} /\ MAX_BATCH \in Nat \ {0}
  /\ Item # {} /\ Item \subseteq Nat

VARIABLES cnt, head, tail, tasks, ret,
          batched   \* which of the two ways this queue is used in

queueVars == <<cnt, head, tail, tasks, ret, batched>>

(* The words of the structure from tasks[0] on: the array, the word of the *)
(* lock, which is one byte, and a word of padding.  Bound: the model goes  *)
(* to the end of queue_t, where the memory of another object begins.       *)
EndOfQueue == RING_SIZE + 2
Memory == 0 .. EndOfQueue - 1

(* What an operation reads, the lock held: its byte is the lowest of its   *)
(* word, and 1 whatever was written there.  A call is still one step when  *)
(* its own write opens the lock, which happens behind the array only.      *)
Word(i) == IF i = RING_SIZE THEN tasks[i] - (tasks[i] % 256) + 1 ELSE tasks[i]

Batches == UNION {[1 .. n -> Item] : n \in 1 .. MAX_BATCH}

QueueInit ==
  /\ cnt = 0 /\ head = 0 /\ tail = 0
  /\ tasks = [i \in Memory |-> 0]
  /\ ret = [ok |-> FALSE, items |-> <<>>]
  /\ batched \in BOOLEAN

Masked(i) == i % RING_SIZE

Refuse == ret' = [ok |-> FALSE, items |-> <<>>] /\ UNCHANGED <<cnt, head, tail, tasks>>

Fits(n) == RING_SIZE - cnt >= n

batch_enqueue(items) ==
  LET n == Len(items) IN
  IF ~Fits(n) THEN Refuse
  ELSE /\ tail + n <= EndOfQueue
       /\ tasks' = [i \in Memory |-> IF i \in tail .. tail + n - 1
                                     THEN items[i - tail + 1] ELSE tasks[i]]
       /\ tail' = tail + n
       /\ cnt' = cnt + n
       /\ ret' = [ok |-> TRUE, items |-> <<>>]
       /\ UNCHANGED head

AvailableAsAsked(wanted) == wanted   \* mutant: the count is not tested
Available(wanted) == IF cnt < wanted THEN cnt ELSE wanted

batch_dequeue(wanted) ==
  LET n == Available(wanted) IN
  IF n = 0 THEN Refuse
  ELSE /\ ret' = [ok |-> TRUE, items |-> [k \in 1 .. n |-> Word(head + k - 1)]]
       /\ head' = head + n
       /\ cnt' = cnt - n
       /\ UNCHANGED <<tail, tasks>>

enqueue(item) ==
  IF cnt >= RING_SIZE THEN Refuse
  ELSE /\ tasks' = [tasks EXCEPT ![tail] = item]
       /\ tail' = Masked(tail + 1)
       /\ cnt' = cnt + 1
       /\ ret' = [ok |-> TRUE, items |-> <<>>]
       /\ UNCHANGED head

NextHead(i) == Masked(i + 1)

dequeue ==
  IF cnt < 1 THEN Refuse
  ELSE /\ ret' = [ok |-> TRUE, items |-> <<tasks[head]>>]
       /\ head' = NextHead(head)
       /\ cnt' = cnt - 1
       /\ UNCHANGED <<tail, tasks>>

ByBatches ==
  \/ \E items \in Batches : batch_enqueue(items)
  \/ \E n \in 1 .. MAX_BATCH : batch_dequeue(n)

ByItems ==
  \/ \E x \in Item : enqueue(x)
  \/ dequeue

QueueNext ==
  /\ \/ batched /\ ByBatches
     \/ ~batched /\ ByItems
  /\ UNCHANGED batched

QueueSpec == QueueInit /\ [][QueueNext]_queueVars

----------------------------------------------------------------------------
(* What the calls to come would hand out, oldest first.                    *)
IndexOf(k) == IF batched THEN head + k - 1 ELSE Masked(head + k - 1)
Content == [k \in 1 .. cnt |-> Word(IndexOf(k))]

Fifo == INSTANCE BoundedFifo WITH CAPACITY <- RING_SIZE, q <- Content

(* Refused calls included, a queue used by items answers as a bounded FIFO *)
(* does for ever, and one used by batches as long as it took no more than  *)
(* RING_SIZE items in all (queue.h:28-86).  The states behind are reached, *)
(* and left out of the statement, not of the model.                        *)
FifoInsideArray ==
  Fifo!FifoInit /\ [][tail' <= RING_SIZE => Fifo!FifoNext]_<<Content, ret>>

(* What specs/010-mpmc-queue/spec.md:84-85 says of a queue: its slots are  *)
(* used again by a producer that wraps, and 10,000 items go through 100.   *)
IsFifo == Fifo!FifoSpec
=============================================================================
