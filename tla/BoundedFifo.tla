----------------------------- MODULE BoundedFifo -----------------------------
(***************************************************************************)
(* What a queue between two threads promises: a bounded first-in first-out *)
(* sequence.  A batch is put whole or refused, and a caller that asks for  *)
(* n items gets the n oldest, or all there are.  The threads' modules use  *)
(* their queues as such sequences.                                         *)
(***************************************************************************)
EXTENDS Integers, Sequences, SequencesExt

CONSTANTS Item, CAPACITY, MAX_BATCH

VARIABLES q,    \* the content, oldest first
          ret   \* what the last call returned

Batches == UNION {[1 .. n -> Item] : n \in 1 .. MAX_BATCH}
Accepted == [ok |-> TRUE, items |-> <<>>]
Refused  == [ok |-> FALSE, items |-> <<>>]
Given(items) == [ok |-> TRUE, items |-> items]

FifoInit == q = <<>> /\ ret = Refused

Put(items) ==
  IF Len(q) + Len(items) <= CAPACITY
  THEN q' = q \o items /\ ret' = Accepted
  ELSE q' = q /\ ret' = Refused

Take(n) ==
  IF q = <<>> THEN q' = q /\ ret' = Refused
  ELSE LET k == IF n < Len(q) THEN n ELSE Len(q) IN
       /\ q' = SubSeq(q, k + 1, Len(q))
       /\ ret' = Given(SubSeq(q, 1, k))

FifoNext == (\E items \in Batches : Put(items)) \/ (\E n \in 1 .. MAX_BATCH : Take(n))

FifoSpec == FifoInit /\ [][FifoNext]_<<q, ret>>
=============================================================================
