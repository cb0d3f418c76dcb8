----------------------------- MODULE RingQueue -----------------------------
(***************************************************************************)
(* solvers/solver1/solver.c: the queue of the assignments bcp has to make, *)
(* a ring of MAX_QUEUE_SIZE places.  What is pushed on a full ring is lost.*)
(*                                                                         *)
(* SlipReset is not part of the specification: it is reset with a slip the *)
(* properties of its users must notice.                                    *)
(***************************************************************************)
EXTENDS Integers, Sequences

CONSTANT MAX_QUEUE_SIZE

ASSUME QueueAssumption == MAX_QUEUE_SIZE \in Nat \ {0}

Places == 0..(MAX_QUEUE_SIZE - 1)

\* The static arrays and counters at the start; x is what an unused place holds.
InitQueue(x) ==
  [queue |-> [i \in Places |-> x], head |-> 0, tail |-> -1, itemCount |-> 0]

SlipReset(q) == [q EXCEPT !.head = 0, !.itemCount = 0]

reset(q) == [q EXCEPT !.head = 0, !.tail = -1, !.itemCount = 0]

is_q_empty(q) == q.itemCount = 0

is_full(q) == q.itemCount = MAX_QUEUE_SIZE

\* The place the next item goes to.
NextTail(q) == IF q.tail = MAX_QUEUE_SIZE - 1 THEN 0 ELSE q.tail + 1

push(q, x) ==
  IF is_full(q) THEN q
  ELSE [queue |-> [q.queue EXCEPT ![NextTail(q)] = x], head |-> q.head,
        tail |-> NextTail(q), itemCount |-> q.itemCount + 1]

\* What pop returns, and the queue it leaves.
Front(q) == q.queue[q.head]
pop(q) ==
  [q EXCEPT !.head = IF q.head + 1 = MAX_QUEUE_SIZE THEN 0 ELSE q.head + 1,
            !.itemCount = q.itemCount - 1]

\* The place of the k-th item waiting, and the items, first in first.
PlaceOf(q, k) == IF q.head + k - 1 < MAX_QUEUE_SIZE
                 THEN q.head + k - 1 ELSE q.head + k - 1 - MAX_QUEUE_SIZE
Contents(q) == [k \in 1..q.itemCount |-> q.queue[PlaceOf(q, k)]]

\* The state of a ring: the next item goes behind the ones waiting.
IsRing(q) ==
  /\ DOMAIN q = {"queue", "head", "tail", "itemCount"}
  /\ DOMAIN q.queue = Places
  /\ q.head \in Places /\ q.itemCount \in 0..MAX_QUEUE_SIZE
  /\ q.tail \in -1..(MAX_QUEUE_SIZE - 1)
  /\ NextTail(q) = PlaceOf(q, q.itemCount + 1)
=============================================================================
