--------------------------------- MODULE Deque ---------------------------------
(***************************************************************************)
(* fixed_dequeue (lib/deque.h): a double-ended queue in a ring of Size     *)
(* slots.  A popped item stays in its slot.                                *)
(***************************************************************************)
EXTENDS Naturals, Sequences

CONSTANTS
  Size,   \* capacity
  None    \* what a slot holds before its first use

ASSUME SizeAssumption == Size \in Nat \ {0}

New == [queue |-> [i \in 0..(Size - 1) |-> None], first |-> 0, count |-> 0]

Deques(Item) == [queue : [0..(Size - 1) -> Item \cup {None}],
                 first : 0..(Size - 1), count : 0..Size]

\* From front to back.
Contents(d) == [i \in 1..d.count |-> d.queue[(d.first + i - 1) % Size]]

HasRoom(d) == d.count < Size
Front(d)   == d.queue[d.first]
Back(d)    == d.queue[(d.first + d.count - 1) % Size]

PushFront(d, item) ==
  LET first == IF d.first = 0 THEN Size - 1 ELSE d.first - 1
  IN [queue |-> [d.queue EXCEPT ![first] = item],
      first |-> first, count |-> d.count + 1]

PushBack(d, item) ==
  [queue |-> [d.queue EXCEPT ![(d.first + d.count) % Size] = item],
   first |-> d.first, count |-> d.count + 1]

\* Mutant: the front may run off the ring.
PopFront_NoWrap(d) == [d EXCEPT !.first = IF d.count = 1 THEN 0 ELSE @ + 1, !.count = @ - 1]

\* Mutant: the wrong end is dropped.
PopFront_Back(d) == [d EXCEPT !.first = IF d.count = 1 THEN 0 ELSE @, !.count = @ - 1]

PopFront(d) ==
  [queue |-> d.queue, count |-> d.count - 1,
   first |-> IF d.count = 1 \/ d.first + 1 = Size THEN 0 ELSE d.first + 1]

PopBack(d) ==
  [queue |-> d.queue, count |-> d.count - 1,
   first |-> IF d.count = 1 THEN 0 ELSE d.first]
=============================================================================
