---------------------------- MODULE InterruptsProofs ----------------------------
(***************************************************************************)
(* Proofs about Interrupts, for any capacity of the queues and any events: *)
(* the windows follow the queues, VM-entry fails in the shadow of STI or   *)
(* MOV SS only, and the injection implements InterruptFifo.                *)
(***************************************************************************)
EXTENDS Interrupts, NumberProofs

---------------------------------------------------------------------------
(***************************************************************************)
(* What the operations of Deque do to the sequence a ring stands for.      *)
(***************************************************************************)

\* An index that runs off the ring once comes back at its start.
LEMMA ModWrap ==
  ASSUME NEW k \in Nat \ {0}, NEW i \in k..(2 * k - 1)
  PROVE  i % k = i - k
<1>1. i - k \in 0..(k - 1)
  OBVIOUS
<1>2. (i - k) % k = i - k
  BY <1>1, ModSmall
<1>3. i = 1 * k + (i - k)
  OBVIOUS
<1> QED
  BY <1>1, <1>3

\* An index that runs at most once around the ring.
LEMMA ModTwice ==
  ASSUME NEW k \in Nat \ {0}, NEW j \in 0..(2 * k - 1)
  PROVE  /\ j % k = IF j < k THEN j ELSE j - k
         /\ (IF j < k THEN j ELSE j - k) \in 0..(k - 1)
<1>1. CASE j < k
  <2>1. j \in 0..(k - 1)
    BY <1>1
  <2> QED
    BY <1>1, <2>1, ModSmall
<1>2. CASE ~(j < k)
  <2>1. j \in k..(2 * k - 1) /\ j - k \in 0..(k - 1)
    BY <1>2
  <2>2. j % k = j - k
    BY <2>1, ModWrap
  <2> QED
    BY <1>2, <2>1, <2>2
<1> QED
  BY <1>1, <1>2

---------------------------------------------------------------------------
\* The slot of the i-th item from the front.
SlotFrom(f, i) == IF f + i - 1 < Size THEN f + i - 1 ELSE (f + i - 1) - Size
Slot(d, i)     == SlotFrom(d.first, i)

LEMMA SlotsDiffer ==
  ASSUME NEW f \in 0..(Size - 1), NEW i \in 1..Size, NEW j \in 1..Size, i # j
  PROVE  SlotFrom(f, i) # SlotFrom(f, j)
BY SizeAssumption DEF SlotFrom

\* The slot in front of f, and the slots seen from there.
LEMMA SlotsShift ==
  ASSUME NEW f \in 0..(Size - 1), NEW g \in 0..(Size - 1),
         g = IF f = 0 THEN Size - 1 ELSE f - 1
  PROVE  /\ SlotFrom(g, 1) = g
         /\ \A i \in 1..(Size - 1) : SlotFrom(g, i + 1) = SlotFrom(f, i)
BY SizeAssumption DEF SlotFrom

LEMMA SlotIs ==
  ASSUME NEW Item, NEW d \in Deques(Item), NEW i \in 1..Size
  PROVE  (d.first + i - 1) % Size = Slot(d, i) /\ Slot(d, i) \in 0..(Size - 1)
<1>1. ASSUME NEW f \in 0..(Size - 1)
      PROVE  (f + i - 1) % Size = SlotFrom(f, i) /\ SlotFrom(f, i) \in 0..(Size - 1)
  <2>1. Size \in Nat \ {0} /\ f + i - 1 \in 0..(2 * Size - 1)
    BY SizeAssumption
  <2> QED
    BY <2>1, ModTwice DEF SlotFrom
<1> QED
  BY <1>1 DEF Slot, Deques

LEMMA ContentsIs ==
  ASSUME NEW Item, NEW d \in Deques(Item)
  PROVE  /\ d.count \in 0..Size /\ d.first \in 0..(Size - 1)
         /\ d.queue \in [0..(Size - 1) -> Item \cup {None}]
         /\ Contents(d) = [i \in 1..d.count |-> d.queue[Slot(d, i)]]
<1>1. d.count \in 0..Size /\ d.first \in 0..(Size - 1)
      /\ d.queue \in [0..(Size - 1) -> Item \cup {None}]
  BY DEF Deques
<1>2. \A i \in 1..d.count : i \in 1..Size
  BY <1>1, SizeAssumption
<1> QED
  BY <1>1, <1>2, SlotIs DEF Contents

\* Every operation gives a ring again.
LEMMA PushBackItems ==
  ASSUME NEW Item, NEW d \in Deques(Item), HasRoom(d), NEW item \in Item
  PROVE  /\ PushBack(d, item) \in Deques(Item)
         /\ PushBack(d, item).count = d.count + 1
         /\ \A i \in 1..d.count : Contents(PushBack(d, item))[i] = Contents(d)[i]
         /\ Contents(PushBack(d, item))[d.count + 1] = item
<1> DEFINE n == d.count
           r == PushBack(d, item)
<1>1. /\ n \in 0..(Size - 1) /\ d.first \in 0..(Size - 1) /\ Size \in Nat \ {0}
      /\ d.queue \in [0..(Size - 1) -> Item \cup {None}]
  BY ContentsIs, SizeAssumption DEF HasRoom
<1>2. n + 1 \in 1..Size /\ d.first + (n + 1) - 1 = d.first + n
  BY <1>1
<1>3. (d.first + n) % Size = Slot(d, n + 1) /\ Slot(d, n + 1) \in 0..(Size - 1)
  BY <1>2, SlotIs
<1>4. /\ r.queue = [d.queue EXCEPT ![Slot(d, n + 1)] = item]
      /\ r.first = d.first /\ r.count = n + 1
  BY <1>3 DEF PushBack
<1>5. r \in Deques(Item)
  <2>1. [d.queue EXCEPT ![Slot(d, n + 1)] = item] \in [0..(Size - 1) -> Item \cup {None}]
    BY <1>1
  <2>2. n + 1 \in 0..Size
    BY <1>1
  <2> QED
    BY <1>1, <1>3, <2>1, <2>2 DEF PushBack, Deques
<1>6. Contents(r) = [i \in 1..(n + 1) |-> r.queue[Slot(r, i)]]
  BY <1>4, <1>5, ContentsIs
<1>7. \A i : Slot(r, i) = Slot(d, i)
  BY <1>4 DEF Slot
<1>8. ASSUME NEW i \in 1..n PROVE Contents(r)[i] = Contents(d)[i]
  <2>1. i \in 1..(n + 1) /\ i \in 1..Size
    BY <1>1
  <2>2. Slot(d, i) # Slot(d, n + 1) /\ Slot(d, i) \in 0..(Size - 1)
    <3>1. i # n + 1
      BY <1>1
    <3> QED
      BY <1>1, <1>2, <2>1, <3>1, SlotIs, SlotsDiffer DEF Slot
  <2>3. r.queue[Slot(d, i)] = d.queue[Slot(d, i)]
    BY <1>1, <1>4, <2>2
  <2> QED
    BY <1>6, <1>7, <2>1, <2>3, ContentsIs
<1>9. Contents(r)[n + 1] = item
  <2>1. n + 1 \in 1..(n + 1)
    BY <1>1
  <2> QED
    BY <1>1, <1>3, <1>4, <1>6, <1>7, <2>1
<1> QED
  BY <1>4, <1>5, <1>8, <1>9

LEMMA PushFrontItems ==
  ASSUME NEW Item, NEW d \in Deques(Item), HasRoom(d), NEW item \in Item
  PROVE  /\ PushFront(d, item) \in Deques(Item)
         /\ PushFront(d, item).count = d.count + 1
         /\ Contents(PushFront(d, item))[1] = item
         /\ \A i \in 1..d.count : Contents(PushFront(d, item))[i + 1] = Contents(d)[i]
<1> DEFINE n == d.count
           r == PushFront(d, item)
           f == IF d.first = 0 THEN Size - 1 ELSE d.first - 1
<1>1. /\ n \in 0..(Size - 1) /\ d.first \in 0..(Size - 1) /\ Size \in Nat \ {0}
      /\ d.queue \in [0..(Size - 1) -> Item \cup {None}]
  BY ContentsIs, SizeAssumption DEF HasRoom
<1>2. f \in 0..(Size - 1) /\ f = IF d.first = 0 THEN Size - 1 ELSE d.first - 1
  BY <1>1
<1>3. r.queue = [d.queue EXCEPT ![f] = item] /\ r.first = f /\ r.count = n + 1
  BY DEF PushFront
<1>4. r \in Deques(Item)
  <2>1. [d.queue EXCEPT ![f] = item] \in [0..(Size - 1) -> Item \cup {None}]
    BY <1>1
  <2>2. n + 1 \in 0..Size
    BY <1>1
  <2> QED
    BY <1>2, <2>1, <2>2 DEF PushFront, Deques
<1> HIDE DEF r, f
<1>5. Contents(r) = [i \in 1..(n + 1) |-> r.queue[Slot(r, i)]]
  <2>1. Contents(r) = [i \in 1..r.count |-> r.queue[Slot(r, i)]]
    BY <1>4, ContentsIs
  <2> QED
    BY <1>3, <2>1
<1>6. Contents(r)[1] = item
  <2>1. 1 \in 1..(n + 1)
    BY <1>1
  <2>2. SlotFrom(f, 1) = f
    BY <1>1, <1>2, SlotsShift
  <2>3. Slot(r, 1) = f
    BY <1>3, <2>2 DEF Slot
  <2> QED
    BY <1>1, <1>2, <1>3, <1>5, <2>1, <2>3
<1>7. ASSUME NEW i \in 1..n PROVE Contents(r)[i + 1] = Contents(d)[i]
  <2>1. i + 1 \in 1..(n + 1) /\ i \in 1..Size
    BY <1>1
  <2>2. Slot(r, i + 1) = Slot(d, i) /\ Slot(d, i) # f
    <3>1. SlotFrom(f, i + 1) = SlotFrom(d.first, i) /\ SlotFrom(f, 1) = f
      <4>1. i \in 1..(Size - 1) /\ d.first \in 0..(Size - 1)
        BY <1>1
      <4>2. /\ SlotFrom(f, 1) = f
            /\ \A j \in 1..(Size - 1) : SlotFrom(f, j + 1) = SlotFrom(d.first, j)
        BY <1>2, <4>1, SlotsShift
      <4> QED
        BY <4>1, <4>2
    <3>2. SlotFrom(f, i + 1) # SlotFrom(f, 1)
      <4>1. i + 1 \in 1..Size /\ 1 \in 1..Size /\ i + 1 # 1
        BY <1>1
      <4> QED
        BY <1>2, <4>1, SlotsDiffer
    <3> QED
      BY <1>3, <3>1, <3>2 DEF Slot
  <2>3. Slot(d, i) \in 0..(Size - 1)
    BY <2>1, SlotIs
  <2>4. r.queue[Slot(d, i)] = d.queue[Slot(d, i)]
    BY <1>1, <1>3, <2>2, <2>3
  <2> QED
    BY <1>5, <2>1, <2>2, <2>4, ContentsIs
<1> QED
  BY <1>3, <1>4, <1>6, <1>7 DEF r

LEMMA PopFrontItems ==
  ASSUME NEW Item, NEW d \in Deques(Item), d.count > 0
  PROVE  /\ PopFront(d) \in Deques(Item)
         /\ PopFront(d).count = d.count - 1
         /\ Front(d) = Contents(d)[1]
         /\ \A i \in 1..(d.count - 1) : Contents(PopFront(d))[i] = Contents(d)[i + 1]
<1> DEFINE n == d.count
           r == PopFront(d)
           f == IF n = 1 \/ d.first + 1 = Size THEN 0 ELSE d.first + 1
<1>1. /\ n \in 1..Size /\ d.first \in 0..(Size - 1) /\ Size \in Nat \ {0}
      /\ d.queue \in [0..(Size - 1) -> Item \cup {None}]
  BY ContentsIs, SizeAssumption
<1>2. f \in 0..(Size - 1)
  BY <1>1
<1>3. r.queue = d.queue /\ r.first = f /\ r.count = n - 1
  BY DEF PopFront
<1>4. r \in Deques(Item)
  <2>1. n - 1 \in 0..Size
    BY <1>1
  <2> QED
    BY <1>1, <1>2, <2>1 DEF PopFront, Deques
<1> HIDE DEF r
<1>5. Contents(r) = [i \in 1..(n - 1) |-> r.queue[Slot(r, i)]]
  BY <1>3, <1>4, ContentsIs
<1>6. Front(d) = Contents(d)[1]
  <2>1. 1 \in 1..n /\ Slot(d, 1) = d.first
    BY <1>1 DEF Slot, SlotFrom
  <2> QED
    BY <2>1, ContentsIs DEF Front
<1>7. ASSUME NEW i \in 1..(n - 1) PROVE Contents(r)[i] = Contents(d)[i + 1]
  <2>1. i + 1 \in 1..n /\ n # 1
    BY <1>1
  <2>2. Slot(r, i) = Slot(d, i + 1)
    <3>1. SlotFrom(f, i) = SlotFrom(d.first, i + 1)
      BY <1>1, <2>1 DEF SlotFrom
    <3> QED
      BY <1>3, <3>1 DEF Slot
  <2> QED
    BY <1>3, <1>5, <2>1, <2>2, ContentsIs
<1> QED
  BY <1>3, <1>4, <1>6, <1>7 DEF r

---------------------------------------------------------------------------
(***************************************************************************)
(* The invariant.                                                          *)
(***************************************************************************)

\* The items of a queue are events of its kind, and none of them is a free slot.
QueueInv(k) ==
  /\ window[k] <=> queue[k].count > 0
  /\ \A i \in 1..queue[k].count :
       Contents(queue[k])[i] \in Events /\ Contents(queue[k])[i].kind = k

\* The VM-entry field is empty while the guest runs, and what it holds may be injected,
\* or would be if STI and MOV SS did not block.
EntryInv ==
  /\ phase = "guest" => entry = NoEvent
  /\ phase # "guest" /\ entry.kind = "external" => guest.if
  /\ phase # "guest" /\ entry.kind = "nmi"      => ~guest.nmi
  /\ phase = "dead" => guest.shadow

IntInv == TypeOK /\ (\A k \in Queued : QueueInv(k)) /\ EntryInv

LEMMA IntInit == Init => IntInv
<1> SUFFICES ASSUME Init PROVE IntInv
  OBVIOUS
<1>1. New \in Deques(Events) /\ New.count = 0
  <2>1. 0 \in 0..(Size - 1) /\ 0 \in 0..Size
    BY SizeAssumption
  <2> QED
    BY <2>1 DEF New, Deques
<1>2. TypeOK
  BY <1>1 DEF Init, TypeOK
<1>3. ASSUME NEW k \in Queued PROVE QueueInv(k)
  <2>1. queue[k].count = 0 /\ window[k] = FALSE
    BY <1>1 DEF Init
  <2> QED
    BY <2>1 DEF QueueInv
<1>4. EntryInv
  BY DEF Init, EntryInv
<1> QED
  BY <1>2, <1>3, <1>4 DEF IntInv

---------------------------------------------------------------------------
\* interrupt_inject() where it queues: the event waits with its kind.
LEMMA Enqueued ==
  ASSUME IntInv, NEW event \in Events, NEW front \in BOOLEAN, event.kind \in Queued,
         HasRoom(queue[event.kind]), ~Interruptible(event.kind), Inject(event, front)
  PROVE  /\ queue' \in [Queued -> Deques(Events)] /\ window' \in [Queued -> BOOLEAN]
         /\ entry' = entry
         /\ \A k \in Queued : QueueInv(k)'
<1> DEFINE q == event.kind
           d == queue[q]
           e == IF front THEN PushFront(d, event) ELSE PushBack(d, event)
<1>1. /\ d \in Deques(Events) /\ d.count \in Nat /\ q \in Queued
      /\ queue \in [Queued -> Deques(Events)] /\ window \in [Queued -> BOOLEAN]
      /\ \A i \in 1..d.count : Contents(d)[i] \in Events /\ Contents(d)[i].kind = q
  BY DEF IntInv, TypeOK, QueueInv, Deques
<1>2. queue' = [queue EXCEPT ![q] = e] /\ window' = [window EXCEPT ![q] = TRUE] /\ entry' = entry
  BY DEF Inject
<1> HIDE DEF d
<1>3. /\ e \in Deques(Events) /\ e.count = d.count + 1
      /\ \A i \in 1..(d.count + 1) : Contents(e)[i] \in Events /\ Contents(e)[i].kind = q
  <2>1. CASE front
    <3>1. /\ e \in Deques(Events) /\ e.count = d.count + 1 /\ Contents(e)[1] = event
          /\ \A i \in 1..d.count : Contents(e)[i + 1] = Contents(d)[i]
      BY <1>1, <2>1, PushFrontItems DEF d
    <3>2. ASSUME NEW i \in 1..(d.count + 1), i # 1
          PROVE  Contents(e)[i] \in Events /\ Contents(e)[i].kind = q
      <4>1. i - 1 \in 1..d.count /\ (i - 1) + 1 = i
        BY <1>1, <3>2
      <4> QED
        BY <1>1, <3>1, <4>1
    <3> QED
      BY <3>1, <3>2
  <2>2. CASE ~front
    <3>1. /\ e \in Deques(Events) /\ e.count = d.count + 1
          /\ Contents(e)[d.count + 1] = event
          /\ \A i \in 1..d.count : Contents(e)[i] = Contents(d)[i]
      BY <1>1, <2>2, PushBackItems DEF d
    <3>2. \A i \in 1..(d.count + 1) : i = d.count + 1 \/ i \in 1..d.count
      BY <1>1
    <3> QED
      BY <1>1, <3>1, <3>2
  <2> QED
    BY <2>1, <2>2
<1> HIDE DEF e
<1>4. queue' \in [Queued -> Deques(Events)] /\ window' \in [Queued -> BOOLEAN]
  BY <1>1, <1>2, <1>3
<1>5. QueueInv(q)'
  <2>1. queue'[q] = e /\ window'[q] = TRUE /\ e.count > 0
    BY <1>1, <1>2, <1>3
  <2> QED
    BY <1>3, <2>1 DEF QueueInv
<1>6. ASSUME NEW k \in Queued, k # q PROVE QueueInv(k)'
  <2>1. queue'[k] = queue[k] /\ window'[k] = window[k]
    BY <1>1, <1>2, <1>6
  <2> QED
    BY <2>1 DEF IntInv, QueueInv
<1> QED
  BY <1>2, <1>4, <1>5, <1>6

\* An event is injected when RFLAGS.IF or blocking by NMI does not forbid it.
LEMMA HandleInterruptStep ==
  ASSUME IntInv, NEW event \in Events, NEW front \in Fronts, HandleInterrupt(event, front)
  PROVE  IntInv'
<1>1. front \in BOOLEAN /\ event.kind \in Kind
  BY InterruptsAssumption DEF Events
<1>2. phase = "guest" /\ phase' = "entry" /\ guest' = guest /\ Inject(event, front)
      /\ (event.kind \in Queued => HasRoom(queue[event.kind]))
  BY DEF HandleInterrupt
<1>3. CASE Interruptible(event.kind)
  <2>1. entry' = event /\ queue' = queue /\ window' = window
    BY <1>2, <1>3 DEF Inject
  <2>2. /\ event.kind = "external" => guest.if
        /\ event.kind = "nmi"      => ~guest.nmi
    BY <1>3 DEF Interruptible
  <2>3. EntryInv'
    BY <1>2, <2>1, <2>2 DEF EntryInv
  <2>4. TypeOK'
    BY <1>2, <2>1 DEF IntInv, TypeOK
  <2>5. \A k \in Queued : QueueInv(k)'
    BY <2>1 DEF IntInv, QueueInv
  <2> QED
    BY <2>3, <2>4, <2>5 DEF IntInv
<1>4. CASE ~Interruptible(event.kind)
  <2>1. event.kind \in Queued
    BY <1>1, <1>4 DEF Kind, Queued, Interruptible
  <2>2. /\ queue' \in [Queued -> Deques(Events)] /\ window' \in [Queued -> BOOLEAN]
        /\ entry' = entry /\ \A k \in Queued : QueueInv(k)'
    BY <1>1, <1>2, <1>4, <2>1, Enqueued
  <2>3. entry' = NoEvent
    BY <1>2, <2>2 DEF IntInv, EntryInv
  <2>4. EntryInv'
    BY <1>2, <2>3 DEF EntryInv, NoEvent, Queued
  <2>5. TypeOK'
    BY <1>2, <2>2, <2>3 DEF IntInv, TypeOK
  <2> QED
    BY <2>2, <2>4, <2>5 DEF IntInv
<1> QED
  BY <1>3, <1>4

\* What a window exit takes from its queue: the oldest event, which the guest can take.
LEMMA Dequeued ==
  ASSUME IntInv, NEW k \in Queued, HandleWindow(k)
  PROVE  /\ queue[k] \in Deques(Events) /\ queue[k].count > 0 /\ queue[k].count \in Nat
         /\ entry' = Contents(queue[k])[1] /\ entry' \in Events /\ entry'.kind = k
         /\ queue' = [queue EXCEPT ![k] = PopFront(queue[k])]
         /\ queue \in [Queued -> Deques(Events)]
<1>1. queue[k] \in Deques(Events) /\ queue[k].count > 0 /\ queue[k].count \in Nat
      /\ queue \in [Queued -> Deques(Events)]
  BY DEF HandleWindow, WindowOpen, IntInv, TypeOK, QueueInv, Deques
<1>2. entry' = Contents(queue[k])[1]
  BY <1>1, PopFrontItems DEF HandleWindow
<1>3. 1 \in 1..queue[k].count
  BY <1>1
<1>4. entry' \in Events /\ entry'.kind = k
  BY <1>2, <1>3 DEF IntInv, QueueInv
<1> QED
  BY <1>1, <1>2, <1>4 DEF HandleWindow

LEMMA HandleWindowStep ==
  ASSUME IntInv, NEW k \in Queued, HandleWindow(k)
  PROVE  IntInv'
<1> DEFINE d == queue[k]
           e == PopFront(d)
<1>1. /\ d \in Deques(Events) /\ d.count > 0 /\ d.count \in Nat
      /\ entry' \in Events /\ entry'.kind = k
      /\ queue' = [queue EXCEPT ![k] = e] /\ queue \in [Queued -> Deques(Events)]
  BY Dequeued
<1>2. /\ e \in Deques(Events) /\ e.count = d.count - 1
      /\ \A i \in 1..(d.count - 1) : Contents(e)[i] = Contents(d)[i + 1]
  BY <1>1, PopFrontItems
<1>3. /\ window' = [window EXCEPT ![k] = StillPending(queue'[k])]
      /\ phase' = "entry" /\ guest' = guest /\ Open(k)
  BY DEF HandleWindow, WindowOpen
<1> HIDE DEF e
<1>4. queue' \in [Queued -> Deques(Events)] /\ queue'[k] = e
  BY <1>1, <1>2
<1>5. /\ window' \in [Queued -> BOOLEAN] /\ window'[k] = (e.count > 0)
      /\ \A j \in Queued : j # k => window'[j] = window[j]
  BY <1>3, <1>4 DEF IntInv, TypeOK, StillPending
<1>6. QueueInv(k)'
  <2>1. ASSUME NEW i \in 1..(d.count - 1)
        PROVE  Contents(e)[i] \in Events /\ Contents(e)[i].kind = k
    <3>1. i + 1 \in 1..d.count
      BY <1>1
    <3> QED
      BY <1>2, <3>1 DEF IntInv, QueueInv
  <2> QED
    BY <1>2, <1>4, <1>5, <2>1 DEF QueueInv
<1>7. ASSUME NEW j \in Queued, j # k PROVE QueueInv(j)'
  <2>1. queue'[j] = queue[j] /\ window'[j] = window[j]
    BY <1>1, <1>5, <1>7
  <2> QED
    BY <2>1 DEF IntInv, QueueInv
<1>8. TypeOK'
  BY <1>1, <1>3, <1>4, <1>5 DEF IntInv, TypeOK
<1>9. EntryInv'
  BY <1>1, <1>3 DEF EntryInv, Open
<1> QED
  BY <1>6, <1>7, <1>8, <1>9 DEF IntInv

\* The guest, and the VM-entry, which succeeds or is refused.
LEMMA GuestStep ==
  ASSUME IntInv, Guest \/ VmEntry \/ UNCHANGED vars
  PROVE  IntInv'
<1>1. queue' = queue /\ window' = window
  BY DEF Guest, VmEntry, vars
<1>2. \A k \in Queued : QueueInv(k)'
  BY <1>1 DEF IntInv, QueueInv
<1>3. CASE Guest
  <2>1. guest' \in [if : BOOLEAN, shadow : BOOLEAN, nmi : BOOLEAN]
    BY <1>3 DEF Guest, IntInv, TypeOK
  <2>2. phase = "guest" /\ phase' = phase /\ entry' = entry
    BY <1>3 DEF Guest
  <2> QED
    BY <1>1, <1>2, <2>1, <2>2 DEF IntInv, TypeOK, EntryInv
<1>4. CASE VmEntry /\ entry.kind \in Queued /\ ~Open(entry.kind)
  <2>1. phase = "entry" /\ phase' = "dead" /\ guest' = guest /\ entry' = entry
    BY <1>4 DEF VmEntry
  <2>2. guest.shadow
    BY <1>4, <2>1 DEF IntInv, EntryInv, Open, Queued
  <2> QED
    BY <1>1, <1>2, <2>1, <2>2 DEF IntInv, TypeOK, EntryInv
<1>5. CASE VmEntry /\ ~(entry.kind \in Queued /\ ~Open(entry.kind))
  <2>1. VmEntry /\ ~(entry.kind \in Queued /\ ~Open(entry.kind))
    BY <1>5
  <2>2. phase' = "guest" /\ entry' = NoEvent
    BY <2>1 DEF VmEntry
  <2>3. guest' \in [if : BOOLEAN, shadow : BOOLEAN, nmi : BOOLEAN]
    <3>1. guest \in [if : BOOLEAN, shadow : BOOLEAN, nmi : BOOLEAN]
      BY DEF IntInv, TypeOK
    <3>2. guest' = CASE entry.kind = "none" -> guest
                     [] entry.kind = "nmi"  -> [if |-> FALSE, shadow |-> FALSE, nmi |-> TRUE]
                     [] OTHER -> [guest EXCEPT !.if = FALSE, !.shadow = FALSE]
      BY <2>1 DEF VmEntry
    <3>3. [guest EXCEPT !.if = FALSE, !.shadow = FALSE]
            \in [if : BOOLEAN, shadow : BOOLEAN, nmi : BOOLEAN]
      BY <3>1
    <3> QED
      BY <3>1, <3>2, <3>3
  <2> QED
    BY <1>1, <1>2, <2>2, <2>3 DEF IntInv, TypeOK, EntryInv
<1>6. CASE UNCHANGED vars
  BY <1>2, <1>6 DEF vars, IntInv, TypeOK, EntryInv
<1> QED
  BY <1>3, <1>4, <1>5, <1>6

\* The inductive invariant holds in every behaviour.
THEOREM InterruptsInvariance == Spec => []IntInv
<1>1. IntInv /\ [Next]_vars => IntInv'
  BY HandleInterruptStep, HandleWindowStep, GuestStep DEF Next
<1> QED
  BY <1>1, IntInit, PTL DEF Spec

\* Type correctness: the queues stay well-formed rings of at most Size events.
THEOREM InterruptsTypeCorrect == Spec => []TypeOK
<1>1. IntInv => TypeOK
  BY DEF IntInv
<1> QED
  BY <1>1, InterruptsInvariance, PTL

\* A window exit is requested exactly while an event of its kind waits.
THEOREM WindowsFollow == Spec => []WindowTracksQueue
<1>1. IntInv => WindowTracksQueue
  BY DEF IntInv, QueueInv, WindowTracksQueue
<1> QED
  BY <1>1, InterruptsInvariance, PTL

\* interrupt_inject() and the window exits keep the half of the comment at vcpu.inl:119-123
\* that is about RFLAGS.IF and NMIs; VM-entry refuses an event in the shadow of STI or MOV
\* SS, where the test of the flags is the wrong way round, and nowhere else.
THEOREM EntryFailures == Spec => []EntryFailsInShadow
<1>1. IntInv => EntryFailsInShadow
  BY DEF IntInv, EntryInv, EntryFailsInShadow
<1> QED
  BY <1>1, InterruptsInvariance, PTL

---------------------------------------------------------------------------
(***************************************************************************)
(* The refinement: each step takes an event, delivers one, or is nothing   *)
(* to InterruptFifo.                                                       *)
(***************************************************************************)

\* The identities in a ring, in the VM-entry field, and in a queue if the kind has one.
Ids(d)      == [i \in 1..d.count |-> Contents(d)[i].id]
Held(e, k)  == IF e.kind = k THEN <<e.id>> ELSE <<>>
Wait(q, k)  == IF k \in Queued THEN Ids(q[k]) ELSE <<>>
Pend(e, q)  == [k \in Kind |-> Held(e, k) \o Wait(q, k)]

LEMMA PendingIs == pending = Pend(entry, queue) /\ pending' = Pend(entry', queue')
BY DEF pending, Pend, Held, Wait, Ids

\* A ring of events.
IsQueue(d) == /\ d \in Deques(Events)
              /\ \A i \in 1..d.count : Contents(d)[i] \in Events

LEMMA IdsAre ==
  ASSUME NEW d, IsQueue(d)
  PROVE  /\ d.count \in Nat
         /\ Ids(d) \in Seq(Id) /\ Len(Ids(d)) = d.count
         /\ \A i \in 1..d.count : Ids(d)[i] = Contents(d)[i].id
<1>1. d.count \in Nat
  BY ContentsIs DEF IsQueue
<1>2. \A i \in 1..d.count : Contents(d)[i].id \in Id
  BY DEF IsQueue, Events
<1> QED
  BY <1>1, <1>2 DEF Ids

LEMMA IdsPushBack ==
  ASSUME NEW d, IsQueue(d), HasRoom(d), NEW e \in Events
  PROVE  Ids(PushBack(d, e)) = Append(Ids(d), e.id)
<1> DEFINE r == PushBack(d, e)
<1>1. /\ d.count \in Nat /\ r.count = d.count + 1
      /\ \A i \in 1..d.count : Contents(r)[i] = Contents(d)[i]
      /\ Contents(r)[d.count + 1] = e
  BY IdsAre, PushBackItems DEF IsQueue
<1> HIDE DEF r
<1>2. Ids(r) = [i \in 1..(d.count + 1) |-> Contents(r)[i].id]
  BY <1>1 DEF Ids
<1>3. e.id \in Id
  BY DEF Events
<1>4. Append(Ids(d), e.id) =
        [i \in 1..(d.count + 1) |-> IF i = d.count + 1 THEN e.id ELSE Ids(d)[i]]
  BY <1>1, <1>3, IdsAre
<1>5. ASSUME NEW i \in 1..(d.count + 1)
      PROVE  Contents(r)[i].id = IF i = d.count + 1 THEN e.id ELSE Ids(d)[i]
  <2>1. CASE i = d.count + 1
    BY <1>1, <2>1
  <2>2. CASE i # d.count + 1
    <3>1. i \in 1..d.count
      BY <1>1, <2>2
    <3> QED
      BY <1>1, <2>2, <3>1, IdsAre
  <2> QED
    BY <2>1, <2>2
<1>6. Ids(r) = Append(Ids(d), e.id)
  BY <1>2, <1>4, <1>5
<1> QED
  BY <1>6 DEF r

LEMMA IdsPushFront ==
  ASSUME NEW d, IsQueue(d), HasRoom(d), NEW e \in Events
  PROVE  Ids(PushFront(d, e)) = <<e.id>> \o Ids(d)
<1> DEFINE r == PushFront(d, e)
<1>1. /\ d.count \in Nat /\ r.count = d.count + 1
      /\ Contents(r)[1] = e
      /\ \A i \in 1..d.count : Contents(r)[i + 1] = Contents(d)[i]
  BY IdsAre, PushFrontItems DEF IsQueue
<1> HIDE DEF r
<1>2. Ids(r) = [i \in 1..(d.count + 1) |-> Contents(r)[i].id]
  BY <1>1 DEF Ids
<1>3. <<e.id>> \o Ids(d) =
        [i \in 1..(d.count + 1) |-> IF i = 1 THEN e.id ELSE Ids(d)[i - 1]]
  <2>1. e.id \in Id /\ <<e.id>> \in Seq(Id) /\ Len(<<e.id>>) = 1 /\ <<e.id>>[1] = e.id
    BY DEF Events
  <2> QED
    BY <1>1, <2>1, IdsAre
<1>4. ASSUME NEW i \in 1..(d.count + 1)
      PROVE  Contents(r)[i].id = IF i = 1 THEN e.id ELSE Ids(d)[i - 1]
  <2>1. CASE i = 1
    BY <1>1, <2>1
  <2>2. CASE i # 1
    <3>1. i - 1 \in 1..d.count /\ (i - 1) + 1 = i
      BY <1>1, <2>2
    <3>2. Contents(r)[(i - 1) + 1] = Contents(d)[i - 1]
      BY <1>1, <3>1
    <3>3. Ids(d)[i - 1] = Contents(d)[i - 1].id
      BY <3>1, IdsAre
    <3> QED
      BY <2>2, <3>1, <3>2, <3>3
  <2> QED
    BY <2>1, <2>2
<1>5. Ids(r) = <<e.id>> \o Ids(d)
  BY <1>2, <1>3, <1>4
<1> QED
  BY <1>5 DEF r

LEMMA IdsPopFront ==
  ASSUME NEW d, IsQueue(d), d.count > 0
  PROVE  /\ IsQueue(PopFront(d))
         /\ Ids(d) = <<Front(d).id>> \o Ids(PopFront(d))
<1> DEFINE r == PopFront(d)
<1>1. /\ d.count \in Nat /\ r \in Deques(Events) /\ r.count = d.count - 1
      /\ Front(d) = Contents(d)[1]
      /\ \A i \in 1..(d.count - 1) : Contents(r)[i] = Contents(d)[i + 1]
  BY IdsAre, PopFrontItems DEF IsQueue
<1> HIDE DEF r
<1>2. ASSUME NEW i \in 1..(d.count - 1) PROVE i + 1 \in 1..d.count
  BY <1>1
<1>3. IsQueue(r)
  BY <1>1, <1>2 DEF IsQueue
<1>4. Front(d).id \in Id
  BY <1>1 DEF IsQueue, Events
<1>5. /\ Ids(r) \in Seq(Id) /\ Len(Ids(r)) = d.count - 1
      /\ \A i \in 1..(d.count - 1) : Ids(r)[i] = Ids(d)[i + 1]
  <2>1. /\ Ids(r) \in Seq(Id) /\ Len(Ids(r)) = r.count
        /\ \A i \in 1..r.count : Ids(r)[i] = Contents(r)[i].id
    BY <1>3, IdsAre
  <2>2. ASSUME NEW i \in 1..(d.count - 1) PROVE Ids(r)[i] = Ids(d)[i + 1]
    <3>1. Ids(r)[i] = Contents(d)[i + 1].id
      BY <1>1, <2>1
    <3>2. Ids(d)[i + 1] = Contents(d)[i + 1].id
      BY <1>2, IdsAre
    <3> QED
      BY <3>1, <3>2
  <2> QED
    BY <1>1, <2>1, <2>2
<1>6. <<Front(d).id>> \o Ids(r) =
        [i \in 1..d.count |-> IF i = 1 THEN Front(d).id ELSE Ids(r)[i - 1]]
  <2>1. /\ <<Front(d).id>> \in Seq(Id) /\ Len(<<Front(d).id>>) = 1
        /\ <<Front(d).id>>[1] = Front(d).id
    BY <1>4
  <2> QED
    BY <1>1, <1>5, <2>1
<1>7. ASSUME NEW i \in 1..d.count
      PROVE  Contents(d)[i].id = IF i = 1 THEN Front(d).id ELSE Ids(r)[i - 1]
  <2>1. CASE i = 1
    BY <1>1, <2>1
  <2>2. CASE i # 1
    <3>1. i - 1 \in 1..(d.count - 1) /\ (i - 1) + 1 = i
      BY <1>1, <2>2
    <3> QED
      BY <1>5, <2>2, <3>1, IdsAre
  <2> QED
    BY <2>1, <2>2
<1>8. Ids(d) = <<Front(d).id>> \o Ids(r)
  <2>1. Ids(d) = [i \in 1..d.count |-> Contents(d)[i].id]
    BY DEF Ids
  <2> QED
    BY <1>6, <1>7, <2>1
<1> QED
  BY <1>3, <1>8 DEF r

---------------------------------------------------------------------------
\* What the proof of each step uses of a state.
LEMMA QueuesAre ==
  ASSUME IntInv
  PROVE  /\ \A k \in Queued : IsQueue(queue[k])
         /\ \A k \in Kind : Wait(queue, k) \in Seq(Id) /\ <<>> \o Wait(queue, k) = Wait(queue, k)
         /\ queue \in [Queued -> Deques(Events)]
<1>1. \A k \in Queued : IsQueue(queue[k])
  BY DEF IntInv, TypeOK, QueueInv, IsQueue
<1>2. ASSUME NEW k \in Kind
      PROVE  Wait(queue, k) \in Seq(Id) /\ <<>> \o Wait(queue, k) = Wait(queue, k)
  <2>1. Wait(queue, k) \in Seq(Id)
    BY <1>1, IdsAre DEF Wait
  <2> QED
    BY <2>1
<1> QED
  BY <1>1, <1>2 DEF IntInv, TypeOK

\* interrupt_inject() takes the event, at the front if it injects it at once.
LEMMA InjectTakes ==
  ASSUME IntInv, NEW event \in Events, NEW front \in Fronts, HandleInterrupt(event, front)
  PROVE  Fifo!Next
<1> DEFINE q == event.kind
<1>1. q \in Kind /\ event.id \in Id /\ front \in BOOLEAN
  BY InterruptsAssumption DEF Events
<1>2. Inject(event, front) /\ entry = NoEvent
      /\ (q \in Queued => HasRoom(queue[q]))
  BY DEF HandleInterrupt, IntInv, EntryInv
<1>3. \A k \in Kind : Held(entry, k) = <<>>
  BY <1>2 DEF Held, NoEvent, Kind, Queued
<1>4. pending = [k \in Kind |-> Held(entry, k) \o Wait(queue, k)]
      /\ pending' = [k \in Kind |-> Held(entry', k) \o Wait(queue', k)]
  BY PendingIs DEF Pend
<1> HIDE DEF q
<1>5. pending = [k \in Kind |-> Wait(queue, k)]
  BY <1>3, <1>4, QueuesAre
<1>6. CASE Interruptible(q)
  <2>1. entry' = event /\ queue' = queue
    BY <1>2, <1>6 DEF Inject, q
  <2>2. \A k \in Kind : Held(entry', k) = IF k = q THEN <<event.id>> ELSE <<>>
    BY <2>1 DEF Held, q
  <2>3. \A k \in Kind : Held(entry', k) \o Wait(queue', k)
          = IF k = q THEN <<event.id>> \o Wait(queue, k) ELSE Wait(queue, k)
    <3>1. \A k \in Kind : Wait(queue', k) = Wait(queue, k)
      BY <2>1
    <3>2. \A k \in Kind : <<>> \o Wait(queue, k) = Wait(queue, k)
      BY QueuesAre
    <3> QED
      BY <2>2, <3>1, <3>2
  <2>4. pending' = [pending EXCEPT ![q] = <<event.id>> \o @]
    BY <1>1, <1>4, <1>5, <2>3
  <2> QED
    BY <1>1, <2>4 DEF Fifo!Next, Fifo!TakeFirst
<1>7. CASE ~Interruptible(q)
  <2> DEFINE d == queue[q]
             e == IF front THEN PushFront(d, event) ELSE PushBack(d, event)
  <2>1. q \in Queued /\ entry' = entry /\ queue' = [queue EXCEPT ![q] = e]
    <3>1. q \in Queued
      BY <1>1, <1>7 DEF Interruptible, Kind, Queued
    <3> QED
      BY <1>2, <1>7, <3>1 DEF Inject, q
  <2>2. IsQueue(d) /\ HasRoom(d)
    BY <1>2, <2>1, QueuesAre
  <2>3. Ids(e) = IF front THEN <<event.id>> \o Ids(d) ELSE Append(Ids(d), event.id)
    BY <2>2, IdsPushBack, IdsPushFront
  <2> HIDE DEF e
  <2>4. \A k \in Kind : Wait(queue', k) = IF k = q THEN Ids(e) ELSE Wait(queue, k)
    BY <2>1, QueuesAre DEF Wait
  <2>5. Wait(queue, q) = Ids(d)
    BY <2>1 DEF Wait
  <2>6. Ids(e) \in Seq(Id)
    <3>1. Ids(d) \in Seq(Id)
      BY <2>2, IdsAre
    <3> QED
      BY <1>1, <2>3, <3>1
  <2>7. pending' = [pending EXCEPT ![q] = Ids(e)]
    <3>1. \A k \in Kind : Held(entry', k) \o Wait(queue', k)
            = IF k = q THEN Ids(e) ELSE Wait(queue, k)
      <4>1. \A k \in Kind : Held(entry', k) = <<>>
        BY <1>3, <2>1
      <4>2. <<>> \o Ids(e) = Ids(e)
        BY <2>6
      <4>3. \A k \in Kind : <<>> \o Wait(queue, k) = Wait(queue, k)
        BY QueuesAre
      <4> QED
        BY <2>4, <4>1, <4>2, <4>3
    <3> QED
      BY <1>1, <1>4, <1>5, <3>1
  <2>8. pending[q] = Ids(d)
    BY <1>1, <1>5, <2>5
  <2> QED
    BY <1>1, <2>3, <2>7, <2>8 DEF Fifo!Next, Fifo!Take, Fifo!TakeFirst
<1> QED
  BY <1>6, <1>7

\* A window exit moves the front of the queue into the VM-entry field.
LEMMA WindowStutters ==
  ASSUME IntInv, NEW k \in Queued, HandleWindow(k)
  PROVE  pending' = pending
<1> DEFINE d == queue[k]
<1>1. entry = NoEvent /\ d.count > 0 /\ IsQueue(d)
      /\ \A i \in 1..d.count : Contents(d)[i].kind = k
  BY QueuesAre DEF HandleWindow, WindowOpen, IntInv, EntryInv, QueueInv
<1>2. entry' = Front(d) /\ queue' = [queue EXCEPT ![k] = PopFront(d)]
  BY DEF HandleWindow
<1>3. Front(d) = Contents(d)[1] /\ Front(d).kind = k
  <2>1. d \in Deques(Events) /\ d.count \in Nat /\ 1 \in 1..d.count
    BY <1>1, IdsAre DEF IsQueue
  <2> QED
    BY <1>1, <2>1, PopFrontItems
<1>4. IsQueue(PopFront(d)) /\ Ids(d) = <<Front(d).id>> \o Ids(PopFront(d))
  BY <1>1, IdsPopFront
<1>5. \A j \in Kind : Held(entry, j) = <<>>
  BY <1>1 DEF Held, NoEvent, Kind, Queued
<1>6. \A j \in Kind : Held(entry', j) = IF j = k THEN <<Front(d).id>> ELSE <<>>
  BY <1>2, <1>3 DEF Held
<1> HIDE DEF d
<1>7. \A j \in Kind : Wait(queue', j) = IF j = k THEN Ids(PopFront(d)) ELSE Wait(queue, j)
  BY <1>2, QueuesAre DEF Wait
<1>8. Wait(queue, k) = Ids(d)
  BY DEF Wait, d
<1>9. ASSUME NEW j \in Kind
      PROVE  Held(entry', j) \o Wait(queue', j) = Held(entry, j) \o Wait(queue, j)
  <2>1. CASE j = k
    <3>1. Held(entry', j) \o Wait(queue', j) = Wait(queue, j)
      BY <1>4, <1>6, <1>7, <1>8, <2>1
    <3>2. <<>> \o Wait(queue, j) = Wait(queue, j)
      BY QueuesAre
    <3> QED
      BY <1>5, <3>1, <3>2
  <2>2. CASE j # k
    BY <1>5, <1>6, <1>7, <2>2
  <2> QED
    BY <2>1, <2>2
<1> QED
  BY <1>9, PendingIs DEF Pend

\* The VM-entry delivers the event it holds, if any, or fails and keeps it.
LEMMA EntryDelivers ==
  ASSUME IntInv, VmEntry
  PROVE  Fifo!Next \/ pending' = pending
<1>0. CASE entry.kind \in Queued /\ ~Open(entry.kind)
  <2>1. entry' = entry /\ queue' = queue
    BY <1>0 DEF VmEntry
  <2>2. \A k \in Kind : Held(entry', k) = Held(entry, k) /\ Wait(queue', k) = Wait(queue, k)
    BY <2>1
  <2> QED
    BY <2>2, PendingIs DEF Pend
<1> SUFFICES ASSUME ~(entry.kind \in Queued /\ ~Open(entry.kind))
             PROVE  Fifo!Next \/ pending' = pending
  BY <1>0
<1>1. entry' = NoEvent /\ queue' = queue
  BY DEF VmEntry
<1>2. \A k \in Kind : Held(entry', k) = <<>> /\ Wait(queue', k) = Wait(queue, k)
  BY <1>1 DEF Held, NoEvent, Kind, Queued
<1>3. pending = [k \in Kind |-> Held(entry, k) \o Wait(queue, k)]
      /\ pending' = [k \in Kind |-> Held(entry', k) \o Wait(queue', k)]
  BY PendingIs DEF Pend
<1>4. pending' = [k \in Kind |-> Wait(queue, k)]
  BY <1>2, <1>3, QueuesAre
<1>5. CASE entry = NoEvent
  BY <1>1, <1>5, PendingIs
<1>6. CASE entry \in Events
  <2> DEFINE q == entry.kind
  <2>1. q \in Kind /\ entry.id \in Id
    BY <1>6 DEF Events
  <2>2. \A k \in Kind : Held(entry, k) = IF k = q THEN <<entry.id>> ELSE <<>>
    BY DEF Held
  <2> HIDE DEF q
  <2>3. \A k \in Kind : pending[k] = IF k = q THEN <<entry.id>> \o Wait(queue, k)
                                              ELSE Wait(queue, k)
    <3>1. \A k \in Kind : <<>> \o Wait(queue, k) = Wait(queue, k)
      BY QueuesAre
    <3>2. \A k \in Kind : pending[k] = Held(entry, k) \o Wait(queue, k)
      BY <1>3
    <3> QED
      BY <2>2, <3>1, <3>2
  <2>4. pending[q] # <<>> /\ Tail(pending[q]) = Wait(queue, q)
    <3>1. pending[q] = <<entry.id>> \o Wait(queue, q) /\ Wait(queue, q) \in Seq(Id)
      BY <2>1, <2>3, QueuesAre
    <3> QED
      BY <2>1, <3>1
  <2>5. pending' = [pending EXCEPT ![q] = Tail(@)]
    BY <1>3, <1>4, <2>1, <2>3, <2>4
  <2> QED
    BY <2>1, <2>4, <2>5 DEF Fifo!Next, Fifo!Deliver
<1> QED
  BY <1>5, <1>6 DEF IntInv, TypeOK

\* The injection implements InterruptFifo: an event taken from the hardware is
\* delivered exactly once, and those of a kind in order but for the ones put in front.
THEOREM InterruptsImplementFifo == Spec => InOrder
<1>1. Init => Fifo!Init
  <2> SUFFICES ASSUME Init PROVE Fifo!Init
    OBVIOUS
  <2>1. entry = NoEvent /\ \A k \in Queued : queue[k].count = 0
    BY DEF Init, New
  <2>2. ASSUME NEW k \in Kind PROVE Held(entry, k) \o Wait(queue, k) = <<>>
    <3>1. Held(entry, k) = <<>>
      BY <2>1 DEF Held, NoEvent, Kind, Queued
    <3>2. Wait(queue, k) = <<>>
      <4>1. k \in Queued => Ids(queue[k]) = <<>>
        BY <2>1 DEF Ids
      <4> QED
        BY <4>1 DEF Wait
    <3> QED
      BY <3>1, <3>2
  <2> QED
    BY <2>2, PendingIs DEF Pend, Fifo!Init
<1>2. IntInv /\ [Next]_vars => [Fifo!Next]_pending
  <2> SUFFICES ASSUME IntInv, [Next]_vars PROVE [Fifo!Next]_pending
    OBVIOUS
  <2>1. CASE Guest \/ UNCHANGED vars
    <3>1. entry' = entry /\ queue' = queue
      BY <2>1 DEF Guest, vars
    <3> QED
      BY <3>1, PendingIs
  <2> QED
    BY <2>1, InjectTakes, WindowStutters, EntryDelivers DEF Next
<1> QED
  BY <1>1, <1>2, InterruptsInvariance, PTL DEF Spec, InOrder, Fifo!Spec
=============================================================================
