----------------------------- MODULE VmExitsProofs -----------------------------
(***************************************************************************)
(* Proofs about VmExits, for any processors, locks and bounds.             *)
(***************************************************************************)
EXTENDS VmExits, NumberProofs

---------------------------------------------------------------------------
\* A ring used at one end only, like a stack, begins at slot 0: PushBack and PopBack there.
LEMMA PushBackAtZero ==
  ASSUME NEW Item, NEW d \in Deques(Item), d.first = 0, d.count < Size, NEW item \in Item
  PROVE  /\ PushBack(d, item) \in Deques(Item)
         /\ PushBack(d, item).queue = [d.queue EXCEPT ![d.count] = item]
         /\ PushBack(d, item).first = 0 /\ PushBack(d, item).count = d.count + 1
<1>1. d.count \in 0..(Size - 1) /\ d.queue \in [0..(Size - 1) -> Item \cup {None}]
  BY SizeAssumption DEF Deques
<1>2. (d.first + d.count) % Size = d.count
  BY <1>1, ModSmall, SizeAssumption
<1>3. PushBack(d, item) = [queue |-> [d.queue EXCEPT ![d.count] = item],
                           first |-> 0, count |-> d.count + 1]
  BY <1>2 DEF PushBack, Deques
<1>4. [d.queue EXCEPT ![d.count] = item] \in [0..(Size - 1) -> Item \cup {None}]
  BY <1>1
<1>5. d.count + 1 \in 0..Size /\ 0 \in 0..(Size - 1)
  BY <1>1, SizeAssumption
<1> QED
  BY <1>3, <1>4, <1>5 DEF Deques

LEMMA PopBackAtZero ==
  ASSUME NEW Item, NEW d \in Deques(Item), d.first = 0, d.count > 0
  PROVE  /\ PopBack(d) \in Deques(Item) /\ PopBack(d).queue = d.queue
         /\ PopBack(d).first = 0 /\ PopBack(d).count = d.count - 1
         /\ Back(d) = d.queue[d.count - 1]
<1>1. d.count \in 1..Size /\ d.queue \in [0..(Size - 1) -> Item \cup {None}]
  BY SizeAssumption DEF Deques
<1>2. d.count - 1 \in 0..(Size - 1) /\ d.first + d.count - 1 = d.count - 1
  BY <1>1, SizeAssumption
<1>3. (d.first + d.count - 1) % Size = d.count - 1
  BY <1>2, ModSmall, SizeAssumption
<1>4. PopBack(d) = [queue |-> d.queue, first |-> 0, count |-> d.count - 1]
  BY DEF PopBack, Deques
<1>5. d.count - 1 \in 0..Size /\ 0 \in 0..(Size - 1)
  BY <1>1, SizeAssumption
<1> QED
  BY <1>1, <1>3, <1>4, <1>5 DEF Deques, Back

---------------------------------------------------------------------------
Places == {"guest", "handle", "resumed", "entry", "off"}

\* The part of TypeOK the proofs need.
ExitType ==
  /\ pc \in [CPU -> Places] /\ at \in [CPU -> 1..3] /\ exit \in [CPU -> Kind \cup {"none"}]
  /\ vmx \in [CPU -> BOOLEAN]
  /\ lock \in [Locks -> CPU \cup {None}] /\ want \in [CPU -> Locks \cup {None}]
  /\ queue \in [CPU -> Deques(Locks)]
  /\ flag \in [Port -> BOOLEAN] /\ enabled \in [Port -> Nat] /\ hits \in [Port -> Nat]

\* A processor is in its driver's handler, which may take locks.
InCustom(c) == pc[c] = "handle" /\ at[c] = 3 /\ exit[c] # "terminate"

\* Where a processor may spin, where it may hold locks, and where it may be off.
PlaceInv(c) ==
  /\ want[c] # None => InCustom(c)
  /\ queue[c].count > 0 => InCustom(c) \/ pc[c] = "resumed"
  /\ ~vmx[c] => pc[c] \in {"entry", "off"}

\* The slots of a ring that starts at 0 name the locks, each once.
RingInv(c) ==
  /\ queue[c].first = 0
  /\ \A i \in 0..(queue[c].count - 1) :
       queue[c].queue[i] \in Locks /\ lock[queue[c].queue[i]] = c
  /\ \A i, j \in 0..(queue[c].count - 1) : queue[c].queue[i] = queue[c].queue[j] => i = j
  /\ \A l \in Held(c) : \E i \in 0..(queue[c].count - 1) : queue[c].queue[i] = l

ExitInv ==
  /\ ExitType
  /\ ~ud
  /\ \A c \in CPU : PlaceInv(c) /\ RingInv(c)
  /\ HitOncePerEnabling

---------------------------------------------------------------------------
\* A ring that names the locks of its processor counts them.
LEMMA RingCounts ==
  ASSUME ExitType, NEW c \in CPU, RingInv(c)
  PROVE  IsFiniteSet(Held(c)) /\ Cardinality(Held(c)) = queue[c].count
<1> DEFINE n == queue[c].count
           f == [i \in 1..n |-> queue[c].queue[i - 1]]
<1>1. n \in Nat /\ queue[c].queue \in [0..(Size - 1) -> Locks \cup {None}]
  BY SizeAssumption DEF ExitType, Deques
<1>2. \A i \in 1..n : f[i] \in Held(c)
  BY <1>1 DEF RingInv, Held
<1>3. \A i, j \in 1..n : f[i] = f[j] => i = j
  BY <1>1 DEF RingInv
<1>4. \A l \in Held(c) : \E i \in 1..n : f[i] = l
  <2> SUFFICES ASSUME NEW l \in Held(c) PROVE \E i \in 1..n : f[i] = l
    OBVIOUS
  <2>1. PICK i \in 0..(n - 1) : queue[c].queue[i] = l
    BY DEF RingInv
  <2>2. i + 1 \in 1..n /\ f[i + 1] = l
    BY <1>1, <2>1
  <2> QED
    BY <2>2
<1>5. f \in Bijection(1..n, Held(c))
  BY <1>2, <1>3, <1>4 DEF Bijection, Injection, Surjection, IsInjective
<1>6. ExistsBijection(1..n, Held(c))
  BY <1>5 DEF ExistsBijection
<1>7. Held(c) \subseteq Locks
  BY DEF Held
<1> HIDE DEF n
<1> QED
  BY <1>1, <1>6, <1>7, FS_CountingElements, FS_Subset, VmExitsAssumption DEF n

\* There is room in the ring for a lock the processor does not hold (deque.h:42).
LEMMA RoomForMore ==
  ASSUME ExitType, NEW c \in CPU, RingInv(c), NEW l \in Locks, lock[l] # c
  PROVE  queue[c].count < Size
<1>1. Held(c) \subseteq Locks \ {l}
  BY DEF Held
<1>2. /\ IsFiniteSet(Locks \ {l}) /\ Cardinality(Locks \ {l}) = Cardinality(Locks) - 1
  BY FS_RemoveElement, VmExitsAssumption
<1>3. Cardinality(Locks) \in Nat /\ Cardinality(Held(c)) \in Nat
  BY FS_CardinalityType, RingCounts, VmExitsAssumption
<1>4. Cardinality(Held(c)) <= Cardinality(Locks) - 1
  BY <1>1, <1>2, FS_Subset
<1>5. queue[c].count = Cardinality(Held(c))
  BY RingCounts
<1> QED
  BY <1>3, <1>4, <1>5, SizeAssumption, VmExitsAssumption

\* stacked_lock_guard_pop() unlocks one lock of the processor and forgets that one.
LEMMA PopKeeps ==
  ASSUME ExitType, \A c \in CPU : RingInv(c), NEW c \in CPU, queue[c].count > 0, Pop(c)
  PROVE  /\ lock' \in [Locks -> CPU \cup {None}] /\ queue' \in [CPU -> Deques(Locks)]
         /\ \A d \in CPU : RingInv(d)'
         /\ \A d \in CPU \ {c} : queue'[d] = queue[d]
<1> DEFINE n == queue[c].count
           q == queue[c].queue
<1>1. /\ n \in 1..Size /\ queue[c].first = 0 /\ q \in [0..(Size - 1) -> Locks \cup {None}]
      /\ Size \in Nat \ {0}
  BY SizeAssumption DEF ExitType, Deques, RingInv
<1>2. TopGuard(c) = q[n - 1] /\ q[n - 1] \in Locks /\ lock[q[n - 1]] = c
  <2>1. n - 1 \in 0..(n - 1)
    BY <1>1
  <2>2. Back(queue[c]) = q[n - 1]
    BY <1>1, PopBackAtZero DEF ExitType
  <2> QED
    BY <2>1, <2>2 DEF TopGuard, RingInv
<1>3. queue' = [queue EXCEPT ![c] = PopBack(queue[c])]
  BY DEF Pop
<1>4. lock' = [lock EXCEPT ![q[n - 1]] = None]
  BY <1>2 DEF Pop
<1>5. /\ queue'[c].first = 0 /\ queue'[c].count = n - 1 /\ queue'[c].queue = q
      /\ queue'[c] \in Deques(Locks)
  BY <1>1, <1>3, PopBackAtZero DEF ExitType
<1>6. \A d \in CPU \ {c} : queue'[d] = queue[d]
  BY <1>3 DEF ExitType
<1>7. queue' \in [CPU -> Deques(Locks)]
  BY <1>3, <1>5 DEF ExitType
<1>8. lock' \in [Locks -> CPU \cup {None}]
  BY <1>4 DEF ExitType
<1>9. RingInv(c)'
  <2> HIDE DEF n, q
  <2>1. \A i, j \in 0..(n - 1) : q[i] = q[j] => i = j
    BY DEF RingInv, n, q
  <2>2. ASSUME NEW i \in 0..(n - 1 - 1) PROVE q[i] \in Locks /\ lock'[q[i]] = c
    <3>1. i \in 0..(n - 1) /\ n - 1 \in 0..(n - 1) /\ i # n - 1
      BY <1>1, <2>2
    <3>2. q[i] \in Locks /\ lock[q[i]] = c /\ q[i] # q[n - 1]
      BY <2>1, <3>1 DEF RingInv, n, q
    <3> QED
      BY <1>4, <3>2 DEF ExitType
  <2>3. ASSUME NEW l \in Locks, lock'[l] = c PROVE \E i \in 0..(n - 1 - 1) : q[i] = l
    <3>1. l # q[n - 1] /\ lock[l] = c
      BY <1>4, <2>3, <1>2, VmExitsAssumption DEF ExitType
    <3>2. PICK i \in 0..(n - 1) : q[i] = l
      BY <3>1 DEF RingInv, Held, n, q
    <3>3. i \in 0..(n - 1 - 1)
      BY <1>1, <3>1, <3>2
    <3> QED
      BY <3>2, <3>3
  <2>4. \A i, j \in 0..(n - 1 - 1) : q[i] = q[j] => i = j
    BY <1>1, <2>1
  <2> QED
    BY <1>5, <2>2, <2>3, <2>4 DEF RingInv, Held
<1>10. ASSUME NEW d \in CPU \ {c} PROVE RingInv(d)'
  <2> HIDE DEF n, q
  <2>1. queue'[d] = queue[d]
    BY <1>6
  <2>2. \A l \in Locks : lock'[l] = d <=> lock[l] = d
    BY <1>2, <1>4, <1>10, VmExitsAssumption DEF ExitType
  <2> QED
    BY <2>1, <2>2 DEF RingInv, Held
<1> QED
  BY <1>6, <1>7, <1>8, <1>9, <1>10

\* A lock that is free is taken and remembered.
LEMMA AcquireKeeps ==
  ASSUME ExitType, \A c \in CPU : RingInv(c), NEW c \in CPU, Acquire(c)
  PROVE  /\ lock' \in [Locks -> CPU \cup {None}] /\ queue' \in [CPU -> Deques(Locks)]
         /\ \A d \in CPU : RingInv(d)'
         /\ \A d \in CPU \ {c} : queue'[d] = queue[d]
<1> DEFINE n == queue[c].count
           q == queue[c].queue
           l == want[c]
<1>1. l \in Locks /\ lock[l] = None
  BY DEF Acquire, ExitType
<1>2. /\ n \in 0..(Size - 1) /\ queue[c].first = 0
      /\ q \in [0..(Size - 1) -> Locks \cup {None}] /\ Size \in Nat \ {0}
  <2>1. n < Size
    BY <1>1, RoomForMore, VmExitsAssumption
  <2> QED
    BY <2>1, SizeAssumption DEF ExitType, Deques, RingInv
<1>4. queue' = [queue EXCEPT ![c] = PushBack(queue[c], l)]
  BY DEF Acquire
<1>5. lock' = [lock EXCEPT ![l] = c]
  BY DEF Acquire
<1>6. /\ queue'[c].first = 0 /\ queue'[c].count = n + 1
      /\ queue'[c].queue = [q EXCEPT ![n] = l]
      /\ queue'[c] \in Deques(Locks)
  <2>1. queue[c] \in Deques(Locks) /\ queue[c].first = 0 /\ queue[c].count < Size
    BY <1>2 DEF ExitType
  <2>2. queue'[c] = PushBack(queue[c], l)
    BY <1>4 DEF ExitType
  <2> HIDE DEF l
  <2> QED
    BY <1>1, <2>1, <2>2, PushBackAtZero
<1>7. \A d \in CPU \ {c} : queue'[d] = queue[d]
  BY <1>4 DEF ExitType
<1>8. queue' \in [CPU -> Deques(Locks)]
  BY <1>4, <1>6 DEF ExitType
<1>9. lock' \in [Locks -> CPU \cup {None}]
  BY <1>5 DEF ExitType
<1>10. RingInv(c)'
  <2> HIDE DEF n, q, l
  <2> DEFINE p == [q EXCEPT ![n] = l]
  <2>1. p[n] = l /\ \A i \in 0..(n - 1) : p[i] = q[i] /\ i # n
    BY <1>2
  <2>2. \A i \in 0..(n - 1) : q[i] \in Locks /\ lock[q[i]] = c /\ q[i] # l
    BY <1>1, VmExitsAssumption DEF RingInv, n, q
  <2>3. \A i \in 0..n : i = n \/ i \in 0..(n - 1)
    BY <1>2
  <2> HIDE DEF p
  <2>4. \A i \in 0..n : p[i] \in Locks /\ lock'[p[i]] = c
    BY <1>1, <1>5, <2>1, <2>2, <2>3 DEF ExitType
  <2>5. \A i, j \in 0..(n - 1) : q[i] = q[j] => i = j
    BY DEF RingInv, n, q
  <2>6. \A i, j \in 0..n : p[i] = p[j] => i = j
    BY <2>1, <2>2, <2>3, <2>5
  <2>7. \A k \in Locks : lock'[k] = c => \E i \in 0..n : p[i] = k
    <3> SUFFICES ASSUME NEW k \in Locks, lock'[k] = c PROVE \E i \in 0..n : p[i] = k
      OBVIOUS
    <3>1. CASE k = l
      BY <1>2, <2>1, <3>1
    <3>2. CASE k # l
      <4>1. lock[k] = c
        BY <1>5, <3>2 DEF ExitType
      <4>2. PICK i \in 0..(n - 1) : q[i] = k
        BY <4>1 DEF RingInv, Held, n, q
      <4> QED
        BY <1>2, <2>1, <4>2
    <3> QED
      BY <3>1, <3>2
  <2>8. queue'[c].queue = p /\ queue'[c].first = 0 /\ queue'[c].count - 1 = n
    BY <1>2, <1>6 DEF p
  <2> QED
    BY <2>4, <2>6, <2>7, <2>8 DEF RingInv, Held
<1>11. ASSUME NEW d \in CPU \ {c} PROVE RingInv(d)'
  <2> HIDE DEF n, q, l
  <2>1. queue'[d] = queue[d]
    BY <1>7
  <2>2. \A k \in Locks : lock'[k] = d <=> lock[k] = d
    BY <1>1, <1>5, <1>11, VmExitsAssumption DEF ExitType
  <2> QED
    BY <2>1, <2>2 DEF RingInv, Held
<1> QED
  BY <1>7, <1>8, <1>9, <1>10, <1>11

---------------------------------------------------------------------------
\* A step that leaves the locks, the breakpoints and VMX operation as they are keeps the
\* invariant when the processors stay in places their locks allow.
LEMMA OnlyPlaces ==
  ASSUME ExitInv, UNCHANGED <<lock, queue, flag, enabled, hits, ud>>,
         pc' \in [CPU -> Places], at' \in [CPU -> 1..3], exit' \in [CPU -> Kind \cup {"none"}],
         vmx' \in [CPU -> BOOLEAN], want' \in [CPU -> Locks \cup {None}],
         \A c \in CPU : PlaceInv(c)'
  PROVE  ExitInv'
<1>1. ExitType' /\ ud' = ud
  BY DEF ExitInv, ExitType
<1>2. \A c \in CPU : RingInv(c)'
  BY DEF ExitInv, RingInv, Held
<1>3. HitOncePerEnabling'
  BY DEF ExitInv, HitOncePerEnabling
<1> QED
  BY <1>1, <1>2, <1>3 DEF ExitInv

\* Return leads from a handler to the next one, and from the last to the VM-entry.
LEMMA ReturnGoesOn ==
  ASSUME ExitType, NEW c \in CPU, pc[c] = "handle", Return(c)
  PROVE  /\ pc' \in [CPU -> Places] /\ at' \in [CPU -> 1..3]
         /\ \A d \in CPU \ {c} : pc'[d] = pc[d] /\ at'[d] = at[d]
         /\ at[c] = 3 => pc'[c] = "entry"
<1>1. Len(Handlers) = 3
  BY DEF Handlers
<1> QED
  BY <1>1 DEF Return, ExitType, Places

\* Which handler is where in the compositor.
LEMMA HandlerAt ==
  ASSUME ExitType, NEW c \in CPU
  PROVE  /\ Running(c, "stats") => pc[c] = "handle" /\ at[c] = 1
         /\ Running(c, "dbgbreak") => pc[c] = "handle" /\ at[c] = 2
         /\ Running(c, "custom") => pc[c] = "handle" /\ at[c] = 3
<1>1. at[c] \in {1, 2, 3}
  BY DEF ExitType
<1> QED
  BY <1>1 DEF Running, Handlers

---------------------------------------------------------------------------
\* The handlers that come before the driver's run in VMX operation.
LEMMA FirstHandlersStep ==
  ASSUME ExitInv, NEW c \in CPU, HandleStats(c) \/ HandleBreak(c)
  PROVE  ExitInv'
<1> USE DEF ExitInv
<1>1. pc[c] = "handle" /\ at[c] # 3 /\ Return(c)
  BY HandlerAt DEF HandleStats, HandleBreak
<1>2. vmx[c] = TRUE
  BY <1>1 DEF PlaceInv, ExitType
<1>3. ~ud' /\ UNCHANGED <<lock, queue, want, exit, vmx, enabled>>
  <2>1. VmInstruction(c) /\ UNCHANGED <<lock, queue, want, exit, vmx, enabled>>
    BY DEF HandleStats, HandleBreak, guard, breaks
  <2> QED
    BY <1>2, <2>1 DEF VmInstruction
<1>4. ~(queue[c].count > 0) /\ want[c] = None
  BY <1>1 DEF PlaceInv, InCustom
<1>5. \A d \in CPU : PlaceInv(d)'
  BY <1>1, <1>2, <1>3, <1>4, ReturnGoesOn DEF PlaceInv, InCustom, ExitType
<1>6. /\ flag' \in [Port -> BOOLEAN] /\ hits' \in [Port -> Nat] /\ HitOncePerEnabling'
  <2>1. CASE UNCHANGED <<flag, hits>>
    BY <1>3, <2>1 DEF HitOncePerEnabling, ExitType
  <2>2. CASE exit[c] \in Port /\ flag[exit[c]] /\ Hit(exit[c])
    BY <1>3, <2>2 DEF HitOncePerEnabling, ExitType, Hit
  <2> QED
    BY <2>1, <2>2 DEF HandleStats, HandleBreak, breaks
<1>7. ExitType'
  BY <1>1, <1>3, <1>6, ReturnGoesOn DEF ExitType
<1>8. \A d \in CPU : RingInv(d)'
  BY <1>3 DEF RingInv, Held
<1> QED
  BY <1>3, <1>5, <1>6, <1>7, <1>8

\* The driver's handler without its locks.
LEMMA CustomStep ==
  ASSUME ExitInv, NEW c \in CPU,
         HandleCustom(c) \/ VmxLeave(c) \/ GuestResume(c) \/ (\E l \in Locks : Spin(c, l))
  PROVE  ExitInv'
<1> USE DEF ExitInv
<1>0. pc[c] = "handle" /\ at[c] = 3 /\ vmx[c] = TRUE
      /\ UNCHANGED <<lock, queue, flag, enabled, hits, ud, exit>>
  <2>1. Running(c, "custom") /\ UNCHANGED <<lock, queue, flag, enabled, hits, ud, exit>>
    BY DEF HandleCustom, VmxLeave, GuestResume, Spin, Custom, guard, breaks
  <2> QED
    BY <2>1, HandlerAt DEF PlaceInv, ExitType
<1>1. CASE HandleCustom(c)
  <2>1. want[c] = None /\ ~(queue[c].count > 0) /\ Return(c) /\ want' = want /\ vmx' = vmx
    BY <1>1 DEF HandleCustom, Custom, guard
  <2>2. \A d \in CPU : PlaceInv(d)'
    BY <1>0, <2>1, ReturnGoesOn DEF PlaceInv, InCustom, ExitType
  <2> QED
    BY <1>0, <2>1, <2>2, ReturnGoesOn, OnlyPlaces DEF ExitType
<1>2. CASE VmxLeave(c)
  <2>1. /\ exit[c] = "terminate" /\ Return(c) /\ want' = want
        /\ vmx' = [vmx EXCEPT ![c] = FALSE]
    BY <1>2 DEF VmxLeave, guard
  <2>2. want[c] = None /\ ~(queue[c].count > 0)
    BY <1>0, <2>1 DEF PlaceInv, InCustom
  <2>3. \A d \in CPU : PlaceInv(d)'
    BY <1>0, <2>1, <2>2, ReturnGoesOn DEF PlaceInv, InCustom, ExitType
  <2>4. vmx' \in [CPU -> BOOLEAN]
    BY <2>1 DEF ExitType
  <2> QED
    BY <1>0, <2>1, <2>3, <2>4, ReturnGoesOn, OnlyPlaces DEF ExitType
<1>3. CASE GuestResume(c)
  <2>1. want[c] = None /\ pc' = [pc EXCEPT ![c] = "resumed"] /\ UNCHANGED <<at, want, vmx>>
    BY <1>3 DEF GuestResume, Custom, guard
  <2>2. \A d \in CPU : PlaceInv(d)'
    BY <1>0, <2>1 DEF PlaceInv, InCustom, ExitType
  <2>3. pc' \in [CPU -> Places]
    BY <2>1 DEF ExitType, Places
  <2> QED
    BY <1>0, <2>1, <2>2, <2>3, OnlyPlaces DEF ExitType
<1>4. ASSUME NEW l \in Locks, Spin(c, l) PROVE ExitInv'
  <2>1. exit[c] # "terminate" /\ want' = [want EXCEPT ![c] = l] /\ UNCHANGED <<pc, at, vmx>>
    BY <1>4 DEF Spin, Custom
  <2>2. \A d \in CPU : PlaceInv(d)'
    BY <1>0, <2>1 DEF PlaceInv, InCustom, ExitType
  <2>3. want' \in [CPU -> Locks \cup {None}]
    BY <2>1 DEF ExitType
  <2> QED
    BY <1>0, <2>1, <2>2, <2>3, OnlyPlaces DEF ExitType
<1> QED
  BY <1>1, <1>2, <1>3, <1>4

\* The steps that take and release locks.
LEMMA LockStep ==
  ASSUME ExitInv, NEW c \in CPU, Acquire(c) \/ Release(c) \/ UnlockAll(c)
  PROVE  ExitInv'
<1> USE DEF ExitInv
<1>0. UNCHANGED <<at, exit, vmx, flag, enabled, hits, ud>>
  BY DEF Acquire, Release, UnlockAll, breaks
<1>1. /\ pc' \in [CPU -> Places] /\ want' \in [CPU -> Locks \cup {None}]
      /\ lock' \in [Locks -> CPU \cup {None}] /\ queue' \in [CPU -> Deques(Locks)]
      /\ \A d \in CPU : RingInv(d)'
      /\ \A d \in CPU : PlaceInv(d)'
  <2>1. CASE Acquire(c)
    <3>1. InCustom(c) /\ pc' = pc /\ want' = [want EXCEPT ![c] = None]
      BY <2>1 DEF PlaceInv, Acquire
    <3>2. \A d \in CPU : PlaceInv(d)'
      BY <1>0, <2>1, <3>1, AcquireKeeps DEF PlaceInv, InCustom, ExitType
    <3> QED
      BY <2>1, <3>1, <3>2, AcquireKeeps DEF ExitType
  <2>2. CASE (Release(c) \/ UnlockAll(c)) /\ queue[c].count > 0
    <3>1. Pop(c) /\ pc' = pc /\ want' = want
      BY <2>2 DEF Release, UnlockAll, NextUnlock
    <3>2. \A d \in CPU : PlaceInv(d)'
      BY <1>0, <2>2, <3>1, PopKeeps DEF PlaceInv, InCustom
    <3> QED
      BY <2>2, <3>1, <3>2, PopKeeps DEF ExitType
  <2>3. CASE UnlockAll(c) /\ ~(queue[c].count > 0)
    <3>1. /\ pc[c] = "resumed" /\ pc' = [pc EXCEPT ![c] = "entry"]
          /\ UNCHANGED <<lock, queue, want>>
      BY <2>3 DEF UnlockAll, NextUnlock
    <3>2. \A d \in CPU : PlaceInv(d)'
      BY <1>0, <2>3, <3>1 DEF PlaceInv, InCustom, ExitType
    <3>3. \A d \in CPU : RingInv(d)'
      BY <3>1 DEF RingInv, Held
    <3>4. pc' \in [CPU -> Places]
      BY <3>1 DEF ExitType, Places
    <3> QED
      BY <3>1, <3>2, <3>3, <3>4 DEF ExitType
  <2> QED
    BY <2>1, <2>2, <2>3 DEF Release
<1>2. ExitType'
  BY <1>0, <1>1 DEF ExitType
<1>3. HitOncePerEnabling'
  BY <1>0 DEF HitOncePerEnabling
<1> QED
  BY <1>0, <1>1, <1>2, <1>3

\* The VM-exit, the VM-entry, the device and the dump.
LEMMA OutsideStep ==
  ASSUME ExitInv,
         \/ \E c \in CPU : VmEntry(c) \/ \E kind \in Kind : VmExit(c, kind)
         \/ EnableIn \/ EnableOut \/ Dump \/ UNCHANGED vars
  PROVE  ExitInv'
<1> USE DEF ExitInv
<1>1. ASSUME NEW c \in CPU, VmEntry(c) PROVE ExitInv'
  <2>1. /\ pc[c] = "entry" /\ pc' = [pc EXCEPT ![c] = IF vmx[c] THEN "guest" ELSE "off"]
        /\ at' = [at EXCEPT ![c] = 1] /\ exit' = [exit EXCEPT ![c] = "none"]
        /\ UNCHANGED <<vmx, lock, queue, want, flag, enabled, hits, ud>>
    BY <1>1 DEF VmEntry, guard, breaks
  <2>2. \A d \in CPU : PlaceInv(d)'
    BY <2>1 DEF PlaceInv, InCustom, ExitType
  <2>3. pc' \in [CPU -> Places] /\ at' \in [CPU -> 1..3] /\ exit' \in [CPU -> Kind \cup {"none"}]
    BY <2>1 DEF ExitType, Places
  <2> QED
    BY <2>1, <2>2, <2>3, OnlyPlaces DEF ExitType
<1>2. ASSUME NEW c \in CPU, NEW kind \in Kind, VmExit(c, kind) PROVE ExitInv'
  <2>1. /\ pc[c] = "guest" /\ pc' = [pc EXCEPT ![c] = "handle"]
        /\ exit' = [exit EXCEPT ![c] = kind]
        /\ UNCHANGED <<at, vmx, lock, queue, want, flag, enabled, hits, ud>>
    BY <1>2 DEF VmExit, guard, breaks
  <2>2. \A d \in CPU : PlaceInv(d)'
    BY <2>1 DEF PlaceInv, InCustom, ExitType
  <2>3. pc' \in [CPU -> Places] /\ exit' \in [CPU -> Kind \cup {"none"}]
    BY <2>1 DEF ExitType, Places
  <2> QED
    BY <2>1, <2>2, <2>3, OnlyPlaces DEF ExitType
<1>3. ASSUME NEW p \in Port, Set(p), UNCHANGED <<pc, at, exit, vmx, guard, hits, ud>>
      PROVE  ExitInv'
  <2>1. /\ flag' = [flag EXCEPT ![p] = TRUE]
        /\ enabled' = [enabled EXCEPT ![p] = IF flag[p] THEN @ ELSE @ + 1]
        /\ UNCHANGED <<pc, at, exit, vmx, lock, queue, want, hits, ud>>
    BY <1>3 DEF Set, guard
  <2>2. ExitType'
    BY <2>1 DEF ExitType
  <2>3. \A d \in CPU : PlaceInv(d)' /\ RingInv(d)'
    BY <2>1 DEF PlaceInv, InCustom, RingInv, Held
  <2>4. HitOncePerEnabling'
    BY <2>1 DEF HitOncePerEnabling, ExitType
  <2> QED
    BY <2>1, <2>2, <2>3, <2>4
<1>4. CASE Dump \/ UNCHANGED vars
  <2>1. UNCHANGED <<pc, at, exit, vmx, lock, queue, want, flag, enabled, hits, ud>>
    BY <1>4 DEF Dump, vars, guard, breaks
  <2>2. \A c \in CPU : PlaceInv(c)'
    BY <2>1 DEF PlaceInv, InCustom
  <2> QED
    BY <2>1, <2>2, OnlyPlaces DEF ExitType
<1>5. EnableIn => Set("in") /\ UNCHANGED <<pc, at, exit, vmx, guard, hits, ud>>
  BY DEF EnableIn
<1>6. EnableOut => Set("out") /\ UNCHANGED <<pc, at, exit, vmx, guard, hits, ud>>
  BY DEF EnableOut
<1> QED
  BY <1>1, <1>2, <1>3, <1>4, <1>5, <1>6 DEF Port

\* The inductive invariant holds in every behaviour.
THEOREM ExitInvariance == Spec => []ExitInv
<1>1. Init => ExitInv
  <2> SUFFICES ASSUME Init PROVE ExitInv
    OBVIOUS
  <2>1. 0 \in 0..(Size - 1) /\ 0 \in 0..Size /\ ~(0 > 0)
    BY SizeAssumption
  <2>2. New \in Deques(Locks) /\ New.first = 0 /\ New.count = 0
    BY <2>1 DEF New, Deques
  <2>3. ExitType
    BY <2>2 DEF Init, ExitType, Places
  <2>4. \A c \in CPU : PlaceInv(c)
    BY <2>1, <2>2 DEF Init, PlaceInv
  <2>5. ASSUME NEW c \in CPU PROVE RingInv(c)
    <3>1. queue[c] = New /\ Held(c) = {}
      BY VmExitsAssumption DEF Init, Held
    <3>2. 0..(queue[c].count - 1) = {}
      BY <2>2, <3>1
    <3> QED
      BY <2>2, <3>1, <3>2 DEF RingInv
  <2>6. HitOncePerEnabling
    BY DEF Init, HitOncePerEnabling
  <2> QED
    BY <2>3, <2>4, <2>5, <2>6 DEF Init, ExitInv
<1>2. ExitInv /\ [Next]_vars => ExitInv'
  BY FirstHandlersStep, CustomStep, LockStep, OutsideStep DEF Next, HostStep
<1> QED
  BY <1>1, <1>2, PTL DEF Spec

\* No handler reads the VMCS of a processor that has left VMX operation, because the one
\* that leaves it is the last (vmexit.h:324-329).
THEOREM NoVmread == Spec => []NoVmreadAfterOff
<1>1. ExitInv => NoVmreadAfterOff
  BY DEF ExitInv, NoVmreadAfterOff
<1> QED
  BY <1>1, ExitInvariance, PTL

\* However the device and any number of processors interleave, a breakpoint is hit once
\* for each time it was set (vmexit_dbgbreak.h:14-18).
THEOREM OneHit == Spec => []HitOncePerEnabling
<1>1. ExitInv => HitOncePerEnabling
  BY DEF ExitInv
<1> QED
  BY <1>1, ExitInvariance, PTL

\* The queue of each processor names exactly the locks it holds, and a guest holds none
\* (vmexit.h:195-198).
THEOREM LocksAlwaysMatch == Spec => []LocksMatch
<1>1. ExitInv => LocksMatch
  <2> SUFFICES ASSUME ExitInv, NEW c \in CPU
               PROVE  /\ Held(c) = {Contents(queue[c])[i] : i \in 1..queue[c].count}
                      /\ Cardinality(Held(c)) = queue[c].count
                      /\ pc[c] \notin {"handle", "resumed"} => Held(c) = {}
    BY DEF LocksMatch
  <2> DEFINE n == queue[c].count
             q == queue[c].queue
  <2>1. /\ ExitType /\ RingInv(c) /\ PlaceInv(c) /\ n \in 0..Size /\ queue[c].first = 0
        /\ Size \in Nat \ {0}
    BY SizeAssumption DEF ExitInv, ExitType, RingInv, Deques
  <2>2. ASSUME NEW i \in 1..n PROVE Contents(queue[c])[i] = q[i - 1] /\ i - 1 \in 0..(n - 1)
    <3>1. i - 1 \in 0..(Size - 1) /\ 0 + i - 1 = i - 1 /\ i - 1 \in 0..(n - 1)
      BY <2>1
    <3>2. (queue[c].first + i - 1) % Size = i - 1
      BY <2>1, <3>1, ModSmall
    <3> QED
      BY <3>1, <3>2 DEF Contents
  <2>3. \A k \in 0..(n - 1) : k + 1 \in 1..n /\ (k + 1) - 1 = k
    BY <2>1
  <2>4. Held(c) = {Contents(queue[c])[i] : i \in 1..n}
    <3> HIDE DEF n, q
    <3>1. \A l \in Held(c) : \E k \in 0..(n - 1) : q[k] = l
      BY <2>1 DEF RingInv, n, q
    <3>2. \A k \in 0..(n - 1) : q[k] \in Held(c)
      BY <2>1 DEF RingInv, Held, n, q
    <3> QED
      BY <2>2, <2>3, <3>1, <3>2
  <2>5. pc[c] \notin {"handle", "resumed"} => 1..n = {}
    BY <2>1 DEF PlaceInv, InCustom
  <2>6. Cardinality(Held(c)) = queue[c].count
    BY <2>1, RingCounts
  <2> QED
    BY <2>4, <2>5, <2>6
<1> QED
  BY <1>1, ExitInvariance, PTL

---------------------------------------------------------------------------
(***************************************************************************)
(* The statistics.                                                         *)
(***************************************************************************)

StatType ==
  /\ exits \in [CPU -> Nat]
  /\ storage \in [CPU -> [Counter -> 0..(Width - 1)]]

\* Which exit a processor handles, and whether it still is in VMX operation.
PathInv(c) ==
  /\ pc[c] = "guest"   => at[c] = 1 /\ exit[c] = "none" /\ vmx[c]
  /\ pc[c] = "handle"  => exit[c] \in Kind /\ vmx[c]
  /\ pc[c] = "resumed" => exit[c] \in Port /\ vmx[c] /\ at[c] = 3
  /\ pc[c] = "entry"   => /\ exit[c] \in Kind /\ at[c] = 3
                          /\ vmx[c] <=> exit[c] # "terminate"

\* The exit in progress has not reached the statistics yet.
Fresh(c) == pc[c] = "handle" /\ at[c] = 1

\* The last exit of a processor has been counted.
Over(c) == pc[c] = "off" \/ (exit[c] = "terminate" /\ ~Fresh(c))

Behind(c) == IF Fresh(c) /\ exit[c] \in Port THEN 1 ELSE 0

CountInv(c) ==
  LET count == storage[c] IN
  /\ Same(Width, count["io_instruction"] + Behind(c), exits[c])
  /\ Same(Width, count["io_in"] + count["io_out"], count["io_instruction"])
  /\ count["vmcall"] = IF Over(c) THEN 1 % Width ELSE 0

\* The dump adds up what the processors have counted, after the last one is off.
MergedInv ==
  merged # None =>
    /\ \A c \in CPU : pc[c] = "off"
    /\ \E f : /\ f = [k \in Counter |-> [c \in CPU |-> storage[c][k]]]
             /\ merged = [k \in Counter |-> Total(f[k], CPU) % Width]

StatInv ==
  /\ StatType
  /\ \A c \in CPU : PathInv(c) /\ CountInv(c)
  /\ MergedInv

LEMMA SameBack ==
  ASSUME NEW p, NEW a, NEW b, Same(p, a, b)
  PROVE  Same(p, b, a)
BY Zenon DEF Same

LEMMA SameThrough ==
  ASSUME NEW p, NEW a, NEW b, NEW c, Same(p, a, b), Same(p, b, c)
  PROVE  Same(p, a, c)
BY Zenon DEF Same

\* The counters of an exit go up together.
LEMMA CountedUp ==
  ASSUME NEW p \in Nat \ {0}, NEW a \in Nat, NEW b \in Nat, NEW c \in Nat,
         Same(p, a + b, c)
  PROVE  Same(p, ((a + 1) % p) + b, (c + 1) % p)
<1>1. a + 1 \in Nat /\ c + 1 \in Nat /\ a + b \in Nat
      /\ (a + 1) + b = (a + b) + 1 /\ 1 \in Nat
  OBVIOUS
<1>2. /\ (a + 1) % p \in Nat /\ Same(p, (a + 1) % p, a + 1)
      /\ (c + 1) % p \in Nat /\ Same(p, (c + 1) % p, c + 1)
  BY <1>1, ModMod, Zenon
<1>3. Same(p, ((a + 1) % p) + b, (a + 1) + b)
  <2>1. Same(p, b, b)
    BY DEF Same
  <2> QED
    BY <1>1, <1>2, <2>1, SameSums, Zenon
<1>4. Same(p, (a + b) + 1, c + 1)
  <2>1. Same(p, 1, 1)
    BY DEF Same
  <2> QED
    BY <1>1, <2>1, SameSums
<1>5. Same(p, ((a + 1) % p) + b, c + 1)
  BY <1>1, <1>3, <1>4, SameThrough, Zenon
<1>6. Same(p, c + 1, (c + 1) % p)
  BY <1>2, SameBack, Zenon
<1> QED
  BY <1>5, <1>6, SameThrough, Zenon

\* A step that counts nothing keeps the counters of a processor that goes on where it
\* was, or from one handler to the next.
LEMMA CountKept ==
  ASSUME NEW c \in CPU, CountInv(c), storage'[c] = storage[c], exits'[c] = exits[c],
         Fresh(c)' <=> Fresh(c), Over(c)' <=> Over(c), exit'[c] = exit[c] \/ ~Fresh(c)
  PROVE  CountInv(c)'
<1>1. Behind(c)' = Behind(c)
  BY DEF Behind
<1> HIDE DEF Behind, Over
<1> QED
  BY <1>1 DEF CountInv

\* vmexit_stats_handler::handle() counts the exit.
LEMMA StatsCount ==
  ASSUME ExitInv, StatInv, NEW c \in CPU, HandleStats(c)
  PROVE  /\ StatType' /\ CountInv(c)' /\ exits' = exits
         /\ \A d \in CPU \ {c} : storage'[d] = storage[d]
<1> DEFINE old == storage[c]
           new == storage'[c]
<1>1. /\ pc[c] = "handle" /\ at[c] = 1 /\ exit[c] \in Kind
      /\ Return(c) /\ UNCHANGED <<exit, exits, vmx>>
  BY HandlerAt DEF HandleStats, ExitInv, StatInv, PathInv
<1>2. pc' = pc /\ at' = [at EXCEPT ![c] = 2]
  <2>1. at[c] # Len(Handlers)
    BY <1>1 DEF Handlers
  <2> QED
    BY <1>1, <2>1 DEF Return
<1>3. /\ Behind(c) = (IF exit[c] \in Port THEN 1 ELSE 0) /\ ~Over(c)
      /\ Behind(c)' = 0 /\ (Over(c)' <=> exit[c] = "terminate")
  BY <1>1, <1>2 DEF Behind, Over, Fresh, ExitInv, ExitType
<1>4. /\ storage \in [CPU -> [Counter -> 0..(Width - 1)]] /\ Width \in Nat \ {0}
      /\ exits \in [CPU -> Nat]
  BY VmExitsAssumption DEF StatInv, StatType
<1>5. storage' = [storage EXCEPT ![c] =
                    [k \in Counter |-> IF k \in Counted(exit[c]) THEN (@[k] + 1) % Width
                                       ELSE @[k]]]
  BY DEF HandleStats
<1>6. /\ \A d \in CPU \ {c} : storage'[d] = storage[d]
      /\ new = [k \in Counter |-> IF k \in Counted(exit[c]) THEN (old[k] + 1) % Width
                                  ELSE old[k]]
  BY <1>4, <1>5
<1>7. \A k \in Counter : old[k] \in 0..(Width - 1) /\ (old[k] + 1) % Width \in 0..(Width - 1)
  <2> SUFFICES ASSUME NEW k \in Counter
               PROVE  old[k] \in 0..(Width - 1) /\ (old[k] + 1) % Width \in 0..(Width - 1)
    OBVIOUS
  <2>1. old[k] \in 0..(Width - 1) /\ old[k] + 1 \in Nat
    BY <1>4
  <2> QED
    BY <1>4, <2>1, DivIs
<1>8. StatType'
  <2>1. new \in [Counter -> 0..(Width - 1)]
    <3> HIDE DEF new, old
    <3> QED
      BY <1>6, <1>7
  <2>2. storage' \in [CPU -> [Counter -> 0..(Width - 1)]]
    BY <1>4, <1>5, <1>6, <2>1
  <2> QED
    BY <1>1, <1>4, <2>2 DEF StatType
<1>9. /\ Same(Width, old["io_instruction"] + Behind(c), exits[c])
      /\ Same(Width, old["io_in"] + old["io_out"], old["io_instruction"])
      /\ old["vmcall"] = 0
  BY <1>3 DEF StatInv, CountInv
<1> HIDE DEF new, old
<1>10. /\ new["io_instruction"] = IF exit[c] \in Port THEN (old["io_instruction"] + 1) % Width
                                  ELSE old["io_instruction"]
       /\ new["io_in"] = IF exit[c] = "in" THEN (old["io_in"] + 1) % Width ELSE old["io_in"]
       /\ new["io_out"] = IF exit[c] = "out" THEN (old["io_out"] + 1) % Width ELSE old["io_out"]
       /\ new["vmcall"] = IF exit[c] = "terminate" THEN (old["vmcall"] + 1) % Width
                          ELSE old["vmcall"]
  BY <1>1, <1>6 DEF Counter, Counted, Kind, Port
<1>11. /\ old["io_instruction"] \in Nat /\ old["io_in"] \in Nat /\ old["io_out"] \in Nat
       /\ exits[c] \in Nat /\ 0 \in Nat /\ 1 \in Nat
  BY <1>4, <1>7 DEF Counter
<1>12. Same(Width, new["io_instruction"] + 0, exits[c])
  <2>1. CASE exit[c] \in Port
    <3>1. /\ old["io_instruction"] + 1 \in Nat
          /\ (old["io_instruction"] + 1) % Width \in Nat
          /\ Same(Width, (old["io_instruction"] + 1) % Width, old["io_instruction"] + 1)
      <4>1. old["io_instruction"] + 1 \in Nat
        BY <1>11
      <4> QED
        BY <1>4, <4>1, ModMod, Zenon
    <3>2. Same(Width, old["io_instruction"] + 1, exits[c])
      BY <1>3, <1>9, <2>1
    <3>3. Same(Width, (old["io_instruction"] + 1) % Width, exits[c])
      BY <3>1, <3>2, SameThrough, Zenon
    <3>4. ((old["io_instruction"] + 1) % Width) + 0 = (old["io_instruction"] + 1) % Width
      BY <3>1
    <3> QED
      BY <1>10, <2>1, <3>3, <3>4
  <2>2. CASE exit[c] \notin Port
    BY <1>3, <1>9, <1>10, <2>2
  <2> QED
    BY <2>1, <2>2
<1>13. Same(Width, new["io_in"] + new["io_out"], new["io_instruction"])
  <2>1. CASE exit[c] = "in"
    <3>1. Same(Width, ((old["io_in"] + 1) % Width) + old["io_out"],
                      (old["io_instruction"] + 1) % Width)
      BY <1>4, <1>9, <1>11, CountedUp, Zenon
    <3>2. /\ new["io_in"] = (old["io_in"] + 1) % Width /\ new["io_out"] = old["io_out"]
          /\ new["io_instruction"] = (old["io_instruction"] + 1) % Width
      BY <1>10, <2>1 DEF Port
    <3> QED
      BY <3>1, <3>2, Zenon
  <2>2. CASE exit[c] = "out"
    <3>1. old["io_out"] + old["io_in"] = old["io_in"] + old["io_out"]
      BY <1>11
    <3>2. Same(Width, ((old["io_out"] + 1) % Width) + old["io_in"],
                      (old["io_instruction"] + 1) % Width)
      BY <1>4, <1>9, <1>11, <3>1, CountedUp, Zenon
    <3>3. /\ new["io_out"] = (old["io_out"] + 1) % Width /\ new["io_in"] = old["io_in"]
          /\ new["io_instruction"] = (old["io_instruction"] + 1) % Width
      BY <1>10, <2>2 DEF Port
    <3>4. new["io_in"] \in Nat /\ new["io_out"] \in Nat
      BY <1>6, <1>7 DEF Counter
    <3>5. new["io_in"] + new["io_out"] = new["io_out"] + new["io_in"]
      BY <3>4
    <3> QED
      BY <3>2, <3>3, <3>5, Zenon
  <2>3. CASE exit[c] \notin Port
    BY <1>9, <1>10, <2>3 DEF Port
  <2> QED
    BY <2>1, <2>2, <2>3 DEF Port
<1>14. new["vmcall"] = IF Over(c)' THEN 1 % Width ELSE 0
  BY <1>3, <1>9, <1>10
<1> HIDE DEF Behind, Over
<1>15. CountInv(c)'
  BY <1>1, <1>3, <1>12, <1>13, <1>14 DEF CountInv, new
<1> QED
  BY <1>1, <1>6, <1>8, <1>15

\* A step of a processor leaves the others and the dump alone.
LEMMA OneProcessor ==
  ASSUME ExitInv, StatInv, NEW c \in CPU, pc[c] # "off", merged' = merged,
         \A d \in CPU \ {c} :
           /\ pc'[d] = pc[d] /\ at'[d] = at[d] /\ exit'[d] = exit[d] /\ vmx'[d] = vmx[d]
           /\ exits'[d] = exits[d] /\ storage'[d] = storage[d],
         StatType', PathInv(c)', CountInv(c)'
  PROVE  StatInv'
<1>1. merged' = None
  BY DEF StatInv, MergedInv
<1>2. ASSUME NEW d \in CPU, d # c PROVE PathInv(d)' /\ CountInv(d)'
  <2>1. PathInv(d)'
    BY <1>2 DEF StatInv, PathInv
  <2>2. CountInv(d)'
    BY <1>2, CountKept DEF StatInv, Fresh, Over
  <2> QED
    BY <2>1, <2>2
<1>3. MergedInv'
  BY <1>1 DEF MergedInv
<1> QED
  BY <1>2, <1>3 DEF StatInv

LEMMA StatKept ==
  ASSUME ExitInv, StatInv, NEW c \in CPU, HostStep(c)
  PROVE  StatInv'
<1>0. /\ pc \in [CPU -> Places] /\ at \in [CPU -> 1..3] /\ vmx \in [CPU -> BOOLEAN]
      /\ exit \in [CPU -> Kind \cup {"none"}]
      /\ PathInv(c) /\ CountInv(c) /\ StatType /\ Len(Handlers) = 3
  BY DEF ExitInv, ExitType, StatInv, Handlers
<1>1. CASE HandleStats(c)
  <2>1. /\ pc[c] = "handle" /\ at[c] = 1 /\ exit[c] \in Kind
        /\ Return(c) /\ UNCHANGED <<exit, exits, vmx, merged>>
    BY <1>0, <1>1, HandlerAt DEF HandleStats, PathInv, ExitInv
  <2>2. pc' = pc /\ at' = [at EXCEPT ![c] = 2]
    BY <1>0, <2>1 DEF Return
  <2>3. PathInv(c)'
    BY <1>0, <2>1, <2>2 DEF PathInv
  <2> QED
    BY <1>0, <1>1, <2>1, <2>2, <2>3, StatsCount, OneProcessor
<1>2. CASE HandleBreak(c)
  <2>1. /\ pc[c] = "handle" /\ at[c] = 2 /\ Return(c)
        /\ UNCHANGED <<exit, exits, vmx, storage, merged>>
    BY <1>2, HandlerAt DEF HandleBreak, ExitInv
  <2>2. pc' = pc /\ at' = [at EXCEPT ![c] = 3]
    BY <1>0, <2>1 DEF Return
  <2>3. PathInv(c)' /\ StatType'
    BY <1>0, <2>1, <2>2 DEF PathInv, StatType
  <2>4. CountInv(c)'
    BY <1>0, <2>1, <2>2, CountKept DEF Fresh, Over
  <2> QED
    BY <1>0, <2>1, <2>2, <2>3, <2>4, OneProcessor
<1>3. CASE HandleCustom(c) \/ VmxLeave(c)
  <2>1. /\ pc[c] = "handle" /\ at[c] = 3 /\ Return(c)
        /\ UNCHANGED <<exit, exits, storage, merged>>
        /\ \/ exit[c] # "terminate" /\ vmx' = vmx
           \/ exit[c] = "terminate" /\ vmx' = [vmx EXCEPT ![c] = FALSE]
    BY <1>3, HandlerAt DEF HandleCustom, VmxLeave, Custom, ExitInv
  <2>2. at' = at /\ pc' = [pc EXCEPT ![c] = "entry"]
    BY <1>0, <2>1 DEF Return
  <2>3. PathInv(c)' /\ StatType'
    BY <1>0, <2>1, <2>2 DEF PathInv, StatType
  <2>4. CountInv(c)'
    BY <1>0, <2>1, <2>2, CountKept DEF Fresh, Over
  <2> QED
    BY <1>0, <2>1, <2>2, <2>3, <2>4, OneProcessor
<1>4. CASE GuestResume(c)
  <2>1. /\ pc[c] = "handle" /\ at[c] = 3 /\ exit[c] # "terminate"
        /\ UNCHANGED <<at, exit, exits, vmx, storage, merged>>
        /\ pc' = [pc EXCEPT ![c] = "resumed"]
    BY <1>4, HandlerAt DEF GuestResume, Custom, ExitInv
  <2>2. PathInv(c)' /\ StatType'
    BY <1>0, <2>1 DEF PathInv, StatType, Kind
  <2>3. CountInv(c)'
    BY <1>0, <2>1, CountKept DEF Fresh, Over
  <2> QED
    BY <1>0, <2>1, <2>2, <2>3, OneProcessor
<1>5. CASE UnlockAll(c)
  <2>1. /\ pc[c] = "resumed" /\ UNCHANGED <<at, exit, exits, vmx, storage, merged>>
        /\ pc' = pc \/ pc' = [pc EXCEPT ![c] = "entry"]
    BY <1>5 DEF UnlockAll, NextUnlock
  <2>2. PathInv(c)' /\ StatType'
    BY <1>0, <2>1 DEF PathInv, StatType, Kind, Port
  <2>3. CountInv(c)'
    BY <1>0, <2>1, CountKept DEF Fresh, Over
  <2> QED
    BY <1>0, <2>1, <2>2, <2>3, OneProcessor
<1>6. CASE Acquire(c) \/ Release(c) \/ (\E l \in Locks : Spin(c, l))
  <2>1. UNCHANGED <<pc, at, exit, exits, vmx, storage, merged>>
    BY <1>6 DEF Acquire, Release, Spin
  <2>2. pc[c] # "off"
    <3>1. want[c] # None \/ Custom(c)
      BY <1>6 DEF Acquire, Release, Spin
    <3> QED
      BY <3>1 DEF ExitInv, PlaceInv, InCustom, Custom, Running
  <2>3. PathInv(c)' /\ StatType'
    BY <1>0, <2>1 DEF PathInv, StatType
  <2>4. CountInv(c)'
    BY <1>0, <2>1, CountKept DEF Fresh, Over
  <2> QED
    BY <2>1, <2>2, <2>3, <2>4, OneProcessor
<1>7. CASE VmEntry(c)
  <2>1. /\ pc[c] = "entry" /\ pc' = [pc EXCEPT ![c] = IF vmx[c] THEN "guest" ELSE "off"]
        /\ at' = [at EXCEPT ![c] = 1] /\ exit' = [exit EXCEPT ![c] = "none"]
        /\ UNCHANGED <<exits, vmx, storage, merged>>
    BY <1>7 DEF VmEntry
  <2>2. PathInv(c)' /\ StatType'
    BY <1>0, <2>1 DEF PathInv, StatType
  <2>3. Fresh(c)' <=> Fresh(c)
    BY <1>0, <2>1 DEF Fresh
  <2>4. Over(c)' <=> Over(c)
    BY <1>0, <2>1 DEF Over, Fresh, PathInv
  <2>5. CountInv(c)'
    BY <1>0, <2>1, <2>3, <2>4, CountKept DEF Fresh
  <2> QED
    BY <1>0, <2>1, <2>2, <2>5, OneProcessor
<1> QED
  BY <1>1, <1>2, <1>3, <1>4, <1>5, <1>6, <1>7 DEF HostStep

LEMMA StatOutside ==
  ASSUME ExitInv, StatInv,
         \/ \E c \in CPU : \E kind \in Kind : VmExit(c, kind)
         \/ EnableIn \/ EnableOut \/ Dump \/ UNCHANGED vars
  PROVE  StatInv'
<1>1. ASSUME NEW c \in CPU, NEW kind \in Kind, VmExit(c, kind) PROVE StatInv'
  <2>1. /\ pc[c] = "guest" /\ pc' = [pc EXCEPT ![c] = "handle"]
        /\ exit' = [exit EXCEPT ![c] = kind]
        /\ exits' = [exits EXCEPT ![c] = IF kind = "terminate" THEN @ ELSE @ + 1]
        /\ UNCHANGED <<at, vmx, storage, merged>>
    BY <1>1 DEF VmExit
  <2>2. /\ pc \in [CPU -> Places] /\ exit \in [CPU -> Kind \cup {"none"}]
        /\ exits \in [CPU -> Nat] /\ storage \in [CPU -> [Counter -> 0..(Width - 1)]]
        /\ PathInv(c) /\ CountInv(c) /\ Width \in Nat \ {0}
    BY VmExitsAssumption DEF ExitInv, ExitType, StatInv, StatType
  <2>3. PathInv(c)' /\ StatType'
    BY <2>1, <2>2 DEF PathInv, StatType
  <2>4. /\ Behind(c) = 0 /\ ~Over(c) /\ ~Over(c)'
        /\ Behind(c)' = IF kind = "terminate" THEN 0 ELSE 1
    BY <2>1, <2>2 DEF Behind, Over, Fresh, PathInv, Kind, Port
  <2>5. Same(Width, storage[c]["io_instruction"] + Behind(c)', exits'[c])
    <3>1. storage[c]["io_instruction"] \in Nat /\ exits[c] \in Nat /\ 1 \in Nat
      BY <2>2 DEF Counter
    <3>2. Same(Width, storage[c]["io_instruction"] + 0, exits[c])
      BY <2>2, <2>4 DEF CountInv
    <3>3. storage[c]["io_instruction"] + 0 = storage[c]["io_instruction"]
      BY <3>1
    <3>4. Same(Width, storage[c]["io_instruction"] + 1, exits[c] + 1)
      <4>1. Same(Width, storage[c]["io_instruction"], exits[c]) /\ Same(Width, 1, 1)
        BY <3>2, <3>3 DEF Same
      <4>2. Width \in Nat \ {0}
        BY <2>2
      <4> QED
        BY <3>1, <4>1, <4>2, SameSums
    <3>5. exits'[c] = IF kind = "terminate" THEN exits[c] ELSE exits[c] + 1
      BY <2>1, <2>2
    <3> QED
      BY <2>4, <3>2, <3>4, <3>5
  <2>6. CountInv(c)'
    <3> HIDE DEF Behind, Over
    <3> QED
      BY <2>1, <2>2, <2>4, <2>5 DEF CountInv
  <2> QED
    BY <2>1, <2>2, <2>3, <2>6, OneProcessor
<1>2. CASE EnableIn \/ EnableOut \/ UNCHANGED vars
  <2>1. UNCHANGED <<pc, at, exit, exits, vmx, storage, merged>>
    BY <1>2 DEF EnableIn, EnableOut, vars
  <2>2. \A c \in CPU : PathInv(c)' /\ CountInv(c)'
    BY <2>1, CountKept DEF StatInv, PathInv, Fresh, Over
  <2>3. MergedInv'
    BY <2>1 DEF StatInv, MergedInv
  <2> QED
    BY <2>1, <2>2, <2>3 DEF StatInv, StatType
<1>3. CASE Dump
  <2>1. /\ \A c \in CPU : pc[c] = "off"
        /\ merged' = [k \in Counter |-> Merge(k, CHOOSE c \in CPU : TRUE)]
        /\ UNCHANGED <<pc, at, exit, exits, vmx, storage>>
    BY <1>3 DEF Dump
  <2>2. \A c \in CPU : PathInv(c)' /\ CountInv(c)'
    BY <2>1, CountKept DEF StatInv, PathInv, Fresh, Over
  <2> DEFINE f == [k \in Counter |-> [c \in CPU |-> storage[c][k]]]
  <2>3. \A k \in Counter : Merge(k, CHOOSE c \in CPU : TRUE) = Total(f[k], CPU) % Width
    <3> SUFFICES ASSUME NEW k \in Counter
                 PROVE  Merge(k, CHOOSE c \in CPU : TRUE) = Total(f[k], CPU) % Width
      OBVIOUS
    <3>1. MapThenSumSet(LAMBDA c : storage[c][k], CPU)
            = MapThenSumSet(LAMBDA c : [d \in CPU |-> storage[d][k]][c], CPU)
      BY DEF MapThenSumSet, MapThenFoldSet
    <3>2. f[k] = [d \in CPU |-> storage[d][k]]
      OBVIOUS
    <3>3. Total(f[k], CPU) = MapThenSumSet(LAMBDA c : [d \in CPU |-> storage[d][k]][c], CPU)
      BY <3>2 DEF Total
    <3> QED
      BY <3>1, <3>3 DEF Merge
  <2>4. merged' = [k \in Counter |-> Total(f[k], CPU) % Width]
    <3> HIDE DEF f
    <3> QED
      BY <2>1, <2>3
  <2>5. MergedInv'
    <3>1. f = [k \in Counter |-> [c \in CPU |-> storage'[c][k]]]
      BY <2>1
    <3> HIDE DEF f
    <3> QED
      BY <2>1, <2>4, <3>1 DEF MergedInv
  <2> QED
    BY <2>1, <2>2, <2>5 DEF StatInv, StatType
<1> QED
  BY <1>1, <1>2, <1>3

\* The counters of every processor keep up with its exits, whatever order the
\* processors' handlers run in.
THEOREM StatInvariance == Spec => [](ExitInv /\ StatInv)
<1>1. Init => StatInv
  <2> SUFFICES ASSUME Init PROVE StatInv
    OBVIOUS
  <2>1. /\ Width \in Nat \ {0} /\ 0 \in 0..(Width - 1) /\ merged = None
        /\ \A c \in CPU : /\ pc[c] = "guest" /\ at[c] = 1 /\ exit[c] = "none" /\ vmx[c]
                           /\ exits[c] = 0 /\ \A k \in Counter : storage[c][k] = 0
    BY VmExitsAssumption DEF Init
  <2>2. StatType
    BY <2>1 DEF Init, StatType
  <2>3. ASSUME NEW c \in CPU PROVE PathInv(c) /\ CountInv(c)
    <3>1. PathInv(c) /\ Behind(c) = 0 /\ ~Over(c)
      BY <2>1 DEF PathInv, Behind, Over, Fresh
    <3>2. 0 + 0 = 0 /\ Same(Width, 0, 0)
      BY DEF Same
    <3> HIDE DEF Behind, Over
    <3> QED
      BY <2>1, <3>1, <3>2 DEF CountInv, Counter
  <2> QED
    BY <2>1, <2>2, <2>3 DEF StatInv, MergedInv
<1>2. ExitInv /\ StatInv /\ [Next]_vars => StatInv'
  BY StatKept, StatOutside DEF Next
<1> QED
  BY <1>1, <1>2, ExitInvariance, PTL DEF Spec

\* The types of the state; no counter outgrows its width, and no queue its ring.
THEOREM ExitsTypeCorrect == Spec => []TypeOK
<1>1. ExitInv /\ StatInv => TypeOK
  <2> SUFFICES ASSUME ExitInv, StatInv PROVE TypeOK
    OBVIOUS
  <2>1. DOMAIN Handlers = 1..3
    BY DEF Handlers
  <2>2. merged \in [Counter -> 0..(Width - 1)] \cup {None}
    <3> SUFFICES ASSUME merged # None PROVE merged \in [Counter -> 0..(Width - 1)]
      OBVIOUS
    <3>1. PICK f : /\ f = [k \in Counter |-> [c \in CPU |-> storage[c][k]]]
                   /\ merged = [k \in Counter |-> Total(f[k], CPU) % Width]
      BY DEF StatInv, MergedInv
    <3>2. ASSUME NEW k \in Counter PROVE Total(f[k], CPU) % Width \in 0..(Width - 1)
      <4>1. \A c \in CPU : f[k][c] \in Nat
        BY <3>1 DEF StatInv, StatType
      <4>2. Total(f[k], CPU) \in Nat
        BY <4>1, TotalInNat, VmExitsAssumption
      <4> QED
        BY <4>2, DivIs, VmExitsAssumption
    <3> QED
      BY <3>1, <3>2
  <2> QED
    BY <2>1, <2>2 DEF TypeOK, ExitInv, ExitType, Places, StatInv, StatType
<1> QED
  BY <1>1, StatInvariance, PTL

\* The dump counts every exit of every processor, the last one included, up to the width
\* of the counters (vmexit_stats.cpp:57-62).
THEOREM DumpComplete == Spec => []StatsComplete
<1>1. ExitInv /\ StatInv => StatsComplete
  <2> SUFFICES ASSUME ExitInv, StatInv, merged # None PROVE StatsComplete
    BY DEF StatsComplete
  <2>1. IsFiniteSet(CPU) /\ Width \in Nat \ {0}
    BY VmExitsAssumption
  <2>2. PICK f : /\ f = [k \in Counter |-> [c \in CPU |-> storage[c][k]]]
                 /\ merged = [k \in Counter |-> Total(f[k], CPU) % Width]
    BY DEF StatInv, MergedInv
  <2>3. \A k \in Counter : /\ merged[k] = Total(f[k], CPU) % Width
                           /\ \A c \in CPU : f[k][c] = storage[c][k] /\ f[k][c] \in Nat
    BY <2>2 DEF StatInv, StatType
  <2>4. ASSUME NEW c \in CPU
        PROVE  /\ Same(Width, f["io_instruction"][c], exits[c])
               /\ Same(Width, f["io_in"][c] + f["io_out"][c], f["io_instruction"][c])
               /\ Same(Width, f["vmcall"][c], 1)
               /\ exits[c] \in Nat
    <3>1. Over(c) /\ Behind(c) = 0
      BY DEF StatInv, MergedInv, Over, Behind, Fresh
    <3>2. /\ Same(Width, storage[c]["io_instruction"] + 0, exits[c])
          /\ Same(Width, storage[c]["io_in"] + storage[c]["io_out"],
                         storage[c]["io_instruction"])
          /\ storage[c]["vmcall"] = 1 % Width
      BY <3>1 DEF StatInv, CountInv
    <3>3. storage[c]["io_instruction"] + 0 = storage[c]["io_instruction"]
      BY DEF StatInv, StatType, Counter
    <3>4. Same(Width, 1 % Width, 1)
      BY <2>1, ModMod
    <3> QED
      BY <2>3, <3>2, <3>3, <3>4 DEF Counter, StatInv, StatType
  <2>5. \A k \in Counter : Total(f[k], CPU) \in Nat
    BY <2>1, <2>3, TotalInNat
  <2>6. Same(Width, Total(f["io_instruction"], CPU), Total(exits, CPU))
    BY <2>1, <2>3, <2>4, SumsEqual DEF Counter
  <2>7. Same(Width, Total(f["vmcall"], CPU), Cardinality(CPU))
    BY <2>1, <2>3, <2>4, SumOfOnes DEF Counter
  <2>8. Same(Width, Total(f["io_in"], CPU) + Total(f["io_out"], CPU),
                    Total(f["io_instruction"], CPU))
    BY <2>1, <2>3, <2>4, SumsAdd DEF Counter
  <2>9. Same(Width, merged["io_in"] + merged["io_out"],
                    Total(f["io_in"], CPU) + Total(f["io_out"], CPU))
    <3>1. ASSUME NEW k \in Counter
          PROVE  merged[k] \in Nat /\ Same(Width, merged[k], Total(f[k], CPU))
      BY <2>1, <2>3, <2>5, ModMod, Zenon
    <3>2. /\ merged["io_in"] \in Nat /\ Same(Width, merged["io_in"], Total(f["io_in"], CPU))
          /\ merged["io_out"] \in Nat /\ Same(Width, merged["io_out"], Total(f["io_out"], CPU))
          /\ Total(f["io_in"], CPU) \in Nat /\ Total(f["io_out"], CPU) \in Nat
      BY <2>5, <3>1 DEF Counter
    <3> QED
      BY <2>1, <3>2, SameSums
  <2>10. merged["io_instruction"] = MapThenSumSet(LAMBDA c : exits[c], CPU) % Width
    <3>1. Total(exits, CPU) = MapThenSumSet(LAMBDA c : exits[c], CPU)
      BY DEF Total
    <3>2. merged["io_instruction"] = Total(f["io_instruction"], CPU) % Width
      BY <2>3 DEF Counter
    <3> QED
      BY <2>6, <3>1, <3>2, Zenon DEF Same
  <2>11. merged["vmcall"] = Cardinality(CPU) % Width
    <3>1. merged["vmcall"] = Total(f["vmcall"], CPU) % Width
      BY <2>3 DEF Counter
    <3> QED
      BY <2>7, <3>1, Zenon DEF Same
  <2>12. (merged["io_in"] + merged["io_out"]) % Width = merged["io_instruction"]
    <3>1. Same(Width, merged["io_in"] + merged["io_out"], Total(f["io_instruction"], CPU))
      BY <2>8, <2>9, SameThrough, Zenon
    <3>2. merged["io_instruction"] = Total(f["io_instruction"], CPU) % Width
      BY <2>3 DEF Counter
    <3>3. (merged["io_in"] + merged["io_out"]) % Width = Total(f["io_instruction"], CPU) % Width
      BY <3>1, Zenon DEF Same
    <3> QED
      BY <3>2, <3>3, Zenon
  <2> QED
    BY <2>10, <2>11, <2>12 DEF StatsComplete
<1> QED
  BY <1>1, StatInvariance, PTL
=============================================================================
