-------------------------------- MODULE VmExits --------------------------------
(***************************************************************************)
(* What happens between a VM-exit and the VM-entry that ends it, on every  *)
(* processor at once: entry_host() calls the compositor, the compositor    *)
(* the handlers of the driver one after the other (statistics, conditional *)
(* breakpoints, the driver's own).  The last one may take stacked locks,   *)
(* abandon everything with guest_resume(), and leave VMX operation.  What  *)
(* the processors share is the locks and the breakpoints, which the device *)
(* sets from the guest; each has its own counters, merged at the end.      *)
(***************************************************************************)
EXTENDS Deque, FiniteSetsExt

CONSTANTS
  CPU,
  Locks,      \* the spinlocks of a handler, in the order in which it takes them
  Width,      \* a counter counts modulo this, 2^32 in the code
  MaxExits,   \* VM-exits of a processor, the one that terminates it not counted (bound)
  MaxIoctls   \* calls of ioctl_enable_io_debugbreak() (bound)

ASSUME VmExitsAssumption ==
  /\ IsFiniteSet(CPU) /\ CPU # {}
  /\ IsFiniteSet(Locks) /\ Locks \subseteq Nat \ {0} /\ Cardinality(Locks) <= Size
  /\ None \notin CPU \cup Locks
  /\ Width \in Nat \ {0} /\ MaxExits \in Nat /\ MaxIoctls \in Nat

VARIABLES
  pc,        \* where each processor is
  at,        \* the handler the compositor has reached
  exit,      \* the exit in progress
  exits,     \* how many there have been
  vmx,       \* in VMX operation
  lock,      \* who holds each spinlock
  queue,     \* spinlock_queue_
  want,      \* the lock a processor spins on
  storage,   \* the statistics, storage_[mp::cpu_index()]
  merged,    \* storage_merged_ after dump(), None before
  flag,      \* the breakpoints storage_.io_in and io_out of one port
  ioctl,     \* the device is between its two stores
  ioctls,    \* how many calls there have been
  enabled,   \* how often each breakpoint went from clear to set
  hits,      \* how often it was hit
  ud         \* a VMX instruction was executed outside VMX operation

guard   == <<lock, queue, want>>
breaks  == <<flag, ioctl, ioctls, enabled, hits>>
vars    == <<pc, at, exit, exits, vmx, guard, storage, merged, breaks, ud>>

---------------------------------------------------------------------------
\* The exits of one I/O port, IN or OUT, and the VMCALL of terminate().
Port == {"in", "out"}
Kind == Port \cup {"terminate"}

\* Mutant: the driver's handler comes first.
Handlers_CustomFirst == << "custom", "stats", "dbgbreak" >>

\* main.cpp: vmexit_handler_t
Handlers == << "stats", "dbgbreak", "custom" >>

\* vmexit_storage_t: the counters by exit reason, and the ones below them.
Counter == {"io_instruction", "io_in", "io_out", "vmcall"}
Counted(kind) == CASE kind = "in"  -> {"io_instruction", "io_in"}
                   [] kind = "out" -> {"io_instruction", "io_out"}
                   [] OTHER        -> {"vmcall"}

\* Mutant: the wrong end of the queue is unlocked.
TopGuard_Front(c) == Front(queue[c])

\* stacked_lock_guard_pop()
TopGuard(c) == Back(queue[c])
Pop(c) ==
  /\ lock'  = [lock EXCEPT ![TopGuard(c)] = None]
  /\ queue' = [queue EXCEPT ![c] = PopBack(@)]

Init ==
  /\ pc = [c \in CPU |-> "guest"] /\ at = [c \in CPU |-> 1]
  /\ exit = [c \in CPU |-> "none"] /\ exits = [c \in CPU |-> 0]
  /\ vmx = [c \in CPU |-> TRUE]
  /\ lock = [l \in Locks |-> None]
  /\ queue = [c \in CPU |-> New] /\ want = [c \in CPU |-> None]
  /\ storage = [c \in CPU |-> [k \in Counter |-> 0]] /\ merged = None
  /\ flag = [p \in Port |-> FALSE] /\ ioctl = "idle" /\ ioctls = 0
  /\ enabled = [p \in Port |-> 0] /\ hits = [p \in Port |-> 0]
  /\ ud = FALSE

---------------------------------------------------------------------------
VmExit(c, kind) ==
  /\ pc[c] = "guest"
  /\ exits[c] < MaxExits \/ kind = "terminate"
  /\ exits'  = [exits EXCEPT ![c] = IF kind = "terminate" THEN @ ELSE @ + 1]
  /\ exit'   = [exit EXCEPT ![c] = kind]
  /\ pc'     = [pc EXCEPT ![c] = "handle"]
  /\ UNCHANGED <<at, vmx, guard, storage, merged, breaks, ud>>

\* The compositor goes on to the next handler.
Running(c, handler) == pc[c] = "handle" /\ Handlers[at[c]] = handler
Return(c) ==
  IF at[c] = Len(Handlers) THEN pc' = [pc EXCEPT ![c] = "entry"] /\ UNCHANGED at
  ELSE at' = [at EXCEPT ![c] = @ + 1] /\ UNCHANGED pc

\* VMREAD of the exit reason.
VmInstruction(c) == ud' = (ud \/ ~vmx[c])

\* vmexit_stats_handler::handle()
HandleStats(c) ==
  /\ Running(c, "stats")
  /\ VmInstruction(c)
  /\ storage' = [storage EXCEPT ![c] =
                   [k \in Counter |-> IF k \in Counted(exit[c]) THEN (@[k] + 1) % Width
                                      ELSE @[k]]]
  /\ Return(c)
  /\ UNCHANGED <<exit, exits, vmx, guard, merged, breaks>>

\* Mutant: the breakpoint stays set.
Hit_Keep(p) == UNCHANGED flag /\ hits' = [hits EXCEPT ![p] = @ + 1]

\* compare_exchange_strong() succeeds.
Hit(p) == flag' = [flag EXCEPT ![p] = FALSE] /\ hits' = [hits EXCEPT ![p] = @ + 1]

\* vmexit_dbgbreak_handler::handle()
HandleBreak(c) ==
  /\ Running(c, "dbgbreak")
  /\ VmInstruction(c)
  /\ IF exit[c] \in Port /\ flag[exit[c]] THEN Hit(exit[c]) ELSE UNCHANGED <<flag, hits>>
  /\ Return(c)
  /\ UNCHANGED <<exit, exits, vmx, guard, storage, merged,
                 ioctl, ioctls, enabled>>

---------------------------------------------------------------------------
(***************************************************************************)
(* The driver's handler.                                                   *)
(***************************************************************************)

Custom(c) == Running(c, "custom") /\ exit[c] # "terminate" /\ want[c] = None
Held(c)   == {l \in Locks : lock[l] = c}

\* stacked_lock_guard(): spin until the lock is free, then remember it.
Spin(c, l) ==
  /\ Custom(c) /\ \A held \in Held(c) : held < l
  /\ want' = [want EXCEPT ![c] = l]
  /\ UNCHANGED <<pc, at, exit, exits, vmx, lock, queue, storage, merged,
                 breaks, ud>>

Acquire(c) ==
  /\ want[c] # None /\ lock[want[c]] = None
  /\ lock'  = [lock EXCEPT ![want[c]] = c]
  /\ queue' = [queue EXCEPT ![c] = PushBack(@, want[c])]
  /\ want'  = [want EXCEPT ![c] = None]
  /\ UNCHANGED <<pc, at, exit, exits, vmx, storage, merged, breaks, ud>>

\* ~stacked_lock_guard_t(): guards are destroyed in reverse order.
Release(c) ==
  /\ Custom(c) /\ queue[c].count > 0
  /\ Pop(c)
  /\ UNCHANGED <<pc, at, exit, exits, vmx, want, storage, merged, breaks, ud>>

HandleCustom(c) ==
  /\ Custom(c) /\ queue[c].count = 0
  /\ Return(c)
  /\ UNCHANGED <<exit, exits, vmx, guard, storage, merged, breaks, ud>>

\* guest_resume() restores the context captured before handle(): the handler's stack is
\* gone, and capture() returns a second time.
GuestResume(c) ==
  /\ Custom(c)
  /\ pc' = [pc EXCEPT ![c] = "resumed"]
  /\ UNCHANGED <<at, exit, exits, vmx, guard, storage, merged, breaks, ud>>

\* The VMCALL of terminate(): vmx_leave().
VmxLeave(c) ==
  /\ Running(c, "custom") /\ exit[c] = "terminate"
  /\ vmx' = [vmx EXCEPT ![c] = FALSE]
  /\ Return(c)
  /\ UNCHANGED <<exit, exits, guard, storage, merged, breaks, ud>>

---------------------------------------------------------------------------
\* Mutant: a handler that was abandoned keeps its locks.
NextUnlock_None(c) == pc' = [pc EXCEPT ![c] = "entry"] /\ UNCHANGED <<lock, queue>>

\* The loop of entry_host() over the locks that may still be held.
NextUnlock(c) ==
  IF queue[c].count > 0 THEN Pop(c) /\ UNCHANGED pc
  ELSE pc' = [pc EXCEPT ![c] = "entry"] /\ UNCHANGED <<lock, queue>>

UnlockAll(c) ==
  /\ pc[c] = "resumed"
  /\ NextUnlock(c)
  /\ UNCHANGED <<at, exit, exits, vmx, want, storage, merged, breaks, ud>>

\* The rest of entry_host(): a terminated processor skips the VMWRITEs.
VmEntry(c) ==
  /\ pc[c] = "entry"
  /\ pc'     = [pc EXCEPT ![c] = IF vmx[c] THEN "guest" ELSE "off"]
  /\ at'     = [at EXCEPT ![c] = 1]
  /\ exit'   = [exit EXCEPT ![c] = "none"]
  /\ UNCHANGED <<exits, vmx, guard, storage, merged, breaks, ud>>

---------------------------------------------------------------------------
(***************************************************************************)
(* The guest's side.                                                       *)
(***************************************************************************)

Set(p) ==
  /\ flag'    = [flag EXCEPT ![p] = TRUE]
  /\ enabled' = [enabled EXCEPT ![p] = IF flag[p] THEN @ ELSE @ + 1]

\* device_custom::ioctl_enable_io_debugbreak(), with a debugger: two stores.
EnableIn ==
  /\ ioctl = "idle" /\ ioctls < MaxIoctls
  /\ Set("in")
  /\ ioctl' = "stored" /\ ioctls' = ioctls + 1
  /\ UNCHANGED <<pc, at, exit, exits, vmx, guard, storage, merged, hits, ud>>

EnableOut ==
  /\ ioctl = "stored"
  /\ Set("out")
  /\ ioctl' = "idle"
  /\ UNCHANGED <<pc, at, exit, exits, vmx, guard, storage, merged, ioctls,
                 hits, ud>>

\* Mutant: the sum is kept in a wider type than the counters.
Merge_Wide(k, last) == MapThenSumSet(LAMBDA c : storage[c][k], CPU)

\* Mutant: the counters of the last processor replace the others.
Merge_Assign(k, last) == storage[last][k]

\* storage_merge() of all processors, for one counter.
Merge(k, last) == MapThenSumSet(LAMBDA c : storage[c][k], CPU) % Width

\* driver::destroy() after stop(): vmexit_stats_handler::dump().
Dump ==
  /\ merged = None /\ \A c \in CPU : pc[c] = "off"
  /\ merged' = [k \in Counter |-> Merge(k, CHOOSE c \in CPU : TRUE)]
  /\ UNCHANGED <<pc, at, exit, exits, vmx, guard, storage, breaks, ud>>

HostStep(c) ==
  \/ HandleStats(c) \/ HandleBreak(c) \/ HandleCustom(c) \/ VmxLeave(c)
  \/ \E l \in Locks : Spin(c, l)
  \/ Acquire(c) \/ Release(c) \/ GuestResume(c)
  \/ UnlockAll(c) \/ VmEntry(c)

Next ==
  \/ \E c \in CPU : HostStep(c) \/ \E kind \in Kind : VmExit(c, kind)
  \/ EnableIn \/ EnableOut \/ Dump

\* Interrupts are off in VMX root mode: a processor that has exited goes on.
Spec == Init /\ [][Next]_vars /\ \A c \in CPU : WF_vars(HostStep(c))

---------------------------------------------------------------------------
\* The types of the state; the queues stay well-formed rings, which never hold more than
\* Size guards (deque.h:42).
TypeOK ==
  /\ pc \in [CPU -> {"guest", "handle", "resumed", "entry", "off"}]
  /\ at \in [CPU -> DOMAIN Handlers] /\ exit \in [CPU -> Kind \cup {"none"}]
  /\ lock \in [Locks -> CPU \cup {None}] /\ want \in [CPU -> Locks \cup {None}]
  /\ \A c \in CPU : queue[c] \in Deques(Locks)
  /\ storage \in [CPU -> [Counter -> 0..(Width - 1)]]
  /\ merged \in [Counter -> 0..(Width - 1)] \cup {None}

\* The queue of a processor names exactly the locks it holds, and a guest holds none:
\* whatever a handler abandons with guest_resume(), in any order with what other
\* processors take, "spinlocks that are locked this way are always unlocked"
\* (vmexit.h:195-198, vcpu.cpp:817-826).
LocksMatch ==
  \A c \in CPU :
    /\ Held(c) = {Contents(queue[c])[i] : i \in 1..queue[c].count}
    /\ Cardinality(Held(c)) = queue[c].count
    /\ pc[c] \notin {"handle", "resumed"} => Held(c) = {}

\* A breakpoint is hit once for each time it was set, however many processors exit on it
\* at once and whenever the device sets it again (vmexit_dbgbreak.h:14-18).
HitOncePerEnabling ==
  \A p \in Port : enabled[p] = hits[p] + (IF flag[p] THEN 1 ELSE 0)

\* The dump counts every exit of every processor, also the last one, which takes the
\* processor out of VMX operation while it is being handled (vmexit_stats.cpp:57-62,
\* :307-327).
StatsComplete ==
  merged # None =>
    /\ merged["io_instruction"] = MapThenSumSet(LAMBDA c : exits[c], CPU) % Width
    /\ merged["vmcall"] = Cardinality(CPU) % Width
    /\ (merged["io_in"] + merged["io_out"]) % Width = merged["io_instruction"]

\* No handler reads the VMCS after another one has left VMX operation
\* (vmexit.h:324-329, main.cpp:25-29).
NoVmreadAfterOff == ~ud

\* The lock at the end of the order is always released: its holder waits for nothing.
TopLockReleased ==
  \A l \in Locks : (\A k \in Locks : k <= l) => (lock[l] # None ~> lock[l] = None)
=============================================================================
