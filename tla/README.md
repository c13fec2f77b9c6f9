# Verification of hvpp

hvpp is a lightweight hypervisor for Windows: a driver that puts every logical processor
of the running system into VMX non-root mode, mirrors its memory with extended page
tables (EPT), handles the VM-exits and later takes itself away again. This directory
holds TLA+ models of it, the TLC configurations that check them on small instances,
and proofs about several of them for any value of their constants. Paths below are relative to
`src/src/hvpp/hvpp/` unless they begin with `hvppdrv/` or `hvppctrl/` (then to `src/src/`).

## 1. The system

| Component | State | Operations | Hard behaviour |
|---|---|---|---|
| Hypervisor (`hypervisor.cpp`) | `global.vcpu_list`, `global.running` | `start()`, `stop()` | broadcasts to all processors; one of them fails; memory freed while others still run |
| VCPU (`vcpu.cpp`, `vcpu.inl`, `vcpu.asm`) | `state_`, VMXON region, VMCS, host stack, saved contexts | `start()`, `stop()`, `vmx_enter()`, `vmx_leave()`, `entry_host()`, `guest_resume()` | a VM-exit may interrupt any guest instruction, including the driver's own; `start()` returns twice; `vmx_leave()` turns VMX off inside a VM-exit |
| Allocator switch (`lib/mm.cpp`) | one allocator per processor | `allocator_guard` | guards of callback and VM-exit nest |
| EPT (`ept.cpp`) | four levels of tables | map, split, join, destroy | order of calls; leaks; dangling tables; alignment |
| Hidden pages (`hvppdrv/vmexit_custom.cpp`, `hvppctrl/`) | one EPT and one hook per processor | VMCALL 0xc1/0xc2, EPT violations | stale TLBs; processors changed one after the other; a controller that gives up |
| Interrupts (`vcpu.inl`, `vmexit/vmexit_passthrough.cpp`, `lib/deque.h`) | two rings, two window-exiting controls, VM-entry field | `interrupt_inject()`, `interrupt_inject_pending()`, window exits | order, windows that follow the queues, guest that cannot take an interrupt |
| Hypervisor allocator (`lib/mm/memory_allocator/hypervisor_memory_allocator.cpp`, `lib/bitmap.cpp`) | bitmap, allocation map, hint | `attach()`, `detach()`, `allocate()`, `free()` | off-by-one at the end of the bitmap, stale hint, unaligned memory |
| Driver (`lib/driver.cpp`, `lib/win32/driver.cpp`, `lib/win32/device.cpp`, `hvppdrv/main.cpp`) | device, handler, descriptors, allocators, the pool | load, unload, open, I/O control | undo of a load that failed half way; requests while it loads |
| Compositor (`vmexit.h`) | the handlers | `handle()` of each in turn | one of them turns VMX off |
| Stacked lock guards (`vcpu.inl`, `lib/spinlock.h`) | a queue of locks per processor | guard, `guest_resume()` | a handler abandoned with locks held while others spin on them |
| Statistics and breakpoints (`vmexit/vmexit_stats.cpp`, `vmexit/vmexit_dbgbreak.cpp`, `hvppdrv/device_custom.cpp`) | counters per processor, flags shared by all | count, merge, hit, enable | flags consumed by several processors; counters that wrap |
| Pass-through handler (`vmexit/vmexit_passthrough.cpp`) | guest registers in the VMCS, in `context_` and in the processor | one per exit reason | the right register out of three places; shadows; TLB; RIP |
| Memory translator and mapper (`lib/mm/memory_translator.cpp`, `lib/mm/memory_mapper.cpp`) | one page of address space | walk, copy | stale window, page tables that change, page boundaries, holes |
| MTRRs (`lib/mm/mtrr_descriptor.h`) | ranges and types | `type()` | precedence of ranges |

How they interact: the driver calls `hypervisor::start()`, which broadcasts a callback to all
processors; each enters VMX operation with its own `vcpu_t`, whose handler allocates an `ept_t`
from the hypervisor's allocator. From then on every VM-exit runs `entry_host()` on the host stack of
that `vcpu_t`, and the compositor hands it to the statistics, the breakpoints and the driver's own handler,
which emulates the instruction, changes the EPT, injects interrupts, or turns VMX off. The processors
share the allocator, the breakpoint flags and what locks a handler takes; the components meet in the
broadcasts, in these and in the order of the VM-exits.

What makes each component correct, and which property says it, is in section 3. The list of
hazards with their lines is in `PROJECT.json`.

## 2. Modules

| Module | Models | Proofs |
|---|---|---|
| `Hypervisor` | start, stop, VCPU states, VM-exits, allocator guards | `HypervisorProofs` |
| `DriverLife` | load and unload of the driver around `Hypervisor`, its objects, and the device's user | `HypervisorProofs` |
| `VmExits` | compositor, stacked locks, `guest_resume()`, statistics, breakpoints, on all processors at once | `VmExitsProofs`, `NumberProofs` |
| `Processor` | the abstract promise of the pass-through handler: a processor | |
| `Registers` | register files as functions | |
| `Passthrough` | emulation of the guest's instructions; implements `Processor` | `PassthroughProofs` |
| `EptTables` | paging structures as values and `ept.cpp` as operators on them | `EptProofs`, `EptHookProofs` |
| `EptMap` | the abstract promise of an `ept_t`: a map of aligned blocks | |
| `Ept` | one `ept_t` under all sequences of calls; implements `EptMap` | `EptProofs`, `NumberProofs` |
| `EptHook` | EPTs of several processors, TLBs, guest instructions, `hvppctrl` | `EptHookProofs`, `NumberProofs` |
| `Deque` | `fixed_dequeue` as operators on a ring | `InterruptsProofs`, `VmExitsProofs` |
| `InterruptFifo` | the abstract promise of injection: every event once, in order | |
| `Interrupts` | queues, windows, VM-entry; implements `InterruptFifo` | `InterruptsProofs` |
| `HvAllocator` | the page allocator with its bitmap search | `HvAllocatorProofs`, `NumberProofs` |
| `PageWalk` | the guest's paging structures and the two software walks | |
| `Translator` | copies through the mapper's window while page tables change | |
| `Mtrr` | the MTRR descriptor and `type()`, as operators | |

`EptHook` and `Ept` both extend `EptTables`; `Passthrough` and `Processor` extend `Registers`; `Interrupts` and `VmExits` extend `Deque`; `Translator`
extends `PageWalk`; `DriverLife` extends `Hypervisor` and composes its actions with the driver's. `MCEpt` takes the
memory types of its pages from `Mtrr`. The `MC*` modules
give the constants small values. Operators named `X_Something` with a comment "Mutant" are
plausible bugs of the definition `X`, used to see that each property can fail.

### Hypervisor

The driver's thread (`driver`) goes through load, broadcast, running, broadcast, unload. Each
processor has a place in its own code (`pc`), a place in a VM-exit (`exit`), a VMX mode and the
`state_` of its object. The steps of `start()` are those that can fail or that other code can observe:
`LoadVmxon`, `LoadVmcs`, `Setup`, `VmLaunch`, `Launched`; `VmExit` may hit a processor in guest mode
before any of its instructions, also between `Launched` and `CallbackReturn`, in the middle of the
callback of `stop()`, and in the guest's own code. `terminate()`'s VMCALL is the VM-exit whose
handler leaves VMX operation; `Resume` then returns to guest code that is no longer a guest.
The `hvpp_assert`s of these functions are kept: one that fails is recorded in `failed`, since the
code goes on after it. Two are left out because no behaviour of the model reaches them: the default of the switch at `vcpu.cpp:200`, and
`hypervisor.cpp:75`, where `Start` has `running` false as its guard. A VMX instruction outside VMX operation sets `halted`, the undefined-opcode
exception at a level where nobody handles it. `Vmx` stands for it in every step that executes one: VMPTRLD and the VMWRITEs of the
setup, VMLAUNCH, the VMREADs of `entry_host()` before the handler and in it, the VMREAD, VMWRITEs and VMRESUME after it, which only the test of
`terminated` (`Terminated`) keeps away from a processor that has left VMX operation, VMXOFF, and the VMCALL of `terminate()`.

`Faults` says which steps may fail in an instance. Not modelled: register contents (and with them
what `vmx_leave()` writes to GDTR, IDTR and CR3 when it is called on the error path), INVEPT and
INVVPID, the timing counters, `guest_resume()`.

### EptTables, EptMap, Ept

A table is a function from indices to entries, an entry is absent, a page (with its large bit and rights) or a
pointer to a table. Every function of `ept.cpp` that changes tables is an operator of the same
name and structure; `fault` records an access through a null pointer or through a mapped page taken for
a table. `Ept` calls them in any order. Its guards are the contract of the callers: aligned
blocks, no map below a large page or over a table, split and join of mapped memory only. The
refinement mapping is `view`, what a walk by the processor finds. The type of a page comes from `MemType`;
a block gets the type of its first byte, as in `ept.cpp`, also where its pages have others. `EptMap` does not repeat that: a mapping has one memory type, that of its
pages if they share one, else that of some page of it. What the comment at `ept.cpp:65-71` asks for in the latter case is the property `MixedUncached`, and the code does not do it. `MemoryAssumption` says which memory and callers there are:
memory of whole 1GB blocks that one PML4 covers, ranges that are not empty, distances that keep large pages aligned, and at least
as many tables as there are blocks that may be divided (`Divisible`), so that running out of tables would be a leak.

### EptHook

The processors fetch and access memory through a TLB entry or a walk; a TLB entry may appear with
any access and vanish at any time. A VM-exit handler runs as one step, because the EPT belongs to the
processor it runs on. `ctl` is the thread of `hvppctrl` in `ForEachLogicalCore()`: it visits
the processors in order and may stop at any of them.

### Deque, InterruptFifo, Interrupts

The guest's interruptibility is RFLAGS.IF, the shadow of STI/MOV SS, and blocking by NMI. The test in
`interrupt_inject()` is modelled as it is written: the interruptibility flags are tested for being
non-zero, so an event is injected at once into a guest blocked by STI or MOV SS. Nothing keeps a handler from injecting there: the exit that brought it may
be one of the instruction in the shadow. VM-entry then fails (`dead`), and `EntryFailsInShadow` says that it fails nowhere else. An event carries an identity so that loss, duplication and reordering are visible in
`pending`, the mapping to `InterruptFifo`. Exceptions go straight to the VM-entry field.

### HvAllocator

The loop of `find_first_clear()` is told without recursion: `Turns` are the indices at which a turn of it can begin, under the
loop's own strict comparison, `Fits` the clear bits they arrive at with a run that is long enough, and the result is the first of these.
`allocate()` searches from the hint, then from the beginning. A failed search leaves the hint at -1, and the search
after that reads the bitmap at a negative index: `crashed`. The lock makes `allocate()` and `free()` atomic.
`Regions` is any memory, aligned or not. `Unfit` are the pools for which the assertions at the end of `attach()` fail: fewer than eight
pages, whose bitmap has no bytes, or so many that a map entry cannot count the pages of the map; they count as `crashed`.
`free()` is called with a client's memory, with null, and with pages that are not allocated or lie outside of the pool; what its early returns ignore is `Ignored`.

### Processor, Passthrough

`Processor` executes one instruction of the guest per step on the registers the guest sees. In `Passthrough` each register has a place,
as in the code: the processor's own (`cpu`), the guest-state area (`vmcs`), `context_` (`ctx`), or a read shadow. `Exit` moves them
there and loads the host's, a handler works on them (one action per handler of `vmexit_passthrough.cpp`), and `Enter` is the end of `entry_host()`
and the VM-entry, which delivers what was injected. Under the mapping (`GuestRegs`, `GuestLast`) the emulated instruction takes effect when the handler
returns: in host mode the guest is as it was at the VM-exit (`seen`), after the handler it is what the VM-entry will make of the three
places (`Entered`), so the VM-entry itself is a stutter. DR7 and IA32_DEBUGCTL have fields in the guest-state area, but `setup_guest()` sets neither `load_debug_controls` nor
`save_debug_controls` (`vcpu.cpp:713-719`; `adjust()` takes the TRUE capability MSRs, where these bits may be 0), so VM-entry does not load them and VM-exit does not save them (`Loaded`): it clears
the registers, and what an emulated write puts into the field stays there. That write is the gap `debug_controls`; the bit DR7.GD, which concerns only instructions that exit, acts from the field.
`PassthroughAssumption` has both registers clear when the processor is virtualized. `Gap` names the instructions whose emulation is not the processor's; the guest keeps away from those
unless `Gaps` allows them.

### PageWalk, Translator

An address counts entries of paging structures, and a page holds as many as a table. `mem` is what is in the structures, which
another processor may change at any moment; `past` what they have been during the call. `Mapped` is what the processor would find (every entry of the walk present) and not whether `VaToPa` is 0: a page
at the physical address 0 is mapped, and the code takes it for a hole (`AtZero`). The window is `pte` and the translation
of it that this processor may have cached, filled by a use or by itself and dropped only by INVLPG. A byte of the buffer
is the physical address it came from or went to.

### Mtrr

`Type` is the loop of `type()`. `is_fixed()` compares the address of the loop's copy with the address of the array of variable
ranges, so its answer is a value the compiler's stack layout decides, the same for all ranges: its parameter `isFixed`. `MCEpt` takes the types of its pages from it,
with the fixed ranges disabled, as they all lie in the first megabyte.

## 3. Runs

| Run | Instance | Result |
|---|---|---|
| `lifecycle` | 2 processors, `start()` may be refused before the broadcast | `VcpuMemoryUnused`, `AllocatorDiscipline`, `NoUndefinedOpcode`, `VcpuAssertions`, `StateOrder`, `BroadcastsEnd` hold |
| `lifecycle_faults` | 2 processors, any step of the driver and of any processor may fail, one user program | `HandlerDataLifetime`, `StartedMeansAll`, `UsersOutlived` hold |
| `vcpu_stop` | `Hypervisor` with all faults | the assertion of `vcpu_t::stop()` fails |
| `driver_handler` | 1 processor, no faults, one user program | the assertion of the I/O control fails |
| `ept` | 8 pages, fan-out 2, 7 tables, two memory ranges, two MTRRs | `TableTree` and the refinement `ImplementsMap` hold |
| `ept_types` | the same instance: an uncached MTRR in the middle of a 2MB block | `MixedUncached` fails |
| `hook` | 2 processors, 4 pages, 1 hook, 2 instructions | `GuestView`, `HookLocal`, `TablesBalanced`, `InstructionsRetire` hold |
| `interrupts` | 3 events, queues of 2 | `WindowTracksQueue`, `EntryFailsInShadow`, `InOrder`, `QueuedDelivered` hold |
| `allocator` | 10 pages of 16 bytes, aligned, unaligned and inside the memory, unaligned and beyond it; 4 pages | `PoolInside`, `ExtentsExact`, `FailsOnlyWhenFull` hold |
| `translator` | fan-out 2, four levels, two changes during a call | `CopyExact`, `Reported`, `SkippedNearHole`, `SelfMapAgrees` hold |
| `vmexits` | 2 processors, 2 locks, 2 I/O controls, counters modulo 2 | `LocksMatch`, `HitOncePerEnabling`, `StatsComplete`, `NoVmreadAfterOff`, `TopLockReleased` hold |
| `passthrough` | all sequences of 3 instructions | `ShadowIsReal` and the refinement `Emulates` hold |

All state spaces are explored completely. Why the bounds are enough:

* Processors meet only in the broadcasts, the allocator array, the locks and the flags, so two show every
  interleaving of one processor with "another one"; the proofs cover any number.
* Eight pages with fan-out 2 are two 1GB blocks of two 2MB blocks of two pages: a block of every
  level has a neighbour inside the same table and one in another table. Seven tables are all that
  one PML4 entry can need, so the allocator never runs dry; running dry is a fault the code does not handle.
  One memory range ends inside a 2MB block, one begins and ends inside one of two it touches; one MTRR lies at the end of a block,
  one at its start.
* One hook hides the second page of a 2MB block behind a page of another 2MB block: the hidden page is not
  where its block starts, its neighbour must not change, and unhiding may come first. Of the two instructions
  one lies in the visible page and writes the hidden one, the other lies in the hidden page and reads the visible one.
* Two places per queue make the ring wrap, fill and run empty; the third event is the one in the
  VM-entry field.
* Ten pages with three of bookkeeping leave seven for requests of one to three pages: fragmentation,
  a run at the very end, and a request that does not fit although enough pages are free.
* Four levels of fan-out 2 hold a page, a large page of each size and a hole, each with a neighbour of another
  kind; calls begin before, in and at the end of them and are up to three pages long. `MaxChanges = 2` changes of
  the tables fall anywhere in the walks and copies of a call.
* `MaxExits = 1` and `MaxIoctls = 2`: each processor has one exit before the one that terminates it, at any place
  of the device's stores, and a flag can be set, hit and set again; two locks nest and wait for each other's
  holders; modulo 2 the counters wrap in every behaviour with two exits.
* `MaxInstructions = 3`: one instruction to change the state (a shadow, a mode bit, a cached translation, a suppression left
  over), one that depends on it, and one to see what it did.

Deadlock is checked in `lifecycle`, `hook` and `translator`. It is off where
the system may really stop: after an undefined-opcode exception (`lifecycle_faults`, `vcpu_stop`), when a run ends with its
bounds or with the dump of the statistics (`vmexits`, `passthrough`), after an `ept_t` is destroyed (`ept`, `ept_types`), after a VM-entry has failed (`interrupts`) and after
the allocator has crashed (`allocator`); `driver_handler` looks for one state.

### Fairness

* `Hypervisor`: a waiting broadcast returns when it can (the operating system schedules the
  waiting thread), and code in VMX root mode runs to its end with interrupts off: weak fairness. A
  processor's own code has strong fairness, because a VM-exit may disable it again and again, but the
  processor retires guest instructions between VM-exits.
* `EptHook`: weak fairness of a started instruction: the processor executes it or takes its violation. Nothing is
  assumed of `hvppctrl`.
* `Interrupts`: weak fairness of the VM-entry, and strong fairness of window exits, which the
  processor takes when the window is open at an instruction boundary. `QueuedDelivered` assumes in addition, in
  its statement, that the guest opens the window infinitely often and that nobody keeps putting events in front.
* `VmExits`: weak fairness of each processor in VMX root mode, where interrupts are off. The spinlock is a plain
  test-and-set and promises nothing to the one that waits, so the liveness claimed, `TopLockReleased`, is of the lock
  nobody takes another one under.

## 4. Proofs

`HypervisorProofs` proves, for every set `CPU` and every `Faults`:

* `Invariance`: the inductive invariant `IInv`;
* `TypeCorrect`, `VcpuMemory`, `HandlerData`, `Allocators`, `AllOrError`: the invariants `TypeOK`,
  `VcpuMemoryUnused`, `HandlerDataLifetime`, `AllocatorDiscipline` and `StartedMeansAll`;

and, under `VmxAlwaysWorks` (no processor fails to enter VMX operation, though `start()` may be refused):

* `NoUd`, `Assertions`: `NoUndefinedOpcode` and `VcpuAssertions`;
* `Order`: the action property `StateOrder`.

None of the safety invariants is inductive. `VcpuMemoryUnused`, for example, says that the array is gone only when all
processors are native, but a step of `stop()` is only safe because every processor that has taken the IPI and is
back in the operating system is native, which needs that the callback ends native, which needs
what a VM-exit in progress says of the mode. `IInv` is therefore the conjunction of `DriverInv` and, for each
processor, `PhaseInv` (which phase of the driver its code belongs to), `ExitInv` (what a VM-exit in
progress says of mode and cause), `StateInv`, `DataInv` and `GuardInv` (which allocator each
nesting depth has). The proof has three parts: a step of the driver keeps it; a step of a processor
keeps its own part (`CodeStepLocal`, `ExitStepLocal`, one step per action); and such a step satisfies `Frame`, which
leaves the other processors' parts and the driver's alone (`OtherProcessors`, `DriverInvKept`).
`CleanInv` strengthens it for the last three theorems. The assumptions used are those of the module:
`CPU` is not empty, `Faults` is a subset of `Fault`.

The second part of the module proves for the composition `DriverLife`, again for every `CPU` and `Faults`: `LifeInvariance`,
`NothingGoesEarly` (`UsersOutlived`) and `LoadedMeansAll` (`StartedMeansAll`). The first part is
reused: a step of `DriverLife` is a step of `Hypervisor`, a stutter, or `StopUnstarted`, the `stop()` of a
hypervisor nobody started, and all three keep `IInv` (`HypervisorKept`). The rest of the invariant says what each phase of the
driver means for the hypervisor's thread (`ThreadInv`), which objects there are (`ObjectInv`), and what
it means to have been loaded (`LoadedInv`); it needs `IInv` for the step from "the thread is not in start, run or stop" to
"no processor uses anything". This is where `UsersOutlived` comes from: whoever deletes has passed `StopReturns`, or a `CallStop`
that had nothing to stop.

`VmExitsProofs` proves, for any processors, any locks that fit in the ring and any bounds: `ExitInvariance`,
`LocksAlwaysMatch` (`LocksMatch`), `OneHit` (`HitOncePerEnabling`) and `NoVmread` (`NoVmreadAfterOff`).
`PlaceInv` says where a processor may spin, hold locks and be out of VMX operation; `RingInv` says that
the slots of its ring name its locks, each once, and that the ring starts at 0, because guards are pushed and popped at
one end only. That there is room for one more (`RoomForMore`) is not a guard of the code: it follows
because the processor holds as many locks as the ring counts (`RingCounts`, a bijection) and does not hold the one it takes.
The assumption used is `VmExitsAssumption`, which bounds the number of locks by the size of the ring.

The same module proves of the statistics, for any number of processors and any width of a counter: `StatInvariance`, `ExitsTypeCorrect` (`TypeOK`) and
`DumpComplete` (`StatsComplete`). `StatInv` says which exit a processor handles from its place (`PathInv`), that its counters
are the exits it has had, but for the one in progress before the statistics handler has been called (`CountInv`), and that the dump, made when no processor is
left in VMX operation, is the sum of the counters (`MergedInv`). `StatsComplete` is about totals, the counters are kept per processor and wrap: what joins the two
is that a sum modulo `Width` may be taken of remainders (`SameSums`).

`NumberProofs` has the arithmetic that these proofs share: `%` and `\div`, remainders of sums, and sums over finite sets. The community modules define a sum by a
function that calls itself, which says nothing until one knows that such a function exists; this, and what it does when two
sums are added, is an induction. The library's induction theorems cannot be used (they take an operator), so
`AllNumbers` and `AllSubsets` are stated about a set of numbers, or of subsets, that contains the first and is closed under the
step; they follow from the least element of its complement (`SmallestOf`, from the well-foundedness of `Nat`).

`InterruptsProofs` first proves what each operation of `Deque` does to the sequence its ring stands for (`PushBackItems`, `PushFrontItems`,
`PopFrontItems` and their companions), for any size. A ring is a function on the slots, so these are facts about indices modulo the
size; nothing in them is an induction. A ring that is pushed and popped at one end only needs less (`PushBackAtZero` and `PopBackAtZero` of `VmExitsProofs`).

It then proves, for any events and any size of the queues:

* `InterruptsInvariance`, `InterruptsTypeCorrect` (`TypeOK`), `WindowsFollow` (`WindowTracksQueue`) and `EntryFailures`
  (`EntryFailsInShadow`): VM-entry refuses an event in the shadow of STI or MOV SS and nowhere else;
* `InterruptsImplementFifo`: the refinement `InOrder` of `InterruptFifo`. A queued event leaves the ring for the VM-entry field and reaches the
  guest with VM-entry; `pending` prepends the field to the ring, so that step is a stutter, and a put at the front may not overtake the field.

The invariant `IntInv` adds to the type that a queue holds events of its own kind only, that its window is open exactly while it is not
empty (`QueueInv`), and what the VM-entry field says of the guest (`EntryInv`).

`HvAllocatorProofs` proves, for every `PageSize`, any `Regions`, aligned or not, and any `Requests`:
`AllocatorInvariance`, `AllocatorTypeCorrect` (`TypeOK`), `PoolStaysInside` (`PoolInside`), `ExtentsStayExact` (`ExtentsExact`) and
the action property `FailureMeansFull` (`FailsOnlyWhenFull`). `HvInv` says that the extents are disjoint, lie in the pool and are what bitmap
and map describe, and that the hint is -1 or not inside the bookkeeping. `ExtentsExact` alone is not inductive: that `Free` clears what `Allocate` set needs
the map's count to be the extent's, and that a found run is free needs that `Fits` looked at all its bits. For `FailureMeansFull`, a free run that the
loop overlooks from the hint is found from the beginning, because bit 0 belongs to the bookkeeping: take the start of the run of clear bits it lies in, which
is where a turn of the loop arrives. The starts and ends of runs are least elements of sets of numbers (`SmallestOf` of `NumberProofs`).
The code's arithmetic of `attach()` is proved, too: `PoolInside` and the sizes of bitmap and map are facts about `%` and `\div` that follow from
`DivIs`. `PoolInside` says of every region whether its pool ends inside, as the code computes it (section 5).

`PassthroughProofs` proves, for any set of instructions, translations and register values:

* `PassthroughInvariance`: `PInv`, which says for each mode where the registers are: in guest mode all in the processor, in the host the switched ones in the
  guest-state area and RAX, RCX, RIP and others in `context_` (`HostInv`), that the exit's reason is one the instruction has (`ReasonInv`), and between a handler and
  VM-entry what the handler has returned (`EntryInv`);
* `ShadowStaysReal` (`ShadowIsReal`), whatever the gaps;
* `EmulatesProcessor`: if `Gaps` is empty, the refinement `Emulates`. There is one lemma per handler (`...Done`): what the handler leaves in its three places is, register by
  register, what the processor's own execution of the instruction leaves (`Returned`, `GuestEntered`), and the TLB is no more than what the instruction may keep.

`PassthroughAssumption` gives the registers their names: those of the three places are registers, an instruction with a register operand names one it can
have, the initial privilege level is 0 or 3, and DR7 and IA32_DEBUGCTL are clear when the processor is virtualized.

`EptHookProofs` proves, for any number of processors, any hooks and instructions, any fan-out and any amount of memory that one PML4 entry covers:

* `HookInvariance`: the inductive invariant `HookInv`;
* `HookTypes` (`TypeOK`), `HookGuestView` (`GuestView`), `HookIsLocal` (`HookLocal`) and `HookTablesBalanced` (`TablesBalanced`).

The four invariants say what a walk finds and how many tables there are; none of it is inductive, because what an unhide leaves depends on every entry of
every table. `HookInv` therefore names the tables: a processor without a hook has exactly those of the identity map, one with a hook exactly those with the hidden
page's block divided in one more table, and the page in it executed or read (`TablesInv`). A translation in the TLB is one these tables gave since
the last INVEPT (`TlbInv`), and while `hvppctrl` hides a page no processor hides another one (`CallInv`).
The argument has three layers. `MapBlocks`, a fold, is a run of maps one after the other (`BlocksAre`); by induction over the blocks the identity map has one directory for each
1GB begun, filled to the last block, and the allocator does not run dry on the way (`Room`, `IdentityFilled`). Split divides one block of that map, join of
a divided block gives back the very same tables, whatever the state of the hidden page (`SplitIdentity`, `SplitHooked`, `JoinIdentity`, `JoinHooked`); the handlers are
these and one map (`HideIs`, `UnhideIs`, `ViolationIs`). Last, what a walk finds in the two shapes (`WalkIdentity`, `WalkHooked`) and which accesses may use an older translation
(`TablesAgree`, `LookupAgrees`): all of them but the hidden page's are the same before and after a violation, and that one's the processor has dropped.
The assumption is `HookAssumption`: at least one processor, memory of whole 2MB blocks, and tables for the identity map and one hook's table.
`HookInv` was checked by TLC on an instance with two hooks before it was proved.

`EptProofs` proves, for any fan-out, any memory, ranges, memory types, distances and rights, and any sequence of calls:

* `EptInvariance`: the inductive invariant `EptInv`;
* `EptTypes` (`TypeOK`), which includes that no call faults, and `EptTree` (`TableTree`);
* `EptImplementsMap`: the refinement `ImplementsMap` of `EptMap`.

`TableTree` is not inductive: it does not say that the table an entry points to is of the level below. `EptInv` says that there is a `Tree`: a key `k` that gives each table
its level and the block of memory it covers, no two tables the same (`Distinct`), every entry in the shape of its level and the table it points to keyed one level
down (`Fits`), every table but the PML4 pointed to (`Node`); and that the tree is `Full`, no table but the PML4 being empty. The key is not part of the model, so it is quantified. `Full` is what a caller relies on without knowing: a block
none of whose pages is mapped has no table left below it, so a large page may be put there without one being lost (`ReadyIs`, by going down from an empty block to a leaf).
Inside a call the tree need not be full: between `unmap_entry()` and the map that follows, and between a new table and its first entry, the tables on the way to one page may be empty
(`FullBut`), and no others; the last write of the call fills them.

The argument goes from the entry to the call. A walk ends in exactly one entry, which the key names (`WalkEnds`, `EndUnique`, `TranslateIs`). A write of a page entry changes what the walk finds for the
pages of its block and for no other page (`PageWalks`); a new table changes nothing (`GrowWalks`); unmapping an entry frees the tables below it, all of them and nothing else (`FreedIs`, `ShedTree`).
There is always a table for a block that is divided for the first time, because the tables in use have different keys in `Divisible` (`RoomIs`, a cardinality). Folds are turned into
runs, one map after the other (`BlocksAre`, `RangesAre`, `DestroyIs`), with an induction along each. `MapCallIs`, `SplitIs`, `JoinIs`, `MapIdentityIs`, `SparseIs` and `DestroyedIs` then say what a call
leaves, as a tree and as a map, and one step lemma per action (`MapStep` to `DestroyStep`) reads the latter as a step of `EptMap`; a split of what is not large and a join of what is large are stutters.
The assumptions are `EptAssumption` and `MemoryAssumption`. Tree and fullness were checked by TLC as an invariant on the instance of the run `ept` before they were proved.

Only model-checked: `BroadcastsEnd`, `TopLockReleased`, `InstructionsRetire` and `QueuedDelivered`, which are liveness, and the invariants of `Translator`. A walk of the latter reads one entry per use of the
window, and `CopyExact`, `Reported` and `SkippedNearHole` compare it with the structures at one moment: a walk during which an entry high up goes and another one below comes may find what was never mapped,
so they hold for the changes the instance allows and not for all. `SelfMapAgrees` compares two walks that are functions that call themselves, over all structures.

## 5. Disagreements between code and comments

1. `hypervisor.cpp:175-179`: when one processor fails, `start()` calls `stop()`, which calls
   `vcpu_t::stop()` on all of them; `vcpu.cpp:207-211` calls that an error for any state but
   running. The failed processor then executes VMCALL outside VMX operation (`vcpu_stop`).
2. `hvppdrv/device_custom.cpp:32` asserts that the device has its handler; the device can be opened from
   `hvppdrv/main.cpp:49` on and gets it at `:69` (`driver_handler`).
3. `ept.cpp:65-71` says that a 2MB page of several memory types must be UC if one of them is; `map_pd()` (`ept.cpp:472`) gives it
   the type of its first byte (`ept_types`).

Without a violation run, but part of a property that says what the code does where its comment says otherwise:

* `vcpu.inl:119-125`: the comment says that nothing is injected into a guest blocked by STI or MOV SS; the flags are tested un-negated, so that an external interrupt is injected at once exactly where
  the guest is blocked, and VM-entry fails, while one that could be injected waits for a window exit (`EntryFailsInShadow`).
* `hypervisor_memory_allocator.cpp:76-95`: `attach()` subtracts the offset of an unaligned start instead of the distance to the next page; the pool's last page may
  end outside of its memory. `PoolInside` says for which addresses and sizes; the driver passes aligned memory, where it does not.
* `hypervisor_memory_allocator.cpp:67`: pools of three to seven pages are accepted, and then the assertions at `:160-161` fail (`Unfit`).
* `memory_translator.cpp:130-137`: the address returned is said to cause a page fault; one that is mapped to the physical address 0 is returned, too, and its bytes are never copied (`Reported`). A call that
  begins at address 0 returns 0 for success and for failure.

Seen in the code while modelling, without a run of their own:

* `vcpu.cpp:458`: the error path sets `terminated` before `vmx_leave()`, whose assertion
  (`vcpu.cpp:258-259`) then fails.
* `ept.cpp:276-280`: "The returned EPT entry is fetched at the ept_table_from_t::level". Below a
  1GB page it is not, and `split_2mb_to_4kb()` there unmaps the rest of that page. The callers map 2MB pages.
* `lib/mm/mtrr_descriptor.h:75`: `type()` does not follow the rules quoted above it. It forgets the type of
  every variable range but UC, and whether fixed ranges win depends on a comparison of unrelated addresses.
* `hvppdrv/vmexit_custom.cpp:289-292`: an instruction in the hidden page that reads this page alternates
  between the two violations for ever.
* `hypervisor_memory_allocator.cpp:275`: after a refused request the hint is -1, and the next search begins there.
* The gaps of `Passthrough`: WRMSR and XSETBV use the high half of RAX (`high_rax`); the MSRs of SYSENTER, which VM-entry loads,
  are read and written directly (`sysenter`); LTR does not load the hidden base (`ltr`); port I/O with an immediate port
  is not performed (`immediate_port`); clearing CR4.PCIDE drops no translation (`cr4_flush`); bit 63 of CR3 without
  CR4.PCIDE reaches the VMCS instead of raising #GP (`reserved`); SYSRET is emulated at any privilege level (`user_sysret`);
  MOV to DR7 and WRMSR of IA32_DEBUGCTL write fields that VM-entry does not load (`debug_controls`, `vcpu.cpp:713-719`): breakpoints and branch tracing the guest turns on do nothing,
  though it reads back what it wrote.
* Other deviations of the pass-through handler, outside of the instructions modelled: RDTSC is emulated on #GP although CR4.TSD
  forbids it; SLDT and STR to a register leave its upper half; SGDT and SIDT transfer the format of 64-bit mode only; MOV to
  and from CR8 is not handled; an MSR that does not exist faults in the host; the VMCALL of a
  breakpoint is taken from any privilege level.
* `memory_translator.cpp:89-110`: the page-attribute bit of a large page's entry is taken for an address bit.
* `lib/win32/device.cpp:26-150`: the error path of `create()` uses objects it has not made; `lib/win32/driver.cpp:121-147`
  leaves the status of other requests at its default.
* `hypervisor.cpp:118-120` says that the default allocator is destroyed in `common::destroy()`; after a
  failed DriverEntry nobody calls it, and the early return of `stop()` frees no VCPU list.
* A failed `start()` deletes the handler while an I/O control that came early may still use it.
* `vmexit.h:302-331`: the compositor drops errors of `setup()` and does not forward `handle_guest_resume()`.

## 6. Not modelled

* `hvppctrl/udis86` and `hvppctrl/detours` are vendored; they are most of the lines of the repository.
* The C interface (`hvpp.h`, `hvpp.cpp`, `vmexit/vmexit_c_wrapper.cpp`) and the C driver (`hvppdrv_c`): thin wrappers, and the same
  driver once more.
* Logging and tracing, the decoder for VMware's backdoor (called from code that is commented out), and what is read
  from the operating system's structures at load (`lib/mm/win32/`), which are constants of the models.
* Register layouts (`ia32/`), the values of the VMX control fields, the FPU area, time-stamp accounting.
* Word arithmetic of the bitmap; the models of the allocator are at the level of bits. In `Passthrough`, string I/O, LDTR and IDTR, which repeat what is there,
  and the emulation of RDTSC and RDTSCP on #GP (`vmexit/vmexit_passthrough.cpp:1196-1208`): the model has no time-stamp counter, and its #GP are those of other instructions.
* Events whose delivery caused the VM-exit (`vcpu.inl:132` only traces them), and the guest's operating system paging
  out a hidden page (`hvppdrv/vmexit_custom.cpp:184`).

## 7. Plan

Done: all the modules of section 2, and the proofs of section 4.

Next: for `Translator`, the changes of paging structures under which a walk is exact, as an assumption, and its proof; the
words of the bitmap.

## Running

    tlc -config lifecycle.cfg MCHypervisor
    tlapm HypervisorProofs.tla
    tlapm NumberProofs.tla
    tlapm VmExitsProofs.tla
    tlapm InterruptsProofs.tla
    tlapm HvAllocatorProofs.tla
    tlapm PassthroughProofs.tla
    tlapm EptProofs.tla
    tlapm EptHookProofs.tla

`PROJECT.json` lists every run with its module and configuration.
