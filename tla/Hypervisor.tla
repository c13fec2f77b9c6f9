------------------------------- MODULE Hypervisor -------------------------------
(***************************************************************************)
(* The life of the hypervisor: hypervisor::start() and hypervisor::stop(), *)
(* the callback each logical processor runs for the inter-processor        *)
(* interrupt they broadcast, the states of one vcpu_t per processor, the   *)
(* VM-exits that interrupt the guest at any of its instructions, and the   *)
(* allocator each processor has selected meanwhile.                        *)
(*                                                                         *)
(* A VM-exit may hit the operating system, and it may also hit the tail of *)
(* the IPI callback itself: once VMLAUNCH succeeded, the callback goes on  *)
(* as guest code.                                                          *)
(***************************************************************************)
EXTENDS Naturals, FiniteSets

CONSTANTS
  CPU,      \* the logical processors, mp::cpu_count() of them
  Faults    \* the steps that may fail in this instance

Fault == {"memory", "features", "vmxon", "vmcs", "setup", "vmlaunch"}

ASSUME CPUAssumption    == CPU # {}
ASSUME FaultsAssumption == Faults \subseteq Fault

VARIABLES
  driver,     \* where the thread that loads and unloads the driver is
  running,    \* global.running
  list,       \* global.vcpu_list # nullptr
  startErr,   \* start_err of start(): some vcpu_t::start() failed
  ipi,        \* the processors that still have to take the broadcast IPI
  pc,         \* what the processor does when it is not handling a VM-exit
  exit,       \* how far it is with a VM-exit, "none" when there is none
  cause,      \* why the VM-exit happened: the terminating VMCALL or another
  mode,       \* VMX operation of the processor
  state,      \* vcpu_t::state_, "none" when there is no such object
  data,       \* the allocator that served the handler's per-VCPU data
  allocator,  \* mm::global.allocator[cpu_index]
  ipiPrev,    \* allocator_guard::previous_allocator_ of the IPI callback
  exitPrev,   \* ... and of entry_host()
  failed,     \* the assertions that have failed so far
  halted      \* a VMX instruction raised #UD outside VMX operation

vars == <<driver, running, list, startErr, ipi, pc, exit, cause, mode, state,
          data, allocator, ipiPrev, exitPrev, failed, halted>>

driverVars == <<driver, running, list, startErr>>
allocVars  == <<allocator, ipiPrev, exitPrev>>

State     == {"off", "initializing", "running", "terminating", "terminated"}
Allocator == {"system", "custom"}
StartPc   == {"start", "vmcs", "setup", "launch", "entry", "fail", "leave",
              "teardown"}
StopPc    == {"stop", "vmcall"}
Pc        == {"os", "ret"} \cup StartPc \cup StopPc
Exit      == {"none", "entry", "handle", "leave", "teardown", "resume"}
Assertion == {"start_list", "stop_running", "load_vmxon", "load_vmcs", "setup",
              "vmx_leave", "vcpu_stop", "entry_host", "destructor"}

\* hvpp_assert(p): a breakpoint; the code after it is unconditional.
Assert(p, name) == failed' = IF p THEN failed ELSE failed \cup {name}

\* A VMX instruction needs VMX operation.  Outside it, it raises #UD, for which
\* the kernel has no handler at this level.
Vmx(c) == halted' = (mode[c] = "native")

\* Processor c runs code outside VM-exits, at p; it goes to p.
At(c, p) == exit[c] = "none" /\ pc[c] = p
Goto(c, p) == pc' = [pc EXCEPT ![c] = p]

---------------------------------------------------------------------------
(***************************************************************************)
(* The driver's thread.                                                    *)
(***************************************************************************)

Init ==
  /\ driver = "stopped" /\ running = FALSE /\ list = FALSE /\ startErr = FALSE
  /\ ipi = {}
  /\ pc        = [c \in CPU |-> "os"]
  /\ exit      = [c \in CPU |-> "none"]
  /\ cause     = [c \in CPU |-> "other"]
  /\ mode      = [c \in CPU |-> "native"]
  /\ state     = [c \in CPU |-> "none"]
  /\ data      = [c \in CPU |-> "none"]
  /\ allocator = [c \in CPU |-> "system"]
  /\ ipiPrev   = [c \in CPU |-> "system"]
  /\ exitPrev  = [c \in CPU |-> "system"]
  /\ failed = {} /\ halted = FALSE

\* start() up to the broadcast.  The early returns leave the array allocated.
Start ==
  /\ driver = "stopped" /\ ~running
  /\ Assert(~list, "start_list")
  /\ \/ /\ "memory" \in Faults
        /\ driver' = "failed"
        /\ \E l \in BOOLEAN :       \* the array, or the default pool, is refused
             /\ list' = l
             /\ state' = [c \in CPU |-> IF l THEN "off" ELSE state[c]]
        /\ ipi' = {}
     \/ /\ "features" \in Faults
        /\ driver' = "failed" /\ list' = TRUE
        /\ state' = [c \in CPU |-> "off"]
        /\ ipi' = {}
     \/ /\ driver' = "ipi_start" /\ list' = TRUE
        /\ state' = [c \in CPU |-> "off"]
        /\ ipi' = CPU
  /\ startErr' = FALSE
  /\ UNCHANGED <<running, pc, exit, cause, mode, data, allocVars, halted>>

\* Mutant: the broadcast is over as soon as every processor has taken it.
IpiDone_Taken == ipi = {}

\* KeIpiGenericCall() returns when every processor has run the callback.
IpiDone == ipi = {} /\ \A c \in CPU : pc[c] = "os"

\* Mutant: start() forgets to look at start_err.
JoinStart_IgnoreError ==
  /\ driver = "ipi_start" /\ IpiDone
  /\ running' = TRUE /\ driver' = "started" /\ ipi' = {}
  /\ UNCHANGED <<list, startErr, pc, exit, cause, mode, state, data, allocVars,
                 failed, halted>>

\* start() after the broadcast: on an error it calls stop() itself.
JoinStart ==
  /\ driver = "ipi_start" /\ IpiDone
  /\ running' = TRUE
  /\ driver' = IF startErr THEN "ipi_stop" ELSE "started"
  /\ ipi'    = IF startErr THEN CPU ELSE {}
  /\ UNCHANGED <<list, startErr, pc, exit, cause, mode, state, data, allocVars,
                 failed, halted>>

\* The driver's destroy(), which calls stop() whether start() succeeded or not.
Stop ==
  /\ driver \in {"started", "failed"}
  /\ Assert(running, "stop_running")
  /\ driver' = IF running THEN "ipi_stop" ELSE "unloaded"
  /\ ipi'    = IF running THEN CPU ELSE {}
  /\ UNCHANGED <<running, list, startErr, pc, exit, cause, mode, state, data,
                 allocVars, halted>>

\* stop() after the broadcast.  The destructors find no object running, so none of them
\* calls stop() again.
JoinStop ==
  /\ driver = "ipi_stop" /\ IpiDone
  /\ Assert(\A c \in CPU : state[c] \in {"off", "running", "terminated"},
            "destructor")
  /\ state' = [c \in CPU |-> "none"]
  /\ list' = FALSE /\ running' = FALSE
  /\ driver' = IF startErr THEN "failed" ELSE "unloaded"
  /\ UNCHANGED <<startErr, ipi, pc, exit, cause, mode, data, allocVars, halted>>

\* The driver's image is loaded anew, with fresh statics.  What a failed start()
\* left allocated is out of the new image's reach.
Reload ==
  /\ driver = "unloaded"
  /\ driver' = "stopped" /\ list' = FALSE /\ startErr' = FALSE
  /\ state' = [c \in CPU |-> "none"]
  /\ UNCHANGED <<running, ipi, pc, exit, cause, mode, data, allocVars, failed,
                 halted>>

Driver == Start \/ JoinStart \/ Stop \/ JoinStop \/ Reload

---------------------------------------------------------------------------
(***************************************************************************)
(* vcpu_t::vmx_leave(), reached from the error path of start() and from    *)
(* the VM-exit handler.  Teardown runs after VMXOFF.                       *)
(***************************************************************************)

VmxOff(c) ==
  /\ Assert(state[c] \in {"initializing", "terminating"}, "vmx_leave")
  /\ Vmx(c)
  /\ mode' = [mode EXCEPT ![c] = "native"]

\* Mutant: the per-VCPU data is not deleted.
HandlerTeardown_Leak(c) ==
  /\ state' = [state EXCEPT ![c] = "terminated"]
  /\ UNCHANGED data

\* Mutant: the object goes back to the state of a new one.
HandlerTeardown_Off(c) ==
  /\ state' = [state EXCEPT ![c] = "off"]
  /\ data'  = [data EXCEPT ![c] = "none"]

\* state_ becomes terminated, and then the handler deletes what setup() allocated.
HandlerTeardown(c) ==
  /\ state' = [state EXCEPT ![c] = "terminated"]
  /\ data'  = [data EXCEPT ![c] = "none"]

---------------------------------------------------------------------------
(***************************************************************************)
(* A processor outside VM-exits: the operating system, and the callbacks   *)
(* of start() and stop().                                                  *)
(***************************************************************************)

\* Mutant: an interrupt that arrives in guest mode is lost.
TakeIpi_NativeOnly(c) ==
  /\ c \in ipi /\ At(c, "os") /\ mode[c] = "native"
  /\ ipi' = ipi \ {c}
  /\ ipiPrev'   = [ipiPrev EXCEPT ![c] = allocator[c]]
  /\ allocator' = [allocator EXCEPT ![c] = "custom"]
  /\ Goto(c, IF driver = "ipi_start" THEN "start" ELSE "stop")
  /\ UNCHANGED <<driverVars, exit, cause, mode, state, data, exitPrev, failed,
                 halted>>

\* allocator_guard in the callback, which then calls start() or stop().
TakeIpi(c) ==
  /\ c \in ipi /\ At(c, "os")
  /\ ipi' = ipi \ {c}
  /\ ipiPrev'   = [ipiPrev EXCEPT ![c] = allocator[c]]
  /\ allocator' = [allocator EXCEPT ![c] = "custom"]
  /\ Goto(c, IF driver = "ipi_start" THEN "start" ELSE "stop")
  /\ UNCHANGED <<driverVars, exit, cause, mode, state, data, exitPrev, failed,
                 halted>>

LoadVmxon(c) ==
  /\ At(c, "start")
  /\ Assert(state[c] = "off", "load_vmxon")
  /\ \/ /\ mode'  = [mode EXCEPT ![c] = "root"]
        /\ state' = [state EXCEPT ![c] = "initializing"]
        /\ Goto(c, "vmcs")
     \/ /\ "vmxon" \in Faults
        /\ Goto(c, "fail")
        /\ UNCHANGED <<mode, state>>
  /\ UNCHANGED <<driverVars, ipi, exit, cause, data, allocVars, halted>>

\* VMCLEAR and VMPTRLD.
LoadVmcs(c) ==
  /\ At(c, "vmcs")
  /\ Assert(state[c] = "initializing", "load_vmcs")
  /\ Vmx(c)
  /\ \/ Goto(c, "setup")
     \/ "vmcs" \in Faults /\ Goto(c, "fail")
  /\ UNCHANGED <<driverVars, ipi, exit, cause, mode, state, data, allocVars>>

\* setup_host() and setup_guest(), which write the VMCS, and handler_.setup(), which
\* allocates the EPT.
Setup(c) ==
  /\ At(c, "setup")
  /\ Assert(state[c] = "initializing", "setup")
  /\ Vmx(c)
  /\ \/ /\ data' = [data EXCEPT ![c] = allocator[c]]
        /\ Goto(c, "launch")
     \/ /\ "setup" \in Faults
        /\ data' \in {data, [data EXCEPT ![c] = allocator[c]]}
        /\ Goto(c, "fail")
  /\ UNCHANGED <<driverVars, ipi, exit, cause, mode, state, allocVars>>

VmLaunch(c) ==
  /\ At(c, "launch")
  /\ Vmx(c)
  /\ \/ /\ mode' = [mode EXCEPT ![c] = "guest"]
        /\ Goto(c, "entry")
     \/ /\ "vmlaunch" \in Faults
        /\ Goto(c, "fail")
        /\ UNCHANGED mode
  /\ UNCHANGED <<driverVars, ipi, exit, cause, state, data, allocVars, failed>>

\* Mutant: the value entry_guest() puts into RAX is stored in state_ as well.
Launched_Launching(c) ==
  /\ At(c, "entry")
  /\ state' = [state EXCEPT ![c] = "launching"]
  /\ Goto(c, "ret")
  /\ UNCHANGED <<driverVars, ipi, exit, cause, mode, data, allocVars, failed,
                 halted>>

\* entry_guest() restores launch_context_: start() returns a second time.
Launched(c) ==
  /\ At(c, "entry")
  /\ state' = [state EXCEPT ![c] = "running"]
  /\ Goto(c, "ret")
  /\ UNCHANGED <<driverVars, ipi, exit, cause, mode, data, allocVars, failed,
                 halted>>

\* handle_common_error(): the state is overwritten before vmx_leave() reads it.
HandleError(c) ==
  /\ At(c, "fail")
  /\ state' = [state EXCEPT ![c] = "terminated"]
  /\ Goto(c, "leave")
  /\ UNCHANGED <<driverVars, ipi, exit, cause, mode, data, allocVars, failed,
                 halted>>

ErrorVmxOff(c) ==
  /\ At(c, "leave")
  /\ VmxOff(c)
  /\ Goto(c, "teardown")
  /\ UNCHANGED <<driverVars, ipi, exit, cause, state, data, allocVars>>

\* The callback stores the first error with compare_exchange.
ErrorTeardown(c) ==
  /\ At(c, "teardown")
  /\ HandlerTeardown(c)
  /\ startErr' = TRUE
  /\ Goto(c, "ret")
  /\ UNCHANGED <<driver, running, list, ipi, exit, cause, mode, allocVars,
                 failed, halted>>

\* Mutant: stop() calls the handler before it changes the state.
VcpuStop_NotifyFirst(c) ==
  /\ At(c, "stop")
  /\ Assert(state[c] = "running", "vcpu_stop")
  /\ Goto(c, "vmcall")
  /\ UNCHANGED <<driverVars, ipi, exit, cause, mode, state, data, allocVars,
                 halted>>

\* vcpu_t::stop() up to the handler's terminate().
VcpuStop(c) ==
  /\ At(c, "stop")
  /\ Assert(state[c] = "running", "vcpu_stop")
  /\ state' = [state EXCEPT ![c] = "terminating"]
  /\ Goto(c, "vmcall")
  /\ UNCHANGED <<driverVars, ipi, exit, cause, mode, data, allocVars, halted>>

\* The callback's guard goes out of scope.
CallbackReturn(c) ==
  /\ At(c, "ret")
  /\ allocator' = [allocator EXCEPT ![c] = ipiPrev[c]]
  /\ Goto(c, "os")
  /\ UNCHANGED <<driverVars, ipi, exit, cause, mode, state, data, ipiPrev,
                 exitPrev, failed, halted>>

---------------------------------------------------------------------------
(***************************************************************************)
(* VM-exits.                                                               *)
(***************************************************************************)

\* VMCALL of terminate().
Vmcall(c) ==
  /\ At(c, "vmcall")
  /\ Vmx(c)
  /\ mode'  = [mode EXCEPT ![c] = IF @ = "guest" THEN "root" ELSE @]
  /\ exit'  = [exit EXCEPT ![c] = IF mode[c] = "guest" THEN "entry" ELSE @]
  /\ cause' = [cause EXCEPT ![c] = "terminate"]
  /\ UNCHANGED <<driverVars, ipi, pc, state, data, allocVars, failed>>

\* Any other instruction of the guest that exits.  entry_guest() and the context
\* restore it jumps to contain none.
VmExit(c) ==
  /\ mode[c] = "guest" /\ exit[c] = "none" /\ pc[c] # "entry"
  /\ mode'  = [mode EXCEPT ![c] = "root"]
  /\ exit'  = [exit EXCEPT ![c] = "entry"]
  /\ cause' = [cause EXCEPT ![c] = "other"]
  /\ UNCHANGED <<driverVars, ipi, pc, state, data, allocVars, failed, halted>>

\* entry_host() up to the handler: the guard, and VMREADs of RSP, RIP and RFLAGS.
EntryHost(c) ==
  /\ exit[c] = "entry"
  /\ Assert(state[c] \in {"running", "terminating"}, "entry_host")
  /\ Vmx(c)
  /\ exitPrev'  = [exitPrev EXCEPT ![c] = allocator[c]]
  /\ allocator' = [allocator EXCEPT ![c] = "custom"]
  /\ exit' = [exit EXCEPT ![c] = IF cause[c] = "terminate" THEN "leave"
                                 ELSE "handle"]
  /\ UNCHANGED <<driverVars, ipi, pc, cause, mode, state, data, ipiPrev>>

\* The handler of any other exit, which reads the VMCS.  What else it does is the
\* other modules' matter.
Handle(c) ==
  /\ exit[c] = "handle"
  /\ Vmx(c)
  /\ exit' = [exit EXCEPT ![c] = "resume"]
  /\ UNCHANGED <<driverVars, ipi, pc, cause, mode, state, data, allocVars,
                 failed>>

HandleVmxOff(c) ==
  /\ exit[c] = "leave"
  /\ VmxOff(c)
  /\ exit' = [exit EXCEPT ![c] = "teardown"]
  /\ UNCHANGED <<driverVars, ipi, pc, cause, state, data, allocVars>>

HandleTeardown(c) ==
  /\ exit[c] = "teardown"
  /\ HandlerTeardown(c)
  /\ exit' = [exit EXCEPT ![c] = "resume"]
  /\ UNCHANGED <<driverVars, ipi, pc, cause, mode, allocVars, failed, halted>>

\* Mutant: the guard's destructor does not put the previous allocator back.
LeaveExitGuard_NotRestored(c) == UNCHANGED allocator

\* "goto exit" leaves the scope of entry_host()'s guard like the normal path.
LeaveExitGuard(c) == allocator' = [allocator EXCEPT ![c] = exitPrev[c]]

\* vmx_leave() has moved RIP past the VMCALL: terminate() returns, and stop().
ResumePc(c) == IF cause[c] = "terminate" THEN "ret" ELSE pc[c]

\* Mutant: entry_host() does not look whether the handler has turned VMX off.
Terminated_Ignored(c) == FALSE

\* state_ == state::terminated after the handler: "goto exit".
Terminated(c) == state[c] = "terminated"

\* The end of entry_host(): RIP is advanced, the VMCS gets RSP, RIP and RFLAGS, and
\* VMRESUME enters the guest, unless vmx_leave() has turned VMX off.
Resume(c) ==
  /\ exit[c] = "resume"
  /\ LeaveExitGuard(c)
  /\ exit' = [exit EXCEPT ![c] = "none"]
  /\ \/ Terminated(c) /\ UNCHANGED <<mode, halted>>
     \/ ~Terminated(c) /\ Vmx(c) /\ mode' = [mode EXCEPT ![c] = "guest"]
  /\ Goto(c, ResumePc(c))
  /\ UNCHANGED <<driverVars, ipi, cause, state, data, ipiPrev, exitPrev, failed>>

---------------------------------------------------------------------------
\* The steps of the code the processor was running, and of the VM-exit it handles.
CodeStep(c) ==
  \/ TakeIpi(c) \/ LoadVmxon(c) \/ LoadVmcs(c) \/ Setup(c) \/ VmLaunch(c)
  \/ Launched(c) \/ HandleError(c) \/ ErrorVmxOff(c) \/ ErrorTeardown(c)
  \/ VcpuStop(c) \/ Vmcall(c) \/ CallbackReturn(c)

ExitStep(c) ==
  \/ EntryHost(c) \/ Handle(c) \/ HandleVmxOff(c) \/ HandleTeardown(c)
  \/ Resume(c)

Next ==
  /\ ~halted
  /\ \/ Driver
     \/ \E c \in CPU : CodeStep(c) \/ ExitStep(c) \/ VmExit(c)

\* The thread waiting for the broadcast is resumed when it is over, and VMX root
\* mode runs to its end.  A processor that keeps taking VM-exits still retires
\* instructions between them, hence the strong fairness of its own code.
Fairness ==
  /\ WF_vars(~halted /\ (JoinStart \/ JoinStop))
  /\ \A c \in CPU : SF_vars(~halted /\ CodeStep(c))
  /\ \A c \in CPU : WF_vars(~halted /\ ExitStep(c))

Spec     == Init /\ [][Next]_vars
FairSpec == Spec /\ Fairness
---------------------------------------------------------------------------
(***************************************************************************)
(* Properties.                                                             *)
(***************************************************************************)

TypeOK ==
  /\ driver \in {"stopped", "ipi_start", "started", "ipi_stop", "failed",
                 "unloaded"}
  /\ running \in BOOLEAN /\ list \in BOOLEAN /\ startErr \in BOOLEAN
  /\ ipi \subseteq CPU
  /\ pc        \in [CPU -> Pc]
  /\ exit      \in [CPU -> Exit]
  /\ cause     \in [CPU -> {"terminate", "other"}]
  /\ mode      \in [CPU -> {"native", "root", "guest"}]
  /\ state     \in [CPU -> State \cup {"none"}]
  /\ data      \in [CPU -> Allocator \cup {"none"}]
  /\ allocator \in [CPU -> Allocator]
  /\ ipiPrev   \in [CPU -> Allocator]
  /\ exitPrev  \in [CPU -> Allocator]
  /\ failed \subseteq Assertion /\ halted \in BOOLEAN

\* The VCPU array holds each processor's VMXON region, VMCS and host stack.
\* hypervisor::stop() deletes it only when no processor can still use it: every one
\* has left VMX operation and the callbacks, whatever VM-exits interrupted them.
VcpuMemoryUnused ==
  ~list => \A c \in CPU : mode[c] = "native" /\ At(c, "os")

\* The EPT and the rest of the handler's per-VCPU data exist from setup() until
\* after VMXOFF, so the processor never walks freed tables.  A processor that is out
\* of vmx_leave() keeps none of it, also when start() failed half-way, and none of it
\* outlives the VCPU array.
HandlerDataLifetime ==
  /\ \A c \in CPU : mode[c] = "guest" => data[c] # "none"
  /\ \A c \in CPU : exit[c] # "none" /\ mode[c] = "root" => data[c] # "none"
  /\ \A c \in CPU : mode[c] = "native" /\ exit[c] # "teardown" /\ ~At(c, "teardown")
                   => data[c] = "none"
  /\ driver \in {"stopped", "unloaded"} => \A c \in CPU : data[c] = "none"

\* Code at IPI level and in VMX root mode never reaches the system allocator, and
\* the operating system's own code never runs with the hypervisor's: the guards of
\* the callback and of entry_host() nest, also when one VM-exit turns VMX off.
AllocatorDiscipline ==
  \A c \in CPU :
    /\ exit[c] \in {"handle", "leave", "teardown", "resume"}
         => allocator[c] = "custom"
    /\ At(c, "os") => allocator[c] = "system"
    /\ pc[c] # "os" => allocator[c] = "custom"
    /\ data[c] # "system"

\* start() reports success only with every processor virtualized: one that failed
\* to enter VMX operation, or to launch, is enough for start() to fail.
StartedMeansAll ==
  driver = "started" => \A c \in CPU : state[c] = "running" /\ mode[c] # "native"

\* VMX instructions are executed in VMX operation only: in load_vmcs() and setup, in
\* entry_host() before and after the handler (vcpu.cpp:792-806 and 844-856, which the
\* test of "terminated" at 831 protects), in vmx_leave() and in terminate(), whichever
\* order the processors take.
NoUndefinedOpcode == ~halted

\* The assertions of vcpu_t hold on every processor, in every interleaving.
VcpuAssertions == failed \subseteq {"stop_running"}

\* What the comments of ~vcpu_t say of the states: "initializing" goes directly to
\* "running" or "terminated", "terminating" directly to "terminated", and nothing
\* leaves "terminated" but the destruction of the object.
StateOrder ==
  [][\A c \in CPU : state'[c] # state[c] =>
       <<state[c], state'[c]>> \in
         {<<"none", "off">>, <<"off", "initializing">>,
          <<"initializing", "running">>, <<"initializing", "terminated">>,
          <<"running", "terminating">>, <<"terminating", "terminated">>,
          <<"terminated", "none">>, <<"off", "none">>}]_vars

\* A broadcast ends: start() and stop() return although the processors keep taking
\* VM-exits while the callbacks run, and stop() then leaves all of them native.
BroadcastsEnd ==
  /\ driver = "ipi_start" ~> driver = "started"
  /\ driver = "ipi_stop" ~> (~list /\ \A c \in CPU : mode[c] = "native")

\* vcpu.cpp:207-211: "Calling this method on any other state than "running" is
\* considered error."
VcpuStopAssertion == "vcpu_stop" \notin failed
=============================================================================
