---------------------------- MODULE HypervisorProofs ----------------------------
(***************************************************************************)
(* Proofs about Hypervisor, and about DriverLife around it, for any set of *)
(* processors and any faults.                                              *)
(***************************************************************************)
EXTENDS DriverLife, TLAPS

\* A processor the hypervisor has no hold on.
Untouched(c) ==
  pc[c] = "os" /\ exit[c] = "none" /\ mode[c] = "native" /\ data[c] = "none"

\* Which of the driver's phases the callbacks belong to.
PhaseInv(c) ==
  /\ pc[c] # "os" => driver \in {"ipi_start", "ipi_stop"} /\ c \notin ipi
  /\ pc[c] \in StartPc => driver = "ipi_start"
  /\ pc[c] \in StopPc  => driver = "ipi_stop"
  /\ driver = "ipi_start" /\ c \in ipi => Untouched(c)
  /\ driver = "ipi_start" /\ c \notin ipi /\ pc[c] \in {"os", "ret"}
      => \/ mode[c] # "native" /\ state[c] = "running"
         \/ startErr /\ exit[c] = "none" /\ mode[c] = "native"
  /\ driver = "ipi_stop" /\ c \notin ipi /\ pc[c] \in {"os", "ret"}
      => exit[c] = "none" /\ mode[c] = "native"

\* What a VM-exit in progress says of the processor, and what its absence says.
ExitInv(c) ==
  /\ exit[c] # "none" => pc[c] \in {"os", "ret", "stop", "vmcall"}
  /\ exit[c] # "none" /\ cause[c] = "terminate" => pc[c] = "vmcall"
  /\ exit[c] = "handle" => cause[c] = "other"
  /\ exit[c] \in {"leave", "teardown"} => cause[c] = "terminate"
  /\ exit[c] \in {"entry", "handle", "leave"} => mode[c] = "root"
  /\ exit[c] = "teardown" => mode[c] = "native"
  /\ exit[c] = "resume" =>
       \/ cause[c] = "other" /\ mode[c] = "root"
       \/ cause[c] = "terminate" /\ mode[c] = "native" /\ state[c] = "terminated"
  /\ mode[c] = "guest"
      => exit[c] = "none" /\ pc[c] \in {"entry", "os", "ret", "stop", "vmcall"}
  /\ exit[c] = "none" /\ pc[c] \in {"vmcs", "setup", "launch"} => mode[c] = "root"
  /\ pc[c] \in {"start", "teardown"} => mode[c] = "native"
  /\ pc[c] = "entry" => mode[c] = "guest"
  /\ exit[c] = "none" /\ pc[c] \in {"os", "ret", "stop", "vmcall"} => mode[c] # "root"

\* The state of the vcpu_t object follows from where its processor is.
StateInv(c) ==
  /\ mode[c] # "native" /\ pc[c] \in {"os", "ret", "stop"} => state[c] = "running"
  /\ pc[c] = "vmcall" /\ ~(exit[c] = "resume" /\ cause[c] = "terminate")
      => state[c] = "terminating"
  /\ exit[c] # "none" /\ cause[c] = "other" => state[c] \in {"running", "terminating"}

\* The handler's data exists while the processor may use it, and not longer.
DataInv(c) ==
  /\ data[c] # "system"
  /\ mode[c] = "guest" \/ pc[c] = "launch" => data[c] = "custom"
  /\ exit[c] # "none" /\ ~(exit[c] = "resume" /\ cause[c] = "terminate")
      => data[c] = "custom"
  /\ exit[c] = "resume" /\ cause[c] = "terminate" => data[c] = "none"
  /\ exit[c] = "none" /\ mode[c] = "native" /\ pc[c] # "teardown" => data[c] = "none"

\* The two guards nest: entry_host()'s inside the callback's.
GuardInv(c) ==
  LET outside == IF pc[c] = "os" THEN "system" ELSE "custom" IN
  /\ pc[c] # "os" => ipiPrev[c] = "system"
  /\ exit[c] \in {"none", "entry"} => allocator[c] = outside
  /\ exit[c] \notin {"none", "entry"}
      => allocator[c] = "custom" /\ exitPrev[c] = outside

DriverInv ==
  /\ driver \in {"stopped", "failed", "unloaded"}
      => ipi = {} /\ ~running /\ \A c \in CPU : Untouched(c)
  /\ driver \in {"ipi_start", "started", "ipi_stop"} => list
  /\ driver = "started" =>
       /\ running /\ ipi = {}
       /\ \A c \in CPU : pc[c] = "os" /\ state[c] = "running" /\ mode[c] # "native"

CpuInv(c) == PhaseInv(c) /\ ExitInv(c) /\ StateInv(c) /\ DataInv(c) /\ GuardInv(c)

\* The inductive invariant.
IInv == TypeOK /\ DriverInv /\ \A c \in CPU : CpuInv(c)

\* A step of processor c leaves the driver's thread and the other processors alone.
Frame(c) ==
  /\ driver' = driver /\ running' = running /\ list' = list
  /\ startErr => startErr'
  /\ ipi' \subseteq ipi
  /\ \A d \in CPU \ {c} :
       /\ d \in ipi <=> d \in ipi'
       /\ pc'[d] = pc[d] /\ exit'[d] = exit[d] /\ cause'[d] = cause[d]
       /\ mode'[d] = mode[d] /\ state'[d] = state[d] /\ data'[d] = data[d]
       /\ allocator'[d] = allocator[d] /\ ipiPrev'[d] = ipiPrev[d]
       /\ exitPrev'[d] = exitPrev[d]

---------------------------------------------------------------------------
\* The types hold initially.
LEMMA TypeInit == Init => TypeOK
<1> USE DEF TypeOK, Pc, StartPc, StopPc, Exit, State, Allocator, Assertion
<1> SUFFICES ASSUME Init PROVE TypeOK
  OBVIOUS
<1>1. running \in BOOLEAN /\ list \in BOOLEAN /\ startErr \in BOOLEAN /\ halted \in BOOLEAN
  BY Zenon DEF Init
<1>2. driver \in {"stopped", "ipi_start", "started", "ipi_stop", "failed", "unloaded"}
  BY DEF Init
<1>3. ipi \subseteq CPU /\ failed \subseteq Assertion
  BY DEF Init
<1> QED
  BY <1>1, <1>2, <1>3 DEF Init

\* Every step of the driver's thread, of a callback and of a VM-exit keeps the types.
LEMMA TypeStep ==
  ASSUME TypeOK, [Next]_vars
  PROVE  TypeOK'
<1> USE DEF TypeOK, Pc, StartPc, StopPc, Exit, State, Allocator, Assertion
<1> USE DEF driverVars, allocVars, Assert, Goto, At
<1>1. CASE Driver
  <2>1. CASE Start
    <3>1. list' \in BOOLEAN /\ startErr' \in BOOLEAN
      BY <2>1, Zenon DEF Start
    <3>2. state' \in [CPU -> State \cup {"none"}]
      BY <2>1 DEF Start
    <3>3. /\ driver' \in {"stopped", "ipi_start", "started", "ipi_stop",
                         "failed", "unloaded"}
          /\ ipi' \subseteq CPU /\ failed' \subseteq Assertion
      BY <2>1 DEF Start
    <3> QED
      BY <2>1, <3>1, <3>2, <3>3 DEF Start
  <2>2. CASE JoinStart
    BY <2>2 DEF JoinStart
  <2>3. CASE Stop
    BY <2>3 DEF Stop
  <2>4. CASE JoinStop
    BY <2>4 DEF JoinStop
  <2>5. CASE Reload
    BY <2>5 DEF Reload
  <2> QED
    BY <1>1, <2>1, <2>2, <2>3, <2>4, <2>5 DEF Driver
<1>2. ASSUME NEW c \in CPU, CodeStep(c) PROVE TypeOK'
  <2>1. CASE TakeIpi(c)
    BY <2>1 DEF TakeIpi
  <2>2. CASE LoadVmxon(c)
    BY <2>2 DEF LoadVmxon
  <2>3. CASE LoadVmcs(c)
    BY <2>3 DEF LoadVmcs, Vmx
  <2>4. CASE Setup(c)
    BY <2>4 DEF Setup, Vmx
  <2>5. CASE VmLaunch(c)
    BY <2>5 DEF VmLaunch, Vmx
  <2>6. CASE Launched(c)
    BY <2>6 DEF Launched
  <2>7. CASE HandleError(c)
    BY <2>7 DEF HandleError
  <2>8. CASE ErrorVmxOff(c)
    BY <2>8 DEF ErrorVmxOff, VmxOff, Vmx
  <2>9. CASE ErrorTeardown(c)
    BY <2>9 DEF ErrorTeardown, HandlerTeardown
  <2>10. CASE VcpuStop(c)
    BY <2>10 DEF VcpuStop
  <2>11. CASE Vmcall(c)
    BY <2>11 DEF Vmcall, Vmx
  <2>12. CASE CallbackReturn(c)
    BY <2>12 DEF CallbackReturn
  <2> QED
    BY <1>2, <2>1, <2>2, <2>3, <2>4, <2>5, <2>6, <2>7, <2>8, <2>9, <2>10, <2>11, <2>12 DEF CodeStep
<1>3. ASSUME NEW c \in CPU, ExitStep(c) PROVE TypeOK'
  <2>1. CASE EntryHost(c)
    BY <2>1 DEF EntryHost, Vmx
  <2>2. CASE Handle(c)
    BY <2>2 DEF Handle, Vmx
  <2>3. CASE HandleVmxOff(c)
    BY <2>3 DEF HandleVmxOff, VmxOff, Vmx
  <2>4. CASE HandleTeardown(c)
    BY <2>4 DEF HandleTeardown, HandlerTeardown
  <2>5. CASE Resume(c)
    <3>1. halted' \in BOOLEAN
      BY <2>5, Zenon DEF Resume, Vmx
    <3>2. mode' \in [CPU -> {"native", "root", "guest"}]
      BY <2>5 DEF Resume
    <3> QED
      BY <2>5, <3>1, <3>2 DEF Resume, LeaveExitGuard, ResumePc
  <2> QED
    BY <1>3, <2>1, <2>2, <2>3, <2>4, <2>5 DEF ExitStep
<1>4. ASSUME NEW c \in CPU, VmExit(c) PROVE TypeOK'
  BY <1>4 DEF VmExit
<1>5. CASE UNCHANGED vars
  BY <1>5 DEF vars
<1> QED
  BY <1>1, <1>2, <1>3, <1>4, <1>5 DEF Next

---------------------------------------------------------------------------
\* The invariant of the processors a step does not concern.
LEMMA OtherProcessors ==
  ASSUME NEW c \in CPU, Frame(c), NEW d \in CPU, d # c, CpuInv(d)
  PROVE  CpuInv(d)'
<1> USE DEF Frame
<1>1. PhaseInv(d)'
  BY DEF CpuInv, PhaseInv, Untouched
<1>2. ExitInv(d)'
  BY DEF CpuInv, ExitInv
<1>3. StateInv(d)'
  BY DEF CpuInv, StateInv
<1>4. DataInv(d)'
  BY DEF CpuInv, DataInv
<1>5. GuardInv(d)'
  BY DEF CpuInv, GuardInv
<1> QED
  BY <1>1, <1>2, <1>3, <1>4, <1>5 DEF CpuInv

\* A step of the code a processor was running keeps that processor's invariant.
LEMMA CodeStepLocal ==
  ASSUME NEW c \in CPU, IInv, CodeStep(c)
  PROVE  Frame(c) /\ CpuInv(c)'
<1> USE DEF TypeOK, IInv, Frame, CpuInv, PhaseInv, ExitInv, StateInv, DataInv, GuardInv,
        Untouched, Pc, StartPc, StopPc, driverVars, allocVars, Assert, Goto, At
<1>1. CASE TakeIpi(c)
  <2>1. Frame(c)
    BY <1>1 DEF TakeIpi
  <2>2. PhaseInv(c)'
    BY <1>1 DEF TakeIpi, DriverInv
  <2>3. ExitInv(c)'
    BY <1>1 DEF TakeIpi, DriverInv
  <2>4. StateInv(c)'
    BY <1>1 DEF TakeIpi, DriverInv
  <2>5. DataInv(c)'
    BY <1>1 DEF TakeIpi, DriverInv
  <2>6. GuardInv(c)'
    BY <1>1 DEF TakeIpi, DriverInv
  <2> QED
    BY <2>1, <2>2, <2>3, <2>4, <2>5, <2>6
<1>2. CASE LoadVmxon(c)
  <2>1. Frame(c)
    BY <1>2 DEF LoadVmxon
  <2>2. PhaseInv(c)'
    BY <1>2 DEF LoadVmxon
  <2>3. ExitInv(c)'
    BY <1>2 DEF LoadVmxon
  <2>4. StateInv(c)'
    BY <1>2 DEF LoadVmxon
  <2>5. DataInv(c)'
    BY <1>2 DEF LoadVmxon
  <2>6. GuardInv(c)'
    BY <1>2 DEF LoadVmxon
  <2> QED
    BY <2>1, <2>2, <2>3, <2>4, <2>5, <2>6
<1>3. CASE LoadVmcs(c)
  <2>1. Frame(c)
    BY <1>3 DEF LoadVmcs
  <2>2. PhaseInv(c)'
    BY <1>3 DEF LoadVmcs
  <2>3. ExitInv(c)'
    BY <1>3 DEF LoadVmcs
  <2>4. StateInv(c)'
    BY <1>3 DEF LoadVmcs
  <2>5. DataInv(c)'
    BY <1>3 DEF LoadVmcs
  <2>6. GuardInv(c)'
    BY <1>3 DEF LoadVmcs
  <2> QED
    BY <2>1, <2>2, <2>3, <2>4, <2>5, <2>6
<1>4. CASE Setup(c)
  <2>1. Frame(c)
    BY <1>4 DEF Setup
  <2>2. PhaseInv(c)'
    BY <1>4 DEF Setup
  <2>3. ExitInv(c)'
    BY <1>4 DEF Setup
  <2>4. StateInv(c)'
    BY <1>4 DEF Setup
  <2>5. DataInv(c)'
    BY <1>4 DEF Setup
  <2>6. GuardInv(c)'
    BY <1>4 DEF Setup
  <2> QED
    BY <2>1, <2>2, <2>3, <2>4, <2>5, <2>6
<1>5. CASE VmLaunch(c)
  <2>1. Frame(c)
    BY <1>5 DEF VmLaunch
  <2>2. PhaseInv(c)'
    BY <1>5 DEF VmLaunch
  <2>3. ExitInv(c)'
    BY <1>5 DEF VmLaunch
  <2>4. StateInv(c)'
    BY <1>5 DEF VmLaunch
  <2>5. DataInv(c)'
    BY <1>5 DEF VmLaunch
  <2>6. GuardInv(c)'
    BY <1>5 DEF VmLaunch
  <2> QED
    BY <2>1, <2>2, <2>3, <2>4, <2>5, <2>6
<1>6. CASE Launched(c)
  <2>1. Frame(c)
    BY <1>6 DEF Launched
  <2>2. PhaseInv(c)'
    BY <1>6 DEF Launched
  <2>3. ExitInv(c)'
    BY <1>6 DEF Launched
  <2>4. StateInv(c)'
    BY <1>6 DEF Launched
  <2>5. DataInv(c)'
    BY <1>6 DEF Launched
  <2>6. GuardInv(c)'
    BY <1>6 DEF Launched
  <2> QED
    BY <2>1, <2>2, <2>3, <2>4, <2>5, <2>6
<1>7. CASE HandleError(c)
  <2>1. Frame(c)
    BY <1>7 DEF HandleError
  <2>2. PhaseInv(c)'
    BY <1>7 DEF HandleError
  <2>3. ExitInv(c)'
    BY <1>7 DEF HandleError
  <2>4. StateInv(c)'
    BY <1>7 DEF HandleError
  <2>5. DataInv(c)'
    BY <1>7 DEF HandleError
  <2>6. GuardInv(c)'
    BY <1>7 DEF HandleError
  <2> QED
    BY <2>1, <2>2, <2>3, <2>4, <2>5, <2>6
<1>8. CASE ErrorVmxOff(c)
  <2>1. Frame(c)
    BY <1>8 DEF ErrorVmxOff, VmxOff, Vmx
  <2>2. PhaseInv(c)'
    BY <1>8 DEF ErrorVmxOff, VmxOff, Vmx
  <2>3. ExitInv(c)'
    BY <1>8 DEF ErrorVmxOff, VmxOff, Vmx
  <2>4. StateInv(c)'
    BY <1>8 DEF ErrorVmxOff, VmxOff, Vmx
  <2>5. DataInv(c)'
    BY <1>8 DEF ErrorVmxOff, VmxOff, Vmx
  <2>6. GuardInv(c)'
    BY <1>8 DEF ErrorVmxOff, VmxOff, Vmx
  <2> QED
    BY <2>1, <2>2, <2>3, <2>4, <2>5, <2>6
<1>9. CASE ErrorTeardown(c)
  <2>1. Frame(c)
    BY <1>9 DEF ErrorTeardown, HandlerTeardown
  <2>2. PhaseInv(c)'
    BY <1>9 DEF ErrorTeardown, HandlerTeardown
  <2>3. ExitInv(c)'
    BY <1>9 DEF ErrorTeardown, HandlerTeardown
  <2>4. StateInv(c)'
    BY <1>9 DEF ErrorTeardown, HandlerTeardown
  <2>5. DataInv(c)'
    BY <1>9 DEF ErrorTeardown, HandlerTeardown
  <2>6. GuardInv(c)'
    BY <1>9 DEF ErrorTeardown, HandlerTeardown
  <2> QED
    BY <2>1, <2>2, <2>3, <2>4, <2>5, <2>6
<1>10. CASE VcpuStop(c)
  <2>1. Frame(c)
    BY <1>10 DEF VcpuStop
  <2>2. PhaseInv(c)'
    BY <1>10 DEF VcpuStop
  <2>3. ExitInv(c)'
    BY <1>10 DEF VcpuStop
  <2>4. StateInv(c)'
    BY <1>10 DEF VcpuStop
  <2>5. DataInv(c)'
    BY <1>10 DEF VcpuStop
  <2>6. GuardInv(c)'
    BY <1>10 DEF VcpuStop
  <2> QED
    BY <2>1, <2>2, <2>3, <2>4, <2>5, <2>6
<1>11. CASE Vmcall(c)
  <2>1. Frame(c)
    BY <1>11 DEF Vmcall, Vmx
  <2>2. PhaseInv(c)'
    BY <1>11 DEF Vmcall, Vmx
  <2>3. ExitInv(c)'
    BY <1>11 DEF Vmcall, Vmx
  <2>4. StateInv(c)'
    BY <1>11 DEF Vmcall, Vmx
  <2>5. DataInv(c)'
    BY <1>11 DEF Vmcall, Vmx
  <2>6. GuardInv(c)'
    BY <1>11 DEF Vmcall, Vmx
  <2> QED
    BY <2>1, <2>2, <2>3, <2>4, <2>5, <2>6
<1>12. CASE CallbackReturn(c)
  <2>1. Frame(c)
    BY <1>12 DEF CallbackReturn
  <2>2. PhaseInv(c)'
    BY <1>12 DEF CallbackReturn
  <2>3. ExitInv(c)'
    BY <1>12 DEF CallbackReturn
  <2>4. StateInv(c)'
    BY <1>12 DEF CallbackReturn
  <2>5. DataInv(c)'
    BY <1>12 DEF CallbackReturn
  <2>6. GuardInv(c)'
    BY <1>12 DEF CallbackReturn
  <2> QED
    BY <2>1, <2>2, <2>3, <2>4, <2>5, <2>6
<1> QED
  BY <1>1, <1>2, <1>3, <1>4, <1>5, <1>6, <1>7, <1>8, <1>9, <1>10, <1>11, <1>12 DEF CodeStep

\* So does a step of a VM-exit, the exit itself included.
LEMMA ExitStepLocal ==
  ASSUME NEW c \in CPU, IInv, ExitStep(c) \/ VmExit(c)
  PROVE  Frame(c) /\ CpuInv(c)'
<1> USE DEF TypeOK, IInv, Frame, CpuInv, PhaseInv, ExitInv, StateInv, DataInv, GuardInv,
        Untouched, Pc, StartPc, StopPc, driverVars, allocVars, Assert, Goto, At
<1>1. CASE EntryHost(c)
  <2>1. Frame(c)
    BY <1>1 DEF EntryHost
  <2>2. PhaseInv(c)'
    BY <1>1 DEF EntryHost
  <2>3. ExitInv(c)'
    BY <1>1 DEF EntryHost
  <2>4. StateInv(c)'
    BY <1>1 DEF EntryHost
  <2>5. DataInv(c)'
    BY <1>1 DEF EntryHost
  <2>6. GuardInv(c)'
    BY <1>1 DEF EntryHost
  <2> QED
    BY <2>1, <2>2, <2>3, <2>4, <2>5, <2>6
<1>2. CASE Handle(c)
  <2>1. Frame(c)
    BY <1>2 DEF Handle
  <2>2. PhaseInv(c)'
    BY <1>2 DEF Handle
  <2>3. ExitInv(c)'
    BY <1>2 DEF Handle
  <2>4. StateInv(c)'
    BY <1>2 DEF Handle
  <2>5. DataInv(c)'
    BY <1>2 DEF Handle
  <2>6. GuardInv(c)'
    BY <1>2 DEF Handle
  <2> QED
    BY <2>1, <2>2, <2>3, <2>4, <2>5, <2>6
<1>3. CASE HandleVmxOff(c)
  <2>1. Frame(c)
    BY <1>3 DEF HandleVmxOff, VmxOff, Vmx
  <2>2. PhaseInv(c)'
    BY <1>3 DEF HandleVmxOff, VmxOff, Vmx
  <2>3. ExitInv(c)'
    BY <1>3 DEF HandleVmxOff, VmxOff, Vmx
  <2>4. StateInv(c)'
    BY <1>3 DEF HandleVmxOff, VmxOff, Vmx
  <2>5. DataInv(c)'
    BY <1>3 DEF HandleVmxOff, VmxOff, Vmx
  <2>6. GuardInv(c)'
    BY <1>3 DEF HandleVmxOff, VmxOff, Vmx
  <2> QED
    BY <2>1, <2>2, <2>3, <2>4, <2>5, <2>6
<1>4. CASE HandleTeardown(c)
  <2>1. Frame(c)
    BY <1>4 DEF HandleTeardown, HandlerTeardown
  <2>2. PhaseInv(c)'
    BY <1>4 DEF HandleTeardown, HandlerTeardown
  <2>3. ExitInv(c)'
    BY <1>4 DEF HandleTeardown, HandlerTeardown
  <2>4. StateInv(c)'
    BY <1>4 DEF HandleTeardown, HandlerTeardown
  <2>5. DataInv(c)'
    BY <1>4 DEF HandleTeardown, HandlerTeardown
  <2>6. GuardInv(c)'
    BY <1>4 DEF HandleTeardown, HandlerTeardown
  <2> QED
    BY <2>1, <2>2, <2>3, <2>4, <2>5, <2>6
<1>5. CASE Resume(c)
  <2>1. Frame(c)
    BY <1>5 DEF Resume, Terminated, LeaveExitGuard, ResumePc
  <2>2. PhaseInv(c)'
    BY <1>5 DEF Resume, Terminated, LeaveExitGuard, ResumePc
  <2>3. ExitInv(c)'
    BY <1>5 DEF Resume, Terminated, LeaveExitGuard, ResumePc
  <2>4. StateInv(c)'
    BY <1>5 DEF Resume, Terminated, LeaveExitGuard, ResumePc
  <2>5. DataInv(c)'
    BY <1>5 DEF Resume, Terminated, LeaveExitGuard, ResumePc
  <2>6. GuardInv(c)'
    BY <1>5 DEF Resume, Terminated, LeaveExitGuard, ResumePc
  <2> QED
    BY <2>1, <2>2, <2>3, <2>4, <2>5, <2>6
<1>6. CASE VmExit(c)
  <2>1. Frame(c)
    BY <1>6 DEF VmExit
  <2>2. PhaseInv(c)'
    BY <1>6 DEF VmExit
  <2>3. ExitInv(c)'
    BY <1>6 DEF VmExit
  <2>4. StateInv(c)'
    BY <1>6 DEF VmExit
  <2>5. DataInv(c)'
    BY <1>6 DEF VmExit
  <2>6. GuardInv(c)'
    BY <1>6 DEF VmExit
  <2> QED
    BY <2>1, <2>2, <2>3, <2>4, <2>5, <2>6
<1> QED
  BY <1>1, <1>2, <1>3, <1>4, <1>5, <1>6 DEF ExitStep

---------------------------------------------------------------------------
\* The steps of the driver's thread: the broadcasts begin and end.
LEMMA DriverStep ==
  ASSUME IInv, Driver
  PROVE  DriverInv' /\ \A c \in CPU : CpuInv(c)'
<1> USE DEF TypeOK, IInv, DriverInv, CpuInv, PhaseInv, ExitInv, StateInv, DataInv,
        GuardInv, Untouched, StartPc, StopPc, allocVars, IpiDone
<1>1. CASE Start
  BY <1>1 DEF Start
<1>2. CASE JoinStart
  BY <1>2 DEF JoinStart
<1>3. CASE Stop
  BY <1>3 DEF Stop
<1>4. CASE JoinStop
  BY <1>4 DEF JoinStop
<1>5. CASE Reload
  BY <1>5 DEF Reload
<1> QED
  BY <1>1, <1>2, <1>3, <1>4, <1>5 DEF Driver

\* A processor's step changes nothing the driver's thread relies on.
LEMMA DriverInvKept ==
  ASSUME NEW c \in CPU, IInv, CodeStep(c) \/ ExitStep(c) \/ VmExit(c)
  PROVE  DriverInv'
<1>1. Frame(c) /\ CpuInv(c)'
  BY CodeStepLocal, ExitStepLocal
<1>2. driver \in {"ipi_start", "started", "ipi_stop"}
  <2>1. CASE driver \in {"stopped", "failed", "unloaded"}
    <3>1. Untouched(c) /\ ipi = {}
      BY <2>1 DEF IInv, DriverInv
    <3>2. ~VmExit(c)
      BY <3>1 DEF Untouched, VmExit
    <3>3. ~ExitStep(c)
      BY <3>1 DEF Untouched, ExitStep, EntryHost, Handle, HandleVmxOff, HandleTeardown,
         Resume
    <3>4. ~CodeStep(c)
      BY <3>1 DEF Untouched, CodeStep, At, TakeIpi, LoadVmxon, LoadVmcs, Setup, VmLaunch,
         Launched, HandleError, ErrorVmxOff, ErrorTeardown, VcpuStop, Vmcall,
         CallbackReturn
    <3> QED
      BY <3>2, <3>3, <3>4
  <2> QED
    BY <2>1 DEF IInv, TypeOK
<1>3. CASE driver # "started"
  BY <1>1, <1>2, <1>3 DEF IInv, DriverInv, Frame
<1>4. CASE driver = "started"
  <2>1. pc[c] = "os" /\ c \notin ipi /\ mode[c] # "native" /\ state[c] = "running"
    BY <1>4 DEF IInv, DriverInv
  <2>2. ExitStep(c) \/ VmExit(c)
    BY <2>1 DEF CodeStep, At, TakeIpi, LoadVmxon, LoadVmcs, Setup, VmLaunch, Launched,
       HandleError, ErrorVmxOff, ErrorTeardown, VcpuStop, Vmcall, CallbackReturn
  <2>3. cause[c] = "other" \/ exit[c] = "none"
    BY <2>1, <1>4 DEF IInv, CpuInv, ExitInv, TypeOK
  <2>4. pc'[c] = "os" /\ mode'[c] # "native" /\ state'[c] = "running"
    BY <2>1, <2>2, <2>3 DEF IInv, TypeOK, CpuInv, ExitInv, ExitStep, VmExit, EntryHost, Handle,
       HandleVmxOff, HandleTeardown, Resume, Terminated, LeaveExitGuard, ResumePc, Goto, VmxOff,
       HandlerTeardown
  <2> QED
    BY <1>1, <1>4, <2>4 DEF IInv, DriverInv, Frame
<1> QED
  BY <1>3, <1>4

\* Initially nothing has a hold on any processor.
LEMMA InvariantInit == Init => IInv
  BY TypeInit DEF Init, IInv, DriverInv, CpuInv, PhaseInv, ExitInv, StateInv, DataInv,
     GuardInv, Untouched, StartPc, StopPc

\* Every step keeps the invariant: the driver's, and those of one processor, which keep
\* that processor's part, the driver's and, leaving them alone, the other processors'.
LEMMA InvariantStep ==
  ASSUME IInv, [Next]_vars
  PROVE  IInv'
<1> SUFFICES DriverInv' /\ \A c \in CPU : CpuInv(c)'
  BY TypeStep DEF IInv
<1>1. CASE Driver
  BY <1>1, DriverStep
<1>2. ASSUME NEW c \in CPU, CodeStep(c) \/ ExitStep(c) \/ VmExit(c)
      PROVE  DriverInv' /\ \A d \in CPU : CpuInv(d)'
  <2>1. Frame(c) /\ CpuInv(c)'
    BY <1>2, CodeStepLocal, ExitStepLocal
  <2>2. ASSUME NEW d \in CPU PROVE CpuInv(d)'
    BY <2>1, OtherProcessors DEF IInv
  <2> QED
    BY <1>2, <2>2, DriverInvKept
<1>3. CASE UNCHANGED vars
  BY <1>3 DEF vars, IInv, DriverInv, CpuInv, PhaseInv, ExitInv, StateInv, DataInv,
     GuardInv, Untouched
<1> QED
  BY <1>1, <1>2, <1>3 DEF Next

\* The inductive invariant holds in every behaviour, for any number of processors and
\* whatever fails in start().
THEOREM Invariance == Spec => []IInv
  BY InvariantInit, InvariantStep, PTL DEF Spec

---------------------------------------------------------------------------
\* Every variable keeps its type; the states of vcpu_t are those of vcpu_state.
THEOREM TypeCorrect == Spec => []TypeOK
<1>1. IInv => TypeOK
  BY DEF IInv
<1> QED
  BY <1>1, Invariance, PTL

\* stop() deletes the VCPU array only when every processor has left VMX operation and
\* the callbacks: for any number of processors, and whatever fails in start().
THEOREM VcpuMemory == Spec => []VcpuMemoryUnused
<1>1. IInv => VcpuMemoryUnused
  BY DEF IInv, TypeOK, DriverInv, Untouched, VcpuMemoryUnused, At
<1> QED
  BY <1>1, Invariance, PTL

\* The handler's per-VCPU data, the EPT above all, outlives the last VM entry of its
\* processor and not the VCPU array.
THEOREM HandlerData == Spec => []HandlerDataLifetime
<1>1. IInv => HandlerDataLifetime
  <2> SUFFICES ASSUME IInv, NEW c \in CPU
               PROVE  /\ mode[c] = "guest" => data[c] # "none"
                      /\ exit[c] # "none" /\ mode[c] = "root" => data[c] # "none"
                      /\ mode[c] = "native" /\ exit[c] # "teardown" /\ ~At(c, "teardown")
                           => data[c] = "none"
                      /\ driver \in {"stopped", "unloaded"} => data[c] = "none"
    BY DEF HandlerDataLifetime
  <2>1. DataInv(c) /\ ExitInv(c) /\ exit[c] \in Exit /\ cause[c] \in {"terminate", "other"}
    BY DEF IInv, TypeOK, CpuInv
  <2> QED
    BY <2>1 DEF IInv, DriverInv, Untouched, DataInv, ExitInv, Exit, At
<1> QED
  BY <1>1, Invariance, PTL

\* Code at IPI level and in VMX root mode uses the hypervisor's allocator, the operating
\* system's code never does.
THEOREM Allocators == Spec => []AllocatorDiscipline
<1>1. IInv => AllocatorDiscipline
  BY DEF IInv, TypeOK, CpuInv, DataInv, GuardInv, AllocatorDiscipline, At
<1> QED
  BY <1>1, Invariance, PTL

\* start() succeeds only when every processor is virtualized, whatever may fail.
THEOREM AllOrError == Spec => []StartedMeansAll
<1>1. IInv => StartedMeansAll
  BY DEF IInv, DriverInv, StartedMeansAll
<1> QED
  BY <1>1, Invariance, PTL

---------------------------------------------------------------------------
(***************************************************************************)
(* What more holds when no processor fails to enter VMX operation.         *)
(***************************************************************************)

VmxAlwaysWorks == Faults \subseteq {"memory", "features"}

\* The state each place of the code expects, hence the mode it needs.
CleanCpu(c) ==
  /\ pc[c] \notin {"fail", "leave", "teardown"}
  /\ (driver = "ipi_start" /\ c \in ipi) \/ pc[c] = "start" => state[c] = "off"
  /\ pc[c] \in {"vmcs", "setup", "launch", "entry"} => state[c] = "initializing"
  /\ (driver = "ipi_stop" /\ c \in ipi) \/ pc[c] = "stop"
      => mode[c] # "native" /\ state[c] = "running"
  /\ pc[c] = "vmcall" /\ exit[c] = "none" => mode[c] = "guest"
  /\ driver = "ipi_stop" /\ c \notin ipi /\ pc[c] \in {"os", "ret"}
      => state[c] = "terminated"
  /\ exit[c] = "none" /\ mode[c] # "native" /\ pc[c] \in {"os", "ret"}
      => driver # "ipi_stop" \/ c \in ipi
  /\ driver = "stopped" => state[c] = "none"
  /\ driver \in {"failed", "unloaded"} => state[c] \in {"none", "off"}

CleanInv ==
  /\ ~startErr /\ ~halted /\ failed \subseteq {"stop_running"}
  /\ driver = "stopped" => ~list
  /\ \A c \in CPU : CleanCpu(c)

\* The driver's thread keeps it: the early returns of start() leave no processor that
\* stop() would broadcast to.
LEMMA CleanDriver ==
  ASSUME VmxAlwaysWorks, IInv, CleanInv, Driver
  PROVE  CleanInv'
<1> USE DEF TypeOK, IInv, DriverInv, CpuInv, PhaseInv, ExitInv, StateInv, Untouched,
        CleanInv, CleanCpu, StartPc, StopPc, allocVars, Assert, IpiDone
<1>1. CASE Start
  BY <1>1 DEF Start
<1>2. CASE JoinStart
  BY <1>2 DEF JoinStart
<1>3. CASE Stop
  BY <1>3 DEF Stop
<1>4. CASE JoinStop
  BY <1>4 DEF JoinStop
<1>5. CASE Reload
  BY <1>5 DEF Reload
<1> QED
  BY <1>1, <1>2, <1>3, <1>4, <1>5 DEF Driver

\* So does a processor, in its own code and in a VM-exit: no VMX instruction of it
\* raises #UD and no assertion of it fails.
LEMMA CleanProcessor ==
  ASSUME VmxAlwaysWorks, IInv, CleanInv, NEW c \in CPU,
         CodeStep(c) \/ ExitStep(c) \/ VmExit(c)
  PROVE  CleanCpu(c)' /\ ~startErr' /\ ~halted' /\ failed' = failed
<1> USE DEF TypeOK, IInv, CpuInv, PhaseInv, ExitInv, StateInv, CleanInv, CleanCpu,
        VmxAlwaysWorks, StartPc, StopPc, driverVars, allocVars, Assert, Goto, At
<1>1. CASE TakeIpi(c)
  BY <1>1 DEF TakeIpi, DriverInv, Untouched
<1>2. CASE LoadVmxon(c)
  BY <1>2 DEF LoadVmxon
<1>3. CASE LoadVmcs(c)
  BY <1>3 DEF LoadVmcs, Vmx
<1>4. CASE Setup(c)
  BY <1>4 DEF Setup, Vmx
<1>5. CASE VmLaunch(c)
  BY <1>5 DEF VmLaunch, Vmx
<1>6. CASE Launched(c)
  BY <1>6 DEF Launched
<1>7. CASE HandleError(c)
  BY <1>7 DEF HandleError
<1>8. CASE ErrorVmxOff(c)
  BY <1>8 DEF ErrorVmxOff, VmxOff, Vmx
<1>9. CASE ErrorTeardown(c)
  BY <1>9 DEF ErrorTeardown, HandlerTeardown
<1>10. CASE VcpuStop(c)
  BY <1>10 DEF VcpuStop
<1>11. CASE Vmcall(c)
  BY <1>11 DEF Vmcall, Vmx
<1>12. CASE CallbackReturn(c)
  BY <1>12 DEF CallbackReturn
<1>13. CASE EntryHost(c)
  BY <1>13 DEF EntryHost, Vmx
<1>14. CASE Handle(c)
  BY <1>14 DEF Handle, Vmx
<1>15. CASE HandleVmxOff(c)
  BY <1>15 DEF HandleVmxOff, VmxOff, Vmx
<1>16. CASE HandleTeardown(c)
  BY <1>16 DEF HandleTeardown, HandlerTeardown
<1>17. CASE Resume(c)
  BY <1>17 DEF Resume, Terminated, LeaveExitGuard, ResumePc, Vmx
<1>18. CASE VmExit(c)
  BY <1>18 DEF VmExit
<1> QED
  BY <1>1, <1>2, <1>3, <1>4, <1>5, <1>6, <1>7, <1>8, <1>9,
     <1>10, <1>11, <1>12, <1>13, <1>14, <1>15, <1>16, <1>17, <1>18 DEF CodeStep, ExitStep

\* Together with the inductive invariant it is an invariant of the specification.
LEMMA CleanInvariance == VmxAlwaysWorks /\ Spec => []CleanInv
<1>1. Init => CleanInv
  BY DEF Init, CleanInv, CleanCpu
<1>2. VmxAlwaysWorks /\ IInv /\ CleanInv /\ [Next]_vars => CleanInv'
  <2> SUFFICES ASSUME VmxAlwaysWorks, IInv, CleanInv, [Next]_vars PROVE CleanInv'
    OBVIOUS
  <2>1. CASE Driver
    BY <2>1, CleanDriver
  <2>2. ASSUME NEW c \in CPU, CodeStep(c) \/ ExitStep(c) \/ VmExit(c)
        PROVE  CleanInv'
    <3>1. CleanCpu(c)' /\ ~startErr' /\ ~halted' /\ failed' = failed
      BY <2>2, CleanProcessor
    <3>2. Frame(c)
      BY <2>2, CodeStepLocal, ExitStepLocal
    <3>3. ASSUME NEW d \in CPU, d # c PROVE CleanCpu(d)'
      BY <3>2, <3>3 DEF Frame, CleanInv, CleanCpu
    <3> QED
      BY <3>1, <3>2, <3>3 DEF Frame, CleanInv
  <2>3. CASE UNCHANGED vars
    BY <2>3 DEF vars, CleanInv, CleanCpu
  <2> QED
    BY <2>1, <2>2, <2>3 DEF Next
<1>3. VmxAlwaysWorks => VmxAlwaysWorks'
  BY DEF VmxAlwaysWorks
<1> QED
  BY <1>1, <1>2, <1>3, Invariance, PTL DEF Spec

\* Where every processor can enter VMX operation, none executes a VMX instruction
\* outside it: not when stop() races with VM-exits, nor when start() is refused.
THEOREM NoUd == VmxAlwaysWorks /\ Spec => []NoUndefinedOpcode
<1>1. CleanInv => NoUndefinedOpcode
  BY DEF CleanInv, NoUndefinedOpcode
<1> QED
  BY <1>1, CleanInvariance, PTL

\* ... and no assertion of vcpu_t fails.
THEOREM Assertions == VmxAlwaysWorks /\ Spec => []VcpuAssertions
<1>1. CleanInv => VcpuAssertions
  BY DEF CleanInv, VcpuAssertions
<1> QED
  BY <1>1, CleanInvariance, PTL

\* The transitions the comments of ~vcpu_t allow.
Legal(from, to) ==
  from # to =>
    <<from, to>> \in
      {<<"none", "off">>, <<"off", "initializing">>,
       <<"initializing", "running">>, <<"initializing", "terminated">>,
       <<"running", "terminating">>, <<"terminating", "terminated">>,
       <<"terminated", "none">>, <<"off", "none">>}

\* A step of a processor's own code or of its VM-exit moves its object's state along
\* those transitions.
LEMMA LegalProcessor ==
  ASSUME VmxAlwaysWorks, IInv, CleanInv, NEW c \in CPU,
         CodeStep(c) \/ ExitStep(c) \/ VmExit(c)
  PROVE  Legal(state[c], state'[c])
<1> USE DEF TypeOK, IInv, CpuInv, ExitInv, StateInv, CleanInv, CleanCpu, Legal, At,
        VmxAlwaysWorks, StartPc, HandlerTeardown
<1>1. CASE LoadVmxon(c)
  BY <1>1 DEF LoadVmxon
<1>2. CASE Launched(c)
  BY <1>2 DEF Launched
<1>3. CASE VcpuStop(c)
  BY <1>3 DEF VcpuStop
<1>4. CASE HandleTeardown(c)
  BY <1>4 DEF HandleTeardown
<1>5. CASE HandleError(c) \/ ErrorTeardown(c)
  BY <1>5 DEF HandleError, ErrorTeardown
<1>6. CASE TakeIpi(c) \/ LoadVmcs(c) \/ Setup(c) \/ VmLaunch(c) \/ ErrorVmxOff(c)
           \/ Vmcall(c) \/ CallbackReturn(c)
  BY <1>6 DEF TakeIpi, LoadVmcs, Setup, VmLaunch, ErrorVmxOff, Vmcall, CallbackReturn
<1>7. CASE EntryHost(c) \/ Handle(c) \/ HandleVmxOff(c) \/ Resume(c) \/ VmExit(c)
  BY <1>7 DEF EntryHost, Handle, HandleVmxOff, Resume, VmExit
<1> QED
  BY <1>1, <1>2, <1>3, <1>4, <1>5, <1>6, <1>7 DEF CodeStep, ExitStep

\* The driver's thread creates and destroys the objects: "none" to "off", and back from
\* "terminated", or from "off" when start() was refused.
LEMMA LegalDriver ==
  ASSUME VmxAlwaysWorks, IInv, CleanInv, Driver, NEW c \in CPU
  PROVE  Legal(state[c], state'[c])
<1> USE DEF TypeOK, IInv, DriverInv, CpuInv, PhaseInv, ExitInv, CleanInv, CleanCpu, Legal,
        IpiDone
<1>1. CASE Start
  BY <1>1 DEF Start
<1>2. CASE JoinStop
  BY <1>2 DEF JoinStop
<1>3. CASE Reload
  BY <1>3 DEF Reload
<1>4. CASE JoinStart \/ Stop
  BY <1>4 DEF JoinStart, Stop
<1> QED
  BY <1>1, <1>2, <1>3, <1>4 DEF Driver

\* Where no processor fails to enter VMX operation, the states of a vcpu_t follow each
\* other as the comments of its destructor say.
THEOREM Order == VmxAlwaysWorks /\ Spec => StateOrder
<1> DEFINE Ordered == \A c \in CPU : state'[c] # state[c] =>
       <<state[c], state'[c]>> \in
         {<<"none", "off">>, <<"off", "initializing">>,
          <<"initializing", "running">>, <<"initializing", "terminated">>,
          <<"running", "terminating">>, <<"terminating", "terminated">>,
          <<"terminated", "none">>, <<"off", "none">>}
<1>1. VmxAlwaysWorks /\ IInv /\ CleanInv /\ [Next]_vars => [Ordered]_vars
  <2> SUFFICES ASSUME VmxAlwaysWorks, IInv, CleanInv, Next, NEW d \in CPU
               PROVE  Legal(state[d], state'[d])
    BY DEF Legal
  <2>1. CASE Driver
    BY <2>1, LegalDriver
  <2>2. ASSUME NEW c \in CPU, CodeStep(c) \/ ExitStep(c) \/ VmExit(c)
        PROVE  Legal(state[d], state'[d])
    <3>1. CASE d = c
      BY <2>2, <3>1, LegalProcessor
    <3>2. CASE d # c
      BY <2>2, <3>2, CodeStepLocal, ExitStepLocal DEF Frame, Legal
    <3> QED
      BY <3>1, <3>2
  <2> QED
    BY <2>1, <2>2 DEF Next
<1>2. VmxAlwaysWorks => VmxAlwaysWorks'
  BY DEF VmxAlwaysWorks
<1> QED
  BY <1>1, <1>2, Invariance, CleanInvariance, PTL DEF Spec, StateOrder

---------------------------------------------------------------------------
(***************************************************************************)
(* DriverLife: the driver around the hypervisor keeps the hypervisor's own *)
(* invariant, and deletes nothing that is still used.                      *)
(***************************************************************************)
\* The phases before start(), and those in which the hypervisor may run.
Loading == {"create", "handler", "assign", "start"}
Running == {"starting", "loaded", "destroy", "stopping"}
Leaving == {"delete", "remove", "memory", "gone"}

LifeType ==
  /\ phase \in {"image", "refused"} \cup Loading \cup Running \cup Leaving
  /\ loaded \in BOOLEAN /\ made \subseteq Object
  /\ request \in {"none", "open", "null", "handler"}
  /\ handler_ \in {"null", "handler"}

\* What each phase says of the hypervisor's thread.
ThreadInv ==
  /\ phase \in {"image"} \cup Loading => driver = "stopped"
  /\ phase = "starting" => driver = "ipi_start" \/ (driver = "ipi_stop" /\ startErr)
  /\ phase = "loaded" => driver = "started"
  /\ phase = "destroy" => driver \in {"stopped", "started", "failed"}
  /\ phase = "stopping" => driver = "ipi_stop"
  /\ phase \in {"refused"} \cup Leaving => driver \in {"stopped", "failed", "unloaded"}

\* Which objects there are while processors may use them, and what an unload leaves.
ObjectInv ==
  /\ phase \in {"create", "handler"} => Common \subseteq made
  /\ phase = "handler" => "device" \in made
  /\ phase \in {"assign", "start", "starting"} => made = Object
  /\ driver \in {"ipi_start", "started", "ipi_stop"} => made = Object /\ pool = "attached"
  /\ loaded /\ phase # "gone" => pool = "attached"
  /\ phase = "remove" => "handler" \notin made
  /\ phase = "memory" => made \subseteq Common
  /\ phase = "gone" => made = {} /\ pool = "none"

\* A driver that was loaded is unloaded without open handles, and after stop().
LoadedInv ==
  /\ loaded => phase \in {"loaded", "destroy", "stopping"} \cup Leaving
  /\ phase \in {"memory", "gone"} => loaded
  /\ loaded /\ phase = "destroy" => driver = "started"
  /\ loaded /\ phase \in Leaving => ~list
  /\ loaded /\ phase # "loaded" => request = "none"

LifeInv == IInv /\ LifeType /\ ThreadInv /\ ObjectInv /\ LoadedInv

---------------------------------------------------------------------------
\* To the processors, a stop() of a hypervisor nobody started is no step at all.
LEMMA StopUnstartedKeeps ==
  ASSUME IInv, StopUnstarted
  PROVE  IInv'
<1> USE DEF IInv, StopUnstarted, allocVars, Assert
<1>1. TypeOK'
  BY DEF TypeOK, Assertion
<1>2. DriverInv'
  BY DEF DriverInv, Untouched
<1>3. ASSUME NEW c \in CPU PROVE CpuInv(c)'
  BY DEF CpuInv, PhaseInv, ExitInv, StateInv, DataInv, GuardInv, Untouched, DriverInv,
     StartPc, StopPc
<1> QED
  BY <1>1, <1>2, <1>3

\* Every step of the driver's thread, the user and the processors is one of Hypervisor,
\* that stop(), or leaves the hypervisor alone.
LEMMA HypervisorKept ==
  ASSUME IInv, [LifeNext]_allVars
  PROVE  IInv'
<1>1. [Next]_vars \/ StopUnstarted
  BY DEF LifeNext, allVars, DriverThread, User, Next, Driver, CommonInitialize,
     CreateDevice, NewHandler, Make, AssignHandler, CallStart, StartReturns, Unload,
     CallStop, StopReturns, DeleteHandler, DeleteDevice, Delete, CommonDestroy, LoadAgain,
     Open, Ioctl, SetPort, CloseHandle, Request
<1> QED
  BY <1>1, InvariantStep, StopUnstartedKeeps

\* The steps of DriverEntry and DriverUnload.
LEMMA DriverThreadStep ==
  ASSUME LifeInv, DriverThread
  PROVE  (LifeType /\ ThreadInv /\ ObjectInv /\ LoadedInv)'
<1> USE DEF LifeInv, LifeType, ThreadInv, ObjectInv, LoadedInv, Loading, Running, Leaving,
        Object, Common
<1>1. CASE CommonInitialize
  BY <1>1 DEF CommonInitialize, vars
<1>2. CASE CreateDevice
  BY <1>2 DEF CreateDevice, Make, vars
<1>3. CASE NewHandler
  BY <1>3 DEF NewHandler, Make, vars
<1>4. CASE AssignHandler
  BY <1>4 DEF AssignHandler, vars
<1>5. CASE CallStart
  <2>1. /\ phase = "start" /\ driver = "stopped" /\ made = Object /\ ~loaded
        /\ phase' \in {"destroy", "starting"} /\ driver' \in {"failed", "ipi_start"}
        /\ phase' = "destroy" <=> driver' = "failed"
    BY <1>5 DEF CallStart, Start
  <2>2. driver' = "ipi_start" => pool' = "attached"
    BY <1>5, <2>1 DEF CallStart
  <2>3. UNCHANGED <<loaded, made, handler_, request>>
    BY <1>5 DEF CallStart
  <2> QED
    BY <2>1, <2>2, <2>3
<1>6. CASE StartReturns
  <2>1. /\ phase = "starting" /\ ~loaded /\ made = Object /\ pool = "attached"
        /\ loaded' = (phase' = "loaded")
        /\ UNCHANGED <<made, pool, handler_, request>>
    <3>1. phase = "starting" /\ UNCHANGED <<made, pool, handler_, request>>
      BY <1>6 DEF StartReturns
    <3>2. loaded' = (phase' = "loaded")
      BY <1>6 DEF StartReturns
    <3>3. driver \in {"ipi_start", "ipi_stop"}
      BY <3>1
    <3> QED
      BY <3>1, <3>2, <3>3
  <2>2. \/ phase' = "starting" /\ driver' = "ipi_stop" /\ startErr'
        \/ phase' = "loaded" /\ driver' = "started"
        \/ phase' = "destroy" /\ driver' = "failed"
    <3>1. CASE JoinStart /\ phase' = IF startErr THEN phase ELSE "loaded"
      BY <2>1, <3>1 DEF JoinStart
    <3>2. CASE JoinStop /\ phase' = "destroy"
      BY <2>1, <3>2 DEF JoinStop
    <3> QED
      BY <1>6, <3>1, <3>2 DEF StartReturns
  <2>3. LifeType'
    BY <2>1, <2>2
  <2>4. ThreadInv'
    BY <2>2
  <2>5. ObjectInv'
    BY <2>1, <2>2
  <2>6. LoadedInv'
    BY <2>1, <2>2
  <2> QED
    BY <2>3, <2>4, <2>5, <2>6
<1>7. CASE Unload
  BY <1>7 DEF Unload, vars
<1>8. CASE CallStop
  BY <1>8 DEF CallStop, Stop, StopUnstarted, IInv, DriverInv, vars
<1>9. CASE StopReturns
  BY <1>9 DEF StopReturns, JoinStop, vars
<1>10. CASE DeleteHandler
  BY <1>10 DEF DeleteHandler, Delete, vars
<1>11. CASE DeleteDevice
  BY <1>11 DEF DeleteDevice, Delete, vars
<1>12. CASE CommonDestroy
  BY <1>12 DEF CommonDestroy, PoolFreed, vars
<1>13. CASE LoadAgain
  BY <1>13 DEF LoadAgain, Reload, vars
<1> QED
  BY <1>1, <1>2, <1>3, <1>4, <1>5, <1>6, <1>7, <1>8, <1>9, <1>10, <1>11, <1>12, <1>13 DEF DriverThread

\* The user program's requests, and the processors' steps, which leave the driver alone.
LEMMA OtherStep ==
  ASSUME LifeInv, User \/ (UNCHANGED lifeVars /\ \E c \in CPU : CodeStep(c) \/ ExitStep(c) \/ VmExit(c))
  PROVE  (LifeType /\ ThreadInv /\ ObjectInv /\ LoadedInv)'
<1> USE DEF LifeInv, LifeType, ThreadInv, ObjectInv, LoadedInv, Loading, Running, Leaving,
        Object, Common
<1>1. CASE User
  <2>1. /\ UNCHANGED <<driver, list, startErr, phase, loaded, made, pool, handler_>>
        /\ request' \in {"none", "open", "null", "handler"}
    BY <1>1 DEF User, Open, Ioctl, SetPort, CloseHandle, Request, vars
  <2>2. loaded /\ phase # "loaded" => request' = "none"
    BY <1>1 DEF User, Open, Ioctl, SetPort, CloseHandle, Request
  <2>3. LifeType'
    BY <2>1
  <2>4. ThreadInv'
    BY <2>1
  <2>5. ObjectInv'
    BY <2>1
  <2>6. LoadedInv'
    BY <2>1, <2>2
  <2> QED
    BY <2>3, <2>4, <2>5, <2>6
<1>2. ASSUME UNCHANGED lifeVars, NEW c \in CPU, CodeStep(c) \/ ExitStep(c) \/ VmExit(c)
      PROVE  (LifeType /\ ThreadInv /\ ObjectInv /\ LoadedInv)'
  <2>1. driver' = driver /\ list' = list /\ (startErr => startErr')
    BY <1>2, CodeStepLocal, ExitStepLocal DEF Frame
  <2>2. UNCHANGED <<phase, loaded, made, pool, handler_, request>>
    BY <1>2 DEF lifeVars
  <2>3. LifeType'
    BY <2>2
  <2>4. ThreadInv'
    BY <2>1, <2>2
  <2>5. ObjectInv'
    BY <2>1, <2>2
  <2>6. LoadedInv'
    BY <2>1, <2>2
  <2> QED
    BY <2>3, <2>4, <2>5, <2>6
<1> QED
  BY <1>1, <1>2

\* The driver's invariant holds in every behaviour.
THEOREM LifeInvariance == LifeSpec => []LifeInv
<1>1. LifeInit => LifeInv
  <2> SUFFICES ASSUME LifeInit PROVE LifeInv
    OBVIOUS
  <2>1. IInv
    BY InvariantInit DEF LifeInit
  <2> QED
    BY <2>1 DEF LifeInit, Init, LifeInv, LifeType, ThreadInv, ObjectInv, LoadedInv,
       Loading, Running, Leaving, Object
<1>2. LifeInv /\ [LifeNext]_allVars => LifeInv'
  <2> SUFFICES ASSUME LifeInv, [LifeNext]_allVars PROVE LifeInv'
    OBVIOUS
  <2>1. IInv'
    BY HypervisorKept DEF LifeInv
  <2>2. CASE LifeNext
    BY <2>1, <2>2, DriverThreadStep, OtherStep DEF LifeInv, LifeNext
  <2>3. CASE UNCHANGED allVars
    BY <2>1, <2>3 DEF allVars, vars, lifeVars, LifeInv, LifeType, ThreadInv, ObjectInv,
       LoadedInv
  <2> QED
    BY <2>2, <2>3
<1> QED
  BY <1>1, <1>2, PTL DEF LifeSpec

\* Nothing is deleted before its last user, whatever fails in DriverEntry, in start() and
\* on any processor, and a loaded driver leaves nothing behind.
THEOREM NothingGoesEarly == LifeSpec => []UsersOutlived
<1>1. LifeInv => UsersOutlived
  <2> SUFFICES ASSUME LifeInv PROVE UsersOutlived
    OBVIOUS
  <2>1. ASSUME driver \notin {"ipi_start", "started", "ipi_stop"}, NEW c \in CPU
        PROVE  mode[c] = "native" /\ allocator[c] = "system" /\ data[c] = "none"
    BY <2>1 DEF LifeInv, IInv, TypeOK, DriverInv, Untouched, CpuInv, GuardInv
  <2>2. driver \in {"ipi_start", "started", "ipi_stop"}
          => {"descriptors", "handler"} \subseteq made /\ pool = "attached"
    BY DEF LifeInv, ObjectInv, Object, Common
  <2>3. loaded /\ request = "handler" => "handler" \in made
    BY DEF LifeInv, LoadedInv, ThreadInv, ObjectInv, Object
  <2>4. phase = "gone" => made = {} /\ pool = "none" /\ ~list
    BY DEF LifeInv, LoadedInv, ObjectInv, Leaving
  <2> QED
    BY <2>1, <2>2, <2>3, <2>4 DEF UsersOutlived
<1> QED
  BY <1>1, LifeInvariance, PTL

\* start() and with it DriverEntry report success only when every processor is
\* virtualized, also when the driver's own steps may fail and be undone.
THEOREM LoadedMeansAll == LifeSpec => []StartedMeansAll
<1>1. LifeInv => StartedMeansAll
  BY DEF LifeInv, IInv, DriverInv, StartedMeansAll
<1> QED
  BY <1>1, LifeInvariance, PTL
=================================================================================
