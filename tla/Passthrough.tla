------------------------------ MODULE Passthrough ------------------------------
(***************************************************************************)
(* vmexit_passthrough_handler: the emulation of what makes the guest exit. *)
(* The processor switches some registers through the VMCS on VM-exit and   *)
(* VM-entry and shares the others with the hypervisor, so an emulated      *)
(* access must find the right one.  The guest must not be able to tell:    *)
(* what it sees implements Processor.                                      *)
(***************************************************************************)
EXTENDS Naturals, Registers

CONSTANTS
  Instructions,     \* [op, reg, src], as in Processor
  Translations,     \* [address, global]
  Base,             \* the base in the descriptor of each task-state selector
  Reset,            \* the register file when the handler's setup() reads it
  Gaps,             \* the deviations the guest is allowed to run into
  MaxInstructions,  \* bound: instructions a behaviour executes
  None

VARIABLES
  mode,      \* "guest", "host" in the handler, "entry" after it
  cpu,       \* the registers of the processor
  vmcs,      \* the guest-state area
  shadow,    \* the read shadows of CR0 and CR4
  ctx,       \* context_: the general registers, rip and rflags
  tlb,       \* the translations tagged with the guest's VPID
  exit,      \* the instruction and the reason of the VM-exit
  inject,    \* entry_interruption_info
  suppress,  \* suppress_rip_adjust_
  last,      \* the last instruction and the event the guest was given for it
  seen,      \* auxiliary: the registers as the guest saw them when it exited
  issued     \* bound: instructions begun

vars == <<mode, cpu, vmcs, shadow, ctx, tlb, exit, inject, suppress, last, seen, issued>>

---------------------------------------------------------------------------
\* With a field in the guest-state area; kept by context_; under the masks.
Switched == {"rip", "rflags", "cpl", "cr0", "cr3", "cr4", "dr7", "debugctl",
             "fs_base", "sysenter", "gdtr", "tr", "tr_base"}
Context  == {"rip", "rflags", "rax", "rcx", "r11"}
Masked   == {"cr0", "cr4"}

\* setup_guest() sets neither load_debug_controls nor save_debug_controls, so
\* VM-entry and VM-exit leave these fields alone; VM-exit clears the registers.
DebugControls == {"dr7", "debugctl"}
Loaded == Switched \ DebugControls

\* MOV DR exits whatever the privilege; for the others #GP comes first.
Debug      == {"mov_to_dr", "mov_from_dr"}
FastSystem == {"syscall", "sysret"}
Undefined  == FastSystem \union {"ud2"}

\* Where an operation takes one of several registers, or its kind.
Targets(op) ==
  CASE op \in {"mov_to_cr", "mov_from_cr"} -> {"cr0", "cr3", "cr4"}
    [] op \in Debug -> {"dr4", "dr5"} \union
                         ({"dr0", "dr1", "dr2", "dr3", "dr6", "dr7"} \cap DOMAIN Reset)
    [] op \in {"rdmsr", "wrmsr"} -> {"debugctl", "fs_base", "sysenter"} \union
                                     (DOMAIN Reset \ (Switched \union Context))
    [] op \in {"in", "out"} -> {"dx", "immediate"}
    [] op = "invpcid" -> {"address", "context", "all", "all_but_global", "invalid"}

Targeted == Debug \union
  {"mov_to_cr", "mov_from_cr", "rdmsr", "wrmsr", "in", "out", "invpcid"}

ASSUME PassthroughAssumption ==
  /\ Reset = [r \in DOMAIN Reset |-> Reset[r]]
  /\ Switched \union Context \union {"cr2", "dr6", "lstar", "busy", "xcr0", "port"}
       \subseteq DOMAIN Reset
  /\ Reset.cpl \in {0, 3}
  /\ \A r \in DebugControls : Reset[r] = {}
  /\ \A i \in Instructions : i.op \in Targeted => i.reg \in Targets(i.op)
  /\ None \notin {"GP", "UD", "DB", "PF", "BP"}

\* What the hypervisor runs with in place of the guest's switched registers.
HostState == [r \in Switched |-> IF r \in {"rip", "cpl"} THEN 0 ELSE {}]

\* A software exception is delivered after its instruction.
EventRip(vector, rip) == IF vector = "BP" THEN rip + 1 ELSE rip

\* What VM-entry loads: the end of entry_host(), the stub that restores context_,
\* the guest-state area, then the event.
EntryRip == IF suppress THEN ctx.rip ELSE ctx.rip + 1
Entered  ==
  [r \in DOMAIN cpu |->
     IF inject # None /\ r \in {"rip", "cpl"} THEN 0
     ELSE IF r = "rip" THEN EntryRip
     ELSE IF r \in Context THEN ctx[r]
     ELSE IF r \in Loaded THEN vmcs[r] ELSE cpu[r]]
Report   == [of |-> exit.of, vector |-> inject,
             rip |-> IF inject = None THEN 0 ELSE EventRip(inject, EntryRip)]

\* A read of a masked register returns its shadow.  GD concerns only MOV DR, which
\* exits to a handler that tests the field of DR7; the other bits act from DR7.
Guest(file) ==
  [r \in DOMAIN file |->
     IF r \in Masked THEN shadow[r]
     ELSE IF r = "dr7" THEN (file[r] \ {"gd"}) \union (vmcs.dr7 \cap {"gd"})
     ELSE file[r]]

\* What the guest sees: an emulated instruction takes effect as the handler returns.
GuestRegs ==
  CASE mode = "guest" -> Guest(cpu)
    [] mode = "host"  -> seen
    [] mode = "entry" -> Guest(Entered)
GuestLast == IF mode = "entry" THEN Report ELSE last

Bare == INSTANCE Processor WITH regs <- GuestRegs, last <- GuestLast

Running == mode = "guest" /\ issued < MaxInstructions
InHost(op) == mode = "host" /\ exit.reason = "instruction" /\ exit.of.op = op

\* Mutant: the flag is not reset.
Unsuppressed_Kept == suppress
\* Every VM-exit starts with suppress_rip_adjust_ off.
Unsuppressed == FALSE

---------------------------------------------------------------------------
\* DR4 and DR5 stand for DR6 and DR7, unless CR4.DE makes them invalid.
Renumber(dr) == CASE dr = "dr4" -> "dr6" [] dr = "dr5" -> "dr7" [] OTHER -> dr
Reserved(dr) == dr \in {"dr4", "dr5"} /\ "de" \in vmcs.cr4

\* Bits of DR7 and IA32_DEBUGCTL that only their fields in the VMCS would get.
Unloaded(i) ==
  CASE i.op = "mov_to_dr" /\ Renumber(i.reg) = "dr7" -> i.src \ {"gd", "b40"}
    [] i.op = "wrmsr" /\ i.reg = "debugctl"          -> i.src
    [] OTHER                                         -> {}

\* Where the emulation is not the processor's: the guest keeps away from it
\* unless Gaps allows it.
Gap(i, reason) ==
  {g \in {"high_rax", "sysenter", "ltr", "immediate_port", "cr4_flush",
         "reserved", "user_sysret", "debug_controls"} :
     \/ g = "high_rax" /\ i.op \in {"wrmsr", "xsetbv"} /\ "b40" \in i.src
     \/ g = "sysenter" /\ i.reg = "sysenter"
     \/ g = "ltr" /\ i.op = "ltr" /\ Base[i.src] # cpu.tr_base
     \/ g = "immediate_port" /\ i.reg = "immediate"
     \/ g = "cr4_flush" /\ i.reg = "cr4" /\ "pcide" \in shadow.cr4 \ i.src
     \/ g = "reserved" /\ i.reg = "cr3" /\ "keep" \in i.src /\ "pcide" \notin shadow.cr4
     \/ g = "user_sysret" /\ i.op = "sysret" /\ reason = "UD" /\ cpu.cpl = 3
     \/ g = "debug_controls" /\ Unloaded(i) # {}}

\* With every bit masked, a write exits if it would change the shadow.
Changes(i) ==
  CASE i.op = "mov_to_cr" -> i.reg = "cr3" \/ i.src # shadow[i.reg]
    [] i.op = "clts"      -> "ts" \in shadow.cr0
    [] i.op = "lmsw"      -> \/ (i.src \cap {"mp", "ts"}) # (shadow.cr0 \cap {"mp", "ts"})
                             \/ "pe" \in i.src \ shadow.cr0
    [] OTHER              -> TRUE

Native(i) ==
  \/ i.op = "mov_from_cr" /\ i.reg # "cr3"
  \/ i.op = "wbinvd"
  \/ ~Changes(i)

\* A handler derived from this one may have cleared EFER.SCE: then #UD.
Reasons(i) ==
  {reason \in {"instruction", "GP", "UD", "BP", "PF"} :
     \/ reason = "BP" /\ i.op = "int3"
     \/ reason = "PF" /\ i.op = "access"
     \/ reason = "UD" /\ i.op \in Undefined
     \/ reason = "GP" /\ i.op \notin Debug /\ ~Bare!Allowed(i)
     \/ reason = "instruction" /\ i.op \in Debug
     \/ /\ reason = "instruction" /\ Bare!Allowed(i) /\ ~Native(i)
        /\ i.op \notin {"int3", "access"} \union Undefined}

---------------------------------------------------------------------------
\* The guest executes i without a VM-exit.
Execute(i) ==
  /\ Running /\ Native(i) /\ Bare!Allowed(i)
  /\ cpu' = [rip |-> cpu.rip + 1,
             rax |-> IF i.op = "mov_from_cr" THEN shadow[i.reg] ELSE i.src] \oplus cpu
  /\ last' = [of |-> i, vector |-> None, rip |-> 0]
  /\ issued' = issued + 1
  /\ UNCHANGED <<mode, vmcs, shadow, ctx, tlb, exit, inject, suppress, seen>>

\* SYSCALL and SYSRET with EFER.SCE set.
ExecuteFastSystem(i) ==
  /\ Running /\ Bare!Allowed(i)
  /\ \/ /\ i.op = "syscall"
        /\ cpu' = [rip |-> Bare!Address(cpu.lstar), rcx |-> cpu.rip + 1, cpl |-> 0,
                   r11 |-> cpu.rflags, rflags |-> cpu.rflags \ Bare!Fmask, rax |-> i.src] \oplus cpu
     \/ /\ i.op = "sysret"
        /\ cpu' = [rip |-> cpu.rcx, cpl |-> 3, rflags |-> cpu.r11 \ {"rf"},
                   rax |-> i.src] \oplus cpu
  /\ last' = [of |-> i, vector |-> None, rip |-> 0]
  /\ issued' = issued + 1
  /\ UNCHANGED <<mode, vmcs, shadow, ctx, tlb, exit, inject, suppress, seen>>

\* The processor caches a translation.
Fill(t) ==
  /\ Running
  /\ t.global => "pge" \in cpu.cr4
  /\ t \notin tlb
  /\ tlb' = tlb \union {t}
  /\ UNCHANGED <<mode, cpu, vmcs, shadow, ctx, exit, inject, suppress, last, seen, issued>>

\* VM-exit, the stub, and the beginning of entry_host().
Exit(i, reason) ==
  /\ Running
  /\ Gap(i, reason) \subseteq Gaps
  /\ exit' = [of |-> i, reason |-> reason]
  /\ seen' = GuestRegs
  /\ vmcs' = [r \in Switched |-> IF r \in Loaded THEN cpu[r] ELSE vmcs[r]]
  /\ ctx' = [r \in Context |-> IF r = "rax" THEN i.src ELSE cpu[r]]
  /\ cpu' = HostState \oplus cpu
  /\ suppress' = Unsuppressed
  /\ mode' = "host"
  /\ issued' = issued + 1
  /\ UNCHANGED <<shadow, tlb, inject, last>>

---------------------------------------------------------------------------
\* A handler that returns: what it wrote to context_, the VMCS and the processor.
Complete(c, v, p) ==
  /\ ctx' = c \oplus ctx /\ vmcs' = v \oplus vmcs /\ cpu' = p \oplus cpu
  /\ mode' = "entry"
  /\ UNCHANGED <<inject, exit, last, seen, issued>>

Emulate(c, v, p) == Complete(c, v, p) /\ UNCHANGED suppress

\* interrupt_inject() of an exception and suppress_rip_adjust().
Inject(vector, v, p) ==
  /\ inject' = vector
  /\ suppress' = TRUE
  /\ vmcs' = v \oplus vmcs /\ cpu' = p \oplus cpu
  /\ mode' = "entry"
  /\ UNCHANGED <<shadow, ctx, tlb, exit, last, seen, issued>>

Keep == UNCHANGED <<shadow, tlb>>

\* invvpid_single_context, ..._retaining_globals and invvpid_individual_address.
InvvpidAll       == tlb' = {}
InvvpidNonGlobal == tlb' = tlb \cap Bare!Globals
InvvpidAddress(address) == tlb' = tlb \ Bare!At(address)

---------------------------------------------------------------------------
\* handle_mov_cr, case access_to_cr.
HandleMovToCr0 ==
  /\ InHost("mov_to_cr") /\ exit.of.reg = "cr0"
  /\ Emulate(Nothing, [cr0 |-> ctx.rax], Nothing)
  /\ shadow' = [shadow EXCEPT !.cr0 = ctx.rax]
  /\ UNCHANGED tlb

\* Mutant: bit 63 reaches guest_cr3.
Cr3Value_Kept == ctx.rax
\* Bit 63 says that nothing need be flushed; it is not stored.
Cr3Value == IF "pcide" \in vmcs.cr4 THEN ctx.rax \ {"keep"} ELSE ctx.rax

HandleMovToCr3 ==
  /\ InHost("mov_to_cr") /\ exit.of.reg = "cr3"
  /\ Emulate(Nothing, [cr3 |-> Cr3Value], Nothing)
  /\ InvvpidNonGlobal
  /\ UNCHANGED shadow

\* CR4.PGE changes: the global translations go as well.
HandleMovToCr4 ==
  /\ InHost("mov_to_cr") /\ exit.of.reg = "cr4"
  /\ IF ("pge" \in ctx.rax) # ("pge" \in vmcs.cr4) THEN InvvpidAll ELSE UNCHANGED tlb
  /\ Emulate(Nothing, [cr4 |-> ctx.rax], Nothing)
  /\ shadow' = [shadow EXCEPT !.cr4 = ctx.rax]

\* CR0 and CR4 are read without a VM-exit.
HandleMovFromCr3 ==
  InHost("mov_from_cr") /\ Emulate([rax |-> vmcs.cr3], Nothing, Nothing) /\ Keep

\* Mutant: the read shadow is forgotten.
WriteCr0_NoShadow(cr0) == Emulate(Nothing, [cr0 |-> cr0], Nothing) /\ Keep
WriteCr0(cr0) ==
  /\ Emulate(Nothing, [cr0 |-> cr0], Nothing)
  /\ shadow' = [shadow EXCEPT !.cr0 = cr0]
  /\ UNCHANGED tlb

HandleClts == InHost("clts") /\ WriteCr0(vmcs.cr0 \ {"ts"})

\* cr0.flags &= ~0b1110, then |= msw & 0b1111: PE can only be set.
HandleLmsw ==
  /\ InHost("lmsw")
  /\ WriteCr0((vmcs.cr0 \ {"mp", "ts"}) \union (ctx.rax \cap {"pe", "mp", "ts"}))

---------------------------------------------------------------------------
HandleMovDr ==
  /\ mode = "host" /\ exit.reason = "instruction" /\ exit.of.op \in Debug
  /\ LET dr == Renumber(exit.of.reg)
         value == IF dr = "dr7" THEN vmcs.dr7 ELSE cpu[dr]
     IN CASE vmcs.cpl # 0 -> Inject("GP", Nothing, Nothing)
          [] vmcs.cpl = 0 /\ Reserved(exit.of.reg) -> Inject("UD", Nothing, Nothing)
          [] vmcs.cpl = 0 /\ ~Reserved(exit.of.reg) /\ "gd" \in vmcs.dr7 ->
               Inject("DB", [dr7 |-> vmcs.dr7 \ {"gd"}],
                      [dr6 |-> (cpu.dr6 \ {"b0"}) \union {"bd"}])
          [] OTHER ->
               IF exit.of.op = "mov_from_dr" THEN Emulate([rax |-> value], Nothing, Nothing) /\ Keep
               ELSE IF dr \in {"dr6", "dr7"} /\ "b40" \in ctx.rax
               THEN Inject("GP", Nothing, Nothing)
               ELSE /\ IF dr = "dr7" THEN Emulate(Nothing, [dr7 |-> ctx.rax], Nothing)
                                     ELSE Emulate(Nothing, Nothing, [r \in {dr} |-> ctx.rax])
                    /\ Keep

---------------------------------------------------------------------------
\* Mutant: IA32_FS_BASE is read and written directly.
InVmcs_NoFsBase == {"debugctl"}
\* MSRs with a field in the guest-state area; the code knows of these.
InVmcs == {"debugctl", "fs_base"}

HandleRdmsr ==
  /\ InHost("rdmsr")
  /\ Emulate([rax |-> IF exit.of.reg \in InVmcs THEN vmcs[exit.of.reg] ELSE cpu[exit.of.reg]],
             Nothing, Nothing)
  /\ Keep

\* The value is RAX | RDX << 32, with all of RAX.
HandleWrmsr ==
  /\ InHost("wrmsr")
  /\ IF exit.of.reg \in InVmcs THEN Emulate(Nothing, [r \in {exit.of.reg} |-> ctx.rax], Nothing)
                            ELSE Emulate(Nothing, Nothing, [r \in {exit.of.reg} |-> ctx.rax])
  /\ Keep

HandleXsetbv == InHost("xsetbv") /\ Emulate(Nothing, Nothing, [xcr0 |-> ctx.rax]) /\ Keep
HandleCpuid  == InHost("cpuid") /\ Emulate([rax |-> Bare!CpuInfo], Nothing, Nothing) /\ Keep
HandleInvd   == InHost("invd") /\ Emulate(Nothing, Nothing, Nothing) /\ Keep

\* The memory operand is rax here.
HandleGdtrIdtrAccess ==
  /\ \/ InHost("sgdt") /\ Emulate([rax |-> vmcs.gdtr], Nothing, Nothing)
     \/ InHost("lgdt") /\ Emulate(Nothing, [gdtr |-> ctx.rax], Nothing)
  /\ Keep

\* LTR sets the selector and marks the descriptor in the guest's table.
HandleLdtrTrAccess ==
  /\ \/ InHost("str") /\ Emulate([rax |-> vmcs.tr], Nothing, Nothing)
     \/ /\ InHost("ltr")
        /\ Emulate(Nothing, [tr |-> ctx.rax], [busy |-> cpu.busy \union {ctx.rax}])
  /\ Keep

\* ia32_asm_io_with_context() gives up unless the port is in DX.
HandleIo ==
  /\ \/ /\ InHost("in")
        /\ Emulate([rax |-> IF exit.of.reg = "dx" THEN cpu.port ELSE ctx.rax], Nothing, Nothing)
     \/ /\ InHost("out")
        /\ Emulate(Nothing, Nothing, [port |-> IF exit.of.reg = "dx" THEN ctx.rax ELSE cpu.port])
  /\ Keep

---------------------------------------------------------------------------
HandleInvlpg ==
  /\ InHost("invlpg")
  /\ InvvpidAddress(exit.of.reg)
  /\ Emulate(Nothing, Nothing, Nothing)
  /\ UNCHANGED shadow

InvpcidFaults ==
  \/ exit.of.reg = "invalid"
  \/ ctx.rax # {} /\ exit.of.reg \in {"address", "context"} /\ "pcide" \notin vmcs.cr4

HandleInvpcid ==
  /\ InHost("invpcid")
  /\ IF InvpcidFaults THEN Inject("GP", Nothing, Nothing)
     ELSE /\ \/ exit.of.reg = "address" /\ InvvpidAddress("user")
             \/ exit.of.reg \in {"context", "all"} /\ InvvpidAll
             \/ exit.of.reg = "all_but_global" /\ InvvpidNonGlobal
          /\ Emulate(Nothing, Nothing, Nothing)
          /\ UNCHANGED shadow

\* handle_vm_fallback: VMCALL without an identifier of hvpp, and the VMX instructions.
HandleVmFallback == InHost("vmx") /\ Inject("UD", Nothing, Nothing)

---------------------------------------------------------------------------
FaultAddress == {exit.of.reg}     \* the exit qualification

\* handle_interrupt: #UD and #GP read the instruction; its page may be gone.
Fetched(vector) == mode = "host" /\ exit.reason = vector

HandleUnreadable ==
  /\ Fetched("UD") \/ Fetched("GP")
  /\ Inject("PF", Nothing, [cr2 |-> {"code"}])

\* handle_emulate_syscall and handle_emulate_sysret; both set rip themselves.
EmulateSyscall ==
  /\ Fetched("UD") /\ exit.of.op = "syscall"
  /\ Complete([rip |-> Bare!Address(cpu.lstar), rcx |-> ctx.rip + 1,
              r11 |-> ctx.rflags, rflags |-> ctx.rflags \ Bare!Fmask],
             [cpl |-> 0], Nothing)
  /\ suppress' = TRUE
  /\ Keep

EmulateSysret ==
  /\ Fetched("UD") /\ exit.of.op = "sysret"
  /\ Complete([rip |-> ctx.rcx, rflags |-> ctx.r11 \ {"rf"}], [cpl |-> 3], Nothing)
  /\ suppress' = TRUE
  /\ Keep

\* The other events are given to the guest, #PF with its address in CR2.
Reinject ==
  \/ Fetched("UD") /\ exit.of.op \notin FastSystem /\ Inject("UD", Nothing, Nothing)
  \/ Fetched("GP") /\ Inject("GP", Nothing, Nothing)
  \/ Fetched("BP") /\ Inject("BP", Nothing, Nothing)
  \/ Fetched("PF") /\ Inject("PF", Nothing, [cr2 |-> FaultAddress])

---------------------------------------------------------------------------
\* VM-entry delivers the event, after the instruction if it is a software exception.
Enter ==
  /\ mode = "entry"
  /\ cpu' = Entered
  /\ last' = Report
  /\ inject' = None
  /\ mode' = "guest"
  /\ UNCHANGED <<vmcs, shadow, ctx, tlb, exit, suppress, seen, issued>>

---------------------------------------------------------------------------
Init ==
  /\ mode = "guest"
  /\ cpu = Reset
  /\ vmcs = [r \in Switched |-> Reset[r]]
  /\ shadow = [r \in Masked |-> Reset[r]]
  /\ ctx = [r \in Context |-> Reset[r]]
  /\ tlb = {}
  /\ exit = None
  /\ inject = None
  /\ suppress = FALSE
  /\ last = None
  /\ seen = None
  /\ issued = 0

Handle ==
  \/ HandleMovToCr0 \/ HandleMovToCr3 \/ HandleMovToCr4 \/ HandleMovFromCr3
  \/ HandleClts \/ HandleLmsw \/ HandleMovDr
  \/ HandleRdmsr \/ HandleWrmsr \/ HandleXsetbv \/ HandleCpuid \/ HandleInvd
  \/ HandleGdtrIdtrAccess \/ HandleLdtrTrAccess \/ HandleIo
  \/ HandleInvlpg \/ HandleInvpcid \/ HandleVmFallback
  \/ HandleUnreadable \/ EmulateSyscall \/ EmulateSysret \/ Reinject

Next ==
  \/ \E i \in Instructions :
       \/ Execute(i) \/ ExecuteFastSystem(i)
       \/ \E reason \in Reasons(i) : Exit(i, reason)
  \/ \E t \in Translations : Fill(t)
  \/ Handle
  \/ Enter

Spec == Init /\ [][Next]_vars

---------------------------------------------------------------------------
\* What the guest reads of CR0 and CR4 is what it runs with: the handlers write
\* the register and its shadow together, after any sequence of instructions.
ShadowIsReal == mode = "guest" => \A r \in Masked : shadow[r] = cpu[r]

\* The guest cannot tell the emulation from a processor: registers, events with
\* the address they return to, and no translation kept that the processor would
\* have dropped.
Emulates == Bare!Spec
=============================================================================
