------------------------------- MODULE Processor -------------------------------
(***************************************************************************)
(* What a guest may expect of a processor: the instructions and events the *)
(* pass-through handler emulates, each as one step, following the passages *)
(* of the Intel manual its comments quote.  The value of a register is the *)
(* set of its bits that are set; rip, rcx and cpl are numbers.  An         *)
(* instruction carries the operand its program has put into rax.           *)
(***************************************************************************)
EXTENDS Naturals, FiniteSets, Registers

CONSTANTS
  Instructions,   \* [op, reg, src]: operation, register or address, operand
  Translations,   \* what a TLB entry may hold: [address, global]
  Base,           \* the base in the descriptor of each task-state selector
  Reset,          \* the register file when the processor is virtualized
  None            \* no event, no instruction

VARIABLES
  regs,    \* the register file
  tlb,     \* the translations the processor holds
  last     \* the last instruction, the event it raised and the rip pushed for it

processorVars == <<regs, tlb, last>>

---------------------------------------------------------------------------
\* Operations a program of privilege level 3 may use.
Unprivileged == {"cpuid", "sgdt", "str", "int3", "access", "vmx", "ud2", "syscall"}

Vector  == 0                          \* where every event handler begins
Upper   == {"b40"}                    \* bits 32 to 63
Sticky  == {"pe"}                     \* LMSW sets it and never clears it
Msw     == {"pe", "mp", "ts"}
Fmask   == {"if"}                     \* MSR_FMASK
CpuInfo == {"id"}

\* MOV to DR4 and DR5 means DR6 and DR7 unless CR4.DE is set.
Alias(dr) == CASE dr = "dr4" -> "dr6" [] dr = "dr5" -> "dr7" [] OTHER -> dr

\* Translations an INVPCID of each type leaves stale.
Globals == {t \in Translations : t.global}
At(address) == {t \in Translations : t.address = address}
StaleByInvpcid(i) ==
  CASE i.reg = "address"        -> At("user") \ Globals
    [] i.reg = "context"        -> Translations \ Globals
    [] i.reg = "all"            -> Translations
    [] i.reg = "all_but_global" -> Translations \ Globals

---------------------------------------------------------------------------
\* The instruction completes; the processor may drop translations at any time.
Retire(i, new, stale) ==
  /\ last' = [of |-> i, vector |-> None, rip |-> 0]
  /\ regs' = new \oplus [rip |-> regs.rip + 1, rax |-> i.src] \oplus regs
  /\ tlb' \in SUBSET (tlb \ stale)

\* The instruction raises an event, whose handler returns to rip.
Raise(i, vector, rip, new) ==
  /\ last' = [of |-> i, vector |-> vector, rip |-> rip]
  /\ regs' = new \oplus [rip |-> Vector, cpl |-> 0, rax |-> i.src] \oplus regs
  /\ tlb' \in SUBSET tlb

Fault(i, vector, new) == Raise(i, vector, regs.rip, new)

Allowed(i) == regs.cpl = 0 \/ i.op \in Unprivileged

---------------------------------------------------------------------------
MovToCr(i) ==
  /\ i.op = "mov_to_cr" /\ Allowed(i)
  /\ \/ i.reg = "cr0" /\ Retire(i, [cr0 |-> i.src], {})
     \/ /\ i.reg = "cr3"
        /\ IF "keep" \notin i.src
           THEN Retire(i, [cr3 |-> i.src], Translations \ Globals)
           ELSE IF "pcide" \in regs.cr4
           THEN Retire(i, [cr3 |-> i.src \ {"keep"}], {})
           ELSE Fault(i, "GP", Nothing)
     \/ /\ i.reg = "cr4"
        /\ LET lost == regs.cr4 \ i.src
               changed == lost \union (i.src \ regs.cr4)
           IN Retire(i, [cr4 |-> i.src],
                     IF "pge" \in changed \/ "pcide" \in lost THEN Translations ELSE {})

MovFromCr(i) ==
  /\ i.op = "mov_from_cr" /\ Allowed(i)
  /\ Retire(i, [rax |-> regs[i.reg]], {})

Clts(i) ==
  /\ i.op = "clts" /\ Allowed(i)
  /\ Retire(i, [cr0 |-> regs.cr0 \ {"ts"}], {})

Lmsw(i) ==
  /\ i.op = "lmsw" /\ Allowed(i)
  /\ Retire(i, [cr0 |-> (regs.cr0 \ (Msw \ Sticky)) \union (i.src \cap Msw)], {})

\* Privilege, then DR4 and DR5, then DR7.GD, then the reserved upper half.
MovDr(i) ==
  /\ i.op \in {"mov_to_dr", "mov_from_dr"} /\ Allowed(i)
  /\ LET dr == Alias(i.reg)
     IN \/ dr # i.reg /\ "de" \in regs.cr4 /\ Fault(i, "UD", Nothing)
        \/ /\ ~(dr # i.reg /\ "de" \in regs.cr4)
           /\ \/ /\ "gd" \in regs.dr7
                 /\ Fault(i, "DB", [dr6 |-> (regs.dr6 \ {"b0"}) \union {"bd"},
                                 dr7 |-> regs.dr7 \ {"gd"}])
              \/ /\ "gd" \notin regs.dr7 /\ i.op = "mov_from_dr"
                 /\ Retire(i, [rax |-> regs[dr]], {})
              \/ /\ "gd" \notin regs.dr7 /\ i.op = "mov_to_dr"
                 /\ IF dr \in {"dr6", "dr7"} /\ i.src \cap Upper # {}
                    THEN Fault(i, "GP", Nothing)
                    ELSE Retire(i, [r \in {dr} |-> i.src], {})

\* EDX:EAX, whatever the upper half of RAX holds.
Wrmsr(i)  == i.op = "wrmsr" /\ Allowed(i) /\ Retire(i, [r \in {i.reg} |-> i.src \ Upper], {})
Xsetbv(i) == i.op = "xsetbv" /\ Allowed(i) /\ Retire(i, [xcr0 |-> i.src \ Upper], {})
Rdmsr(i)  == i.op = "rdmsr" /\ Allowed(i) /\ Retire(i, [rax |-> regs[i.reg]], {})
Cpuid(i)  == i.op = "cpuid" /\ Retire(i, [rax |-> CpuInfo], {})

Lgdt(i) == i.op = "lgdt" /\ Allowed(i) /\ Retire(i, [gdtr |-> i.src], {})
Sgdt(i) == i.op = "sgdt" /\ Retire(i, [rax |-> regs.gdtr], {})

\* LTR also loads the base from the descriptor the selector names.
Ltr(i) ==
  /\ i.op = "ltr" /\ Allowed(i)
  /\ Retire(i, [tr |-> i.src, tr_base |-> Base[i.src],
                busy |-> regs.busy \union {i.src}], {})
Str(i) == i.op = "str" /\ Retire(i, [rax |-> regs.tr], {})

In(i)  == i.op = "in" /\ Allowed(i) /\ Retire(i, [rax |-> regs.port], {})
Out(i) == i.op = "out" /\ Allowed(i) /\ Retire(i, [port |-> i.src], {})

Invlpg(i)  == i.op = "invlpg" /\ Allowed(i) /\ Retire(i, Nothing, At(i.reg))
Invpcid(i) ==
  /\ i.op = "invpcid" /\ Allowed(i)
  /\ IF i.reg = "invalid" \/ (i.src # {} /\ i.reg \in {"address", "context"}
                              /\ "pcide" \notin regs.cr4)
     THEN Fault(i, "GP", Nothing)
     ELSE Retire(i, Nothing, StaleByInvpcid(i))

Wbinvd(i) == i.op \in {"invd", "wbinvd"} /\ Allowed(i) /\ Retire(i, Nothing, {})

Int3(i)   == i.op = "int3" /\ Raise(i, "BP", regs.rip + 1, Nothing)
Access(i) == i.op = "access" /\ Fault(i, "PF", [cr2 |-> {i.reg}])
Vmx(i)    == i.op \in {"vmx", "ud2"} /\ Fault(i, "UD", Nothing)

\* The address a register holds: the number of bits set stands for it.
Address(value) == Cardinality(value)

\* rip is loaded from MSR_LSTAR.
Syscall(i) ==
  /\ i.op = "syscall"
  /\ Retire(i, [rip |-> Address(regs.lstar), rcx |-> regs.rip + 1, cpl |-> 0,
                r11 |-> regs.rflags, rflags |-> regs.rflags \ Fmask], {})

\* RFLAGS are loaded from R11 without RF, VM and the reserved bits.
Sysret(i) ==
  /\ i.op = "sysret" /\ Allowed(i)
  /\ Retire(i, [rip |-> regs.rcx, cpl |-> 3, rflags |-> regs.r11 \ {"rf"}], {})

\* A privileged instruction of a program at level 3.
Forbidden(i) == ~Allowed(i) /\ Fault(i, "GP", Nothing)

\* The page of the instruction itself may be absent.
FetchFault(i) == Fault(i, "PF", [cr2 |-> {"code"}])

\* The processor caches a translation.
Fill(t) ==
  /\ t.global => "pge" \in regs.cr4
  /\ tlb' = tlb \union {t}
  /\ UNCHANGED <<regs, last>>

---------------------------------------------------------------------------
Init ==
  /\ regs = Reset
  /\ tlb = {}
  /\ last = None

Step(i) ==
  \/ MovToCr(i) \/ MovFromCr(i) \/ Clts(i) \/ Lmsw(i) \/ MovDr(i)
  \/ Rdmsr(i) \/ Wrmsr(i) \/ Xsetbv(i) \/ Cpuid(i) \/ Wbinvd(i)
  \/ Lgdt(i) \/ Sgdt(i) \/ Ltr(i) \/ Str(i) \/ In(i) \/ Out(i)
  \/ Invlpg(i) \/ Invpcid(i)
  \/ Int3(i) \/ Access(i) \/ Vmx(i) \/ Syscall(i) \/ Sysret(i)
  \/ Forbidden(i) \/ FetchFault(i)

Next ==
  \/ \E i \in Instructions : Step(i)
  \/ \E t \in Translations : Fill(t)

Spec == Init /\ [][Next]_processorVars
=============================================================================
