----------------------------- MODULE MCPassthrough -----------------------------
(***************************************************************************)
(* The guest's instructions, with the operands that make a difference.     *)
(***************************************************************************)
EXTENDS Passthrough

I(ops, targets, operands) == [op : ops, reg : targets, src : operands]
NoOperand == "none"

InstructionSet ==
  UNION {
    I({"mov_to_cr"}, {"cr0"}, {{"pe", "ts"}}),
    I({"mov_to_cr"}, {"cr3"}, {{"b0"}, {"keep"}}),
    I({"mov_to_cr"}, {"cr4"}, {{}, {"pge"}, {"de"}, {"pcide"}}),
    I({"mov_from_cr"}, {"cr0", "cr3", "cr4"}, {{}}),
    I({"clts"}, {NoOperand}, {{}}),
    I({"lmsw"}, {NoOperand}, {{"mp"}, {"ts"}}),
    I({"mov_to_dr"}, {"dr7"}, {{"gd"}, {"b0"}, {"b40"}}),
    I({"mov_to_dr"}, {"dr0", "dr4"}, {{"b0"}}),
    I({"mov_from_dr"}, {"dr0", "dr5", "dr6"}, {{}}),
    I({"rdmsr"}, {"debugctl", "fs_base", "lstar", "sysenter"}, {{}}),
    I({"wrmsr"}, {"debugctl", "fs_base", "lstar", "sysenter"}, {{"b0"}, {"b0", "b40"}}),
    I({"wrmsr"}, {"debugctl"}, {{}}),
    I({"xsetbv", "lgdt"}, {NoOperand}, {{"b0"}}),
    I({"in", "out"}, {"dx", "immediate"}, {{"b0"}}),
    I({"ltr"}, {NoOperand}, {{"b0", "b1"}, {"b1"}}),
    I({"cpuid", "invd", "wbinvd", "sgdt", "str", "vmx", "ud2", "int3", "syscall", "sysret"},
      {NoOperand}, {{}}),
    I({"invlpg"}, {"user", "kernel"}, {{}}),
    I({"access"}, {"user"}, {{}}),
    I({"invpcid"}, {"address"}, {{}, {"b0"}}),
    I({"invpcid"}, {"context", "all", "all_but_global", "invalid"}, {{}})
  }
MCInstructions == InstructionSet

MCTranslations ==
  {[address |-> "user", global |-> FALSE], [address |-> "kernel", global |-> TRUE]}

Bases == [s \in {{"b0"}, {"b1"}, {"b0", "b1"}} |-> IF s = {"b1"} THEN {"b1"} ELSE {"b0"}]
MCBase == Bases

Registers ==
  {"rip", "rcx", "cpl", "rflags", "r11", "rax", "cr0", "cr2", "cr3", "cr4", "dr0", "dr6",
   "dr7", "debugctl", "fs_base", "sysenter", "lstar", "gdtr", "tr", "tr_base", "busy",
   "xcr0", "port"}
InitialRegisters ==
  [r \in Registers |->
     CASE r \in {"rip", "rcx", "cpl"} -> 0
       [] r = "cr0"    -> {"pe"}
       [] r = "rflags" -> {"if"}
       [] r \in {"tr", "tr_base"} -> {"b0"}
       [] r = "busy"   -> {{"b0"}}
       [] r = "r11"    -> {"if", "rf"}
       [] OTHER        -> {}]
MCReset == InitialRegisters
MCGaps == {}
=============================================================================
