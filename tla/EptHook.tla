-------------------------------- MODULE EptHook --------------------------------
(***************************************************************************)
(* Hiding a page (vmexit_custom.cpp): VMCALL 0xc1 makes a guest page       *)
(* execute-only in the EPT of the processor it is issued on, EPT           *)
(* violations then switch the page between the frame that is executed and  *)
(* the frame that is read, VMCALL 0xc2 undoes it.  The processors run      *)
(* guest instructions in between, through TLBs that may keep any           *)
(* translation until it is invalidated; hvppctrl visits the processors one *)
(* by one.  An EPT belongs to one processor, so what a VM-exit handler     *)
(* does to it between VM-exit and VM-entry is one step.                    *)
(***************************************************************************)
EXTENDS EptTables

CONSTANTS
  CPU,     \* the processors, numbered in the order ForEachLogicalCore() visits them
  Pages,   \* guest-physical memory, in pages
  Hooks,   \* [exec, read]: the arguments of a Hide(), page_exec and page_read
  Instr    \* [fetch, data, right]: guest instructions; data = fetch reads its own page

Page == 0..(Pages - 1)

ASSUME HookAssumption ==
  /\ IsFiniteSet(CPU) /\ CPU # {} /\ CPU = 1..Cardinality(CPU)
  /\ Pages \in Nat \ {0} /\ Pages % Size[pd] = 0 /\ Pages <= Size[pml4]
  /\ Hooks \subseteq [exec : Page, read : Page]
  /\ \A h \in Hooks : h.exec # h.read
  /\ Instr \subseteq [fetch : Page, data : Page, right : {"r", "w"}]
  /\ IsFiniteSet(Tables)  \* enough for the identity map and the table of one hook
  /\ Cardinality(Tables) >= Pages \div Size[pdpt] + 3

VARIABLES
  ept,      \* per_vcpu_data::ept of each processor
  view,     \* what a walk of it finds for each page, a function of ept
  data,     \* per_vcpu_data::page_exec and page_read
  hooked,   \* a 0xc1 was handled, and no 0xc2 since
  tlb,      \* the translations each processor has cached
  instr,    \* the instruction in execution, NoInstr between two
  fetched,  \* its own bytes have been fetched
  ctl       \* hvppctrl: the call in progress and the processor it visits next

vars == <<ept, view, data, hooked, tlb, instr, fetched, ctl>>

NoInstr == [fetch |-> 0, data |-> 0, right |-> "none"]
Idle    == [call |-> "none", hook |-> [exec |-> 0, read |-> 0], next |-> 1]

Mask(p) == Align(p, pd)

Walk(e) == [p \in Page |-> Translate(e, p)]

SetEpt(c, e) ==
  /\ ept'  = [ept EXCEPT ![c] = e]
  /\ view' = [view EXCEPT ![c] = Walk(ept'[c])]

Identity == MapIdentity(NewEpt, Pages)

---------------------------------------------------------------------------
Init ==
  /\ ept     = [c \in CPU |-> Identity]
  /\ view    = [c \in CPU |-> Walk(Identity)]
  /\ data    = [c \in CPU |-> [exec |-> 0, read |-> 0]]
  /\ hooked  = [c \in CPU |-> FALSE]
  /\ tlb     = [c \in CPU |-> [p \in Page |-> Unmapped]]
  /\ instr   = [c \in CPU |-> NoInstr]
  /\ fetched = [c \in CPU |-> FALSE]
  /\ ctl     = Idle

---------------------------------------------------------------------------
(***************************************************************************)
(* The processor.                                                          *)
(***************************************************************************)

\* A cached translation is used before the tables are walked.
Lookup(c, p) == IF tlb[c][p] # Unmapped THEN tlb[c][p] ELSE view[c][p]
Allowed(c, p, right) == right \in Lookup(c, p).access

Cache(c, p) == tlb' = [tlb EXCEPT ![c][p] = Lookup(c, p)]

Issue(c, i) ==
  /\ instr[c] = NoInstr
  /\ instr' = [instr EXCEPT ![c] = i]
  /\ UNCHANGED <<ept, view, data, hooked, tlb, fetched, ctl>>

Fetch(c) ==
  /\ instr[c] # NoInstr /\ ~fetched[c]
  /\ Allowed(c, instr[c].fetch, "x")
  /\ Cache(c, instr[c].fetch)
  /\ fetched' = [fetched EXCEPT ![c] = TRUE]
  /\ UNCHANGED <<ept, view, data, hooked, instr, ctl>>

Retire(c) ==
  /\ fetched[c]
  /\ Allowed(c, instr[c].data, instr[c].right)
  /\ Cache(c, instr[c].data)
  /\ instr'   = [instr EXCEPT ![c] = NoInstr]
  /\ fetched' = [fetched EXCEPT ![c] = FALSE]
  /\ UNCHANGED <<ept, view, data, hooked, ctl>>

\* A translation may leave the TLB at any time.
Evict(c, p) ==
  /\ tlb[c][p] # Unmapped
  /\ tlb' = [tlb EXCEPT ![c][p] = Unmapped]
  /\ UNCHANGED <<ept, view, data, hooked, instr, fetched, ctl>>

---------------------------------------------------------------------------
(***************************************************************************)
(* EPT violations.                                                         *)
(***************************************************************************)

\* Mutant: a write is not recognised as a data access.
ViolationEpt_ReadOnly(e, d, right) ==
  IF right = "r" THEN Map(e, d.exec, d.read, {"r", "w"}, pt)
                 ELSE Map(e, d.exec, d.exec, {"x"}, pt)

\* What handle_ept_violation() does to the tables: it remaps page_exec, whatever
\* the faulting address is.
ViolationEpt(e, d, right) ==
  IF right \in {"r", "w"} THEN Map(e, d.exec, d.read, {"r", "w"}, pt)
                          ELSE Map(e, d.exec, d.exec, {"x"}, pt)

\* The violation drops the cached translation of the faulting page, the handler
\* needs no INVEPT, and suppress_rip_adjust() restarts the instruction.
Violation(c, p, right) ==
  /\ ~Allowed(c, p, right)
  /\ SetEpt(c, ViolationEpt(ept[c], data[c], right))
  /\ tlb'     = [tlb EXCEPT ![c][p] = Unmapped]
  /\ fetched' = [fetched EXCEPT ![c] = FALSE]
  /\ UNCHANGED <<data, hooked, instr, ctl>>

HandleEptViolation(c) ==
  /\ instr[c] # NoInstr
  /\ \/ ~fetched[c] /\ Violation(c, instr[c].fetch, "x")
     \/ fetched[c] /\ Violation(c, instr[c].data, instr[c].right)

---------------------------------------------------------------------------
(***************************************************************************)
(* The VMCALLs, and hvppctrl which issues them on every processor.         *)
(***************************************************************************)

\* Mutant: INVEPT is forgotten.
Invept_None(c) == UNCHANGED tlb

\* invept_single_context().
Invept(c) == tlb' = [tlb EXCEPT ![c] = [p \in Page |-> Unmapped]]

\* Mutant: the large page is not split.
HideEpt_NoSplit(e, d) == Map(e, d.exec, d.exec, {"x"}, pt)

\* Mutant: the address is not masked to the 2MB page.
HideEpt_Unaligned(e, d) ==
  Map(Split(e, d.exec, d.exec, RWX, pd), d.exec, d.exec, {"x"}, pt)

HideEpt(e, d) ==
  Map(Split(e, Mask(d.exec), Mask(d.exec), RWX, pd), d.exec, d.exec, {"x"}, pt)

\* Mutant: the large page is mapped over the table of the small ones.
UnhideEpt_MapOver(e, d) == Map(e, Mask(d.exec), Mask(d.exec), RWX, pd)

UnhideEpt(e, d) == Join(e, Mask(d.exec), Mask(d.exec), RWX, pd)

VmcallHide(c, hook) ==
  /\ data'   = [data EXCEPT ![c] = hook]
  /\ SetEpt(c, HideEpt(ept[c], hook))
  /\ hooked' = [hooked EXCEPT ![c] = TRUE]
  /\ Invept(c)

\* page_exec and page_read keep their values.
VmcallUnhide(c) ==
  /\ SetEpt(c, UnhideEpt(ept[c], data[c]))
  /\ hooked' = [hooked EXCEPT ![c] = FALSE]
  /\ Invept(c)
  /\ UNCHANGED data

\* A Hide() does not move a hook from one page to another: what is hidden somewhere
\* is unhidden first.
Hide(hook) ==
  /\ ctl = Idle
  /\ \A c \in CPU : hooked[c] => data[c] = hook
  /\ ctl' = [call |-> "hide", hook |-> hook, next |-> 1]
  /\ UNCHANGED <<ept, view, data, hooked, tlb, instr, fetched>>

Unhide ==
  /\ ctl = Idle
  /\ ctl' = [Idle EXCEPT !.call = "unhide"]
  /\ UNCHANGED <<ept, view, data, hooked, tlb, instr, fetched>>

\* The thread has moved to processor ctl.next, and executes the VMCALL there.
Visit ==
  /\ ctl # Idle /\ instr[ctl.next] = NoInstr
  /\ \/ ctl.call = "hide" /\ VmcallHide(ctl.next, ctl.hook)
     \/ ctl.call = "unhide" /\ VmcallUnhide(ctl.next)
  /\ ctl' = IF ctl.next + 1 \in CPU THEN [ctl EXCEPT !.next = @ + 1] ELSE Idle
  /\ UNCHANGED <<instr, fetched>>

\* SetThreadGroupAffinity() fails: the remaining processors are not visited, and
\* the result of ForEachLogicalCore() is ignored.
GiveUp ==
  /\ ctl # Idle
  /\ ctl' = Idle
  /\ UNCHANGED <<ept, view, data, hooked, tlb, instr, fetched>>

---------------------------------------------------------------------------
Execute(c) == Fetch(c) \/ Retire(c) \/ HandleEptViolation(c)

Next ==
  \/ \E c \in CPU : Execute(c) \/ (\E i \in Instr : Issue(c, i))
                               \/ (\E p \in Page : Evict(c, p))
  \/ \E hook \in Hooks : Hide(hook)
  \/ Unhide \/ Visit \/ GiveUp

\* A processor goes on with the instruction it has started.
Spec == Init /\ [][Next]_vars /\ \A c \in CPU : WF_vars(Execute(c))

---------------------------------------------------------------------------
TypeOK ==
  /\ \A c \in CPU :
       /\ ~ept[c].fault
       /\ DOMAIN ept[c].tables \subseteq Tables \cup {Root}
       /\ data[c] \in Hooks \cup {[exec |-> 0, read |-> 0]}
       /\ instr[c] \in Instr \cup {NoInstr}
       /\ \A p \in Page : tlb[c][p].host \in Page /\ tlb[c][p].access \subseteq RWX
  /\ hooked \in [CPU -> BOOLEAN] /\ fetched \in [CPU -> BOOLEAN]
  /\ ctl.call \in {"none", "hide", "unhide"} /\ ctl.next \in CPU

\* The frame an access has to reach.
Expected(c, p, right) ==
  IF hooked[c] /\ p = data[c].exec /\ right # "x" THEN data[c].read ELSE p

\* Whatever the TLB holds, an access that succeeds reaches the right frame: on a
\* processor with a hook, reads and writes of page_exec reach page_read and fetches
\* reach page_exec; after the unhook and for all other pages, every access reaches
\* the page itself (vmexit_custom.cpp:193-203, :241-282).
GuestView ==
  \A c \in CPU, p \in Page, right \in RWX :
    Allowed(c, p, right) => Lookup(c, p).host = Expected(c, p, right)

\* A hook restricts one page: the other pages of the 2MB page that was split, and
\* all pages without a hook, stay accessible, and page_exec is never readable and
\* executable at once while it is hooked.
HookLocal ==
  \A c \in CPU, p \in Page :
    LET access == view[c][p].access IN
    IF hooked[c] /\ p = data[c].exec THEN access \in {{"x"}, {"r", "w"}}
    ELSE access = RWX

\* A hook costs one table, and the unhook gives it back, however often hvppctrl
\* repeats a call or gives up half way.
TablesBalanced ==
  \A c \in CPU :
    Cardinality(DOMAIN ept[c].tables) =
      Cardinality(DOMAIN Identity.tables)
        + IF hooked[c] THEN 1 ELSE 0

\* An instruction that does not read or write the page it lies in retires: the
\* violations it causes end.
InstructionsRetire ==
  \A c \in CPU :
    instr[c].fetch # instr[c].data ~> instr[c] = NoInstr
=============================================================================
