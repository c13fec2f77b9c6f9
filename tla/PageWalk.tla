-------------------------------- MODULE PageWalk --------------------------------
(***************************************************************************)
(* The guest's own paging structures and the two software walks of them:   *)
(* va_to_pa(va, cr3) through physical memory and va_to_pa(va) through the  *)
(* slot of the PML4 that maps the structures into the address space.  An   *)
(* address counts entries: a page is Fanout entries, which is also what a  *)
(* table holds.                                                            *)
(***************************************************************************)
EXTENDS Integers

CONSTANTS
  Fanout,    \* entries of a table
  SelfSlot   \* the index of the PML4 entry that points to the PML4

ASSUME PageWalkAssumption == Fanout \in Nat \ {0, 1} /\ SelfSlot \in 0..(Fanout - 1)

\* enum class pml.
pt == 0
pd == 1
pdpt == 2
pml4 == 3

PageSize == Fanout
Span     == [level \in pt..pml4 |-> Fanout^(level + 1)]  \* what an entry covers
VaSize   == Fanout * Span[pml4]

Index(va, level)  == va \div Span[level]
Offset(va, level) == Index(va, level) % Fanout
Pfn(pa)           == pa \div PageSize
ByteOffset(addr)  == addr % PageSize

\* pe_t; the frame of a large page is the first one it covers.
Absent == [present |-> FALSE, large |-> FALSE, frame |-> 0]
Entry(large, frame) == [present |-> TRUE, large |-> large, frame |-> frame]

\* A walk ends at an absent entry, at a large one, and in the page table.
IsLast(entry, level) ==
  ~entry.present \/ level = pt \/ (entry.large /\ level # pml4)

\* The physical address an entry gives at which the walk ends, 0 for none.
Target(entry, level, va) ==
  IF ~entry.present THEN 0 ELSE (entry.frame * PageSize) + (va % Span[level])

---------------------------------------------------------------------------
\* The entry at which a walk ends on structures that hold still, and its level: mem maps
\* a frame to its entries.
WalkEnd(mem, root, va) ==
  LET walk[level \in pt..pml4, frame \in DOMAIN mem] ==
        LET entry == mem[frame][Offset(va, level)]
        IN IF IsLast(entry, level) THEN [entry |-> entry, level |-> level]
           ELSE walk[level - 1, entry.frame]
  IN walk[pml4, root]

\* An access to the address would not cause a page fault.
Mapped(mem, root, va) == WalkEnd(mem, root, va).entry.present

\* va_to_pa(va, cr3)
VaToPa(mem, root, va) ==
  LET end == WalkEnd(mem, root, va) IN Target(end.entry, end.level, va)

\* Mutant: the shifts of the PDE's and the PDPTE's base are exchanged.
Base_Swapped(level) ==
  CASE level = pt   -> SelfSlot * Span[pml4]
    [] level = pd   -> SelfSlot * Span[pml4] + SelfSlot * Span[pd]
    [] level = pdpt -> SelfSlot * Span[pml4] + SelfSlot * Span[pdpt] + SelfSlot * Span[pd]
    [] OTHER        -> SelfSlot * (Span[pml4] + Span[pdpt] + Span[pd] + Span[pt])

\* PTE_BASE, PDE_BASE, PPE_BASE and PXE_BASE: the slot once more for each level.
Base(level) ==
  CASE level = pt   -> SelfSlot * Span[pml4]
    [] level = pd   -> SelfSlot * (Span[pml4] + Span[pdpt])
    [] level = pdpt -> SelfSlot * (Span[pml4] + Span[pdpt] + Span[pd])
    [] OTHER        -> SelfSlot * (Span[pml4] + Span[pdpt] + Span[pd] + Span[pt])

\* A read of an entry at a virtual address; the processor translates it.
Fault == [present |-> FALSE, large |-> FALSE, frame |-> -1]
ReadVa(mem, root, va) ==
  LET pa == VaToPa(mem, root, va)
  IN IF Pfn(pa) \in DOMAIN mem THEN mem[Pfn(pa)][ByteOffset(pa)] ELSE Fault

\* va_to_pa(va): -1 when the access to an entry faults.
VaToPaSelf(mem, root, va) ==
  LET walk[level \in pt..pml4] ==
        LET entry == ReadVa(mem, root, Base(level) + Index(va, level))
        IN IF entry = Fault THEN -1
           ELSE IF IsLast(entry, level) THEN Target(entry, level, va)
           ELSE walk[level - 1]
  IN walk[pml4]
=============================================================================
