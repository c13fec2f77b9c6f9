-------------------------------- MODULE EptTables --------------------------------
(***************************************************************************)
(* The paging structures of one ept_t and the operations of ept.cpp on     *)
(* them, as functions of the structures.  A guest-physical page is its     *)
(* number; a table has Fanout entries (512 in the code) at each of the     *)
(* four levels.  An entry gets the memory type the MTRR descriptor gives   *)
(* the first byte it maps, whatever other types lie behind it.             *)
(***************************************************************************)
EXTENDS Integers, FiniteSets, SequencesExt

CONSTANTS
  Fanout,    \* entries of a table
  Tables,    \* the tables the allocator can provide, numbered
  MemType    \* mtrr_descriptor().type() of the first byte of each guest-physical page

ASSUME EptAssumption ==
  /\ Fanout \in Nat \ {0, 1}
  /\ Tables \subseteq Nat \ {0}

\* enum class pml, and the pages one entry of each level covers.
pt == 1
pd == 2
pdpt == 3
pml4 == 4
Size == <<1, Fanout, Fanout * Fanout, Fanout * Fanout * Fanout>>

Index(p, l) == (p \div Size[l]) % Fanout
Align(p, l) == p - (p % Size[l])

RWX == {"r", "w", "x"}

\* An entry is absent, maps a page, or points to a table of the level below.
Absent == [kind |-> "none"]
PageEntry(host, large, access, type) ==
  [kind |-> "page", host |-> host, large |-> large, access |-> access, type |-> type]
TableEntry(t) == [kind |-> "table", to |-> t]
IsLarge(entry) == entry.kind = "page" /\ entry.large

\* epml4_ is part of the object, the other tables are allocated.
Root    == 0
Null    == -1
NoEntry == [table |-> Null, index |-> 0, level |-> 0]
Empty   == [i \in 0..(Fanout - 1) |-> Absent]

\* "fault": an access went outside the tables, through a null pointer or through
\* the contents of a mapped page taken for a table.
NewEpt == [tables |-> [t \in {Root} |-> Empty], fault |-> FALSE]

---------------------------------------------------------------------------
Entry(e, slot) == e.tables[slot.table][slot.index]

Put(e, t, i, entry) ==
  IF t = Null THEN [e EXCEPT !.fault = TRUE]
  ELSE [e EXCEPT !.tables[t][i] = entry]

\* The slot for p at level l, in the table an entry points to.
Below(e, slot, p, l) ==
  IF Entry(e, slot).kind = "table"
  THEN [table |-> Entry(e, slot).to, index |-> Index(p, l), level |-> l]
  ELSE NoEntry

\* ept_entry(): the entry for p at a level, or the large one met on the way down.
EptEntry(e, p, level) ==
  LET Found(slot) == slot = NoEntry \/ IsLarge(Entry(e, slot)) \/ level = slot.level
      pml4e == [table |-> Root, index |-> Index(p, pml4), level |-> pml4]
      pdpte == Below(e, pml4e, p, pdpt)
      pde   == Below(e, pdpte, p, pd)
  IN IF Found(pdpte) THEN pdpte ELSE IF Found(pde) THEN pde ELSE Below(e, pde, p, pt)

\* A new table, with no entry present.
Allocate(tables, new) ==
  [t \in DOMAIN tables \cup {new} |-> IF t = new THEN Empty ELSE tables[t]]

\* map_subtable(): any present entry is taken to point to a table.
MapSubtable(e, t, i) ==
  IF t = Null THEN [ept |-> [e EXCEPT !.fault = TRUE], table |-> Null]
  ELSE LET entry == e.tables[t][i] IN
    CASE entry.kind = "table" -> [ept |-> e, table |-> entry.to]
      [] entry.kind = "page"  -> [ept |-> [e EXCEPT !.fault = TRUE], table |-> Null]
      [] OTHER ->
           IF Tables \subseteq DOMAIN e.tables
           THEN [ept |-> [e EXCEPT !.fault = TRUE], table |-> Null]
           ELSE LET new == Min(Tables \ DOMAIN e.tables) IN
                [ept   |-> [Put(e, t, i, TableEntry(new)) EXCEPT
                              !.tables = Allocate(@, new)],
                 table |-> new]

\* map_pt(), map_pd(), map_pdpt() and map_pml4(): map().
MapPt(e, t, p, host, access) ==
  Put(e, t, Index(p, pt), PageEntry(host, FALSE, access, MemType[p]))

MapPd(e, t, p, host, access, level) ==
  IF level = pd THEN Put(e, t, Index(p, pd), PageEntry(host, TRUE, access, MemType[p]))
  ELSE LET s == MapSubtable(e, t, Index(p, pd))
       IN MapPt(s.ept, s.table, p, host, access)

MapPdpt(e, t, p, host, access, level) ==
  IF level = pdpt THEN Put(e, t, Index(p, pdpt), PageEntry(host, TRUE, access, MemType[p]))
  ELSE LET s == MapSubtable(e, t, Index(p, pdpt))
       IN MapPd(s.ept, s.table, p, host, access, level)

Map(e, p, host, access, level) ==
  LET s == MapSubtable(e, Root, Index(p, pml4))
  IN MapPdpt(s.ept, s.table, p, host, access, level)

---------------------------------------------------------------------------
\* The tables below a set of tables.
Children(e, S) ==
  UNION {{e.tables[t][i].to : i \in {k \in 0..(Fanout - 1) : e.tables[t][k].kind = "table"}} :
         t \in S}

\* Mutant: the tables below are deleted, the table itself is not.
UnmapEntry_KeepTable(e, slot, level) ==
  LET entry == Entry(e, slot) IN
  IF slot = NoEntry \/ entry.kind = "none" THEN e
  ELSE Put([e EXCEPT !.tables =
              [t \in DOMAIN @ \ (IF entry.kind # "table" THEN {}
                                 ELSE Children(e, {entry.to})) |-> @[t]]],
           slot.table, slot.index, Absent)

\* unmap_entry(): the table below is deleted, and the tables below that one.
UnmapEntry(e, slot, level) ==
  LET entry == Entry(e, slot)
      first == {entry.to}
      freed == IF entry.kind # "table" THEN {}
               ELSE CASE level = pd   -> first
                      [] level = pdpt -> first \cup Children(e, first)
                      [] OTHER        -> first \cup Children(e, first)
                                               \cup Children(e, Children(e, first))
  IN IF entry.kind = "none" THEN e
     ELSE Put([e EXCEPT !.tables = [t \in DOMAIN @ \ freed |-> @[t]]],
              slot.table, slot.index, Absent)

\* ~ept_t(): unmap_table() of the PML4.
Destroy(e) ==
  FoldLeft(LAMBDA x, i : UnmapEntry(x, [table |-> Root, index |-> i - 1], pml4),
           e, [i \in 1..Fanout |-> i])

\* n neighbouring blocks, mapped one after the other.
MapBlocks(e, p, host, access, level, n) ==
  FoldLeft(LAMBDA x, i : Map(x, p + (i - 1) * Size[level],
                             host + (i - 1) * Size[level], access, level),
           e, [i \in 1..n |-> i])

\* Mutant: the large entry is not cleared first.
Split_NoUnmap(e, p, host, access, from) ==
  LET slot == EptEntry(e, p, from) IN
  IF ~IsLarge(Entry(e, slot)) THEN e
  ELSE MapBlocks(e, p, host, access, from - 1, Fanout)

\* Mutant: every small page is mapped to the first frame.
Split_SameFrame(e, p, host, access, from) ==
  LET slot == EptEntry(e, p, from) IN
  IF ~IsLarge(Entry(e, slot)) THEN e
  ELSE FoldLeft(LAMBDA x, i : Map(x, p + (i - 1) * Size[from - 1], host, access, from - 1),
                UnmapEntry(e, slot, from), [i \in 1..Fanout |-> i])

\* split<from, from - 1>(): a large entry becomes Fanout smaller ones.
Split(e, p, host, access, from) ==
  LET slot == EptEntry(e, p, from) IN
  IF slot = NoEntry THEN [e EXCEPT !.fault = TRUE]
  ELSE IF ~IsLarge(Entry(e, slot)) THEN e
  ELSE MapBlocks(UnmapEntry(e, slot, from), p, host, access, from - 1, Fanout)

\* join<to - 1, to>(): what the entry covers becomes one large page.
Join(e, p, host, access, to) ==
  LET q == Align(p, to)
      slot == EptEntry(e, q, to)
  IN IF slot = NoEntry THEN [e EXCEPT !.fault = TRUE]
     ELSE IF IsLarge(Entry(e, slot)) THEN e
     ELSE Map(UnmapEntry(e, slot, to), q, host, access, to)

\* map_identity(): Pages frames of guest-physical memory, in 2MB pages.
MapIdentity(e, Pages) == MapBlocks(e, 0, 0, RWX, pd, Pages \div Size[pd])

\* Mutant: the end of a range is rounded down as its begin is.
MapIdentitySparse_Short(e, ranges) ==
  LET MapRange(x, range) ==
        LET from == Align(range.begin, pd)
        IN MapBlocks(x, from, from, RWX, pd, (range.end - from) \div Size[pd])
  IN FoldLeft(MapRange, e, ranges)

\* map_identity_sparse(): every 2MB page that a range of physical memory touches.
MapIdentitySparse(e, ranges) ==
  LET MapRange(x, range) ==
        LET from == Align(range.begin, pd)
            to   == Align(range.end + Size[pd] - 1, pd)
        IN MapBlocks(x, from, from, RWX, pd, (to - from) \div Size[pd])
  IN FoldLeft(MapRange, e, ranges)

---------------------------------------------------------------------------
\* What the processor finds when it walks the structures for page p, and the level of
\* the entry it finds it in.
Unmapped == [host |-> 0, access |-> {}, level |-> 0, type |-> "none"]

Translate(e, p) ==
  LET slot  == EptEntry(e, p, pt)
      entry == Entry(e, slot)
  IN IF slot = NoEntry \/ entry.kind # "page" THEN Unmapped
     ELSE [host   |-> entry.host + (p % Size[slot.level]), access |-> entry.access,
           level  |-> slot.level, type |-> entry.type]

Reachable(e) ==
  {Root} \cup Children(e, {Root}) \cup Children(e, Children(e, {Root}))
         \cup Children(e, Children(e, Children(e, {Root})))
=============================================================================
