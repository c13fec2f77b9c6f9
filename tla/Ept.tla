---------------------------------- MODULE Ept ----------------------------------
(***************************************************************************)
(* The life of one ept_t: construction, the calls of its public interface  *)
(* in any order, destruction.  A caller names aligned blocks, never maps   *)
(* below a large page or over a table, and splits and joins only memory    *)
(* that is mapped, at the level of the mapping.                            *)
(***************************************************************************)
EXTENDS EptTables

CONSTANTS
  Pages,       \* guest-physical memory, in pages
  Hosts,       \* distances between a guest page and the host frame it is mapped to
  Rights,      \* access rights a caller asks for
  Ranges       \* physical_memory_descriptor(): [begin, end) of each range of memory

Page == 0..(Pages - 1)

\* The blocks whose entry may point to a table.
Divisible == {<<level, p \div Size[level]>> : level \in pd..pml4, p \in Page}

ASSUME MemoryAssumption ==
  /\ Pages \in Nat \ {0} /\ Pages % (Fanout * Fanout) = 0 /\ Pages <= Fanout * Size[pml4]
  /\ \A shift \in Hosts : shift \in Nat /\ shift % (Fanout * Fanout) = 0
  /\ \A access \in Rights : access \subseteq RWX /\ access # {}
  /\ DOMAIN MemType = Page
  /\ Ranges \in Seq([begin : Page, end : 1..Pages])
  /\ \A i \in DOMAIN Ranges : Ranges[i].begin < Ranges[i].end
  /\ IsFiniteSet(Tables) /\ Cardinality(Tables) >= Cardinality(Divisible)

VARIABLES
  ept,       \* the tables
  view,      \* what a walk of the tables finds for each page, a function of ept
  epml4      \* "live" or "destroyed"

vars == <<ept, view, epml4>>

---------------------------------------------------------------------------
Walk(e) == [p \in Page |-> Translate(e, p)]

Aligned(p, level) == Align(p, level) = p
Block(p, level)   == {q \in Page : Align(q, level) = Align(p, level)}

Call(e) ==
  /\ epml4 = "live"
  /\ ept' = e
  /\ view' = Walk(ept')
  /\ UNCHANGED epml4

Init == ept = NewEpt /\ view = Walk(ept) /\ epml4 = "live"

CallMapIdentity ==
  /\ \A p \in Page : view[p].level \in {0, pd}
  /\ Call(MapIdentity(ept, Pages))

CallMapIdentitySparse ==
  /\ \A p \in Page : view[p].level \in {0, pd}
  /\ Call(MapIdentitySparse(ept, Ranges))

CallMap(p, level, shift, access) ==
  /\ \A q \in Block(p, level) : view[q].level \in {0, level}
  /\ Call(Map(ept, p, p + shift, access, level))

CallSplit(p, from, shift, access) ==
  /\ view[p].level \in 1..from
  /\ Call(Split(ept, p, p + shift, access, from))

CallJoin(p, to, shift, access) ==
  /\ view[p] # Unmapped
  /\ Call(Join(ept, p, p + shift, access, to))

CallDestroy ==
  /\ epml4 = "live"
  /\ ept' = Destroy(ept)
  /\ view' = Walk(ept')
  /\ epml4' = "destroyed"

Next ==
  \/ CallMapIdentity
  \/ CallMapIdentitySparse
  \/ CallDestroy
  \/ \E level \in pt..pdpt, shift \in Hosts, access \in Rights :
       \E p \in {q \in Page : Aligned(q, level)} :
         \/ CallMap(p, level, shift, access)
         \/ level > pt /\ CallSplit(p, level, shift, access)
         \/ level > pt /\ CallJoin(p, level, shift, access)

Spec == Init /\ [][Next]_vars

---------------------------------------------------------------------------
\* The tables hold entries of the right shape, and no access left them.
TypeOK ==
  /\ Root \in DOMAIN ept.tables /\ DOMAIN ept.tables \subseteq Tables \cup {Root}
  /\ ~ept.fault
  /\ \A t \in DOMAIN ept.tables, i \in 0..(Fanout - 1) :
       LET entry == ept.tables[t][i] IN
       \/ entry = Absent
       \/ /\ entry.kind = "page" /\ entry.host \in Nat
          /\ entry.large \in BOOLEAN /\ entry.access \in Rights \cup {RWX}
          /\ \E p \in Page : entry.type = MemType[p]
       \/ entry.kind = "table" /\ entry.to \in Tables

\* Every table that is allocated hangs from exactly one entry of another one, and a
\* destroyed ept_t has freed them all: split(), join() and unmap_entry() neither
\* leak a table nor leave an entry to a table that was deleted (ept.cpp:510-564).
TableTree ==
  LET Parents(t) ==
        {x \in (DOMAIN ept.tables) \X (0..(Fanout - 1)) :
           ept.tables[x[1]][x[2]] = TableEntry(t)}
  IN /\ DOMAIN ept.tables = Reachable(ept)
     /\ \A t \in DOMAIN ept.tables \ {Root} : Cardinality(Parents(t)) = 1
     /\ epml4 = "destroyed" => DOMAIN ept.tables = {Root}

\* Every call rewrites one aligned block with contiguous frames, or nothing.  A mapping
\* has one memory type, that of its pages if they share one and otherwise that of some
\* page of it, whether it was mapped, split off or joined (ept.cpp:41-197).  That the
\* page is the first one, and not the least dangerous, is MixedUncached's matter.
MemoryPages == UNION {(Ranges[i].begin)..(Ranges[i].end - 1) : i \in DOMAIN Ranges}
Abstract == INSTANCE EptMap WITH Memory <- MemoryPages, view <- view
ImplementsMap == Abstract!Spec

\* ept.cpp:65-71: if MTRRs of different types lie within a single 2MB page, "the memory
\* type of the whole 2MB page must be set to "least dangerous" option.  Worst case
\* scenario is if UC (uncached) memory type collides with something else - the whole
\* page must be then set to UC type."
MixedUncached ==
  \A p \in Page : view[p].level = pd /\ (\E q \in Block(p, pd) : MemType[q] = "UC")
                    => view[p].type = "UC"
=============================================================================
