--------------------------------- MODULE EptMap ---------------------------------
(***************************************************************************)
(* What an ept_t promises its user, with no tables in sight: a map from    *)
(* guest-physical pages to host frames, where every call rewrites one      *)
(* naturally aligned block of pages, or nothing.  Ept.tla implements it.   *)
(***************************************************************************)
EXTENDS Naturals

CONSTANTS
  Fanout,    \* pages of a block of one level, in blocks of the level below
  Pages,     \* the guest-physical memory is 0..(Pages - 1)
  Hosts,     \* distances between a guest page and a host frame
  Rights,    \* the access rights a caller asks for
  MemType,   \* the memory type the MTRRs give each page
  Memory     \* the pages backed by physical memory

VARIABLE view  \* Page -> host frame, access rights, level and type of the mapping

---------------------------------------------------------------------------
Page     == 0..(Pages - 1)
Levels   == 1..3                       \* 4KB, 2MB, 1GB
Size     == <<1, Fanout, Fanout * Fanout, Fanout * Fanout * Fanout>>
RWX      == {"r", "w", "x"}
Unmapped == [host |-> 0, access |-> {}, level |-> 0, type |-> "none"]

\* The page a block begins with stands for the block.
First(p, level)   == p - (p % Size[level])
Aligned(p, level) == First(p, level) = p
Block(p, level)   == {q \in Page : First(q, level) = First(p, level)}

\* What one entry makes of page q.  Its memory type is one its pages have: theirs, when
\* they all have the same.  Which one a block of several types gets is left open here;
\* the comment of map_identity() asks for more, see MixedUncached in Ept.
Mappings(q, level, shift, access) ==
  {[host |-> q + shift, access |-> access, level |-> level, type |-> MemType[r]] :
     r \in Block(q, level)}

\* The pages of S, whole blocks of a level, are mapped by one entry each block.
Rewrite(S, level, shift, access) ==
  /\ view' = [q \in Page |-> view'[q]]
  /\ \A q \in Page \ S : view'[q] = view[q]
  /\ \A q \in S : /\ view'[q] \in Mappings(q, level, shift, access)
                  /\ view'[q].type = view'[First(q, level)].type

---------------------------------------------------------------------------
Init == view = [q \in Page |-> Unmapped]

MapIdentity == Rewrite(Page, 2, 0, RWX)

\* Every 2MB block with some memory in it, and no other one.
Occupied == {q \in Page : \E r \in Memory : First(r, 2) = First(q, 2)}
MapIdentitySparse == Rewrite(Occupied, 2, 0, RWX)

\* A block is mapped by one entry.
Map(p, level, shift, access) == Rewrite(Block(p, level), level, shift, access)

\* One large mapping becomes the smaller ones of the level below.
Split(p, from, shift, access) ==
  /\ view[p].level = from
  /\ Rewrite(Block(p, from), from - 1, shift, access)

\* The smaller mappings of a block become one.
Join(p, to, shift, access) ==
  /\ view[p].level \in 1..(to - 1)
  /\ Rewrite(Block(p, to), to, shift, access)

Destroy == view' = [q \in Page |-> Unmapped]

Next ==
  \/ MapIdentity
  \/ MapIdentitySparse
  \/ Destroy
  \/ \E level \in Levels, shift \in Hosts, access \in Rights :
       \E p \in {q \in Page : Aligned(q, level)} :
         \/ Map(p, level, shift, access)
         \/ level > 1 /\ Split(p, level, shift, access)
         \/ level > 1 /\ Join(p, level, shift, access)

Spec == Init /\ [][Next]_view
=============================================================================
