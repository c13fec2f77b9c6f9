------------------------------ MODULE HvAllocator ------------------------------
(***************************************************************************)
(* hypervisor_memory_allocator: the page allocator that serves "new" and   *)
(* "delete" while a processor cannot call the operating system.  The pool  *)
(* begins with its own bookkeeping, the page bitmap and the page           *)
(* allocation map.  allocate() and free() hold lock_ for their whole       *)
(* effect, so each is one step.                                            *)
(***************************************************************************)
EXTENDS Integers, FiniteSetsExt

CONSTANTS
  PageSize,   \* bytes of a page (4096)
  Regions,    \* [address, size]: memory attach() may be given
  Requests,   \* sizes allocate() is asked for, in bytes
  MaxCount    \* what a pgmap_t holds (65535)

ASSUME AllocatorAssumption ==
  /\ PageSize \in Nat /\ PageSize >= 4 /\ MaxCount \in Nat \ {0, 1}
  /\ Regions \subseteq [address : Nat, size : Nat]
  /\ Requests \subseteq Nat

\* Mutant: nothing is subtracted for the alignment.
PoolBytes_Whole(r) == r.size

\* What attach() takes to be left of a region when its start is aligned: it subtracts the
\* bytes in front of the start in its page, not those up to the next page.
PoolBytes(r) == r.size - (r.address % PageSize)

RoundUp(n)    == ((n + PageSize - 1) \div PageSize) * PageSize
ToPages(size) == RoundUp(size) \div PageSize

\* The two calls of allocate() attach() makes for its own data.
BitmapPages(n) == ToPages(n \div 8)
MapPages(n)    == ToPages(RoundUp(n) * 2)
Metadata(n)    == {[at |-> 0, count |-> BitmapPages(n)],
                   [at |-> BitmapPages(n), count |-> MapPages(n)]}

VARIABLES
  region,     \* the memory the pool was made of, NoRegion when detached
  base,       \* base_address_
  pages,      \* capacity_, in pages
  bitmap,     \* the pages whose bit in page_bitmap_ is set
  map,        \* page_allocation_map_
  hint,       \* last_page_offset_
  live,       \* the extents clients hold
  result,     \* what the last allocate() returned
  failed,     \* an assertion of detach() has failed
  crashed     \* an assertion of attach() has failed, or the bitmap was read at -1

vars == <<region, base, pages, bitmap, map, hint, live, result, failed, crashed>>

NoRegion == [address |-> 0, size |-> 0]
Null     == [at |-> -1, count |-> 0]

Extent(x) == x.at..(x.at + x.count - 1)

\* Every allocation takes at least one page.
PageCount(size) == IF size = 0 THEN 1 ELSE ToPages(size)

---------------------------------------------------------------------------
\* basic_bitmap::get_length_of_set() and get_length_of_clear(), to the end of the bitmap.
LengthOfSet(i)   == Min({k \in 0..(pages - i) : k = pages - i \/ i + k \notin bitmap})
LengthOfClear(i) == Min({k \in 0..(pages - i) : k = pages - i \/ i + k \in bitmap})

\* basic_bitmap::find_first_clear().  A turn of its loop begins at the index, or where
\* a run of clear bits ends that was too short, and only if the run it looks for could
\* still end before the last bit.
Turns(from, count) ==
  {i \in from..(pages - count - 1) : i = from \/ (i \in bitmap /\ i - 1 \notin bitmap)}

Fits(from, count) ==
  {r \in {i + LengthOfSet(i) : i \in Turns(from, count)} : LengthOfClear(r) >= count}

FindFirstClear(index, count) ==
  LET fits == Fits(IF index >= pages THEN 0 ELSE index, count)
  IN IF fits = {} THEN -1 ELSE Min(fits)

\* Mutant: the search does not start again from the beginning.
Search_Once(count) == FindFirstClear(hint, count)

\* Mutant: the hint is taken for the result of the search.
Search_Hint(count) == hint

\* From the hint, then from the beginning, where the bookkeeping is: no run of free
\* pages starts there.
Search(count) ==
  IF FindFirstClear(hint, count) # -1 THEN FindFirstClear(hint, count)
  ELSE FindFirstClear(0, count)

---------------------------------------------------------------------------
Init ==
  /\ region = NoRegion /\ base = 0 /\ pages = 0 /\ bitmap = {} /\ map = <<>>
  /\ hint = 0 /\ live = {} /\ result = Null /\ failed = FALSE
  /\ crashed = FALSE

\* The bookkeeping a pool of n pages cannot hold: with fewer than 8 pages the bitmap has no
\* bytes and lies where the map begins, and what allocate() returns for them is not where
\* attach() has put the map.  Nor is it for a map of more pages than a pgmap_t counts.
Unfit(n) == BitmapPages(n) = 0 \/ MapPages(n) > MaxCount - 1

\* attach() of an empty allocator.  The model ends where its assertions fail.
Attach(r) ==
  LET n == PoolBytes(r) \div PageSize IN
  /\ region = NoRegion /\ ~crashed
  /\ n >= 3 /\ r.size >= 3 * PageSize
  /\ IF Unfit(n)
     THEN crashed' = TRUE /\ UNCHANGED <<region, base, pages, bitmap, map, hint>>
     ELSE /\ region' = r
          /\ base'   = RoundUp(r.address)
          /\ pages'  = n
          /\ bitmap' = UNION {Extent(x) : x \in Metadata(n)}
          /\ map'    = [i \in 0..(n - 1) |->
                          IF i = 0 THEN BitmapPages(n)
                          ELSE IF i = BitmapPages(n) THEN MapPages(n) ELSE 0]
          /\ hint'   = BitmapPages(n) + MapPages(n)
          /\ UNCHANGED crashed
  /\ UNCHANGED <<live, result, failed>>

\* After a search that found nothing the hint is -1, and the next search reads the
\* bitmap at that index: a pointer far outside of the kernel's address space.
Allocate(size) ==
  LET count == PageCount(size)
      found == Search(count)
  IN
  /\ region # NoRegion /\ ~crashed
  /\ IF count > MaxCount - 1
     THEN result' = Null /\ UNCHANGED <<bitmap, map, hint, live, crashed>>
     ELSE IF hint = -1
     THEN crashed' = TRUE /\ UNCHANGED <<bitmap, map, hint, live, result>>
     ELSE IF found = -1
     THEN /\ hint' = -1 /\ result' = Null
          /\ UNCHANGED <<bitmap, map, live, crashed>>
     ELSE /\ result' = [at |-> found, count |-> count]
          /\ bitmap' = bitmap \cup Extent(result')
          /\ map'    = [map EXCEPT ![found] = count]
          /\ hint'   = found + count
          /\ live'   = live \cup {result'}
          /\ UNCHANGED crashed
  /\ UNCHANGED <<region, base, pages, failed>>

\* Mutant: one page too few is cleared.
Cleared_Short(b, m, at) == b \ (at..(at + m[at] - 2))

\* The bitmap after free() of the extent that begins at a page.
Cleared(b, m, at) == b \ (at..(at + m[at] - 1))

\* What free() may be given, as the page it begins: a client's extent, null or memory below
\* the pool (-1), and any other page, also behind the pool.  Clients know nothing of the
\* bookkeeping, and where the map is full nothing of the end of the pool, which free()
\* takes for a page of it.
Addresses ==
  (-1..(pages + 1)) \ ({x.at : x \in Metadata(pages)} \cup
                       (IF pages % PageSize = 0 THEN {pages} ELSE {}))

\* page_allocation_map_, which goes on with zeros to the end of its last page.
MapEntry(at) == IF at \in DOMAIN map THEN map[at] ELSE 0

\* Null, memory that is not of the pool and memory that is not allocated are ignored.
Ignored(at) == at = -1 \/ at > pages \/ MapEntry(at) = 0

Free(at) ==
  /\ region # NoRegion /\ ~crashed
  /\ IF Ignored(at) THEN UNCHANGED <<bitmap, map, live>>
     ELSE /\ bitmap' = Cleared(bitmap, map, at)
          /\ map'    = [map EXCEPT ![at] = 0]
          /\ live'   = {x \in live : x.at # at}
  /\ UNCHANGED <<region, base, pages, hint, result, failed, crashed>>

\* detach() frees the bookkeeping too, and asserts that nothing is left.
Detach ==
  LET at      == BitmapPages(pages)
      map1    == [map EXCEPT ![0] = 0]
      bitmap2 == Cleared(Cleared(bitmap, map, 0), map1, at)
  IN
  /\ region # NoRegion /\ live = {} /\ ~crashed
  /\ failed' = (bitmap2 # {} \/ \E i \in DOMAIN map : [map1 EXCEPT ![at] = 0][i] # 0)
  /\ region' = NoRegion /\ base' = 0 /\ pages' = 0 /\ bitmap' = {} /\ map' = <<>>
  /\ hint' = 0
  /\ UNCHANGED <<live, result, crashed>>

Next ==
  \/ \E r \in Regions : Attach(r)
  \/ \E size \in Requests : Allocate(size)
  \/ \E at \in Addresses : Free(at)
  \/ Detach

Spec == Init /\ [][Next]_vars

---------------------------------------------------------------------------
TypeOK ==
  /\ region \in Regions \cup {NoRegion} /\ base \in Nat /\ pages \in Nat
  /\ bitmap \subseteq 0..(pages - 1)
  /\ DOMAIN map = IF region = NoRegion THEN {} ELSE 0..(pages - 1)
  /\ \A i \in DOMAIN map : map[i] \in 0..MaxCount
  /\ hint \in -1..pages
  /\ failed \in BOOLEAN /\ crashed \in BOOLEAN

\* attach() aligns the start of its memory and says that it subtracts the bytes that are
\* lost by that (hypervisor_memory_allocator.cpp:76-95).  The pool begins inside the memory
\* and all of its pages but the last lie there.  The last one lies there, too, in aligned
\* memory, which is what the driver passes, but not in any other: attach() counts the bytes
\* in front of the start, and the pool ends outside unless these, twice, and what is left
\* over at the end make a page.
PoolInside ==
  region # NoRegion =>
    LET front == region.address % PageSize
        over  == PoolBytes(region) % PageSize
        end   == region.address + region.size
    IN /\ base >= region.address /\ base % PageSize = 0
       /\ base + (pages - 1) * PageSize <= end
       /\ base + pages * PageSize <= end <=> front = 0 \/ 2 * front + over >= PageSize

\* What clients hold and the bookkeeping are disjoint extents, and the bitmap and the
\* allocation map describe exactly them: no page is handed out twice or lost, and
\* detach() finds the pool empty.
ExtentsExact ==
  IF region = NoRegion THEN ~failed
  ELSE
    LET extents == live \cup Metadata(pages) IN
    /\ bitmap = UNION {Extent(x) : x \in extents}
    /\ \A x, y \in extents : x # y => Extent(x) \cap Extent(y) = {}
    /\ {i \in DOMAIN map : map[i] # 0} = {x.at : x \in extents}
    /\ \A x \in extents : map[x.at] = x.count

\* allocate() fails only when there is no run of free pages of that length, although
\* find_first_clear() overlooks one that ends the bitmap when it starts inside it.
FailsOnlyWhenFull ==
  [][\A size \in Requests :
       Allocate(size) /\ hint' = -1 /\ hint # -1 =>
         \A i \in 0..(pages - PageCount(size)) :
           (i..(i + PageCount(size) - 1)) \cap bitmap # {}]_vars
=============================================================================
