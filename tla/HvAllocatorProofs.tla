---------------------------- MODULE HvAllocatorProofs ----------------------------
(***************************************************************************)
(* Proofs about HvAllocator, for any page size, any memory attach() is     *)
(* given and any requests: which pages of the pool lie inside its memory,  *)
(* that no page belongs to two extents, and that a request fails only when *)
(* nothing of its length is free.                                          *)
(***************************************************************************)
EXTENDS HvAllocator, NumberProofs

---------------------------------------------------------------------------
\* What a size needs in pages.
LEMMA PagesAre ==
  ASSUME NEW size \in Nat
  PROVE  /\ ToPages(size) \in Nat
         /\ ToPages(size) = (size + PageSize - 1) \div PageSize
         /\ RoundUp(size) = PageSize * ToPages(size)
         /\ size <= PageSize * ToPages(size)
         /\ PageSize * ToPages(size) <= size + PageSize - 1
         /\ size > 0 => ToPages(size) > 0
<1> DEFINE q == (size + PageSize - 1) \div PageSize
<1>1. PageSize \in Nat \ {0} /\ size + PageSize - 1 \in Nat
  BY AllocatorAssumption
<1>2. /\ q \in Nat /\ (size + PageSize - 1) % PageSize \in 0..(PageSize - 1)
      /\ size + PageSize - 1 = PageSize * q + ((size + PageSize - 1) % PageSize)
  BY <1>1, DivIs
<1> HIDE DEF q
<1>3. RoundUp(size) = PageSize * q + 0
  BY <1>1, <1>2 DEF RoundUp, q
<1>4. ToPages(size) = q
  BY <1>1, <1>2, <1>3, QuotientIs DEF ToPages
<1>5. size <= PageSize * q /\ PageSize * q <= size + PageSize - 1
  <2>1. PageSize * q \in Nat
    BY <1>1, <1>2
  <2> QED
    BY <1>1, <1>2, <2>1
<1>6. size > 0 => q > 0
  <2>1. q = 0 => PageSize * q = 0
    BY <1>1
  <2> QED
    BY <1>2, <1>5, <2>1
<1> QED
  BY <1>2, <1>3, <1>4, <1>5, <1>6, <1>1 DEF q

LEMMA PageCountIs ==
  ASSUME NEW size \in Nat
  PROVE  PageCount(size) \in Nat \ {0}
BY PagesAre DEF PageCount

\* A pool of 8 pages has room for its bookkeeping.
LEMMA MetadataFits ==
  ASSUME NEW n \in Nat, n >= 8
  PROVE  /\ BitmapPages(n) \in Nat \ {0} /\ MapPages(n) \in Nat \ {0}
         /\ BitmapPages(n) <= MapPages(n)
         /\ BitmapPages(n) + MapPages(n) <= n
<1> DEFINE e == n \div 8
           b == ToPages(e)
           u == ToPages(n)
<1>1. e \in Nat /\ e > 0 /\ 8 * e <= n
  OBVIOUS
<1>2. b \in Nat \ {0} /\ PageSize * b <= e + PageSize - 1
  BY <1>1, PagesAre
<1>3. u \in Nat \ {0} /\ PageSize * u <= n + PageSize - 1 /\ n <= PageSize * u
  BY PagesAre
<1>4. PageSize \in Nat /\ PageSize >= 4
  BY AllocatorAssumption
<1> HIDE DEF e, b, u
<1>5. MapPages(n) = 2 * u
  <2>1. RoundUp(n) * 2 = PageSize * (2 * u) /\ RoundUp(n) * 2 \in Nat
    <3>1. RoundUp(n) = PageSize * u
      BY PagesAre DEF u
    <3> QED
      BY <1>3, <1>4, <3>1
  <2>2. ToPages(RoundUp(n) * 2) = (PageSize * (2 * u) + (PageSize - 1)) \div PageSize
    <3>1. ToPages(RoundUp(n) * 2) = (RoundUp(n) * 2 + PageSize - 1) \div PageSize
      BY <2>1, PagesAre
    <3>2. RoundUp(n) * 2 + PageSize - 1 = PageSize * (2 * u) + (PageSize - 1)
      BY <1>4, <2>1
    <3> QED
      BY <3>1, <3>2
  <2>3. PageSize \in Nat \ {0} /\ 2 * u \in Nat /\ PageSize - 1 \in 0..(PageSize - 1)
    BY <1>3, <1>4
  <2> QED
    BY <2>2, <2>3, QuotientIs DEF MapPages
<1>6. 4 * (b - 1) <= e - 1
  <2>1. 4 * (b - 1) <= PageSize * (b - 1)
    BY <1>2, <1>4
  <2>2. PageSize * (b - 1) = PageSize * b - PageSize /\ PageSize * b \in Int
    BY <1>2, <1>4
  <2> QED
    BY <1>1, <1>2, <1>4, <2>1, <2>2
<1>7. 4 * (u - 1) <= n - 1
  <2>1. 4 * (u - 1) <= PageSize * (u - 1)
    BY <1>3, <1>4
  <2>2. PageSize * (u - 1) = PageSize * u - PageSize /\ PageSize * u \in Int
    BY <1>3, <1>4
  <2> QED
    BY <1>3, <1>4, <2>1, <2>2
<1>8. b + 2 * u <= n
  BY <1>1, <1>2, <1>3, <1>6, <1>7
<1>9. b <= 2 * u
  <2>1. SUFFICES ASSUME u + 1 <= b PROVE FALSE
    BY <1>2, <1>3
  <2>2. PageSize * (u + 1) <= PageSize * b
    BY <1>2, <1>3, <1>4, <2>1, MulMono
  <2>3. PageSize * (u + 1) = PageSize * u + PageSize /\ PageSize * u \in Int
    BY <1>3, <1>4
  <2> QED
    BY <1>1, <1>2, <1>3, <1>4, <2>2, <2>3
<1> QED
  BY <1>2, <1>3, <1>5, <1>8, <1>9 DEF BitmapPages, b, e

---------------------------------------------------------------------------
\* A bitmap and a map of n pages that describe exactly a set of disjoint extents.
Exact(E, b, m, n) ==
  /\ m \in [0..(n - 1) -> Nat]
  /\ \A x \in E : x.at \in Nat /\ x.count \in Nat \ {0} /\ x.at + x.count <= n
  /\ b = UNION {Extent(x) : x \in E}
  /\ \A x, y \in E : x # y => Extent(x) \cap Extent(y) = {}
  /\ {i \in DOMAIN m : m[i] # 0} = {x.at : x \in E}
  /\ \A x \in E : m[x.at] = x.count

\* An extent begins with a page of its own.
LEMMA FirstPage ==
  ASSUME NEW E, NEW b, NEW m, NEW n \in Nat, Exact(E, b, m, n), NEW x \in E
  PROVE  x.at \in 0..(n - 1) /\ x.at \in Extent(x) /\ Extent(x) \subseteq b
         /\ Extent(x) \subseteq 0..(n - 1)
BY DEF Exact, Extent

LEMMA StartsDiffer ==
  ASSUME NEW E, NEW b, NEW m, NEW n \in Nat, Exact(E, b, m, n),
         NEW x \in E, NEW y \in E, x # y
  PROVE  x.at # y.at
<1>1. x.at \in Extent(x) /\ y.at \in Extent(y)
  BY FirstPage
<1>2. Extent(x) \cap Extent(y) = {}
  BY DEF Exact
<1> QED
  BY <1>1, <1>2

\* set() and the map entry of allocate().
LEMMA AddExtent ==
  ASSUME NEW E, NEW b, NEW m, NEW n \in Nat, Exact(E, b, m, n), NEW x,
         x.at \in Nat, x.count \in Nat \ {0}, x.at + x.count <= n, Extent(x) \cap b = {}
  PROVE  x \notin E /\ Exact(E \cup {x}, b \cup Extent(x), [m EXCEPT ![x.at] = x.count], n)
<1> DEFINE F == E \cup {x}
           k == [m EXCEPT ![x.at] = x.count]
<1>1. x.at \in 0..(n - 1) /\ x.at \in Extent(x)
  BY DEF Extent
<1>2. \A y \in E : y.at \in b /\ Extent(y) \subseteq b /\ y.at \in 0..(n - 1)
  BY FirstPage
<1>3. x \notin E /\ \A y \in E : y.at # x.at
  BY <1>1, <1>2
<1>4. m \in [0..(n - 1) -> Nat] /\ k \in [0..(n - 1) -> Nat]
  BY <1>1 DEF Exact
<1>5. k[x.at] = x.count /\ \A i \in 0..(n - 1) : i # x.at => k[i] = m[i]
  BY <1>1, <1>4
<1> HIDE DEF k
<1>6. b \cup Extent(x) = UNION {Extent(y) : y \in F}
  BY DEF Exact
<1>7. \A y, z \in F : y # z => Extent(y) \cap Extent(z) = {}
  BY <1>2 DEF Exact
<1>8. {i \in DOMAIN k : k[i] # 0} = {y.at : y \in F}
  <2>1. {i \in 0..(n - 1) : m[i] # 0} = {y.at : y \in E}
    BY <1>4 DEF Exact
  <2> QED
    BY <1>1, <1>4, <1>5, <2>1
<1>9. \A y \in F : k[y.at] = y.count
  BY <1>2, <1>3, <1>5 DEF Exact
<1>10. \A y \in F : y.at \in Nat /\ y.count \in Nat \ {0} /\ y.at + y.count <= n
  BY DEF Exact
<1>11. Exact(F, b \cup Extent(x), k, n)
  BY <1>4, <1>6, <1>7, <1>8, <1>9, <1>10 DEF Exact
<1> QED
  BY <1>3, <1>11 DEF k

\* clear() and the map entry of free().
LEMMA RemoveExtent ==
  ASSUME NEW E, NEW b, NEW m, NEW n \in Nat, Exact(E, b, m, n), NEW x \in E
  PROVE  Exact(E \ {x}, Cleared(b, m, x.at), [m EXCEPT ![x.at] = 0], n)
<1> DEFINE F == E \ {x}
           k == [m EXCEPT ![x.at] = 0]
<1>1. x.at \in 0..(n - 1) /\ Cleared(b, m, x.at) = b \ Extent(x)
  BY FirstPage DEF Exact, Cleared, Extent
<1>2. \A y \in F : y.at # x.at /\ y.at \in 0..(n - 1)
  BY StartsDiffer, FirstPage
<1>3. m \in [0..(n - 1) -> Nat] /\ k \in [0..(n - 1) -> Nat]
  BY <1>1 DEF Exact
<1>4. k[x.at] = 0 /\ \A i \in 0..(n - 1) : i # x.at => k[i] = m[i]
  BY <1>1, <1>3
<1> HIDE DEF k
<1>5. b \ Extent(x) = UNION {Extent(y) : y \in F}
  BY DEF Exact
<1>6. {i \in DOMAIN k : k[i] # 0} = {y.at : y \in F}
  <2>1. {i \in 0..(n - 1) : m[i] # 0} = {y.at : y \in E}
    BY <1>3 DEF Exact
  <2> QED
    BY <1>2, <1>3, <1>4, <2>1
<1>7. \A y \in F : k[y.at] = y.count
  BY <1>2, <1>4 DEF Exact
<1>8. Exact(F, b \ Extent(x), k, n)
  BY <1>3, <1>5, <1>6, <1>7 DEF Exact
<1> QED
  BY <1>1, <1>8 DEF k

---------------------------------------------------------------------------
\* The length of a run of clear bits, and of set bits, counted from a page.
LEMMA LengthOfClearIs ==
  ASSUME pages \in Nat, NEW i \in 0..pages
  PROVE  /\ LengthOfClear(i) \in 0..(pages - i)
         /\ \A j \in i..(i + LengthOfClear(i) - 1) : j \notin bitmap
         /\ i + LengthOfClear(i) = pages \/ i + LengthOfClear(i) \in bitmap
<1> DEFINE S == {k \in 0..(pages - i) : k = pages - i \/ i + k \in bitmap}
<1>1. S \subseteq Nat /\ pages - i \in S
  OBVIOUS
<1>2. Min(S) \in S /\ \A k \in S : Min(S) <= k
  BY <1>1, MinIs
<1>3. LengthOfClear(i) = Min(S)
  BY DEF LengthOfClear
<1>4. ASSUME NEW j \in i..(i + Min(S) - 1) PROVE j \notin bitmap
  <2>1. j - i \in 0..(pages - i) /\ ~(Min(S) <= j - i) /\ i + (j - i) = j
    BY <1>2
  <2>2. j - i \notin S
    BY <1>2, <2>1
  <2> QED
    BY <2>1, <2>2
<1> QED
  BY <1>2, <1>3, <1>4

LEMMA LengthOfSetIs ==
  ASSUME pages \in Nat, NEW i \in 0..pages
  PROVE  /\ LengthOfSet(i) \in 0..(pages - i)
         /\ \A j \in i..(i + LengthOfSet(i) - 1) : j \in bitmap
         /\ i + LengthOfSet(i) = pages \/ i + LengthOfSet(i) \notin bitmap
<1> DEFINE S == {k \in 0..(pages - i) : k = pages - i \/ i + k \notin bitmap}
<1>1. S \subseteq Nat /\ pages - i \in S
  OBVIOUS
<1>2. Min(S) \in S /\ \A k \in S : Min(S) <= k
  BY <1>1, MinIs
<1>3. LengthOfSet(i) = Min(S)
  BY DEF LengthOfSet
<1>4. ASSUME NEW j \in i..(i + Min(S) - 1) PROVE j \in bitmap
  <2>1. j - i \in 0..(pages - i) /\ ~(Min(S) <= j - i) /\ i + (j - i) = j
    BY <1>2
  <2>2. j - i \notin S
    BY <1>2, <2>1
  <2> QED
    BY <2>1, <2>2
<1> QED
  BY <1>2, <1>3, <1>4

\* What find_first_clear() finds is a run of clear pages inside the pool.
LEMMA FitsAreClear ==
  ASSUME pages \in Nat, NEW from \in Nat, NEW count \in Nat \ {0}, NEW r \in Fits(from, count)
  PROVE  /\ r \in Nat /\ r + count <= pages
         /\ (r..(r + count - 1)) \cap bitmap = {}
<1>1. PICK i \in Turns(from, count) : r = i + LengthOfSet(i) /\ LengthOfClear(r) >= count
  BY DEF Fits
<1>2. i \in 0..pages
  BY <1>1 DEF Turns
<1>3. r \in 0..pages
  BY <1>1, <1>2, LengthOfSetIs
<1>4. LengthOfClear(r) \in 0..(pages - r)
      /\ \A j \in r..(r + LengthOfClear(r) - 1) : j \notin bitmap
  BY <1>3, LengthOfClearIs
<1> QED
  BY <1>1, <1>3, <1>4

LEMMA FoundIsClear ==
  ASSUME pages \in Nat, NEW index \in Nat, NEW count \in Nat \ {0},
         FindFirstClear(index, count) # -1
  PROVE  LET r == FindFirstClear(index, count)
         IN  /\ r \in Nat /\ r + count <= pages
             /\ (r..(r + count - 1)) \cap bitmap = {}
<1> DEFINE from == IF index >= pages THEN 0 ELSE index
           S    == Fits(from, count)
<1>1. from \in Nat
  OBVIOUS
<1>2. S # {} /\ FindFirstClear(index, count) = Min(S)
  BY DEF FindFirstClear
<1> HIDE DEF from
<1>3. \A r \in S : /\ r \in Nat /\ r + count <= pages
                   /\ (r..(r + count - 1)) \cap bitmap = {}
  BY <1>1, FitsAreClear
<1> HIDE DEF S
<1>4. Min(S) \in S
  BY <1>2, <1>3, MinIs
<1> QED
  BY <1>2, <1>3, <1>4

\* So is what allocate() takes.
LEMMA SearchIsClear ==
  ASSUME pages \in Nat, hint \in Nat, NEW count \in Nat \ {0}, Search(count) # -1
  PROVE  /\ Search(count) \in Nat /\ Search(count) + count <= pages
         /\ (Search(count)..(Search(count) + count - 1)) \cap bitmap = {}
<1>1. CASE FindFirstClear(hint, count) # -1
  BY <1>1, FoundIsClear DEF Search
<1>2. CASE FindFirstClear(hint, count) = -1
  <2>1. 0 \in Nat /\ Search(count) = FindFirstClear(0, count)
    BY <1>2 DEF Search
  <2> QED
    BY <2>1, FoundIsClear
<1> QED
  BY <1>1, <1>2

---------------------------------------------------------------------------
\* What clients hold and the bookkeeping.
Held == live \cup Metadata(pages)

\* A pool in use: it was made of its region, and its extents are exact and those of the
\* clients are none of the bookkeeping.
PoolInv ==
  /\ region \in Regions
  /\ base = RoundUp(region.address) /\ pages = PoolBytes(region) \div PageSize
  /\ PageSize * pages <= PoolBytes(region)
  /\ pages \in Nat /\ pages >= 8 /\ MapPages(pages) < MaxCount
  /\ map \in [0..(pages - 1) -> 0..MaxCount]
  /\ hint \in -1..pages
  /\ live \cap Metadata(pages) = {}
  /\ Exact(Held, bitmap, map, pages)

NoPool ==
  base = 0 /\ pages = 0 /\ bitmap = {} /\ map = <<>> /\ hint = 0 /\ live = {}

HvInv ==
  /\ IF region = NoRegion THEN NoPool ELSE PoolInv
  /\ failed = FALSE /\ crashed \in BOOLEAN

\* The pool of a region attach() makes one of.
LEMMA RegionIs ==
  ASSUME NEW r \in Regions, PoolBytes(r) \div PageSize >= 3, r.size >= 3 * PageSize,
         ~Unfit(PoolBytes(r) \div PageSize)
  PROVE  LET n == PoolBytes(r) \div PageSize
         IN  /\ n \in Nat /\ n >= 8 /\ MapPages(n) < MaxCount
             /\ r.address \in Nat /\ r.size \in Nat
             /\ PoolBytes(r) \in Nat /\ PageSize * n <= PoolBytes(r)
<1> DEFINE n == PoolBytes(r) \div PageSize
<1>1. PageSize \in Nat \ {0} /\ r.address \in Nat /\ r.size \in Nat
  BY AllocatorAssumption
<1>2. r.address % PageSize \in 0..(PageSize - 1)
  BY <1>1, DivIs
<1>3. PoolBytes(r) \in Nat
  BY <1>1, <1>2 DEF PoolBytes
<1>4. n \in Nat /\ PoolBytes(r) = PageSize * n + (PoolBytes(r) % PageSize)
      /\ PoolBytes(r) % PageSize \in 0..(PageSize - 1)
  BY <1>1, <1>3, DivIs
<1>5. PageSize * n \in Nat
  BY <1>1, <1>4
<1> HIDE DEF n
<1>6. MapPages(n) \in Nat
  <2>1. RoundUp(n) = PageSize * ToPages(n) /\ ToPages(n) \in Nat
    BY <1>4, PagesAre
  <2>2. RoundUp(n) * 2 \in Nat
    BY <1>1, <2>1
  <2> QED
    BY <2>2, PagesAre DEF MapPages
<1>7. MapPages(n) < MaxCount
  BY <1>6, AllocatorAssumption DEF Unfit, n
<1>8. n >= 8
  <2>1. SUFFICES ASSUME n < 8 PROVE FALSE
    BY <1>4
  <2>2. n \div 8 = 0
    BY <1>4, <2>1
  <2>3. ToPages(0) \in Nat /\ PageSize * ToPages(0) <= PageSize - 1
    BY <1>1, PagesAre
  <2>4. ToPages(0) = 0
    <3>1. SUFFICES ASSUME 1 <= ToPages(0) PROVE FALSE
      BY <2>3
    <3>2. PageSize * 1 <= PageSize * ToPages(0)
      BY <1>1, <2>3, <3>1, MulMono
    <3>3. PageSize * ToPages(0) \in Nat
      BY <1>1, <2>3
    <3> QED
      BY <1>1, <2>3, <3>2, <3>3
  <2> QED
    BY <2>2, <2>4 DEF Unfit, BitmapPages, n
<1> QED
  BY <1>1, <1>3, <1>4, <1>5, <1>7, <1>8 DEF n

LEMMA HvInit == Init => HvInv
BY DEF Init, HvInv, NoPool

\* attach(): the two extents of the bookkeeping are the first ones.
LEMMA AttachStep ==
  ASSUME HvInv, NEW r \in Regions, Attach(r)
  PROVE  HvInv'
<1> DEFINE n  == PoolBytes(r) \div PageSize
           x  == [at |-> 0, count |-> BitmapPages(n)]
           y  == [at |-> BitmapPages(n), count |-> MapPages(n)]
           m0 == [i \in 0..(n - 1) |-> 0]
<1>0. CASE Unfit(n)
  <2>1. region = NoRegion /\ UNCHANGED <<region, base, pages, bitmap, map, hint, live, failed>>
        /\ crashed' = TRUE
    BY <1>0 DEF Attach
  <2> QED
    BY <2>1 DEF HvInv, NoPool
<1> SUFFICES ASSUME ~Unfit(n) PROVE HvInv'
  BY <1>0
<1>1. /\ n \in Nat /\ n >= 8 /\ MapPages(n) < MaxCount
      /\ PageSize * n <= PoolBytes(r)
      /\ n >= 3 /\ r.size >= 3 * PageSize
  BY RegionIs DEF Attach
<1>2. /\ BitmapPages(n) \in Nat \ {0} /\ MapPages(n) \in Nat \ {0}
      /\ BitmapPages(n) <= MapPages(n) /\ BitmapPages(n) + MapPages(n) <= n
  BY <1>1, MetadataFits
<1>3. region = NoRegion /\ live = {} /\ live' = {}
  BY DEF Attach, HvInv, NoPool
<1>4. /\ region' = r /\ base' = RoundUp(r.address) /\ pages' = n
      /\ bitmap' = UNION {Extent(z) : z \in Metadata(n)}
      /\ map' = [i \in 0..(n - 1) |-> IF i = 0 THEN BitmapPages(n)
                                       ELSE IF i = BitmapPages(n) THEN MapPages(n) ELSE 0]
      /\ hint' = BitmapPages(n) + MapPages(n)
      /\ failed' = failed /\ crashed' = crashed
  BY DEF Attach
<1>5. Metadata(n) = {x, y}
  BY DEF Metadata
<1> HIDE DEF n
<1>6. Exact({}, {}, m0, n)
  BY <1>1 DEF Exact
<1>7. Exact({x}, Extent(x), [m0 EXCEPT ![0] = BitmapPages(n)], n)
  <2>1. /\ x.at = 0 /\ x.count = BitmapPages(n)
        /\ x.at \in Nat /\ x.count \in Nat \ {0} /\ x.at + x.count <= n
    BY <1>1, <1>2
  <2> HIDE DEF x, m0
  <2>2. Exact({} \cup {x}, {} \cup Extent(x), [m0 EXCEPT ![x.at] = x.count], n)
    BY <1>1, <1>6, <2>1, AddExtent
  <2>3. {} \cup {x} = {x} /\ {} \cup Extent(x) = Extent(x)
    OBVIOUS
  <2> QED
    BY <2>1, <2>2, <2>3
<1>8. Extent(y) \cap Extent(x) = {}
  BY <1>2 DEF Extent
<1>9. Exact({x, y}, Extent(x) \cup Extent(y),
            [[m0 EXCEPT ![0] = BitmapPages(n)] EXCEPT ![BitmapPages(n)] = MapPages(n)], n)
  <2>1. Exact({x} \cup {y}, Extent(x) \cup Extent(y),
              [[m0 EXCEPT ![0] = BitmapPages(n)] EXCEPT ![y.at] = y.count], n)
    BY <1>1, <1>2, <1>7, <1>8, AddExtent
  <2> QED
    BY <2>1
<1>10. [[m0 EXCEPT ![0] = BitmapPages(n)] EXCEPT ![BitmapPages(n)] = MapPages(n)] = map'
  BY <1>1, <1>2, <1>4
<1>11. bitmap' = Extent(x) \cup Extent(y)
  BY <1>4, <1>5
<1>12. Held' = {x, y}
  BY <1>3, <1>4, <1>5 DEF Held
<1>13. Exact(Held', bitmap', map', pages')
  BY <1>4, <1>9, <1>10, <1>11, <1>12
<1>14. map' \in [0..(n - 1) -> 0..MaxCount] /\ hint' \in -1..n
  BY <1>1, <1>2, <1>4, AllocatorAssumption
<1>15. region' # NoRegion
  <2>1. r.size > 0
    BY <1>1, AllocatorAssumption
  <2> QED
    BY <1>4, <2>1 DEF NoRegion
<1>16. PoolInv'
  <2>1. (Exact(Held, bitmap, map, pages))'
    BY <1>13 DEF Exact, Extent
  <2> QED
    BY <1>1, <1>3, <1>4, <1>14, <2>1 DEF PoolInv, n
<1> QED
  BY <1>4, <1>15, <1>16 DEF HvInv

\* What a step that touches the pool must show.
LEMMA PoolStep ==
  ASSUME HvInv, region # NoRegion, UNCHANGED <<region, base, pages, failed>>,
         crashed' \in BOOLEAN,
         map' \in [0..(pages - 1) -> 0..MaxCount], hint' \in -1..pages,
         live' \cap Metadata(pages) = {},
         Exact(live' \cup Metadata(pages), bitmap', map', pages)
  PROVE  HvInv'
<1>1. Exact(Held', bitmap', map', pages')
  BY DEF Held
<1>2. PoolInv'
  BY <1>1 DEF HvInv, PoolInv
<1> QED
  BY <1>2 DEF HvInv

\* allocate().
LEMMA AllocateStep ==
  ASSUME HvInv, NEW size \in Requests, Allocate(size)
  PROVE  HvInv'
<1> DEFINE c == PageCount(size)
           f == Search(c)
<1>1. region # NoRegion /\ PoolInv /\ UNCHANGED <<region, base, pages, failed>>
  BY DEF Allocate, HvInv
<1>2. c \in Nat \ {0}
  BY PageCountIs, AllocatorAssumption
<1>3. Exact(live \cup Metadata(pages), bitmap, map, pages)
  BY <1>1 DEF PoolInv, Held
<1>4. CASE UNCHANGED <<bitmap, map, hint, live>> /\ crashed' \in BOOLEAN
  BY <1>1, <1>3, <1>4, PoolStep DEF PoolInv
<1>5. CASE ~(c > MaxCount - 1) /\ hint # -1 /\ f = -1
  <2>1. UNCHANGED <<bitmap, map, live, crashed>> /\ hint' = -1
    BY <1>5 DEF Allocate
  <2>2. hint' \in -1..pages /\ crashed' \in BOOLEAN
    BY <1>1, <2>1 DEF PoolInv, HvInv
  <2> QED
    BY <1>1, <1>3, <2>1, <2>2, PoolStep DEF PoolInv
<1>6. CASE ~(c > MaxCount - 1) /\ hint # -1 /\ f # -1
  <2> DEFINE x == [at |-> f, count |-> c]
  <2>1. /\ bitmap' = bitmap \cup Extent(x) /\ map' = [map EXCEPT ![x.at] = x.count]
        /\ hint' = f + c /\ live' = live \cup {x} /\ crashed' = crashed
    BY <1>6 DEF Allocate
  <2>2. pages \in Nat /\ hint \in Nat
    BY <1>1, <1>6 DEF PoolInv
  <2>3. f \in Nat /\ f + c <= pages /\ (f..(f + c - 1)) \cap bitmap = {}
    BY <1>2, <1>6, <2>2, SearchIsClear
  <2> HIDE DEF f, c
  <2>4. Extent(x) \cap bitmap = {}
    BY <2>3 DEF Extent
  <2>5. /\ x \notin live \cup Metadata(pages)
        /\ Exact((live \cup Metadata(pages)) \cup {x}, bitmap', map', pages)
    BY <1>2, <1>3, <2>1, <2>2, <2>3, <2>4, AddExtent
  <2>6. live' \cap Metadata(pages) = {}
        /\ live' \cup Metadata(pages) = (live \cup Metadata(pages)) \cup {x}
    BY <1>1, <2>1, <2>5 DEF PoolInv
  <2>7. map' \in [0..(pages - 1) -> 0..MaxCount] /\ hint' \in -1..pages
    <3>1. c \in 0..MaxCount
      BY <1>2, <1>6, AllocatorAssumption
    <3> QED
      BY <1>1, <2>1, <2>2, <2>3, <1>2, <3>1 DEF PoolInv
  <2>8. Exact(live' \cup Metadata(pages), bitmap', map', pages)
    BY <2>5, <2>6
  <2>9. crashed' \in BOOLEAN
    BY <2>1 DEF HvInv
  <2> QED
    BY <1>1, <2>6, <2>7, <2>8, <2>9, PoolStep
<1>7. \/ UNCHANGED <<bitmap, map, hint, live>> /\ crashed' \in BOOLEAN
      \/ ~(c > MaxCount - 1) /\ hint # -1
  BY DEF Allocate, HvInv
<1> QED
  BY <1>4, <1>5, <1>6, <1>7

\* free(): what is not ignored is an extent of a client.
LEMMA FreeStep ==
  ASSUME HvInv, NEW at \in Addresses, Free(at)
  PROVE  HvInv'
<1>1. region # NoRegion /\ PoolInv /\ UNCHANGED <<region, base, pages, hint, failed, crashed>>
  BY DEF Free, HvInv
<1>2. pages \in Nat /\ Exact(live \cup Metadata(pages), bitmap, map, pages)
  BY <1>1 DEF PoolInv, Held
<1>3. hint' \in -1..pages /\ crashed' \in BOOLEAN
  BY <1>1 DEF PoolInv, HvInv
<1>4. CASE Ignored(at)
  <2>1. UNCHANGED <<bitmap, map, live>>
    BY <1>4 DEF Free
  <2> QED
    BY <1>1, <1>2, <1>3, <2>1, PoolStep DEF PoolInv
<1>5. CASE ~Ignored(at)
  <2>1. /\ bitmap' = Cleared(bitmap, map, at) /\ map' = [map EXCEPT ![at] = 0]
        /\ live' = {x \in live : x.at # at}
    BY <1>5 DEF Free
  <2>2. at \in DOMAIN map /\ map[at] # 0
    BY <1>5 DEF Ignored, MapEntry
  <2>3. PICK x \in live \cup Metadata(pages) : x.at = at
    BY <1>2, <2>2 DEF Exact
  <2>4. x \in live /\ x \notin Metadata(pages)
    BY <1>1, <2>3 DEF Addresses, PoolInv
  <2>5. live' = live \ {x}
    <3>1. \A y \in live : y # x => y.at # x.at
      BY <1>2, StartsDiffer
    <3> QED
      BY <2>1, <2>3, <3>1
  <2>6. live' \cup Metadata(pages) = (live \cup Metadata(pages)) \ {x}
        /\ live' \cap Metadata(pages) = {}
    BY <1>1, <2>4, <2>5 DEF PoolInv
  <2>7. Exact(live' \cup Metadata(pages), bitmap', map', pages)
    <3>1. Exact((live \cup Metadata(pages)) \ {x}, Cleared(bitmap, map, x.at),
                [map EXCEPT ![x.at] = 0], pages)
      BY <1>2, RemoveExtent
    <3> QED
      BY <2>1, <2>3, <2>6, <3>1
  <2>8. map' \in [0..(pages - 1) -> 0..MaxCount]
    <3>1. 0 \in 0..MaxCount
      BY AllocatorAssumption
    <3> QED
      BY <1>1, <2>1, <3>1 DEF PoolInv
  <2> QED
    BY <1>1, <1>3, <2>6, <2>7, <2>8, PoolStep
<1> QED
  BY <1>4, <1>5

\* detach() finds nothing but the bookkeeping, and its assertions hold.
LEMMA DetachStep ==
  ASSUME HvInv, Detach
  PROVE  HvInv'
<1> DEFINE x == [at |-> 0, count |-> BitmapPages(pages)]
           y == [at |-> BitmapPages(pages), count |-> MapPages(pages)]
           map1 == [map EXCEPT ![0] = 0]
           map2 == [map1 EXCEPT ![BitmapPages(pages)] = 0]
           bitmap2 == Cleared(Cleared(bitmap, map, 0), map1, BitmapPages(pages))
<1>1. PoolInv /\ live = {}
  BY DEF Detach, HvInv
<1>2. pages \in Nat /\ Held = {x, y} /\ x # y
  <2>1. BitmapPages(pages) \in Nat \ {0}
    BY <1>1, MetadataFits DEF PoolInv
  <2> QED
    BY <1>1, <2>1 DEF PoolInv, Held, Metadata
<1>3. Exact({x, y}, bitmap, map, pages)
  BY <1>1, <1>2 DEF PoolInv
<1>4. Exact({x, y} \ {x}, Cleared(bitmap, map, x.at), [map EXCEPT ![x.at] = 0], pages)
  BY <1>2, <1>3, RemoveExtent
<1>5. Exact({y}, Cleared(bitmap, map, 0), map1, pages)
  <2>1. {x, y} \ {x} = {y}
    BY <1>2
  <2> QED
    BY <1>4, <2>1
<1>6. Exact({y} \ {y}, Cleared(Cleared(bitmap, map, 0), map1, y.at),
            [map1 EXCEPT ![y.at] = 0], pages)
  BY <1>2, <1>5, RemoveExtent
<1>7. bitmap2 = {} /\ \A i \in DOMAIN map2 : map2[i] = 0
  <2>1. Exact({}, bitmap2, map2, pages)
    BY <1>6
  <2> HIDE DEF bitmap2, map2
  <2> QED
    BY <2>1 DEF Exact
<1>8. DOMAIN map2 = DOMAIN map
  OBVIOUS
<1>9. failed' = (bitmap2 # {} \/ \E i \in DOMAIN map : map2[i] # 0)
  BY DEF Detach
<1>10. failed' = FALSE
  <2> HIDE DEF bitmap2, map2
  <2> QED
    BY <1>7, <1>8, <1>9
<1>11. region' = NoRegion /\ NoPool' /\ crashed' = crashed
  BY <1>1 DEF Detach, NoPool
<1> QED
  BY <1>10, <1>11 DEF HvInv

\* The inductive invariant holds in every behaviour.
THEOREM AllocatorInvariance == Spec => []HvInv
<1>1. HvInv /\ [Next]_vars => HvInv'
  <2> SUFFICES ASSUME HvInv, [Next]_vars PROVE HvInv'
    OBVIOUS
  <2>1. CASE UNCHANGED vars
    BY <2>1 DEF vars, HvInv, PoolInv, NoPool, Held
  <2> QED
    BY <2>1, AttachStep, AllocateStep, FreeStep, DetachStep DEF Next
<1> QED
  BY <1>1, HvInit, PTL DEF Spec

\* Type correctness: the bitmap and the map stay inside the pool, and so does the hint.
THEOREM AllocatorTypeCorrect == Spec => []TypeOK
<1>1. HvInv => TypeOK
  <2> SUFFICES ASSUME HvInv PROVE TypeOK
    OBVIOUS
  <2>1. CASE region = NoRegion
    <3>1. /\ base = 0 /\ pages = 0 /\ bitmap = {} /\ map = <<>> /\ hint = 0
          /\ failed \in BOOLEAN /\ crashed \in BOOLEAN
      BY <2>1 DEF HvInv, NoPool
    <3>2. DOMAIN map = {} /\ hint \in -1..pages /\ bitmap \subseteq 0..(pages - 1)
      BY <3>1
    <3> QED
      BY <2>1, <3>1, <3>2 DEF TypeOK
  <2>2. CASE region # NoRegion
    <3>1. PoolInv /\ pages \in Nat
      BY <2>2 DEF HvInv, PoolInv
    <3>2. base \in Nat
      <4>1. region.address \in Nat /\ base = RoundUp(region.address)
        BY <3>1, AllocatorAssumption DEF PoolInv
      <4>2. RoundUp(region.address) = PageSize * ToPages(region.address)
            /\ ToPages(region.address) \in Nat /\ PageSize \in Nat
        BY <4>1, PagesAre, AllocatorAssumption
      <4> QED
        BY <4>1, <4>2
    <3>3. bitmap \subseteq 0..(pages - 1)
      <4>1. Exact(Held, bitmap, map, pages)
        BY <3>1 DEF PoolInv
      <4>2. \A x \in Held : Extent(x) \subseteq 0..(pages - 1)
        BY <3>1, <4>1, FirstPage
      <4> QED
        BY <4>1, <4>2 DEF Exact
    <3> QED
      BY <2>2, <3>1, <3>2, <3>3 DEF HvInv, PoolInv, TypeOK
  <2> QED
    BY <2>1, <2>2
<1> QED
  BY <1>1, AllocatorInvariance, PTL

\* Where a pool of n pages ends that begins with the first whole page of a region.
LEMMA PoolEnd ==
  ASSUME NEW p \in Nat \ {0}, NEW a \in Nat, NEW s \in Nat, NEW q \in Nat, NEW n \in Nat,
         NEW d \in Nat, NEW f \in 0..(p - 1), NEW o \in 0..(p - 1),
         a <= p * q, p * q <= a + p - 1, a = p * d + f, s - f = p * n + o
  PROVE  /\ p * q + p * (n - 1) <= a + s
         /\ p * q + p * n <= a + s <=> f = 0 \/ 2 * f + o >= p
<1>1. p * q \in Nat /\ p * d \in Nat /\ p * n \in Nat
  OBVIOUS
<1>2. p * (n - 1) = p * n - p /\ p * (d + 1) = p * d + p
  OBVIOUS
<1>3. CASE f = 0
  <2>1. q <= d
    <3>1. SUFFICES ASSUME d + 1 <= q PROVE FALSE
      OBVIOUS
    <3>2. p * (d + 1) <= p * q
      BY <3>1, MulMono
    <3> QED
      BY <1>1, <1>2, <1>3, <3>2
  <2>2. p * q <= p * d
    BY <2>1, MulMono
  <2>3. p * q + p * n <= a + s
    BY <1>1, <1>3, <2>2
  <2> QED
    BY <1>1, <1>2, <1>3, <2>3
<1>4. CASE f > 0
  <2>1. p * q = p * d + p
    <3>1. d + 1 <= q
      <4>1. SUFFICES ASSUME q <= d PROVE FALSE
        OBVIOUS
      <4>2. p * q <= p * d
        BY <4>1, MulMono
      <4> QED
        BY <1>1, <1>4, <4>2
    <3>2. q <= d + 1
      <4>1. SUFFICES ASSUME d + 2 <= q PROVE FALSE
        OBVIOUS
      <4>2. p * (d + 2) <= p * q /\ p * (d + 2) = p * d + 2 * p
        BY <4>1, MulMono
      <4> QED
        BY <1>1, <4>2
    <3>3. q = d + 1
      BY <3>1, <3>2
    <3> QED
      BY <1>2, <3>3
  <2> QED
    BY <1>1, <1>2, <1>4, <2>1
<1> QED
  BY <1>3, <1>4

\* The pool begins in the memory attach() was given and only its last page can stick out
\* of it: in memory that is not aligned, for the sizes PoolInside names, and for no others.
THEOREM PoolStaysInside == Spec => []PoolInside
<1>1. HvInv => PoolInside
  <2> DEFINE a == region.address
             s == region.size
             q == ToPages(a)
             f == region.address % PageSize
             o == PoolBytes(region) % PageSize
             d == region.address \div PageSize
  <2> SUFFICES ASSUME HvInv, region # NoRegion
               PROVE  /\ base >= a /\ base % PageSize = 0
                      /\ base + (pages - 1) * PageSize <= a + s
                      /\ base + pages * PageSize <= a + s <=> f = 0 \/ 2 * f + o >= PageSize
    BY DEF PoolInside
  <2>1. PageSize \in Nat \ {0} /\ a \in Nat /\ s \in Nat /\ pages \in Nat
    BY AllocatorAssumption DEF HvInv, PoolInv
  <2>2. /\ base = PageSize * q /\ q \in Nat
        /\ a <= PageSize * q /\ PageSize * q <= a + PageSize - 1
    BY <2>1, PagesAre DEF HvInv, PoolInv
  <2>3. d \in Nat /\ f \in 0..(PageSize - 1) /\ a = PageSize * d + f
    BY <2>1, DivIs
  <2>4. PoolBytes(region) = s - f /\ PoolBytes(region) \in Nat
    <3>1. PoolBytes(region) = s - f
      BY DEF PoolBytes
    <3>2. PageSize * pages \in Nat /\ PageSize * pages <= PoolBytes(region)
      BY <2>1 DEF HvInv, PoolInv
    <3>3. PoolBytes(region) \in Int
      <4> HIDE DEF a, s, f
      <4> QED
        BY <2>1, <2>3, <3>1
    <3> HIDE DEF a, s, q, f, o, d
    <3> QED
      BY <3>1, <3>2, <3>3
  <2>5. s - f = PageSize * pages + o /\ o \in 0..(PageSize - 1)
    <3>1. pages = PoolBytes(region) \div PageSize
      BY DEF HvInv, PoolInv
    <3> QED
      BY <2>1, <2>4, <3>1, DivIs
  <2> HIDE DEF a, s, q, f, o, d
  <2>6. /\ PageSize * q + PageSize * (pages - 1) <= a + s
        /\ PageSize * q + PageSize * pages <= a + s <=> f = 0 \/ 2 * f + o >= PageSize
    BY <2>1, <2>2, <2>3, <2>5, PoolEnd
  <2>7. (PageSize * q) % PageSize = 0
    BY <2>1, <2>2, MultipleIs
  <2>8. pages * PageSize = PageSize * pages /\ (pages - 1) * PageSize = PageSize * (pages - 1)
    BY <2>1
  <2> QED
    BY <2>2, <2>6, <2>7, <2>8
<1> QED
  BY <1>1, AllocatorInvariance, PTL

\* No page belongs to two extents, none is lost, and detach() finds the pool empty.
THEOREM ExtentsStayExact == Spec => []ExtentsExact
<1>1. HvInv => ExtentsExact
  BY DEF HvInv, PoolInv, Held, Exact, ExtentsExact
<1> QED
  BY <1>1, AllocatorInvariance, PTL

---------------------------------------------------------------------------
\* A free run of count pages is found by a search from the beginning, if the first page
\* is taken: the run it is part of begins behind a set bit.
LEMMA FitsFromStart ==
  ASSUME pages \in Nat, 0 \in bitmap, NEW count \in Nat \ {0}, NEW i \in Nat,
         i + count <= pages, (i..(i + count - 1)) \cap bitmap = {}
  PROVE  Fits(0, count) # {}
<1> DEFINE R == {j \in 0..i : \A k \in j..i : k \notin bitmap}
<1>1. i \in R /\ R \subseteq Nat
  OBVIOUS
<1>2. PICK r \in R : \A j \in R : r <= j
  BY <1>1, SmallestOf
<1>3. /\ r \in 0..i /\ r # 0 /\ r - 1 \in bitmap
      /\ \A k \in r..i : k \notin bitmap
  <2>1. r \in 0..i /\ r # 0 /\ \A k \in r..i : k \notin bitmap
    OBVIOUS
  <2>2. r - 1 \in 0..i /\ r - 1 \notin R
    BY <1>2, <2>1
  <2>3. PICK k \in (r - 1)..i : k \in bitmap
    BY <2>2
  <2>4. k = r - 1
    BY <2>1, <2>3
  <2> QED
    BY <2>1, <2>3, <2>4
<1> HIDE DEF R
<1> DEFINE S == {j \in 0..(r - 1) : j = 0 \/ j - 1 \notin bitmap}
<1>4. 0 \in S /\ S \subseteq Nat /\ r - 1 \in Nat /\ \A j \in S : j <= r - 1
  BY <1>3
<1>5. PICK s \in S : \A j \in S : j <= s
  BY <1>4, LargestOf
<1>6. s \in 0..(r - 1) /\ (s = 0 \/ s - 1 \notin bitmap)
  OBVIOUS
<1>7. ASSUME NEW j \in s..(r - 1) PROVE j \in bitmap
  <2>1. SUFFICES ASSUME j \notin bitmap PROVE FALSE
    OBVIOUS
  <2>2. j # r - 1 /\ j + 1 \in 0..(r - 1) /\ (j + 1) - 1 = j
    BY <1>3, <1>6, <2>1
  <2>3. j + 1 \in S
    BY <2>1, <2>2
  <2> QED
    BY <1>5, <1>6, <2>2, <2>3
<1> HIDE DEF S
<1>8. s \in Turns(0, count)
  <2>1. s \in 0..(pages - count - 1) /\ s \in bitmap
    BY <1>3, <1>6, <1>7
  <2> QED
    BY <1>6, <2>1 DEF Turns
<1>9. s + LengthOfSet(s) = r
  <2>1. s \in 0..pages /\ r \in 0..pages /\ r \notin bitmap
    BY <1>3, <1>6
  <2>2. /\ LengthOfSet(s) \in 0..(pages - s)
        /\ \A j \in s..(s + LengthOfSet(s) - 1) : j \in bitmap
        /\ s + LengthOfSet(s) = pages \/ s + LengthOfSet(s) \notin bitmap
    BY <2>1, LengthOfSetIs
  <2>3. ~(s + LengthOfSet(s) > r)
    BY <1>6, <2>1, <2>2
  <2>4. ~(s + LengthOfSet(s) < r)
    BY <1>6, <1>7, <2>1, <2>2
  <2> QED
    BY <1>6, <2>1, <2>2, <2>3, <2>4
<1>10. LengthOfClear(r) >= count
  <2>1. r \in 0..pages
    BY <1>3
  <2>2. /\ LengthOfClear(r) \in 0..(pages - r)
        /\ r + LengthOfClear(r) = pages \/ r + LengthOfClear(r) \in bitmap
    BY <2>1, LengthOfClearIs
  <2>3. \A k \in r..(i + count - 1) : k \notin bitmap
    BY <1>3
  <2> QED
    BY <1>3, <2>1, <2>2, <2>3
<1> QED
  BY <1>8, <1>9, <1>10 DEF Fits

\* A request fails only when no run of free pages is long enough for it.
THEOREM FailureMeansFull == Spec => FailsOnlyWhenFull
<1>1. ASSUME HvInv, NEW size \in Requests, Allocate(size), hint' = -1, hint # -1,
             NEW i \in 0..(pages - PageCount(size))
      PROVE  (i..(i + PageCount(size) - 1)) \cap bitmap # {}
  <2> DEFINE c == PageCount(size)
  <2>1. PoolInv /\ c \in Nat \ {0}
    BY <1>1, PageCountIs, AllocatorAssumption DEF Allocate, HvInv
  <2>2. pages \in Nat /\ hint \in Nat
    BY <1>1, <2>1 DEF PoolInv
  <2>3. Search(c) = -1
    <3>1. SUFFICES ASSUME Search(c) # -1 PROVE FALSE
      OBVIOUS
    <3>2. hint' = hint \/ hint' = Search(c) + c
      BY <1>1, <3>1 DEF Allocate
    <3>3. Search(c) \in Nat
      BY <2>1, <2>2, <3>1, SearchIsClear
    <3> QED
      BY <1>1, <2>1, <3>2, <3>3
  <2>4. Fits(0, c) = {}
    <3>1. FindFirstClear(0, c) = -1
      BY <2>3 DEF Search
    <3>2. SUFFICES ASSUME Fits(0, c) # {} PROVE FALSE
      OBVIOUS
    <3>3. FindFirstClear(0, c) = Min(Fits(0, c))
      BY <3>2, <2>2 DEF FindFirstClear
    <3>4. Fits(0, c) \subseteq Nat
      <4>1. 0 \in Nat
        OBVIOUS
      <4> QED
        BY <2>1, <2>2, <4>1, FitsAreClear
    <3>5. Min(Fits(0, c)) \in Nat
      BY <3>2, <3>4, MinIs
    <3> QED
      BY <3>1, <3>3, <3>5
  <2>5. 0 \in bitmap
    <3>1. [at |-> 0, count |-> BitmapPages(pages)] \in Held
      BY DEF Held, Metadata
    <3>2. Exact(Held, bitmap, map, pages)
      BY <2>1 DEF PoolInv
    <3> QED
      BY <2>2, <3>1, <3>2, FirstPage
  <2> HIDE DEF c
  <2>6. i \in Nat /\ i + c <= pages
    BY <1>1, <2>1, <2>2 DEF c
  <2>7. (i..(i + c - 1)) \cap bitmap # {}
    BY <2>1, <2>2, <2>4, <2>5, <2>6, FitsFromStart
  <2> QED
    BY <2>7 DEF c
<1>2. HvInv /\ [Next]_vars =>
        [\A size \in Requests :
           Allocate(size) /\ hint' = -1 /\ hint # -1 =>
             \A i \in 0..(pages - PageCount(size)) :
               (i..(i + PageCount(size) - 1)) \cap bitmap # {}]_vars
  BY <1>1
<1> QED
  BY <1>2, AllocatorInvariance, PTL DEF Spec, FailsOnlyWhenFull
=============================================================================
