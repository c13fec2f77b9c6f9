-------------------------------- MODULE EptProofs --------------------------------
(***************************************************************************)
(* Proofs about Ept, for any fan-out, any memory and any calls: the tables *)
(* are a tree from which nothing leaks, and ept_t implements EptMap.       *)
(***************************************************************************)
EXTENDS Ept, NumberProofs

---------------------------------------------------------------------------
(***************************************************************************)
(* Blocks.  The blocks of a level are numbered; the entry for block b of a *)
(* level is entry b % F of the table for block b \div F of the level above.*)
(***************************************************************************)
F == Fanout

\* The block a page lies in, and the block its table at a level covers.
Blk(p, l)   == p \div Size[l]
Above(p, l) == IF l = 4 THEN 0 ELSE Blk(p, l + 1)

LEMMA SizeIs ==
  /\ Size[1] = 1 /\ Size[2] = F /\ Size[3] = F * F /\ Size[4] = F * F * F
  /\ \A l \in 1..3 : Size[l + 1] = Size[l] * F
<1>1. Size[1] = 1 /\ Size[2] = F /\ Size[3] = F * F /\ Size[4] = F * F * F
  BY DEF Size, F
<1>2. F \in Nat
  BY EptAssumption DEF F
<1>3. \A l \in 1..3 : l = 1 \/ l = 2 \/ l = 3
  OBVIOUS
<1> QED
  BY <1>1, <1>2, <1>3

LEMMA FanoutIs == F \in Nat \ {0, 1} /\ \A l \in 1..4 : Size[l] \in Nat \ {0}
<1>1. F \in Nat \ {0, 1}
  BY EptAssumption DEF F
<1>2. \A x, y \in Nat \ {0} : x * y \in Nat \ {0}
  OBVIOUS
<1>3. F * F \in Nat \ {0}
  BY <1>1, <1>2
<1>4. (F * F) * F \in Nat \ {0}
  BY <1>1, <1>2, <1>3
<1>5. \A l \in 1..4 : l = 1 \/ l = 2 \/ l = 3 \/ l = 4
  OBVIOUS
<1> QED
  BY <1>1, <1>3, <1>4, <1>5, SizeIs

LEMMA PagesAre ==
  /\ Pages \in Nat \ {0} /\ Pages <= F * (F * F * F)
  /\ \E m \in Nat : Pages = (F * F) * m
<1>1. Pages \in Nat \ {0} /\ Pages % (F * F) = 0 /\ Pages <= F * (F * F * F)
  BY MemoryAssumption, SizeIs DEF pml4, F
<1>2. F * F \in Nat \ {0}
  BY FanoutIs, SizeIs
<1>3. Pages \div (F * F) \in Nat /\ Pages = (F * F) * (Pages \div (F * F)) + (Pages % (F * F))
  BY <1>1, <1>2, DivIs
<1> QED
  BY <1>1, <1>2, <1>3

LEMMA CellIs ==
  ASSUME NEW a \in Nat, NEW b \in 0..(F - 1), NEW c \in Nat, NEW d \in 0..(F - 1),
         F * a + b = F * c + d
  PROVE  a = c /\ b = d
<1>1. F \in Nat \ {0}
  BY FanoutIs
<1>2. (F * a + b) \div F = a /\ (F * a + b) % F = b
  BY <1>1, QuotientIs
<1>3. (F * c + d) \div F = c /\ (F * c + d) % F = d
  BY <1>1, QuotientIs
<1> QED
  BY <1>2, <1>3

\* Dividing twice is dividing by the product.
LEMMA DivTwice ==
  ASSUME NEW s \in Nat \ {0}, NEW p \in Nat
  PROVE  p \div (s * F) = (p \div s) \div F
<1> DEFINE a == p \div s
           r == p % s
           b == a \div F
           i == a % F
<1>1. F \in Nat \ {0} /\ s * F \in Nat \ {0}
  <2>1. \A x, y \in Nat \ {0} : x * y \in Nat \ {0}
    OBVIOUS
  <2> QED
    BY <2>1, FanoutIs
<1>2. a \in Nat /\ r \in 0..(s - 1) /\ p = s * a + r
  BY DivIs
<1>3. b \in Nat /\ i \in 0..(F - 1) /\ a = F * b + i
  BY <1>1, <1>2, DivIs
<1> HIDE DEF a, r, b, i
<1>4. s * i <= s * (F - 1) /\ s * i \in Nat
  BY <1>1, <1>3, MulMono
<1>5. s * (F - 1) = s * F - s
  BY <1>1
<1>6. s * i + r \in 0..(s * F - 1)
  BY <1>1, <1>2, <1>4, <1>5
<1>7. p = (s * F) * b + (s * i + r)
  <2>1. s * (F * b + i) = (s * F) * b + s * i
    BY <1>1, <1>3
  <2> QED
    BY <1>1, <1>2, <1>3, <2>1
<1>8. p \div (s * F) = b
  BY <1>1, <1>3, <1>6, <1>7, QuotientIs
<1> QED
  BY <1>8 DEF a, b

LEMMA PageIs ==
  ASSUME NEW p \in Page
  PROVE  /\ p \in Nat /\ Blk(p, 1) = p
         /\ \A l \in 1..4 : /\ Blk(p, l) \in Nat /\ Above(p, l) \in Nat
                            /\ Index(p, l) \in 0..(F - 1)
                            /\ Blk(p, l) = F * Above(p, l) + Index(p, l)
<1>1. p \in Nat /\ p < Pages /\ Pages \in Nat /\ F \in Nat \ {0}
  BY PagesAre, FanoutIs DEF Page
<1>2. Blk(p, 1) = p
  BY <1>1, SizeIs DEF Blk
<1>3. \A l \in 1..4 : Blk(p, l) \in Nat
  BY <1>1, FanoutIs, DivIs DEF Blk
<1>4. \A l \in 1..4 : Index(p, l) = Blk(p, l) % F
  BY DEF Index, Blk, F
<1>5. ASSUME NEW l \in 1..3 PROVE Above(p, l) = Blk(p, l) \div F
  <2>1. Size[l] \in Nat \ {0} /\ Size[l + 1] = Size[l] * F /\ l # 4
    BY FanoutIs, SizeIs
  <2>2. p \div (Size[l] * F) = (p \div Size[l]) \div F
    BY <1>1, <2>1, DivTwice
  <2> QED
    BY <2>1, <2>2 DEF Above, Blk
<1>6. Blk(p, 4) \div F = 0
  <2>1. Blk(p, 4) = p \div (F * F * F) /\ F * F * F \in Nat \ {0}
    BY FanoutIs, SizeIs DEF Blk
  <2> DEFINE c == F * F * F
             q == p \div c
  <2>2. q \in Nat /\ p = c * q + (p % c) /\ p % c \in 0..(c - 1)
    BY <1>1, <2>1, DivIs
  <2>3. p < F * c
    BY <1>1, <2>1, PagesAre
  <2>4. q < F
    <3> DEFINE r == p % c
    <3>a. q \in Nat /\ p = c * q + r /\ r \in 0..(c - 1)
      BY <2>2
    <3> HIDE DEF c, q, r
    <3>0. c \in Nat \ {0}
      BY <2>1 DEF c
    <3>b. c * F = F * c /\ c * F \in Nat /\ c * q \in Nat
      BY <1>1, <3>0, <3>a
    <3>1. SUFFICES ASSUME F <= q PROVE FALSE
      BY <1>1, <2>2
    <3>2. c * F <= c * q
      BY <1>1, <3>0, <3>1, <3>a, MulMono
    <3> DEFINE x == c * q
               y == F * c
    <3>3. p \in Nat /\ x \in Nat /\ y \in Nat /\ p = x + r /\ y <= x /\ p < y /\ r \in Nat
      BY <1>1, <2>3, <3>2, <3>a, <3>b
    <3> HIDE DEF x, y
    <3> QED
      BY <3>3
  <2>5. q \in 0..(F - 1)
    BY <1>1, <2>2, <2>4
  <2>6. q \div F = 0
    <3> HIDE DEF q
    <3>1. F * 0 + q = q /\ 0 \in Nat
      BY <1>1, <2>5
    <3>2. (F * 0 + q) \div F = 0
      BY <1>1, <2>5, <3>1, QuotientIs
    <3> QED
      BY <3>1, <3>2
  <2> QED
    BY <2>1, <2>6
<1>7. ASSUME NEW l \in 1..4
      PROVE  Above(p, l) \in Nat /\ Index(p, l) \in 0..(F - 1)
             /\ Blk(p, l) = F * Above(p, l) + Index(p, l)
  <2>1. Above(p, l) = Blk(p, l) \div F
    <3>1. CASE l = 4
      BY <1>6, <3>1 DEF Above
    <3>2. CASE l # 4
      BY <1>5, <3>2
    <3> QED
      BY <3>1, <3>2
  <2>2. Blk(p, l) \in Nat /\ Index(p, l) = Blk(p, l) % F
    BY <1>3, <1>4
  <2> QED
    BY <1>1, <2>1, <2>2, DivIs
<1> QED
  BY <1>1, <1>2, <1>3, <1>7

\* Pages of one block lie in one block of every level above.
LEMMA SameAbove ==
  ASSUME NEW p \in Page, NEW q \in Page, NEW l \in 1..4, Blk(p, l) = Blk(q, l)
  PROVE  Above(p, l) = Above(q, l) /\ Index(p, l) = Index(q, l)
<1>1. /\ Above(p, l) \in Nat /\ Index(p, l) \in 0..(F - 1)
      /\ Blk(p, l) = F * Above(p, l) + Index(p, l)
      /\ Above(q, l) \in Nat /\ Index(q, l) \in 0..(F - 1)
      /\ Blk(q, l) = F * Above(q, l) + Index(q, l)
  BY PageIs
<1>2. F * Above(p, l) + Index(p, l) = F * Above(q, l) + Index(q, l)
  BY <1>1
<1> QED
  BY <1>1, <1>2, CellIs

LEMMA SameBlocks ==
  ASSUME NEW p \in Page, NEW q \in Page, NEW l \in 1..4, NEW m \in l..4, Blk(p, l) = Blk(q, l)
  PROVE  Blk(p, m) = Blk(q, m)
<1>1. ASSUME NEW j \in 1..3, Blk(p, j) = Blk(q, j) PROVE Blk(p, j + 1) = Blk(q, j + 1)
  <2>1. Above(p, j) = Above(q, j) /\ j # 4 /\ j \in 1..4
    BY <1>1, SameAbove
  <2> QED
    BY <2>1 DEF Above
<1>2. l = 1 => Blk(p, 2) = Blk(q, 2)
  BY <1>1
<1>3. l \in 1..2 => Blk(p, 3) = Blk(q, 3)
  BY <1>1, <1>2
<1>4. l \in 1..3 => Blk(p, 4) = Blk(q, 4)
  BY <1>1, <1>3
<1> QED
  BY <1>2, <1>3, <1>4

---------------------------------------------------------------------------
(***************************************************************************)
(* Trees.  A ghost k says of each table which level it is of and which     *)
(* block it covers.                                                        *)
(***************************************************************************)
Key == [level : 1..4, block : Nat]

Base(e) ==
  /\ DOMAIN e = {"tables", "fault"} /\ ~e.fault
  /\ Root \in DOMAIN e.tables /\ DOMAIN e.tables \subseteq Tables \cup {Root}
  /\ \A t \in DOMAIN e.tables : DOMAIN e.tables[t] = 0..(F - 1)

Node(e, k, t) ==
  /\ k[t].level \in 1..4 /\ k[t].block \in Nat
  /\ k[t].level = 4 <=> t = Root
  /\ t = Root => k[t].block = 0
  /\ t # Root => \E u \in DOMAIN e.tables, i \in 0..(F - 1) : e.tables[u][i] = TableEntry(t)

\* The shapes an entry of a level may have.
PageAt(x, l) ==
  /\ x.kind = "page" /\ l # 4 /\ (IsLarge(x) <=> l # 1)
  /\ x.host \in Nat /\ x.large \in BOOLEAN /\ x.access \in Rights \cup {RWX}
  /\ \E p \in Page : x.type = MemType[p]

TableAt(x, e, k, l, b) ==
  /\ x.kind = "table" /\ x = TableEntry(x.to) /\ x.to \in DOMAIN e.tables
  /\ k[x.to].level = l - 1 /\ k[x.to].block = b

Fits(x, e, k, l, b) ==
  /\ x = Absent \/ PageAt(x, l) \/ TableAt(x, e, k, l, b)
  /\ x.kind # "none" => \E p \in Page : Blk(p, l) = b

Nodes(e, k) == \A t \in DOMAIN e.tables : Node(e, k, t)

Distinct(e, k) ==
  \A t, u \in DOMAIN e.tables :
    k[t].level = k[u].level /\ k[t].block = k[u].block => t = u

Entries(e, k) ==
  \A t \in DOMAIN e.tables, i \in 0..(F - 1) :
    Fits(e.tables[t][i], e, k, k[t].level, F * k[t].block + i)

Tree(e, k) == Base(e) /\ Nodes(e, k) /\ Distinct(e, k) /\ Entries(e, k)

\* t is the table of level l on the way to page p, and the entry for p in it.
At(e, k, t, l, p) == t \in DOMAIN e.tables /\ k[t].level = l /\ k[t].block = Above(p, l)
For(e, t, l, p)   == e.tables[t][Index(p, l)]

LEMMA Unique ==
  ASSUME NEW e, NEW k, Tree(e, k), NEW l, NEW p, NEW t, NEW u,
         At(e, k, t, l, p), At(e, k, u, l, p)
  PROVE  t = u
BY DEF Tree, Distinct, At

LEMMA RootAt ==
  ASSUME NEW e, NEW k, Tree(e, k), NEW p
  PROVE  At(e, k, Root, 4, p)
BY DEF Tree, Base, Nodes, Node, At, Above

\* What may be in the entry for a page.
LEMMA ForFits ==
  ASSUME NEW e, NEW k, Tree(e, k), NEW p \in Page, NEW l \in 1..4, NEW t, At(e, k, t, l, p)
  PROVE  Fits(For(e, t, l, p), e, k, l, Blk(p, l))
<1>1. Index(p, l) \in 0..(F - 1) /\ Blk(p, l) = F * Above(p, l) + Index(p, l)
  BY PageIs
<1>2. t \in DOMAIN e.tables /\ k[t].level = l /\ k[t].block = Above(p, l)
  BY DEF At
<1> QED
  BY <1>1, <1>2 DEF Tree, Entries, For

LEMMA Kinds ==
  ASSUME NEW e, NEW k, NEW x, NEW l, NEW b, Fits(x, e, k, l, b)
  PROVE  /\ x.kind \in {"none", "page", "table"}
         /\ x.kind = "none" => x = Absent
         /\ x.kind = "page" => PageAt(x, l)
         /\ x.kind = "table" => TableAt(x, e, k, l, b) /\ ~IsLarge(x)
         /\ IsLarge(x) => x.kind = "page"
BY DEF Fits, PageAt, TableAt, Absent, IsLarge

LEMMA TableKind ==
  ASSUME NEW t
  PROVE  TableEntry(t).kind = "table" /\ TableEntry(t).to = t /\ Absent.kind = "none"
BY DEF TableEntry, Absent

\* One level down.
LEMMA Child ==
  ASSUME NEW e, NEW k, Tree(e, k), NEW p \in Page, NEW l \in 1..4, NEW t, At(e, k, t, l, p),
         For(e, t, l, p).kind = "table"
  PROVE  /\ l \in 2..4 /\ l - 1 \in 1..3
         /\ For(e, t, l, p) = TableEntry(For(e, t, l, p).to)
         /\ At(e, k, For(e, t, l, p).to, l - 1, p)
<1> DEFINE x == For(e, t, l, p)
           u == x.to
<1>1. x = TableEntry(u) /\ u \in DOMAIN e.tables /\ k[u].level = l - 1 /\ k[u].block = Blk(p, l)
  <2>1. Fits(x, e, k, l, Blk(p, l))
    BY ForFits
  <2> QED
    BY <2>1, Kinds DEF TableAt
<1>2. k[u].level \in 1..4
  BY <1>1 DEF Tree, Nodes, Node
<1>3. l \in 2..4 /\ l - 1 \in 1..3
  BY <1>1, <1>2
<1>4. Above(p, l - 1) = Blk(p, l)
  BY <1>3 DEF Above
<1> QED
  BY <1>1, <1>3, <1>4 DEF At

\* One level up.
LEMMA Parent ==
  ASSUME NEW e, NEW k, Tree(e, k), NEW p \in Page, NEW l \in 1..3, NEW u, At(e, k, u, l, p)
  PROVE  \E t : At(e, k, t, l + 1, p) /\ For(e, t, l + 1, p) = TableEntry(u)
<1>1. u \in DOMAIN e.tables /\ k[u].level = l /\ k[u].block = Blk(p, l + 1)
  BY DEF At, Above
<1>2. u # Root
  BY <1>1 DEF Tree, Nodes, Node
<1>3. PICK t \in DOMAIN e.tables, i \in 0..(F - 1) : e.tables[t][i] = TableEntry(u)
  BY <1>1, <1>2 DEF Tree, Nodes, Node
<1>4. k[t].level \in 1..4 /\ k[t].block \in Nat
  BY <1>3 DEF Tree, Nodes, Node
<1>5. k[u].level = k[t].level - 1 /\ k[u].block = F * k[t].block + i
  <2>1. Fits(e.tables[t][i], e, k, k[t].level, F * k[t].block + i)
    BY <1>3 DEF Tree, Entries
  <2>2. e.tables[t][i].kind = "table" /\ e.tables[t][i].to = u
    BY <1>3, TableKind
  <2> QED
    BY <2>1, <2>2, Kinds DEF TableAt
<1>6. k[t].level = l + 1 /\ l + 1 \in 1..4
  BY <1>1, <1>4, <1>5
<1>7. /\ Above(p, l + 1) \in Nat /\ Index(p, l + 1) \in 0..(F - 1)
      /\ Blk(p, l + 1) = F * Above(p, l + 1) + Index(p, l + 1)
  BY <1>6, PageIs
<1>8. F * k[t].block + i = F * Above(p, l + 1) + Index(p, l + 1)
  BY <1>1, <1>5, <1>7
<1>9. k[t].block = Above(p, l + 1) /\ i = Index(p, l + 1)
  BY <1>4, <1>7, <1>8, CellIs
<1> QED
  BY <1>3, <1>6, <1>9 DEF At, For

\* All the way up: every table above one on the way to p is on it, and leads down to it.
LEMMA Ancestor ==
  ASSUME NEW e, NEW k, Tree(e, k), NEW p \in Page, NEW l \in 1..3, NEW u, At(e, k, u, l, p),
         NEW m \in (l + 1)..4
  PROVE  \E t : At(e, k, t, m, p) /\ For(e, t, m, p).kind = "table"
<1> DEFINE Leads(j) == \E t : At(e, k, t, j, p) /\ For(e, t, j, p).kind = "table"
<1>1. Leads(l + 1)
  BY Parent, TableKind
<1>2. ASSUME NEW j \in 1..3, Leads(j) PROVE Leads(j + 1)
  BY <1>2, Parent, TableKind
<1> HIDE DEF Leads
<1>3. l = 1 => Leads(2) /\ Leads(3) /\ Leads(4)
  BY <1>1, <1>2
<1>4. l = 2 => Leads(3) /\ Leads(4)
  BY <1>1, <1>2
<1>5. l = 3 => Leads(4)
  BY <1>1
<1>6. Leads(m)
  BY <1>3, <1>4, <1>5
<1> QED
  BY <1>6 DEF Leads

\* Where the walk for a page ends.
End(e, k, t, l, p) == At(e, k, t, l, p) /\ For(e, t, l, p).kind # "table"

LEMMA WalkEnds ==
  ASSUME NEW e, NEW k, Tree(e, k), NEW p \in Page
  PROVE  \E l \in 1..4, t \in DOMAIN e.tables : End(e, k, t, l, p)
<1> DEFINE Reaches(j) == \E t : At(e, k, t, j, p)
           Ends == \E l \in 1..4, t \in DOMAIN e.tables : End(e, k, t, l, p)
<1>1. Reaches(4)
  BY RootAt
<1>2. ASSUME NEW j \in 1..4, Reaches(j) PROVE Ends \/ (j - 1 \in 1..3 /\ Reaches(j - 1))
  <2>1. PICK t : At(e, k, t, j, p)
    BY <1>2
  <2>2. CASE For(e, t, j, p).kind = "table"
    BY <2>1, <2>2, Child
  <2>3. CASE For(e, t, j, p).kind # "table"
    <3>1. t \in DOMAIN e.tables /\ End(e, k, t, j, p)
      BY <2>1, <2>3 DEF At, End
    <3> QED
      BY <3>1
  <2> QED
    BY <2>2, <2>3
<1> HIDE DEF Reaches, Ends
<1>3. Ends \/ Reaches(3)
  BY <1>1, <1>2
<1>4. Ends \/ Reaches(2)
  BY <1>2, <1>3
<1>5. Ends \/ Reaches(1)
  BY <1>2, <1>4
<1>6. Ends
  BY <1>2, <1>5
<1> QED
  BY <1>6 DEF Ends

LEMMA EndUnique ==
  ASSUME NEW e, NEW k, Tree(e, k), NEW p \in Page, NEW l \in 1..4, NEW t, End(e, k, t, l, p),
         NEW m \in 1..4, NEW u, At(e, k, u, m, p)
  PROVE  l <= m /\ (End(e, k, u, m, p) => l = m /\ t = u)
<1>1. \A x \in 1..4, y \in 1..4 : \A v, w :
        End(e, k, v, x, p) /\ At(e, k, w, y, p) => x <= y
  <2> SUFFICES ASSUME NEW x \in 1..4, NEW y \in 1..4, NEW v, NEW w,
                      End(e, k, v, x, p), At(e, k, w, y, p), y < x
               PROVE  FALSE
    OBVIOUS
  <2>1. y \in 1..3 /\ x \in (y + 1)..4
    OBVIOUS
  <2>2. PICK z : At(e, k, z, x, p) /\ For(e, z, x, p).kind = "table"
    BY <2>1, Ancestor
  <2>3. z = v
    BY <2>2, Unique DEF End
  <2> QED
    BY <2>2, <2>3 DEF End
<1>2. l <= m
  BY <1>1
<1>3. End(e, k, u, m, p) => m <= l
  BY <1>1 DEF End
<1>4. End(e, k, u, m, p) => l = m
  BY <1>2, <1>3
<1> QED
  BY <1>2, <1>4, Unique DEF End

---------------------------------------------------------------------------
(***************************************************************************)
(* What ept_entry() and a walk of the processor find.                      *)
(***************************************************************************)
Slot(t, l, p) == [table |-> t, index |-> Index(p, l), level |-> l]

LEMMA SlotIs ==
  ASSUME NEW e, NEW k, Tree(e, k), NEW t \in DOMAIN e.tables, NEW l, NEW p
  PROVE  /\ Slot(t, l, p) # NoEntry /\ Slot(t, l, p).level = l
         /\ Entry(e, Slot(t, l, p)) = For(e, t, l, p)
<1>1. t # Null
  BY EptAssumption DEF Tree, Base, Root, Null
<1>2. Slot(t, l, p).table = t /\ NoEntry.table = Null
  BY DEF Slot, NoEntry
<1> QED
  BY <1>1, <1>2 DEF Slot, Entry, For

LEMMA BelowIs ==
  ASSUME NEW e, NEW k, Tree(e, k), NEW t \in DOMAIN e.tables, NEW l, NEW m, NEW p
  PROVE  /\ For(e, t, l, p).kind = "table"
              => Below(e, Slot(t, l, p), p, m) = Slot(For(e, t, l, p).to, m, p)
         /\ For(e, t, l, p).kind # "table" => Below(e, Slot(t, l, p), p, m) = NoEntry
BY SlotIs DEF Below, Slot

\* The slot a table of level m has on the way to a page.
LEMMA PathIs ==
  ASSUME NEW e, NEW k, Tree(e, k), NEW p \in Page, NEW l \in 2..4, NEW t, At(e, k, t, l, p),
         NEW u, At(e, k, u, l - 1, p)
  PROVE  /\ For(e, t, l, p).kind = "table"
         /\ Below(e, Slot(t, l, p), p, l - 1) = Slot(u, l - 1, p)
<1>1. l - 1 \in 1..3 /\ (l - 1) + 1 = l
  OBVIOUS
<1>2. PICK v : At(e, k, v, l, p) /\ For(e, v, l, p) = TableEntry(u)
  BY <1>1, Parent
<1>3. v = t
  BY <1>2, Unique
<1>4. For(e, t, l, p).kind = "table" /\ For(e, t, l, p).to = u
  BY <1>2, <1>3, TableKind
<1> QED
  BY <1>4, BelowIs DEF At

\* There is a table of level m for every level at or above the one where the walk ends.
LEMMA Reached ==
  ASSUME NEW e, NEW k, Tree(e, k), NEW p \in Page, NEW l \in 1..4, NEW t, End(e, k, t, l, p),
         NEW m \in l..4
  PROVE  \E u : At(e, k, u, m, p)
<1>1. CASE m = l
  BY <1>1 DEF End
<1>2. CASE m # l
  <2>1. l \in 1..3 /\ m \in (l + 1)..4 /\ At(e, k, t, l, p)
    BY <1>2 DEF End
  <2> QED
    BY <2>1, Ancestor
<1> QED
  BY <1>1, <1>2

LEMMA EntryIs ==
  ASSUME NEW e, NEW k, Tree(e, k), NEW p \in Page, NEW j \in 1..4, NEW t, End(e, k, t, j, p),
         NEW l \in 1..3
  PROVE  /\ j > l /\ For(e, t, j, p).kind = "page" => EptEntry(e, p, l) = Slot(t, j, p)
         /\ j > l /\ For(e, t, j, p).kind # "page" => EptEntry(e, p, l) = NoEntry
         /\ \A u : At(e, k, u, l, p) => EptEntry(e, p, l) = Slot(u, l, p)
<1> DEFINE a == Slot(Root, 4, p)
           b == Below(e, a, p, 3)
           c == Below(e, b, p, 2)
           d == Below(e, c, p, 1)
           Found(slot) == slot = NoEntry \/ IsLarge(Entry(e, slot)) \/ l = slot.level
           x == For(e, t, j, p)
<1>1. /\ Found(b) => EptEntry(e, p, l) = b
      /\ ~Found(b) /\ Found(c) => EptEntry(e, p, l) = c
      /\ ~Found(b) /\ ~Found(c) => EptEntry(e, p, l) = d
  BY DEF EptEntry, Slot, pt, pd, pdpt, pml4
<1> HIDE DEF Found
<1>2. \A u \in DOMAIN e.tables : \A m : Found(Slot(u, m, p)) <=> IsLarge(For(e, u, m, p)) \/ l = m
  BY SlotIs DEF Found
<1>3. Found(NoEntry)
  BY DEF Found
<1>4. \A u, m : At(e, k, u, m, p) => u \in DOMAIN e.tables
  BY DEF At
<1>5. At(e, k, t, j, p) /\ t \in DOMAIN e.tables /\ x.kind # "table"
  BY DEF End, At
<1>6. \A u, v, m : At(e, k, u, m, p) /\ At(e, k, v, m, p) => u = v
  BY Unique
<1>7. At(e, k, Root, 4, p)
  BY RootAt
<1>8. Below(e, Slot(t, j, p), p, j - 1) = NoEntry
  BY <1>5, BelowIs
<1>9. \A m \in 1..3 : \A u : At(e, k, u, m, p) => j <= m
  BY EndUnique
<1>10. Fits(x, e, k, j, Blk(p, j))
  BY <1>5, ForFits
<1>11. IsLarge(x) <=> x.kind = "page" /\ j # 1
  BY <1>10, Kinds DEF PageAt, IsLarge
<1>12. x.kind = "page" => j # 4
  BY <1>10, Kinds DEF PageAt
<1>13. ASSUME NEW u, NEW m \in 1..4, For(e, u, m, p).kind = "table" PROVE ~IsLarge(For(e, u, m, p))
  BY <1>13 DEF IsLarge
<1> HIDE DEF x, a, b, c, d
<1>14. CASE j = 4
  <2>1. t = Root
    BY <1>5, <1>6, <1>7, <1>14
  <2>2. b = NoEntry
    BY <1>8, <1>14, <2>1 DEF a, b
  <2>3. x.kind # "page" /\ \A u : ~At(e, k, u, l, p)
    BY <1>9, <1>12, <1>14
  <2> QED
    BY <1>1, <1>3, <2>2, <2>3 DEF x
<1>15. CASE j = 3
  <2>1. At(e, k, t, 3, p)
    BY <1>5, <1>15
  <2>2. b = Slot(t, 3, p)
    BY <1>7, <2>1, PathIs DEF a, b
  <2>3. c = NoEntry
    BY <1>8, <1>15, <2>2 DEF c
  <2>4. Found(b) <=> x.kind = "page" \/ l = 3
    BY <1>2, <1>5, <1>11, <1>15, <2>2 DEF x
  <2>5. \A u : At(e, k, u, l, p) => l = 3 /\ u = t
    BY <1>6, <1>9, <1>15, <2>1
  <2> QED
    BY <1>1, <1>3, <1>15, <2>2, <2>3, <2>4, <2>5 DEF x
<1>16. CASE j = 2
  <2>1. At(e, k, t, 2, p)
    BY <1>5, <1>16
  <2>2. PICK v : At(e, k, v, 3, p)
    BY <1>16, Reached
  <2>3. b = Slot(v, 3, p)
    BY <1>7, <2>2, PathIs DEF a, b
  <2>4. c = Slot(t, 2, p) /\ For(e, v, 3, p).kind = "table"
    BY <2>1, <2>2, <2>3, PathIs DEF c
  <2>5. d = NoEntry
    BY <1>8, <1>16, <2>4 DEF d
  <2>6. Found(b) <=> l = 3
    BY <1>2, <1>4, <1>13, <2>2, <2>3, <2>4
  <2>7. Found(c) <=> x.kind = "page" \/ l = 2
    BY <1>2, <1>5, <1>11, <1>16, <2>4 DEF x
  <2>8. \A u : At(e, k, u, l, p) => (l = 3 /\ u = v) \/ (l = 2 /\ u = t)
    BY <1>6, <1>9, <1>16, <2>1, <2>2
  <2> QED
    BY <1>1, <1>16, <2>3, <2>4, <2>5, <2>6, <2>7, <2>8 DEF x
<1>17. CASE j = 1
  <2>1. At(e, k, t, 1, p)
    BY <1>5, <1>17
  <2>2. PICK v : At(e, k, v, 3, p)
    BY <1>17, Reached
  <2>3. PICK w : At(e, k, w, 2, p)
    BY <1>17, Reached
  <2>4. b = Slot(v, 3, p)
    BY <1>7, <2>2, PathIs DEF a, b
  <2>5. c = Slot(w, 2, p) /\ For(e, v, 3, p).kind = "table"
    BY <2>2, <2>3, <2>4, PathIs DEF c
  <2>6. d = Slot(t, 1, p) /\ For(e, w, 2, p).kind = "table"
    BY <2>1, <2>3, <2>5, PathIs DEF d
  <2>7. (Found(b) <=> l = 3) /\ (Found(c) <=> l = 2)
    BY <1>2, <1>4, <1>13, <2>2, <2>3, <2>4, <2>5, <2>6
  <2>8. \A u : At(e, k, u, l, p) => (l = 3 /\ u = v) \/ (l = 2 /\ u = w) \/ (l = 1 /\ u = t)
    BY <1>6, <1>9, <2>1, <2>2, <2>3
  <2> QED
    BY <1>1, <1>17, <2>4, <2>5, <2>6, <2>7, <2>8 DEF x
<1> QED
  BY <1>14, <1>15, <1>16, <1>17

\* What a walk finds in the entry it ends in.
Found(x, l, p) ==
  IF x.kind # "page" THEN Unmapped
  ELSE [host |-> x.host + (p % Size[l]), access |-> x.access, level |-> l, type |-> x.type]

LEMMA TranslateIs ==
  ASSUME NEW e, NEW k, Tree(e, k), NEW p \in Page, NEW l \in 1..4, NEW t, End(e, k, t, l, p)
  PROVE  Translate(e, p) = Found(For(e, t, l, p), l, p)
<1> DEFINE slot == EptEntry(e, p, 1)
           x == For(e, t, l, p)
<1>1. At(e, k, t, l, p) /\ t \in DOMAIN e.tables
  BY DEF End, At
<1>2. CASE l > 1 /\ x.kind # "page"
  <2>1. slot = NoEntry
    BY <1>2, EntryIs
  <2> QED
    BY <1>2, <2>1 DEF Translate, Found, pt
<1>3. CASE l = 1 \/ x.kind = "page"
  <2>1. slot = Slot(t, l, p)
    BY <1>1, <1>3, EntryIs
  <2>2. slot # NoEntry /\ slot.level = l /\ Entry(e, slot) = x
    BY <1>1, <2>1, SlotIs
  <2> HIDE DEF slot, x
  <2>3. Translate(e, p) = Found(x, l, p)
    BY <2>2 DEF Translate, Found, pt, slot
  <2> QED
    BY <2>3 DEF x
<1> QED
  BY <1>2, <1>3

---------------------------------------------------------------------------
(***************************************************************************)
(* A page entry is written.  Outside a call every table but the root has   *)
(* an entry in use: an entry that points to a table has memory below it.   *)
(***************************************************************************)
InUse(e, t) == \E i \in 0..(F - 1) : e.tables[t][i].kind # "none"

Full(e) == \A t \in DOMAIN e.tables \ {Root} : InUse(e, t)
Good(e) == Full(e) /\ \E k : Tree(e, k)

\* Between two writes the tables of the levels lo to hi on the way to p may be empty.
FullBut(e, k, p, lo, hi) ==
  \A t \in DOMAIN e.tables \ {Root} :
    InUse(e, t) \/ (k[t].level \in lo..hi /\ k[t].block = Above(p, k[t].level))

\* A mapping of level m for p replaces nothing but a mapping of that level.
Clear(e, k, p, m) ==
  \A l \in m..4 : \A t : At(e, k, t, l, p) =>
    /\ l > m => For(e, t, l, p).kind # "page"
    /\ l = m => For(e, t, l, p).kind # "table"

SameWalk(e, f) == \A q \in Page : Translate(f, q) = Translate(e, q)

\* In f, entry i of table t is x, and nothing else changed.
Wrote(e, f, t, i, x) ==
  /\ Base(f) /\ DOMAIN f.tables = DOMAIN e.tables
  /\ f.tables[t][i] = x
  /\ \A u \in DOMAIN e.tables, j \in 0..(F - 1) :
       <<u, j>> # <<t, i>> => f.tables[u][j] = e.tables[u][j]

LEMMA PutIs ==
  ASSUME NEW e, Base(e), NEW t \in DOMAIN e.tables, NEW i \in 0..(F - 1), NEW x
  PROVE  Wrote(e, Put(e, t, i, x), t, i, x)
<1> DEFINE f == Put(e, t, i, x)
<1>1. t # Null
  BY EptAssumption DEF Base, Root, Null
<1>2. f = [e EXCEPT !.tables[t][i] = x]
  BY <1>1 DEF Put
<1>3. DOMAIN f = DOMAIN e /\ f.fault = e.fault /\ DOMAIN f.tables = DOMAIN e.tables
  BY <1>2 DEF Base
<1>4. ASSUME NEW u \in DOMAIN e.tables
      PROVE  /\ DOMAIN f.tables[u] = 0..(F - 1)
             /\ \A j \in 0..(F - 1) :
                  f.tables[u][j] = IF <<u, j>> = <<t, i>> THEN x ELSE e.tables[u][j]
  <2> DEFINE new == [e.tables[t] EXCEPT ![i] = x]
  <2>1. f.tables = [e.tables EXCEPT ![t] = new]
    BY <1>2 DEF Base
  <2>2. /\ DOMAIN new = 0..(F - 1) /\ new[i] = x
        /\ \A j \in 0..(F - 1) : j # i => new[j] = e.tables[t][j]
    BY DEF Base
  <2> HIDE DEF f, new
  <2>3. CASE u = t
    <3>1. f.tables[u] = new
      BY <2>1, <2>3
    <3> QED
      BY <2>2, <2>3, <3>1
  <2>4. CASE u # t
    <3>1. f.tables[u] = e.tables[u]
      BY <2>1, <2>4
    <3> QED
      BY <2>4, <3>1 DEF Base
  <2> QED
    BY <2>3, <2>4
<1> HIDE DEF f
<1>5. Base(f)
  BY <1>3, <1>4 DEF Base
<1> QED
  BY <1>3, <1>4, <1>5 DEF Wrote, f

\* Where another walk does not meet the entry written, it ends as before.
LEMMA ElsewhereSame ==
  ASSUME NEW e, NEW k, Tree(e, k), NEW p \in Page, NEW m \in 1..4, NEW t, At(e, k, t, m, p),
         NEW q \in Page, Blk(q, m) # Blk(p, m), NEW l \in 1..4, NEW u, At(e, k, u, l, q)
  PROVE  /\ u \in DOMAIN e.tables /\ Index(q, l) \in 0..(F - 1)
         /\ <<u, Index(q, l)>> # <<t, Index(p, m)>>
<1>1. u \in DOMAIN e.tables /\ Index(q, l) \in 0..(F - 1)
  BY PageIs DEF At
<1>2. ASSUME u = t, Index(q, l) = Index(p, m) PROVE FALSE
  <2>1. l = m /\ Above(q, m) = Above(p, m)
    BY <1>2 DEF At
  <2>2. /\ Blk(p, m) = F * Above(p, m) + Index(p, m)
        /\ Blk(q, m) = F * Above(q, m) + Index(q, m)
    BY PageIs
  <2> QED
    BY <1>2, <2>1, <2>2
<1> QED
  BY <1>1, <1>2

LEMMA PageTree ==
  ASSUME NEW e, NEW k, Tree(e, k), NEW p \in Page, NEW m \in 1..3, NEW t, At(e, k, t, m, p),
         For(e, t, m, p).kind # "table",
         NEW x, PageAt(x, m), NEW f, Wrote(e, f, t, Index(p, m), x)
  PROVE  Tree(f, k)
<1> DEFINE i == Index(p, m)
<1>1. /\ i \in 0..(F - 1) /\ t \in DOMAIN e.tables
      /\ k[t].level = m /\ k[t].block = Above(p, m) /\ Blk(p, m) = F * Above(p, m) + i
  BY PageIs DEF At
<1>2. /\ Base(f) /\ DOMAIN f.tables = DOMAIN e.tables /\ f.tables[t][i] = x
      /\ \A u \in DOMAIN e.tables, j \in 0..(F - 1) :
           <<u, j>> # <<t, i>> => f.tables[u][j] = e.tables[u][j]
  BY DEF Wrote
<1>3. Nodes(f, k)
  <2> SUFFICES ASSUME NEW u \in DOMAIN e.tables PROVE Node(f, k, u)
    BY <1>2 DEF Nodes
  <2>1. Node(e, k, u)
    BY DEF Tree, Nodes
  <2>2. ASSUME u # Root
        PROVE  \E v \in DOMAIN f.tables, j \in 0..(F - 1) : f.tables[v][j] = TableEntry(u)
    <3>1. PICK v \in DOMAIN e.tables, j \in 0..(F - 1) : e.tables[v][j] = TableEntry(u)
      BY <2>1, <2>2 DEF Node
    <3>2. <<v, j>> # <<t, i>>
      BY <3>1, TableKind DEF For
    <3> QED
      BY <1>2, <3>1, <3>2
  <2> QED
    BY <2>1, <2>2 DEF Node
<1>4. Distinct(f, k)
  BY <1>2 DEF Tree, Distinct
<1>5. Entries(f, k)
  <2> SUFFICES ASSUME NEW u \in DOMAIN e.tables, NEW j \in 0..(F - 1)
               PROVE  Fits(f.tables[u][j], f, k, k[u].level, F * k[u].block + j)
    BY <1>2 DEF Entries
  <2>1. CASE <<u, j>> = <<t, i>>
    <3>1. f.tables[u][j] = x /\ k[u].level = m /\ F * k[u].block + j = Blk(p, m)
      BY <1>1, <1>2, <2>1
    <3> QED
      BY <3>1 DEF Fits
  <2>2. CASE <<u, j>> # <<t, i>>
    <3>1. Fits(e.tables[u][j], e, k, k[u].level, F * k[u].block + j)
      BY DEF Tree, Entries
    <3>2. f.tables[u][j] = e.tables[u][j]
      BY <1>2, <2>2
    <3> QED
      BY <1>2, <3>1, <3>2 DEF Fits, TableAt
  <2> QED
    BY <2>1, <2>2
<1> QED
  BY <1>2, <1>3, <1>4, <1>5 DEF Tree

\* What a walk finds then.
Remapped(e, f, p, m, x) ==
  \A q \in Page : Translate(f, q) = IF Blk(q, m) = Blk(p, m) THEN Found(x, m, q)
                                    ELSE Translate(e, q)

LEMMA PageWalks ==
  ASSUME NEW e, NEW k, Tree(e, k), NEW p \in Page, NEW m \in 1..3, NEW t, At(e, k, t, m, p),
         For(e, t, m, p).kind # "table",
         NEW x, PageAt(x, m), NEW f, Wrote(e, f, t, Index(p, m), x)
  PROVE  Remapped(e, f, p, m, x)
<1> SUFFICES ASSUME NEW q \in Page
             PROVE  Translate(f, q) = IF Blk(q, m) = Blk(p, m) THEN Found(x, m, q)
                                      ELSE Translate(e, q)
  BY DEF Remapped
<1>1. Tree(f, k)
  BY PageTree
<1>2. /\ DOMAIN f.tables = DOMAIN e.tables /\ f.tables[t][Index(p, m)] = x
      /\ \A u \in DOMAIN e.tables, j \in 0..(F - 1) :
           <<u, j>> # <<t, Index(p, m)>> => f.tables[u][j] = e.tables[u][j]
  BY DEF Wrote
<1>3. \A u, l : At(f, k, u, l, q) <=> At(e, k, u, l, q)
  BY <1>2 DEF At
<1>4. CASE Blk(q, m) = Blk(p, m)
  <2>1. Above(q, m) = Above(p, m) /\ Index(q, m) = Index(p, m)
    BY <1>4, SameAbove
  <2>2. At(f, k, t, m, q) /\ For(f, t, m, q) = x
    BY <1>2, <2>1 DEF At, For
  <2>3. End(f, k, t, m, q)
    BY <2>2 DEF End, PageAt
  <2> QED
    BY <1>1, <1>4, <2>2, <2>3, TranslateIs
<1>5. CASE Blk(q, m) # Blk(p, m)
  <2>1. PICK l \in 1..4, u \in DOMAIN e.tables : End(e, k, u, l, q)
    BY WalkEnds
  <2>2. At(e, k, u, l, q)
    BY <2>1 DEF End
  <2>3. For(f, u, l, q) = For(e, u, l, q)
    BY <1>2, <1>5, <2>2, ElsewhereSame DEF For
  <2>4. End(f, k, u, l, q)
    BY <1>3, <2>1, <2>3 DEF End
  <2>5. Translate(f, q) = Found(For(f, u, l, q), l, q)
    BY <1>1, <2>4, TranslateIs
  <2>6. Translate(e, q) = Found(For(e, u, l, q), l, q)
    BY <2>1, TranslateIs
  <2> QED
    BY <1>5, <2>3, <2>5, <2>6
<1> QED
  BY <1>4, <1>5

LEMMA PageFull ==
  ASSUME NEW e, NEW k, Tree(e, k), NEW p \in Page, NEW m \in 1..3, NEW t, At(e, k, t, m, p),
         FullBut(e, k, p, m, m),
         NEW x, PageAt(x, m), NEW f, Wrote(e, f, t, Index(p, m), x)
  PROVE  Full(f)
<1>1. /\ DOMAIN f.tables = DOMAIN e.tables /\ f.tables[t][Index(p, m)] = x
      /\ \A u \in DOMAIN e.tables, j \in 0..(F - 1) :
           <<u, j>> # <<t, Index(p, m)>> => f.tables[u][j] = e.tables[u][j]
  BY DEF Wrote
<1>2. Index(p, m) \in 0..(F - 1) /\ x.kind # "none"
  BY PageIs DEF PageAt
<1> SUFFICES ASSUME NEW u \in DOMAIN e.tables \ {Root} PROVE InUse(f, u)
  BY <1>1 DEF Full
<1>3. CASE u = t
  BY <1>1, <1>2, <1>3 DEF InUse
<1>4. CASE u # t
  <2>1. ~(k[u].level \in m..m /\ k[u].block = Above(p, k[u].level))
    <3> SUFFICES ASSUME k[u].level = m, k[u].block = Above(p, m) PROVE FALSE
      OBVIOUS
    <3>1. At(e, k, u, m, p)
      BY DEF At
    <3> QED
      BY <1>4, <3>1, Unique
  <2>2. InUse(e, u)
    BY <2>1 DEF FullBut
  <2> QED
    BY <1>1, <1>4, <2>2 DEF InUse
<1> QED
  BY <1>3, <1>4

---------------------------------------------------------------------------
(***************************************************************************)
(* map_subtable() finds a table: each table hangs from another block, and  *)
(* the block whose entry is absent has none.                               *)
(***************************************************************************)
LEMMA DivisibleFinite == IsFiniteSet(Divisible)
<1>1. \A l \in 2..4, p \in Page : p \div Size[l] \in Page
  <2> SUFFICES ASSUME NEW l \in 2..4, NEW p \in Page PROVE p \div Size[l] \in Page
    OBVIOUS
  <2> DEFINE s == Size[l]
             d == p \div s
             r == p % s
  <2>1. s \in Nat \ {0} /\ p \in Nat
    BY FanoutIs, PageIs
  <2>2. d \in Nat /\ r \in 0..(s - 1) /\ p = s * d + r
    BY <2>1, DivIs
  <2> HIDE DEF s, d, r
  <2>3. d * 1 <= d * s
    BY <2>1, <2>2, MulMono
  <2>4. d <= p
    BY <2>1, <2>2, <2>3
  <2> QED
    BY <2>2, <2>4, PagesAre DEF Page, d, s
<1>2. Divisible \subseteq (2..4) \X Page
  BY <1>1 DEF Divisible, pd, pml4
<1>3. IsFiniteSet(2..4) /\ IsFiniteSet(Page)
  <2>1. Pages - 1 \in Int
    BY PagesAre
  <2>2. IsFiniteSet(0..(Pages - 1))
    BY <2>1, FS_Interval
  <2>3. \A a, b \in Int : IsFiniteSet(a..b)
    BY FS_Interval
  <2>4. IsFiniteSet(2..4)
    <3>1. 2 \in Int /\ 4 \in Int
      OBVIOUS
    <3> QED
      BY <2>3, <3>1, Zenon
  <2> QED
    BY <2>2, <2>4 DEF Page
<1>4. IsFiniteSet((2..4) \X Page)
  BY <1>3, FS_Product
<1> QED
  BY <1>2, <1>4, FS_Subset

\* A table hangs from the entry of a block of memory.
LEMMA Hangs ==
  ASSUME NEW e, NEW k, Tree(e, k), NEW u \in DOMAIN e.tables \ {Root}
  PROVE  /\ k[u].level \in 1..3
         /\ \E p \in Page : At(e, k, u, k[u].level, p)
<1>1. PICK v \in DOMAIN e.tables, i \in 0..(F - 1) : e.tables[v][i] = TableEntry(u)
  BY DEF Tree, Nodes, Node
<1> DEFINE x == e.tables[v][i]
           b == F * k[v].block + i
<1>2. Fits(x, e, k, k[v].level, b)
  BY <1>1 DEF Tree, Entries
<1>3. x.kind = "table" /\ x.to = u
  BY <1>1, TableKind
<1>4. k[u].level = k[v].level - 1 /\ k[u].block = b
  BY <1>2, <1>3, Kinds DEF TableAt
<1>5. k[v].level \in 1..4 /\ k[u].level \in 1..4 /\ k[u].level # 4
  BY <1>1 DEF Tree, Nodes, Node
<1>6. k[u].level \in 1..3 /\ k[u].level + 1 = k[v].level
  BY <1>4, <1>5
<1>7. PICK p \in Page : Blk(p, k[v].level) = b
  BY <1>2, <1>3 DEF Fits
<1>8. Above(p, k[u].level) = b
  BY <1>6, <1>7 DEF Above
<1> QED
  BY <1>4, <1>6, <1>8 DEF At

LEMMA NoneBelow ==
  ASSUME NEW e, NEW k, Tree(e, k), NEW p \in Page, NEW l \in 2..4, NEW t, At(e, k, t, l, p),
         For(e, t, l, p).kind # "table", NEW u, At(e, k, u, l - 1, p)
  PROVE  FALSE
<1>1. l - 1 \in 1..3 /\ (l - 1) + 1 = l
  OBVIOUS
<1>2. PICK v : At(e, k, v, l, p) /\ For(e, v, l, p) = TableEntry(u)
  BY <1>1, Parent
<1>3. v = t
  BY <1>2, Unique
<1> QED
  BY <1>2, <1>3, TableKind

LEMMA RoomIs ==
  ASSUME NEW e, NEW k, Tree(e, k), NEW p \in Page, NEW l \in 2..4, NEW t, At(e, k, t, l, p),
         For(e, t, l, p) = Absent
  PROVE  Tables \ DOMAIN e.tables # {}
<1> SUFFICES ASSUME Tables \subseteq DOMAIN e.tables PROVE FALSE
  OBVIOUS
<1> DEFINE here == <<l, Blk(p, l)>>
           T == Divisible \ {here}
           f == [u \in Tables |-> <<k[u].level + 1, k[u].block>>]
<1>1. here \in Divisible
  BY DEF Divisible, Blk, pd, pml4
<1>2. IsFiniteSet(T) /\ Cardinality(T) = Cardinality(Divisible) - 1
  BY <1>1, DivisibleFinite, FS_RemoveElement
<1>3. IsFiniteSet(Tables) /\ Cardinality(T) < Cardinality(Tables)
  <2>1. IsFiniteSet(Tables) /\ Cardinality(Divisible) <= Cardinality(Tables)
    BY MemoryAssumption, DivisibleFinite, FS_CardinalityType
  <2>2. Cardinality(Tables) \in Nat /\ Cardinality(Divisible) \in Nat
    BY <2>1, DivisibleFinite, FS_CardinalityType
  <2> QED
    BY <1>2, <2>1, <2>2
<1>4. Root \notin Tables /\ For(e, t, l, p).kind # "table"
  BY EptAssumption, TableKind DEF Root
<1>5. ASSUME NEW u \in Tables PROVE f[u] \in T
  <2>1. u \in DOMAIN e.tables \ {Root}
    BY <1>4
  <2>2. k[u].level \in 1..3
    BY <2>1, Hangs
  <2>3. PICK q \in Page : At(e, k, u, k[u].level, q)
    BY <2>1, Hangs
  <2>4. k[u].level + 1 \in 2..4 /\ k[u].block = Blk(q, k[u].level + 1)
    BY <2>2, <2>3 DEF At, Above
  <2>5. f[u] = <<k[u].level + 1, Blk(q, k[u].level + 1)>>
    BY <2>4
  <2>6. f[u] \in Divisible
    BY <2>4, <2>5 DEF Divisible, Blk, pd, pml4
  <2>7. ASSUME f[u] = here PROVE FALSE
    <3>1. k[u].level + 1 = l /\ Blk(q, l) = Blk(p, l)
      BY <2>5, <2>7
    <3>2. k[u].level = l - 1 /\ l - 1 \in 1..3 /\ (l - 1) + 1 = l
      BY <2>2, <3>1
    <3>3. At(e, k, u, l - 1, p)
      BY <2>3, <2>4, <3>1, <3>2 DEF At, Above
    <3> QED
      BY <1>4, <3>3, NoneBelow
  <2> QED
    BY <2>6, <2>7
<1>6. f \in [Tables -> T]
  BY <1>5
<1> HIDE DEF f, T
<1>7. PICK u \in Tables, v \in Tables : u # v /\ f[u] = f[v]
  BY <1>2, <1>3, <1>6, FS_PigeonHole
<1>8. k[u].level + 1 = k[v].level + 1 /\ k[u].block = k[v].block
  BY <1>7 DEF f
<1>9. u \in DOMAIN e.tables \ {Root} /\ v \in DOMAIN e.tables \ {Root}
  BY <1>4
<1>10. k[u].level = k[v].level
  <2>1. k[u].level \in 1..3 /\ k[v].level \in 1..3
    BY <1>9, Hangs
  <2> QED
    BY <1>8, <2>1
<1> QED
  BY <1>7, <1>8, <1>9, <1>10 DEF Tree, Distinct

\* In f, entry i of table t points to a new empty table, and nothing else changed.
Grew(e, f, t, i, new) ==
  /\ Base(f) /\ DOMAIN f.tables = DOMAIN e.tables \cup {new}
  /\ new \in Tables \ DOMAIN e.tables
  /\ f.tables[t][i] = TableEntry(new)
  /\ \A j \in 0..(F - 1) : f.tables[new][j] = Absent
  /\ \A u \in DOMAIN e.tables, j \in 0..(F - 1) :
       <<u, j>> # <<t, i>> => f.tables[u][j] = e.tables[u][j]

LEMMA AllocateIs ==
  ASSUME NEW e, Base(e), NEW t \in DOMAIN e.tables, NEW i \in 0..(F - 1),
         NEW new \in Tables \ DOMAIN e.tables
  PROVE  Grew(e, [Put(e, t, i, TableEntry(new)) EXCEPT !.tables = Allocate(@, new)], t, i, new)
<1> DEFINE g == Put(e, t, i, TableEntry(new))
           f == [g EXCEPT !.tables = Allocate(@, new)]
<1>1. Wrote(e, g, t, i, TableEntry(new))
  BY PutIs
<1> HIDE DEF g
<1>2. Base(g) /\ DOMAIN g.tables = DOMAIN e.tables
  BY <1>1 DEF Wrote
<1>3. DOMAIN f = DOMAIN g /\ f.fault = g.fault /\ f.tables = Allocate(g.tables, new)
  BY <1>2 DEF Base
<1> HIDE DEF f
<1>4. DOMAIN f.tables = DOMAIN e.tables \cup {new}
  BY <1>2, <1>3 DEF Allocate
<1>5. f.tables[new] = Empty /\ \A u \in DOMAIN e.tables : f.tables[u] = g.tables[u]
  BY <1>2, <1>3 DEF Allocate
<1>6. DOMAIN Empty = 0..(F - 1) /\ \A j \in 0..(F - 1) : Empty[j] = Absent
  BY DEF Empty, F
<1>7. Base(f)
  BY <1>2, <1>3, <1>4, <1>5, <1>6 DEF Base
<1>8. Grew(e, f, t, i, new)
  BY <1>1, <1>4, <1>5, <1>6, <1>7 DEF Wrote, Grew
<1> QED
  BY <1>8 DEF f, g

\* The new table is of the level below and covers the block.
Hung(e, f, k, kk, new, l, b) ==
  /\ Tree(f, kk) /\ kk[new].level = l - 1 /\ kk[new].block = b
  /\ \A u \in DOMAIN e.tables : kk[u] = k[u]

LEMMA GrowTree ==
  ASSUME NEW e, NEW k, Tree(e, k), NEW p \in Page, NEW l \in 2..4, NEW t, At(e, k, t, l, p),
         For(e, t, l, p) = Absent, NEW f, NEW new, Grew(e, f, t, Index(p, l), new)
  PROVE  \E kk : Hung(e, f, k, kk, new, l, Blk(p, l))
<1> DEFINE i == Index(p, l)
           kk == [u \in DOMAIN e.tables \cup {new} |->
                    IF u = new THEN [level |-> l - 1, block |-> Blk(p, l)] ELSE k[u]]
<1>1. /\ Base(f) /\ DOMAIN f.tables = DOMAIN e.tables \cup {new}
      /\ new \in Tables \ DOMAIN e.tables
      /\ f.tables[t][i] = TableEntry(new)
      /\ \A j \in 0..(F - 1) : f.tables[new][j] = Absent
      /\ \A u \in DOMAIN e.tables, j \in 0..(F - 1) :
           <<u, j>> # <<t, i>> => f.tables[u][j] = e.tables[u][j]
  BY DEF Grew
<1>2. /\ kk[new].level = l - 1 /\ kk[new].block = Blk(p, l)
      /\ \A u \in DOMAIN e.tables : kk[u] = k[u]
  BY <1>1
<1> HIDE DEF kk
<1>3. /\ t \in DOMAIN e.tables /\ k[t].level = l /\ k[t].block = Above(p, l)
      /\ i \in 0..(F - 1) /\ Blk(p, l) \in Nat /\ Blk(p, l) = F * Above(p, l) + i
  BY PageIs DEF At
<1>4. l - 1 \in 1..3 /\ l - 1 # 4 /\ Above(p, l - 1) = Blk(p, l) /\ new # Root
  BY <1>1, EptAssumption DEF Above, Root
<1>5. e.tables[t][i] = Absent /\ For(e, t, l, p).kind # "table"
  BY TableKind DEF For
<1>6. Nodes(f, kk)
  <2>1. Node(f, kk, new)
    <3>1. \E v \in DOMAIN f.tables, j \in 0..(F - 1) : f.tables[v][j] = TableEntry(new)
      BY <1>1, <1>3
    <3> QED
      BY <1>2, <1>3, <1>4, <3>1 DEF Node
  <2>2. ASSUME NEW u \in DOMAIN e.tables PROVE Node(f, kk, u)
    <3>1. Node(e, k, u) /\ kk[u] = k[u]
      BY <1>2 DEF Tree, Nodes
    <3>2. ASSUME u # Root
          PROVE  \E v \in DOMAIN f.tables, j \in 0..(F - 1) : f.tables[v][j] = TableEntry(u)
      <4>1. PICK v \in DOMAIN e.tables, j \in 0..(F - 1) : e.tables[v][j] = TableEntry(u)
        BY <3>1, <3>2 DEF Node
      <4>2. <<v, j>> # <<t, i>>
        BY <1>5, <4>1, TableKind
      <4> QED
        BY <1>1, <4>1, <4>2
    <3> QED
      BY <3>1, <3>2 DEF Node
  <2> QED
    BY <1>1, <2>1, <2>2 DEF Nodes
<1>7. Distinct(f, kk)
  <2>1. ASSUME NEW u \in DOMAIN e.tables, k[u].level = l - 1, k[u].block = Blk(p, l) PROVE FALSE
    <3>1. At(e, k, u, l - 1, p)
      BY <1>4, <2>1 DEF At
    <3> QED
      BY <1>5, <3>1, NoneBelow
  <2>2. Distinct(e, k)
    BY DEF Tree
  <2> QED
    BY <1>1, <1>2, <2>1, <2>2 DEF Distinct
<1>8. Entries(f, kk)
  <2>1. ASSUME NEW j \in 0..(F - 1)
        PROVE  Fits(f.tables[new][j], f, kk, kk[new].level, F * kk[new].block + j)
    <3>1. f.tables[new][j] = Absent
      BY <1>1
    <3> QED
      BY <3>1, TableKind DEF Fits
  <2>2. ASSUME NEW u \in DOMAIN e.tables, NEW j \in 0..(F - 1), <<u, j>> # <<t, i>>
        PROVE  Fits(f.tables[u][j], f, kk, kk[u].level, F * kk[u].block + j)
    <3>1. Fits(e.tables[u][j], e, k, k[u].level, F * k[u].block + j)
      BY DEF Tree, Entries
    <3>2. f.tables[u][j] = e.tables[u][j] /\ kk[u] = k[u]
      BY <1>1, <1>2, <2>2
    <3> DEFINE x == e.tables[u][j]
    <3>3. x.to \in DOMAIN e.tables => x.to \in DOMAIN f.tables /\ kk[x.to] = k[x.to]
      BY <1>1, <1>2
    <3> HIDE DEF x
    <3>4. \A a, b : Fits(x, e, k, a, b) => Fits(x, f, kk, a, b)
      BY <3>3 DEF Fits, TableAt
    <3> QED
      BY <3>1, <3>2, <3>4 DEF x
  <2>3. Fits(f.tables[t][i], f, kk, kk[t].level, F * kk[t].block + i)
    <3> DEFINE x == f.tables[t][i]
    <3>1. x = TableEntry(new) /\ kk[t] = k[t]
      BY <1>1, <1>2, <1>3
    <3>2. kk[t].level = l /\ F * kk[t].block + i = Blk(p, l)
      BY <1>3, <3>1
    <3>3. TableAt(x, f, kk, l, Blk(p, l))
      <4>1. x.kind = "table" /\ x.to = new
        BY <3>1, TableKind
      <4> QED
        BY <1>1, <1>2, <3>1, <4>1 DEF TableAt
    <3>4. \E q \in Page : Blk(q, l) = Blk(p, l)
      OBVIOUS
    <3> QED
      BY <3>2, <3>3, <3>4 DEF Fits
  <2>4. \A u \in DOMAIN f.tables : u = new \/ u \in DOMAIN e.tables
    BY <1>1
  <2> SUFFICES ASSUME NEW u \in DOMAIN f.tables, NEW j \in 0..(F - 1)
               PROVE  Fits(f.tables[u][j], f, kk, kk[u].level, F * kk[u].block + j)
    BY DEF Entries
  <2>5. CASE u = new
    BY <2>1, <2>5
  <2>6. CASE u # new /\ <<u, j>> = <<t, i>>
    BY <2>3, <2>6
  <2>7. CASE u # new /\ <<u, j>> # <<t, i>>
    BY <2>2, <2>4, <2>7
  <2> QED
    BY <2>5, <2>6, <2>7
<1>9. Tree(f, kk)
  BY <1>1, <1>6, <1>7, <1>8 DEF Tree
<1> QED
  BY <1>2, <1>9 DEF Hung

LEMMA GrowWalks ==
  ASSUME NEW e, NEW k, Tree(e, k), NEW p \in Page, NEW l \in 2..4, NEW t, At(e, k, t, l, p),
         For(e, t, l, p) = Absent, NEW f, NEW new, Grew(e, f, t, Index(p, l), new),
         NEW kk, Hung(e, f, k, kk, new, l, Blk(p, l))
  PROVE  SameWalk(e, f)
<1>1. /\ DOMAIN f.tables = DOMAIN e.tables \cup {new}
      /\ \A j \in 0..(F - 1) : f.tables[new][j] = Absent
      /\ \A u \in DOMAIN e.tables, j \in 0..(F - 1) :
           <<u, j>> # <<t, Index(p, l)>> => f.tables[u][j] = e.tables[u][j]
  BY DEF Grew
<1>2. /\ Tree(f, kk) /\ kk[new].level = l - 1 /\ kk[new].block = Blk(p, l)
      /\ \A u \in DOMAIN e.tables : kk[u] = k[u]
  BY DEF Hung
<1>3. l - 1 \in 1..4 /\ l - 1 # 4 /\ (l - 1) + 1 = l
  OBVIOUS
<1> SUFFICES ASSUME NEW q \in Page PROVE Translate(f, q) = Translate(e, q)
  BY DEF SameWalk
<1>4. CASE Blk(q, l) = Blk(p, l)
  <2>1. Above(q, l) = Above(p, l) /\ Index(q, l) = Index(p, l)
    BY <1>4, SameAbove
  <2>2. End(e, k, t, l, q) /\ For(e, t, l, q) = Absent
    BY <2>1, TableKind DEF At, End, For
  <2>3. At(f, kk, new, l - 1, q)
    BY <1>1, <1>2, <1>3, <1>4 DEF At, Above
  <2>4. For(f, new, l - 1, q) = Absent
    BY <1>1, <1>3, PageIs DEF For
  <2>5. End(f, kk, new, l - 1, q)
    BY <2>3, <2>4, TableKind DEF End
  <2>6. Translate(f, q) = Found(Absent, l - 1, q)
    BY <1>2, <1>3, <2>4, <2>5, TranslateIs
  <2>7. Translate(e, q) = Found(Absent, l, q)
    BY <2>2, TranslateIs
  <2> QED
    BY <2>6, <2>7, TableKind DEF Found
<1>5. CASE Blk(q, l) # Blk(p, l)
  <2>1. PICK j \in 1..4, u \in DOMAIN e.tables : End(e, k, u, j, q)
    BY WalkEnds
  <2>2. At(e, k, u, j, q)
    BY <2>1 DEF End
  <2>3. u \in DOMAIN e.tables /\ For(f, u, j, q) = For(e, u, j, q)
    BY <1>1, <1>5, <2>2, ElsewhereSame DEF For
  <2>4. End(f, kk, u, j, q)
    BY <1>1, <1>2, <2>1, <2>3 DEF End, At
  <2>5. Translate(f, q) = Found(For(f, u, j, q), j, q)
    BY <1>2, <2>4, TranslateIs
  <2>6. Translate(e, q) = Found(For(e, u, j, q), j, q)
    BY <2>1, TranslateIs
  <2> QED
    BY <2>3, <2>5, <2>6
<1> QED
  BY <1>4, <1>5

LEMMA GrowFull ==
  ASSUME NEW e, NEW k, Tree(e, k), NEW p \in Page, NEW l \in 2..4, NEW t, At(e, k, t, l, p),
         NEW f, NEW new, Grew(e, f, t, Index(p, l), new),
         NEW kk, Hung(e, f, k, kk, new, l, Blk(p, l)),
         NEW m \in 1..3, m < l, FullBut(e, k, p, m, l)
  PROVE  FullBut(f, kk, p, m, l - 1)
<1>1. /\ DOMAIN f.tables = DOMAIN e.tables \cup {new}
      /\ f.tables[t][Index(p, l)] = TableEntry(new)
      /\ \A u \in DOMAIN e.tables, j \in 0..(F - 1) :
           <<u, j>> # <<t, Index(p, l)>> => f.tables[u][j] = e.tables[u][j]
  BY DEF Grew
<1>2. /\ kk[new].level = l - 1 /\ kk[new].block = Blk(p, l)
      /\ \A u \in DOMAIN e.tables : kk[u] = k[u]
  BY DEF Hung
<1>3. l - 1 \in m..(l - 1) /\ Above(p, l - 1) = Blk(p, l)
  BY DEF Above
<1> SUFFICES ASSUME NEW u \in DOMAIN f.tables \ {Root}
             PROVE  \/ InUse(f, u)
                    \/ kk[u].level \in m..(l - 1) /\ kk[u].block = Above(p, kk[u].level)
  BY DEF FullBut
<1>4. CASE u = new
  BY <1>2, <1>3, <1>4
<1>5. CASE u = t
  <2>1. Index(p, l) \in 0..(F - 1) /\ TableEntry(new).kind # "none"
    BY PageIs, TableKind
  <2> QED
    BY <1>1, <1>5, <2>1 DEF InUse
<1>6. CASE u # new /\ u # t
  <2>1. u \in DOMAIN e.tables \ {Root} /\ kk[u] = k[u]
    BY <1>1, <1>2, <1>6
  <2>2. CASE InUse(e, u)
    BY <1>1, <1>6, <2>1, <2>2 DEF InUse
  <2>3. CASE k[u].level \in m..l /\ k[u].block = Above(p, k[u].level)
    <3>1. k[u].level # l
      <4> SUFFICES ASSUME k[u].level = l PROVE FALSE
        OBVIOUS
      <4>1. At(e, k, u, l, p)
        BY <2>1, <2>3 DEF At
      <4> QED
        BY <1>6, <4>1, Unique
    <3>2. k[u].level \in m..(l - 1)
      BY <2>3, <3>1
    <3> QED
      BY <2>1, <2>3, <3>2
  <2> QED
    BY <2>1, <2>2, <2>3 DEF FullBut
<1> QED
  BY <1>4, <1>5, <1>6

LEMMA GrowClear ==
  ASSUME NEW e, NEW k, Tree(e, k), NEW p \in Page, NEW l \in 2..4, NEW t, At(e, k, t, l, p),
         NEW f, NEW new, Grew(e, f, t, Index(p, l), new),
         NEW kk, Hung(e, f, k, kk, new, l, Blk(p, l)),
         NEW m \in 1..3, m < l, Clear(e, k, p, m)
  PROVE  Clear(f, kk, p, m)
<1>1. /\ DOMAIN f.tables = DOMAIN e.tables \cup {new}
      /\ f.tables[t][Index(p, l)] = TableEntry(new)
      /\ \A j \in 0..(F - 1) : f.tables[new][j] = Absent
      /\ \A u \in DOMAIN e.tables, j \in 0..(F - 1) :
           <<u, j>> # <<t, Index(p, l)>> => f.tables[u][j] = e.tables[u][j]
  BY DEF Grew
<1>2. /\ kk[new].level = l - 1 /\ kk[new].block = Blk(p, l)
      /\ \A u \in DOMAIN e.tables : kk[u] = k[u]
  BY DEF Hung
<1> SUFFICES ASSUME NEW j \in m..4, NEW u, At(f, kk, u, j, p)
             PROVE  /\ j > m => For(f, u, j, p).kind # "page"
                    /\ j = m => For(f, u, j, p).kind # "table"
  BY DEF Clear
<1>3. j \in 1..4 /\ Index(p, j) \in 0..(F - 1)
  BY PageIs
<1>4. CASE u = new
  <2>1. For(f, u, j, p) = Absent
    BY <1>1, <1>3, <1>4 DEF For
  <2> QED
    BY <2>1, TableKind
<1>5. CASE u = t /\ u # new
  <2>1. kk[t] = k[t] /\ k[t].level = l
    BY <1>2 DEF At
  <2>2. j = l
    BY <1>5, <2>1 DEF At
  <2>3. For(f, u, j, p) = TableEntry(new)
    BY <1>1, <1>5, <2>2 DEF For
  <2> QED
    BY <2>2, <2>3, TableKind
<1>6. CASE u # new /\ u # t
  <2>1. u \in DOMAIN e.tables /\ At(e, k, u, j, p)
    BY <1>1, <1>2, <1>6 DEF At
  <2>2. For(f, u, j, p) = For(e, u, j, p)
    BY <1>1, <1>3, <1>6, <2>1 DEF For
  <2> QED
    BY <2>1, <2>2 DEF Clear
<1> QED
  BY <1>4, <1>5, <1>6

\* map() has come to table t of level l on its way to the entry of level m for p, in f.
Arrived(e, f, t, p, l, m) ==
  /\ SameWalk(e, f)
  /\ \E k : Tree(f, k) /\ At(f, k, t, l, p) /\ FullBut(f, k, p, m, l) /\ Clear(f, k, p, m)

LEMMA SubtableIs ==
  ASSUME NEW e, NEW f, NEW t, NEW p \in Page, NEW l \in 2..4, NEW m \in 1..3, m < l,
         Arrived(e, f, t, p, l, m)
  PROVE  LET s == MapSubtable(f, t, Index(p, l))
         IN  Arrived(e, s.ept, s.table, p, l - 1, m)
<1>1. PICK k : Tree(f, k) /\ At(f, k, t, l, p) /\ FullBut(f, k, p, m, l) /\ Clear(f, k, p, m)
  BY DEF Arrived
<1> DEFINE i == Index(p, l)
           s == MapSubtable(f, t, i)
           x == For(f, t, l, p)
<1>2. t \in DOMAIN f.tables /\ t # Null /\ i \in 0..(F - 1) /\ Base(f)
  <2>1. t \in DOMAIN f.tables /\ Base(f)
    BY <1>1 DEF At, Tree
  <2>2. t # Null
    BY <2>1, EptAssumption DEF Base, Root, Null
  <2> QED
    BY <2>1, <2>2, PageIs
<1>3. Fits(x, f, k, l, Blk(p, l)) /\ x = f.tables[t][i]
  BY <1>1, ForFits DEF For
<1>4. x.kind # "page"
  BY <1>1 DEF Clear
<1>5. CASE x.kind = "table"
  <2>1. s.ept = f /\ s.table = x.to
    BY <1>2, <1>3, <1>5 DEF MapSubtable
  <2>2. At(f, k, x.to, l - 1, p)
    BY <1>1, <1>5, Child
  <2>3. FullBut(f, k, p, m, l - 1)
    <3> SUFFICES ASSUME NEW u \in DOMAIN f.tables \ {Root}, ~InUse(f, u)
                 PROVE  k[u].level \in m..(l - 1) /\ k[u].block = Above(p, k[u].level)
      BY DEF FullBut
    <3>1. k[u].level \in m..l /\ k[u].block = Above(p, k[u].level)
      BY <1>1 DEF FullBut
    <3>2. u # t
      BY <1>2, <1>3, <1>5 DEF InUse
    <3>3. k[u].level # l
      <4> SUFFICES ASSUME k[u].level = l PROVE FALSE
        OBVIOUS
      <4>1. At(f, k, u, l, p)
        BY <3>1 DEF At
      <4> QED
        BY <1>1, <3>2, <4>1, Unique
    <3> QED
      BY <3>1, <3>3
  <2> HIDE DEF s, x
  <2> QED
    BY <1>1, <2>1, <2>2, <2>3 DEF Arrived, s
<1>6. CASE x.kind = "none"
  <2>1. x = Absent
    BY <1>3, <1>6, Kinds
  <2>2. Tables \ DOMAIN f.tables # {}
    BY <1>1, <2>1, RoomIs
  <2> DEFINE new == Min(Tables \ DOMAIN f.tables)
             g == [Put(f, t, i, TableEntry(new)) EXCEPT !.tables = Allocate(@, new)]
  <2>3. new \in Tables \ DOMAIN f.tables
    <3>1. Tables \ DOMAIN f.tables \subseteq Nat
      BY EptAssumption
    <3> QED
      BY <2>2, <3>1, MinIs
  <2>4. s.ept = g /\ s.table = new
    BY <1>2, <1>3, <1>6, <2>2 DEF MapSubtable
  <2> HIDE DEF new, s, x
  <2>5. Grew(f, g, t, i, new)
    BY <1>2, <2>3, AllocateIs
  <2> HIDE DEF g
  <2>6. PICK kk : Hung(f, g, k, kk, new, l, Blk(p, l))
    BY <1>1, <2>1, <2>5, GrowTree DEF x
  <2>7. SameWalk(f, g)
    BY <1>1, <2>1, <2>5, <2>6, GrowWalks DEF x
  <2>8. FullBut(g, kk, p, m, l - 1)
    BY <1>1, <2>5, <2>6, GrowFull
  <2>9. Clear(g, kk, p, m)
    BY <1>1, <2>5, <2>6, GrowClear
  <2>10. At(g, kk, new, l - 1, p)
    BY <2>5, <2>6 DEF At, Grew, Hung, Above
  <2>11. SameWalk(e, g)
    BY <2>7 DEF Arrived, SameWalk
  <2> QED
    BY <2>4, <2>6, <2>8, <2>9, <2>10, <2>11 DEF Arrived, Hung, s
<1> QED
  BY <1>3, <1>4, <1>5, <1>6, Kinds

---------------------------------------------------------------------------
(***************************************************************************)
(* unmap_entry() frees what hangs from an entry: the set Z of tables below *)
(* it, which is closed and covers the block of the entry only.             *)
(***************************************************************************)
LEMMA ParentUnique ==
  ASSUME NEW e, NEW k, Tree(e, k), NEW v,
         NEW t \in DOMAIN e.tables, NEW i \in 0..(F - 1), e.tables[t][i] = TableEntry(v),
         NEW u \in DOMAIN e.tables, NEW j \in 0..(F - 1), e.tables[u][j] = TableEntry(v)
  PROVE  t = u /\ i = j
<1>1. ASSUME NEW s \in DOMAIN e.tables, NEW n \in 0..(F - 1), e.tables[s][n] = TableEntry(v)
      PROVE  /\ k[s].level \in 1..4 /\ k[s].block \in Nat
             /\ k[v].level = k[s].level - 1 /\ k[v].block = F * k[s].block + n
  <2>1. Fits(e.tables[s][n], e, k, k[s].level, F * k[s].block + n)
    BY DEF Tree, Entries
  <2>2. e.tables[s][n].kind = "table" /\ e.tables[s][n].to = v
    BY <1>1, TableKind
  <2> QED
    BY <2>1, <2>2, Kinds DEF TableAt, Tree, Nodes, Node
<1>2. k[t].level = k[u].level
  BY <1>1
<1>3. F * k[t].block + i = F * k[u].block + j
  BY <1>1
<1>4. k[t].block = k[u].block /\ i = j
  BY <1>1, <1>3, CellIs
<1> QED
  BY <1>2, <1>4 DEF Tree, Distinct

\* The tables of S cover pages of the block of p only.
Within(e, k, S, p, l) ==
  \A v \in S, j \in 1..4, q \in Page : At(e, k, v, j, q) => Blk(q, l) = Blk(p, l)

OfLevel(e, k, S, a) == \A v \in S : v \in DOMAIN e.tables /\ k[v].level = a

\* A table hangs from a table of S just when it is in C.
Below1(e, S, C) ==
  \A u \in DOMAIN e.tables, j \in 0..(F - 1), v \in DOMAIN e.tables :
    e.tables[u][j] = TableEntry(v) => (v \in C <=> u \in S)

LEMMA ChildrenAre ==
  ASSUME NEW e, NEW k, Tree(e, k), NEW S, NEW a \in 1..4, OfLevel(e, k, S, a),
         NEW p, NEW l, Within(e, k, S, p, l)
  PROVE  /\ OfLevel(e, k, Children(e, S), a - 1)
         /\ Within(e, k, Children(e, S), p, l)
         /\ Below1(e, S, Children(e, S))
         /\ a = 1 => Children(e, S) = {}
<1> DEFINE C == Children(e, S)
<1>1. \A u \in S : u \in DOMAIN e.tables /\ k[u].level = a
  BY DEF OfLevel
<1>2. ASSUME NEW v \in C
      PROVE  \E u \in S, i \in 0..(F - 1) :
               /\ e.tables[u][i] = TableEntry(v) /\ v \in DOMAIN e.tables
               /\ k[v].level = a - 1 /\ k[v].block = F * k[u].block + i
  <2>1. PICK u \in S, i \in 0..(F - 1) : e.tables[u][i].kind = "table" /\ v = e.tables[u][i].to
    BY <1>2 DEF Children, F
  <2>2. Fits(e.tables[u][i], e, k, k[u].level, F * k[u].block + i)
    BY <1>1, <2>1 DEF Tree, Entries
  <2>3. TableAt(e.tables[u][i], e, k, a, F * k[u].block + i)
    BY <1>1, <2>1, <2>2, Kinds
  <2> QED
    BY <2>1, <2>3 DEF TableAt
<1>3. OfLevel(e, k, C, a - 1)
  BY <1>2 DEF OfLevel
<1>4. a = 1 => C = {}
  <2> SUFFICES ASSUME a = 1, NEW v \in C PROVE FALSE
    OBVIOUS
  <2>1. v \in DOMAIN e.tables /\ k[v].level = 0
    BY <1>2
  <2> QED
    BY <2>1 DEF Tree, Nodes, Node
<1>5. Below1(e, S, C)
  <2> SUFFICES ASSUME NEW u \in DOMAIN e.tables, NEW j \in 0..(F - 1), NEW v \in DOMAIN e.tables,
                      e.tables[u][j] = TableEntry(v)
               PROVE  v \in C <=> u \in S
    BY DEF Below1
  <2>1. ASSUME u \in S PROVE v \in C
    <3>1. e.tables[u][j].kind = "table" /\ e.tables[u][j].to = v
      BY TableKind
    <3> QED
      BY <2>1, <3>1 DEF Children, F
  <2>2. ASSUME v \in C PROVE u \in S
    <3>1. PICK s \in S, i \in 0..(F - 1) : e.tables[s][i] = TableEntry(v)
      BY <1>2, <2>2
    <3>2. s = u
      BY <1>1, <3>1, ParentUnique
    <3> QED
      BY <3>2
  <2> QED
    BY <2>1, <2>2
<1>6. Within(e, k, C, p, l)
  <2> SUFFICES ASSUME NEW v \in C, NEW j \in 1..4, NEW q \in Page, At(e, k, v, j, q)
               PROVE  Blk(q, l) = Blk(p, l)
    BY DEF Within
  <2>1. PICK u \in S, i \in 0..(F - 1) :
               k[v].level = a - 1 /\ k[v].block = F * k[u].block + i
    BY <1>2
  <2>2. j = a - 1 /\ a \in 2..4 /\ k[v].block = Above(q, j)
    BY <2>1 DEF At
  <2>3. Above(q, j) = Blk(q, a)
    BY <2>2 DEF Above
  <2>4. /\ Above(q, a) \in Nat /\ Index(q, a) \in 0..(F - 1)
        /\ Blk(q, a) = F * Above(q, a) + Index(q, a)
    BY PageIs
  <2>5. u \in DOMAIN e.tables /\ k[u].level = a /\ k[u].block \in Nat
    BY <1>1, <2>1 DEF Tree, Nodes, Node
  <2>6. F * k[u].block + i = F * Above(q, a) + Index(q, a)
    BY <2>1, <2>2, <2>3, <2>4
  <2>7. k[u].block = Above(q, a)
    BY <2>1, <2>4, <2>5, <2>6, CellIs
  <2>8. At(e, k, u, a, q)
    BY <2>5, <2>7 DEF At
  <2> QED
    BY <2>8 DEF Within
<1> QED
  BY <1>3, <1>4, <1>5, <1>6

\* Z is what hangs from entry i of table t.
Closed(e, t, i, Z) ==
  /\ Z \subseteq DOMAIN e.tables
  /\ \A u \in DOMAIN e.tables, j \in 0..(F - 1), v \in DOMAIN e.tables :
       e.tables[u][j] = TableEntry(v) => (v \in Z <=> u \in Z \/ <<u, j>> = <<t, i>>)

\* unmap_entry() frees Z and clears the entry.
Freed(entry, e, l) ==
  IF entry.kind # "table" THEN {}
  ELSE CASE l = 2 -> {entry.to}
         [] l = 3 -> {entry.to} \cup Children(e, {entry.to})
         [] OTHER -> {entry.to} \cup Children(e, {entry.to})
                                \cup Children(e, Children(e, {entry.to}))

LEMMA FreedIs ==
  ASSUME NEW e, NEW k, Tree(e, k), NEW p \in Page, NEW l \in 2..4, NEW t, At(e, k, t, l, p)
  PROVE  LET Z == Freed(For(e, t, l, p), e, l)
         IN  /\ Closed(e, t, Index(p, l), Z) /\ Within(e, k, Z, p, l)
             /\ \A v \in Z : k[v].level < l
<1> DEFINE x == For(e, t, l, p)
           i == Index(p, l)
           Z == Freed(x, e, l)
           Y1 == {x.to}
           Y2 == Children(e, Y1)
           Y3 == Children(e, Y2)
<1>1. t \in DOMAIN e.tables /\ i \in 0..(F - 1) /\ x = e.tables[t][i] /\ k[t].level = l
  BY PageIs DEF At, For
<1>2. CASE x.kind # "table"
  <2>1. Z = {}
    BY <1>2 DEF Freed
  <2>2. ASSUME NEW u \in DOMAIN e.tables, NEW j \in 0..(F - 1), NEW v,
               e.tables[u][j] = TableEntry(v)
        PROVE  <<u, j>> # <<t, i>>
    BY <1>1, <1>2, <2>2, TableKind
  <2> HIDE DEF Z
  <2> QED
    BY <2>1, <2>2 DEF Closed, Within, Z
<1>3. CASE x.kind = "table"
  <2>1. x = TableEntry(x.to) /\ At(e, k, x.to, l - 1, p) /\ l - 1 \in 1..3
    BY <1>3, Child
  <2>2. OfLevel(e, k, Y1, l - 1)
    BY <2>1 DEF OfLevel, At
  <2>3. Within(e, k, Y1, p, l)
    <3> SUFFICES ASSUME NEW j \in 1..4, NEW q \in Page, At(e, k, x.to, j, q)
                 PROVE  Blk(q, l) = Blk(p, l)
      BY DEF Within
    <3>1. j = l - 1 /\ Above(q, j) = Above(p, l - 1)
      BY <2>1 DEF At
    <3> QED
      BY <2>1, <3>1 DEF Above
  <2>4. ASSUME NEW u \in DOMAIN e.tables, NEW j \in 0..(F - 1), NEW v,
               e.tables[u][j] = TableEntry(v)
        PROVE  v \in Y1 <=> <<u, j>> = <<t, i>>
    <3>1. ASSUME <<u, j>> = <<t, i>> PROVE v = x.to
      BY <1>1, <2>4, <3>1, TableKind
    <3>2. ASSUME v = x.to PROVE u = t /\ j = i
      BY <1>1, <2>1, <2>4, <3>2, ParentUnique
    <3> QED
      BY <3>1, <3>2
  <2>5. /\ OfLevel(e, k, Y2, l - 2) /\ Within(e, k, Y2, p, l) /\ Below1(e, Y1, Y2)
        /\ l = 2 => Y2 = {}
    <3>1. l - 1 \in 1..4 /\ (l - 1) - 1 = l - 2 /\ (l - 1 = 1 <=> l = 2)
      OBVIOUS
    <3> HIDE DEF Y1
    <3> QED
      BY <2>2, <2>3, <3>1, ChildrenAre
  <2>6. l > 2 => /\ OfLevel(e, k, Y3, l - 3) /\ Within(e, k, Y3, p, l) /\ Below1(e, Y2, Y3)
                 /\ l = 3 => Y3 = {}
    <3> SUFFICES ASSUME l > 2
                 PROVE  /\ OfLevel(e, k, Y3, l - 3) /\ Within(e, k, Y3, p, l) /\ Below1(e, Y2, Y3)
                        /\ l = 3 => Y3 = {}
      OBVIOUS
    <3>1. l - 2 \in 1..4 /\ (l - 2) - 1 = l - 3 /\ (l - 2 = 1 <=> l = 3)
      OBVIOUS
    <3> HIDE DEF Y2
    <3> QED
      BY <2>5, <3>1, ChildrenAre
  <2>7. l = 4 => Below1(e, Y3, {})
    <3> SUFFICES ASSUME l = 4 PROVE Below1(e, Y3, {})
      OBVIOUS
    <3>1. OfLevel(e, k, Y3, 1) /\ Within(e, k, Y3, p, l) /\ 1 \in 1..4
      BY <2>6
    <3> HIDE DEF Y3
    <3>2. Below1(e, Y3, Children(e, Y3)) /\ Children(e, Y3) = {}
      BY <3>1, ChildrenAre
    <3> QED
      BY <3>2
  <2>8. Z = IF l = 2 THEN Y1 ELSE IF l = 3 THEN Y1 \cup Y2 ELSE Y1 \cup Y2 \cup Y3
    BY <1>3 DEF Freed
  <2> HIDE DEF Z, Y1, Y2, Y3, x
  <2>9. /\ \A v \in Y1 : v \in DOMAIN e.tables /\ k[v].level = l - 1
        /\ \A v \in Y2 : v \in DOMAIN e.tables /\ k[v].level = l - 2
        /\ l > 2 => \A v \in Y3 : v \in DOMAIN e.tables /\ k[v].level = l - 3
    BY <2>2, <2>5, <2>6 DEF OfLevel
  <2>10. /\ Z \subseteq DOMAIN e.tables
         /\ \A v \in Z : k[v].level < l
    BY <2>8, <2>9
  <2>11. Within(e, k, Z, p, l)
    BY <2>3, <2>5, <2>6, <2>8 DEF Within
  <2>12. ASSUME NEW u \in DOMAIN e.tables, NEW j \in 0..(F - 1), NEW v \in DOMAIN e.tables,
                e.tables[u][j] = TableEntry(v)
         PROVE  v \in Z <=> u \in Z \/ <<u, j>> = <<t, i>>
    <3>1. v \in Y1 <=> <<u, j>> = <<t, i>>
      BY <2>4, <2>12
    <3>2. (v \in Y2 <=> u \in Y1) /\ (l > 2 => (v \in Y3 <=> u \in Y2)) /\ (l = 4 => u \notin Y3)
      BY <2>5, <2>6, <2>7, <2>12 DEF Below1
    <3> HIDE DEF i
    <3>3. CASE l = 2
      BY <2>5, <2>8, <3>1, <3>2, <3>3
    <3>4. CASE l = 3
      BY <2>6, <2>8, <3>1, <3>2, <3>4
    <3>5. CASE l = 4
      BY <2>8, <3>1, <3>2, <3>5
    <3> QED
      BY <3>3, <3>4, <3>5
  <2>13. Closed(e, t, i, Z)
    BY <2>10, <2>12 DEF Closed
  <2> QED
    BY <2>10, <2>11, <2>13 DEF Z, x
<1> QED
  BY <1>2, <1>3

\* In f, entry i of table t is absent, the tables of Z are gone, and nothing else changed.
Shed(e, f, t, i, Z) ==
  /\ Base(f) /\ DOMAIN f.tables = DOMAIN e.tables \ Z
  /\ f.tables[t][i] = Absent
  /\ \A u \in DOMAIN e.tables \ Z, j \in 0..(F - 1) :
       <<u, j>> # <<t, i>> => f.tables[u][j] = e.tables[u][j]

LEMMA UnmapSheds ==
  ASSUME NEW e, Base(e), NEW t \in DOMAIN e.tables, NEW i \in 0..(F - 1), NEW slot,
         slot.table = t, slot.index = i, e.tables[t][i].kind # "none", NEW l \in 2..4,
         LET Z == Freed(e.tables[t][i], e, l) IN t \notin Z /\ Root \notin Z
  PROVE  Shed(e, UnmapEntry(e, slot, l), t, i, Freed(e.tables[t][i], e, l))
<1> DEFINE x == e.tables[t][i]
           Z == Freed(x, e, l)
           g == [e EXCEPT !.tables = [u \in DOMAIN e.tables \ Z |-> e.tables[u]]]
           f == UnmapEntry(e, slot, l)
<1>1. Entry(e, slot) = x
  BY DEF Entry
<1>2. f = Put(g, t, i, Absent)
  BY <1>1 DEF UnmapEntry, Freed, pd, pdpt
<1> HIDE DEF f, x, Z
<1>3. DOMAIN g = DOMAIN e /\ g.fault = e.fault /\ DOMAIN g.tables = DOMAIN e.tables \ Z
  BY DEF Base
<1>4. \A u \in DOMAIN e.tables \ Z : g.tables[u] = e.tables[u]
  BY DEF Base
<1>5. t \notin Z /\ Root \notin Z
  BY DEF x, Z
<1> HIDE DEF g
<1>6. Base(g)
  BY <1>3, <1>4, <1>5 DEF Base
<1>7. Wrote(g, f, t, i, Absent)
  BY <1>2, <1>3, <1>5, <1>6, PutIs
<1>8. Shed(e, f, t, i, Z)
  BY <1>3, <1>4, <1>7 DEF Wrote, Shed
<1> QED
  BY <1>8 DEF f, x, Z

LEMMA ShedTree ==
  ASSUME NEW e, NEW k, Tree(e, k), NEW t, NEW i, NEW Z, Closed(e, t, i, Z),
         t \in DOMAIN e.tables \ Z, i \in 0..(F - 1), NEW f, Shed(e, f, t, i, Z)
  PROVE  Tree(f, k)
<1>1. /\ Base(f) /\ DOMAIN f.tables = DOMAIN e.tables \ Z
      /\ f.tables[t][i] = Absent
      /\ \A u \in DOMAIN e.tables \ Z, j \in 0..(F - 1) :
           <<u, j>> # <<t, i>> => f.tables[u][j] = e.tables[u][j]
  BY DEF Shed
<1>2. \A u \in DOMAIN e.tables, j \in 0..(F - 1), v \in DOMAIN e.tables :
        e.tables[u][j] = TableEntry(v) => (v \in Z <=> u \in Z \/ <<u, j>> = <<t, i>>)
  BY DEF Closed
<1>3. Nodes(f, k)
  <2> SUFFICES ASSUME NEW u \in DOMAIN e.tables \ Z PROVE Node(f, k, u)
    BY <1>1 DEF Nodes
  <2>1. Node(e, k, u)
    BY DEF Tree, Nodes
  <2>2. ASSUME u # Root
        PROVE  \E v \in DOMAIN f.tables, j \in 0..(F - 1) : f.tables[v][j] = TableEntry(u)
    <3>1. PICK v \in DOMAIN e.tables, j \in 0..(F - 1) : e.tables[v][j] = TableEntry(u)
      BY <2>1, <2>2 DEF Node
    <3>2. v \notin Z /\ <<v, j>> # <<t, i>>
      BY <1>2, <3>1
    <3> QED
      BY <1>1, <3>1, <3>2
  <2> QED
    BY <2>1, <2>2 DEF Node
<1>4. Distinct(f, k)
  BY <1>1 DEF Tree, Distinct
<1>5. Entries(f, k)
  <2> SUFFICES ASSUME NEW u \in DOMAIN e.tables \ Z, NEW j \in 0..(F - 1)
               PROVE  Fits(f.tables[u][j], f, k, k[u].level, F * k[u].block + j)
    BY <1>1 DEF Entries
  <2>1. CASE <<u, j>> = <<t, i>>
    <3>1. f.tables[u][j] = Absent
      BY <1>1, <2>1
    <3> QED
      BY <3>1, TableKind DEF Fits
  <2>2. CASE <<u, j>> # <<t, i>>
    <3> DEFINE x == e.tables[u][j]
    <3>1. Fits(x, e, k, k[u].level, F * k[u].block + j)
      BY DEF Tree, Entries
    <3>2. f.tables[u][j] = x
      BY <1>1, <2>2
    <3>3. x.to \in DOMAIN e.tables /\ x = TableEntry(x.to) => x.to \in DOMAIN f.tables
      BY <1>1, <1>2, <2>2
    <3> HIDE DEF x
    <3> QED
      BY <3>1, <3>2, <3>3 DEF Fits, TableAt
  <2> QED
    BY <2>1, <2>2
<1> QED
  BY <1>1, <1>3, <1>4, <1>5 DEF Tree

LEMMA ShedWalks ==
  ASSUME NEW e, NEW k, Tree(e, k), NEW p \in Page, NEW l \in 2..4, NEW t, At(e, k, t, l, p),
         NEW Z, Closed(e, t, Index(p, l), Z), Within(e, k, Z, p, l), t \notin Z,
         NEW f, Shed(e, f, t, Index(p, l), Z)
  PROVE  Remapped(e, f, p, l, Absent)
<1> DEFINE i == Index(p, l)
<1>1. t \in DOMAIN e.tables \ Z /\ i \in 0..(F - 1)
  BY PageIs DEF At
<1>2. Tree(f, k)
  BY <1>1, ShedTree
<1>3. /\ DOMAIN f.tables = DOMAIN e.tables \ Z /\ f.tables[t][i] = Absent
      /\ \A u \in DOMAIN e.tables \ Z, j \in 0..(F - 1) :
           <<u, j>> # <<t, i>> => f.tables[u][j] = e.tables[u][j]
  BY DEF Shed
<1> SUFFICES ASSUME NEW q \in Page
             PROVE  Translate(f, q) = IF Blk(q, l) = Blk(p, l) THEN Found(Absent, l, q)
                                      ELSE Translate(e, q)
  BY DEF Remapped
<1>4. CASE Blk(q, l) = Blk(p, l)
  <2>1. Above(q, l) = Above(p, l) /\ Index(q, l) = i
    BY <1>4, SameAbove
  <2>2. At(f, k, t, l, q) /\ For(f, t, l, q) = Absent
    BY <1>1, <1>3, <2>1 DEF At, For
  <2>3. End(f, k, t, l, q)
    BY <2>2, TableKind DEF End
  <2> QED
    BY <1>2, <1>4, <2>2, <2>3, TranslateIs
<1>5. CASE Blk(q, l) # Blk(p, l)
  <2>1. PICK j \in 1..4, u \in DOMAIN e.tables : End(e, k, u, j, q)
    BY WalkEnds
  <2>2. At(e, k, u, j, q)
    BY <2>1 DEF End
  <2>3. u \notin Z
    BY <1>5, <2>2 DEF Within
  <2>4. For(f, u, j, q) = For(e, u, j, q)
    BY <1>3, <1>5, <2>2, <2>3, ElsewhereSame DEF For
  <2>5. End(f, k, u, j, q)
    BY <1>3, <2>1, <2>3, <2>4 DEF End, At
  <2>6. Translate(f, q) = Found(For(f, u, j, q), j, q)
    BY <1>2, <2>5, TranslateIs
  <2>7. Translate(e, q) = Found(For(e, u, j, q), j, q)
    BY <2>1, TranslateIs
  <2> QED
    BY <1>5, <2>4, <2>6, <2>7
<1> QED
  BY <1>4, <1>5

\* A block may be mapped at level m: its way down is clear.
Ready(e, p, m) == \E k : Tree(e, k) /\ FullBut(e, k, p, m, 4) /\ Clear(e, k, p, m)

LEMMA UnmapIs ==
  ASSUME NEW e, NEW k, Tree(e, k), Full(e),
         NEW p \in Page, NEW l \in 2..4, NEW t, At(e, k, t, l, p),
         For(e, t, l, p).kind # "none", NEW slot, slot.table = t, slot.index = Index(p, l)
  PROVE  LET f == UnmapEntry(e, slot, l)
         IN  /\ Tree(f, k) /\ t \in DOMAIN f.tables
             /\ f.tables[t][Index(p, l)] = Absent
             /\ Remapped(e, f, p, l, Absent)
             /\ \A m \in 1..l : Ready(f, p, m)
             /\ \A i \in 0..(F - 1) : i # Index(p, l) => f.tables[t][i] = e.tables[t][i]
             /\ l = 4 => Full(f)
<1> DEFINE i == Index(p, l)
           Z == Freed(For(e, t, l, p), e, l)
           f == UnmapEntry(e, slot, l)
<1>1. /\ t \in DOMAIN e.tables /\ i \in 0..(F - 1)
      /\ For(e, t, l, p) = e.tables[t][i] /\ k[t].level = l
  BY PageIs DEF At, For
<1>2. Closed(e, t, i, Z) /\ Within(e, k, Z, p, l) /\ \A v \in Z : k[v].level < l
  BY FreedIs
<1>3. Base(e) /\ Root \in DOMAIN e.tables /\ k[Root].level = 4
  BY DEF Tree, Base, Nodes, Node
<1>4. t \notin Z /\ Root \notin Z
  BY <1>1, <1>2, <1>3
<1>5. Shed(e, f, t, i, Z)
  BY <1>1, <1>3, <1>4, UnmapSheds
<1> HIDE DEF f, Z
<1>6. /\ DOMAIN f.tables = DOMAIN e.tables \ Z
      /\ f.tables[t][i] = Absent
      /\ \A u \in DOMAIN e.tables \ Z, j \in 0..(F - 1) :
           <<u, j>> # <<t, i>> => f.tables[u][j] = e.tables[u][j]
  BY <1>5 DEF Shed
<1>7. Tree(f, k)
  BY <1>1, <1>2, <1>4, <1>5, ShedTree
<1>8. Remapped(e, f, p, l, Absent)
  BY <1>2, <1>4, <1>5, ShedWalks
<1>9. At(f, k, t, l, p) /\ For(f, t, l, p) = Absent
  BY <1>1, <1>4, <1>6 DEF At, For
<1>10. \A u \in DOMAIN f.tables \ {Root} : u # t => InUse(f, u)
  BY <1>6 DEF Full, InUse
<1>11. ASSUME NEW m \in 1..l PROVE Ready(f, p, m)
  <2>1. FullBut(f, k, p, m, 4)
    <3>1. k[t].level \in m..4 /\ k[t].block = Above(p, k[t].level)
      BY <1>1 DEF At
    <3> QED
      BY <1>10, <3>1 DEF FullBut
  <2>2. Clear(f, k, p, m)
    <3> SUFFICES ASSUME NEW j \in m..4, NEW u, At(f, k, u, j, p)
                 PROVE  /\ j > m => For(f, u, j, p).kind # "page"
                        /\ j = m => For(f, u, j, p).kind # "table"
      BY DEF Clear
    <3>1. CASE j = l
      <4>1. u = t
        BY <1>7, <1>9, <3>1, Unique
      <4> QED
        BY <1>9, <3>1, <4>1, TableKind
    <3>2. CASE j > l
      <4>1. l \in 1..3 /\ j \in (l + 1)..4
        BY <3>2
      <4>2. PICK v : At(f, k, v, j, p) /\ For(f, v, j, p).kind = "table"
        BY <1>7, <1>9, <4>1, Ancestor
      <4>3. u = v
        BY <1>7, <4>2, Unique
      <4> QED
        BY <3>2, <4>2, <4>3
    <3>3. CASE j < l
      <4>1. j \in 1..3 /\ l \in (j + 1)..4
        BY <3>3
      <4>2. PICK v : At(f, k, v, l, p) /\ For(f, v, l, p).kind = "table"
        BY <1>7, <4>1, Ancestor
      <4>3. v = t
        BY <1>7, <1>9, <4>2, Unique
      <4> QED
        BY <1>9, <4>2, <4>3, TableKind
    <3> QED
      BY <3>1, <3>2, <3>3
  <2> QED
    BY <1>7, <2>1, <2>2 DEF Ready
<1>12. l = 4 => Full(f)
  <2> SUFFICES ASSUME l = 4 PROVE Full(f)
    OBVIOUS
  <2>1. t = Root
    BY <1>1 DEF Tree, Nodes, Node
  <2> QED
    BY <1>10, <2>1 DEF Full
<1>13. t \in DOMAIN f.tables /\ \A j \in 0..(F - 1) : j # i => f.tables[t][j] = e.tables[t][j]
  BY <1>1, <1>4, <1>6
<1> QED
  BY <1>6, <1>7, <1>8, <1>11, <1>12, <1>13 DEF f

---------------------------------------------------------------------------
(***************************************************************************)
(* map() of a page whose way is clear.                                     *)
(***************************************************************************)
\* An entry that points to a table has a mapping below it.
Deep(e, k, l) ==
  \A p \in Page, t \in DOMAIN e.tables :
    At(e, k, t, l, p) /\ For(e, t, l, p).kind = "table"
      => \E q \in Page : Blk(q, l) = Blk(p, l) /\ Translate(e, q).level \in 1..(l - 1)

LEMMA DeepStep ==
  ASSUME NEW e, NEW k, Tree(e, k), Full(e), NEW l \in 2..4, l > 2 => Deep(e, k, l - 1)
  PROVE  Deep(e, k, l)
<1> SUFFICES ASSUME NEW p \in Page, NEW t \in DOMAIN e.tables,
                    At(e, k, t, l, p), For(e, t, l, p).kind = "table"
             PROVE  \E q \in Page : Blk(q, l) = Blk(p, l) /\ Translate(e, q).level \in 1..(l - 1)
  BY DEF Deep
<1> DEFINE u == For(e, t, l, p).to
           n == l - 1
<1>1. At(e, k, u, n, p) /\ n \in 1..3 /\ n + 1 = l /\ n # 4
  BY Child
<1> HIDE DEF u, n
<1>2. u \in DOMAIN e.tables /\ k[u].level = n /\ k[u].block = Blk(p, l)
  BY <1>1 DEF At, Above
<1>3. InUse(e, u)
  BY <1>1, <1>2 DEF Full, Tree, Nodes, Node
<1>4. PICK i \in 0..(F - 1) : e.tables[u][i].kind # "none"
  BY <1>3 DEF InUse
<1>5. PICK q \in Page : Blk(q, n) = F * Blk(p, l) + i
  BY <1>2, <1>4 DEF Tree, Entries, Fits
<1>6. /\ Above(q, n) = Blk(q, l) /\ Blk(p, l) \in Nat /\ Blk(q, l) \in Nat
      /\ Index(q, n) \in 0..(F - 1) /\ Blk(q, n) = F * Blk(q, l) + Index(q, n)
  BY <1>1, PageIs DEF Above
<1>7. F * Blk(p, l) + i = F * Blk(q, l) + Index(q, n)
  BY <1>5, <1>6
<1>8. Blk(q, l) = Blk(p, l) /\ i = Index(q, n)
  BY <1>6, <1>7, CellIs
<1>9. At(e, k, u, n, q) /\ For(e, u, n, q) = e.tables[u][i]
  BY <1>2, <1>6, <1>8 DEF At, For
<1> DEFINE x == For(e, u, n, q)
<1>10. Fits(x, e, k, n, Blk(q, n))
  BY <1>1, <1>9, ForFits
<1>11. x.kind \in {"page", "table"}
  BY <1>4, <1>9, <1>10, Kinds
<1>12. CASE x.kind = "page"
  <2>1. End(e, k, u, n, q)
    BY <1>9, <1>12 DEF End
  <2>2. Translate(e, q) = Found(x, n, q)
    BY <1>1, <2>1, TranslateIs
  <2>3. Translate(e, q).level = n
    BY <1>12, <2>2 DEF Found
  <2> QED
    BY <1>1, <1>8, <2>3 DEF n
<1>13. CASE x.kind = "table"
  <2>1. n \in 2..4
    BY <1>1, <1>9, <1>13, Child
  <2>2. Deep(e, k, n)
    BY <1>1, <2>1 DEF n
  <2>3. PICK r \in Page : Blk(r, n) = Blk(q, n) /\ Translate(e, r).level \in 1..(n - 1)
    BY <1>2, <1>9, <1>13, <2>2 DEF Deep
  <2>4. Blk(r, l) = Blk(q, l)
    <3>1. n \in 1..4 /\ l \in n..4
      BY <1>1
    <3> QED
      BY <2>3, <3>1, SameBlocks
  <2>5. Translate(e, r).level \in 1..(l - 1)
    BY <1>1, <2>3
  <2> QED
    BY <1>8, <2>4, <2>5
<1> QED
  BY <1>11, <1>12, <1>13

LEMMA DeepIs ==
  ASSUME NEW e, NEW k, Tree(e, k), Full(e), NEW l \in 2..4
  PROVE  Deep(e, k, l)
<1>1. Deep(e, k, 2)
  BY DeepStep
<1>2. Deep(e, k, 3)
  BY <1>1, DeepStep
<1>3. Deep(e, k, 4)
  BY <1>2, DeepStep
<1> QED
  BY <1>1, <1>2, <1>3

\* A block where every page is unmapped, or mapped at level m, may be mapped at that level.
LEMMA ReadyIs ==
  ASSUME NEW e, Good(e), NEW p \in Page, NEW m \in 1..3,
         \A q \in Page : Blk(q, m) = Blk(p, m) => Translate(e, q).level \in {0, m}
  PROVE  Ready(e, p, m)
<1>1. PICK k : Tree(e, k)
  BY DEF Good
<1>2. Full(e)
  BY DEF Good
<1>3. FullBut(e, k, p, m, 4)
  BY <1>2 DEF FullBut, Full
<1>4. Clear(e, k, p, m)
  <2> SUFFICES ASSUME NEW l \in m..4, NEW t, At(e, k, t, l, p)
               PROVE  /\ l > m => For(e, t, l, p).kind # "page"
                      /\ l = m => For(e, t, l, p).kind # "table"
    BY DEF Clear
  <2>1. ASSUME l > m, For(e, t, l, p).kind = "page" PROVE FALSE
    <3>1. End(e, k, t, l, p)
      BY <2>1 DEF End
    <3>2. Translate(e, p) = Found(For(e, t, l, p), l, p)
      BY <1>1, <3>1, TranslateIs
    <3>3. Translate(e, p).level = l
      BY <2>1, <3>2 DEF Found
    <3> QED
      BY <2>1, <3>3
  <2>2. ASSUME l = m, For(e, t, l, p).kind = "table" PROVE FALSE
    <3>1. m \in 2..4 /\ t \in DOMAIN e.tables
      BY <1>1, <2>2, Child DEF At
    <3>2. PICK q \in Page : Blk(q, m) = Blk(p, m) /\ Translate(e, q).level \in 1..(m - 1)
      BY <1>1, <1>2, <2>2, <3>1, DeepIs DEF Deep
    <3> QED
      BY <3>2
  <2> QED
    BY <2>1, <2>2
<1> QED
  BY <1>1, <1>3, <1>4 DEF Ready

LEMMA LeafIs ==
  ASSUME NEW e, NEW f, NEW t, NEW p \in Page, NEW m \in 1..3, Arrived(e, f, t, p, m, m),
         NEW x, PageAt(x, m)
  PROVE  LET g == Put(f, t, Index(p, m), x)
         IN  Good(g) /\ Remapped(e, g, p, m, x)
<1> DEFINE g == Put(f, t, Index(p, m), x)
<1>1. PICK k : Tree(f, k) /\ At(f, k, t, m, p) /\ FullBut(f, k, p, m, m) /\ Clear(f, k, p, m)
  BY DEF Arrived
<1>2. t \in DOMAIN f.tables /\ Index(p, m) \in 0..(F - 1) /\ Base(f)
  BY <1>1, PageIs DEF At, Tree
<1>3. Wrote(f, g, t, Index(p, m), x)
  BY <1>2, PutIs
<1> HIDE DEF g
<1>4. For(f, t, m, p).kind # "table"
  BY <1>1 DEF Clear
<1>5. Tree(g, k)
  BY <1>1, <1>3, <1>4, PageTree
<1>6. Remapped(f, g, p, m, x)
  BY <1>1, <1>3, <1>4, PageWalks
<1>7. Full(g)
  BY <1>1, <1>3, PageFull
<1>8. Remapped(e, g, p, m, x)
  BY <1>6 DEF Remapped, Arrived, SameWalk
<1> QED
  BY <1>5, <1>7, <1>8 DEF Good, g

\* The entry map() writes.
Leaf(p, m, host, access) ==
  IF m = 1 THEN PageEntry(host, FALSE, access, MemType[p])
  ELSE PageEntry(host, TRUE, access, MemType[p])

LEMMA LeafEntry ==
  ASSUME NEW p \in Page, NEW m \in 1..3, NEW host \in Nat, NEW access \in Rights \cup {RWX}
  PROVE  PageAt(Leaf(p, m, host, access), m)
<1>1. ASSUME NEW large \in BOOLEAN, large <=> m # 1
      PROVE  PageAt(PageEntry(host, large, access, MemType[p]), m)
  <2> DEFINE x == PageEntry(host, large, access, MemType[p])
  <2>1. /\ x.kind = "page" /\ x.host = host /\ x.large = large /\ x.access = access
        /\ x.type = MemType[p]
    BY DEF PageEntry
  <2> HIDE DEF x
  <2>2. IsLarge(x) <=> m # 1
    BY <1>1, <2>1 DEF IsLarge
  <2>3. \E q \in Page : x.type = MemType[q]
    BY <2>1
  <2>4. PageAt(x, m)
    BY <2>1, <2>2, <2>3 DEF PageAt
  <2> QED
    BY <2>4 DEF x
<1>2. CASE m = 1
  BY <1>1, <1>2 DEF Leaf
<1>3. CASE m # 1
  BY <1>1, <1>3 DEF Leaf
<1> QED
  BY <1>2, <1>3

LEMMA MapIs ==
  ASSUME NEW e, NEW p \in Page, NEW m \in 1..3, Ready(e, p, m),
         NEW host \in Nat, NEW access \in Rights \cup {RWX}
  PROVE  LET g == Map(e, p, host, access, m)
         IN  Good(g) /\ Remapped(e, g, p, m, Leaf(p, m, host, access))
<1> DEFINE x == Leaf(p, m, host, access)
           a == MapSubtable(e, Root, Index(p, 4))
           b == MapSubtable(a.ept, a.table, Index(p, 3))
           c == MapSubtable(b.ept, b.table, Index(p, 2))
           g == Map(e, p, host, access, m)
<1>1. PageAt(x, m)
  BY LeafEntry DEF Leaf
<1>2. Arrived(e, e, Root, p, 4, m)
  <2>1. PICK k : Tree(e, k) /\ FullBut(e, k, p, m, 4) /\ Clear(e, k, p, m)
    BY DEF Ready
  <2> QED
    BY <2>1, RootAt DEF Arrived, SameWalk
<1>3. Arrived(e, a.ept, a.table, p, 3, m)
  BY <1>2, SubtableIs
<1> HIDE DEF a
<1>4. m < 3 => Arrived(e, b.ept, b.table, p, 2, m)
  BY <1>3, SubtableIs
<1> HIDE DEF b
<1>5. m < 2 => Arrived(e, c.ept, c.table, p, 1, m)
  BY <1>4, SubtableIs
<1> HIDE DEF c
<1>6. CASE m = 3
  <2>1. x = PageEntry(host, TRUE, access, MemType[p])
    BY <1>6 DEF Leaf
  <2>2. g = Put(a.ept, a.table, Index(p, 3), PageEntry(host, TRUE, access, MemType[p]))
    BY <1>6 DEF Map, MapPdpt, a, pml4, pdpt
  <2> HIDE DEF g, x
  <2>3. g = Put(a.ept, a.table, Index(p, m), x)
    BY <1>6, <2>1, <2>2
  <2>4. Arrived(e, a.ept, a.table, p, m, m)
    BY <1>3, <1>6
  <2>5. /\ Good(Put(a.ept, a.table, Index(p, m), x))
        /\ Remapped(e, Put(a.ept, a.table, Index(p, m), x), p, m, x)
    BY <1>1, <2>4, LeafIs
  <2> QED
    BY <2>3, <2>5 DEF g, x
<1>7. CASE m = 2
  <2>1. x = PageEntry(host, TRUE, access, MemType[p])
    BY <1>7 DEF Leaf
  <2>2. g = Put(b.ept, b.table, Index(p, 2), PageEntry(host, TRUE, access, MemType[p]))
    BY <1>7 DEF Map, MapPdpt, MapPd, a, b, pml4, pdpt, pd
  <2> HIDE DEF g, x
  <2>3. g = Put(b.ept, b.table, Index(p, m), x)
    BY <1>7, <2>1, <2>2
  <2>4. Arrived(e, b.ept, b.table, p, m, m)
    BY <1>4, <1>7
  <2>5. /\ Good(Put(b.ept, b.table, Index(p, m), x))
        /\ Remapped(e, Put(b.ept, b.table, Index(p, m), x), p, m, x)
    BY <1>1, <2>4, LeafIs
  <2> QED
    BY <2>3, <2>5 DEF g, x
<1>8. CASE m = 1
  <2>1. x = PageEntry(host, FALSE, access, MemType[p])
    BY <1>8 DEF Leaf
  <2>2. g = Put(c.ept, c.table, Index(p, 1), PageEntry(host, FALSE, access, MemType[p]))
    BY <1>8 DEF Map, MapPdpt, MapPd, MapPt, a, b, c, pml4, pdpt, pd, pt
  <2> HIDE DEF g, x
  <2>3. g = Put(c.ept, c.table, Index(p, m), x)
    BY <1>8, <2>1, <2>2
  <2>4. Arrived(e, c.ept, c.table, p, m, m)
    BY <1>5, <1>8
  <2>5. /\ Good(Put(c.ept, c.table, Index(p, m), x))
        /\ Remapped(e, Put(c.ept, c.table, Index(p, m), x), p, m, x)
    BY <1>1, <2>4, LeafIs
  <2> QED
    BY <2>3, <2>5 DEF g, x
<1> QED
  BY <1>6, <1>7, <1>8

---------------------------------------------------------------------------
(***************************************************************************)
(* Loops.  A fold is a function on sets of turns that is chosen by its own *)
(* equation; Run says what the turns do, one by one.  A job says which     *)
(* loop it is.                                                             *)
(***************************************************************************)
BlockTurn(x, p, host, access, level, i) ==
  Map(x, p + (i - 1) * Size[level], host + (i - 1) * Size[level], access, level)

RangeTurn(x, range) ==
  MapBlocks(x, Align(range.begin, pd), Align(range.begin, pd), RWX, pd,
            (Align(range.end + Size[pd] - 1, pd) - Align(range.begin, pd)) \div Size[pd])

RootTurn(x, i) == UnmapEntry(x, [table |-> Root, index |-> i - 1], pml4)

Blocks(p, host, access, level) ==
  [op |-> "block", p |-> p, host |-> host, access |-> access, level |-> level]

Turn(job, x, y) ==
  CASE job.op = "block" -> BlockTurn(x, job.p, job.host, job.access, job.level, y)
    [] job.op = "range" -> RangeTurn(x, y)
    [] OTHER            -> RootTurn(x, y)

Turns(job, e, seq, f, s) ==
  IF s = {} THEN e ELSE Turn(job, f[s \ {Max(s)}], seq[Max(s)])

TakesTurns(job, e, seq, f, n) == \A s \in SUBSET (1..n) : f[s] = Turns(job, e, seq, f, s)

Run(g, job, e, seq, n) ==
  g[0] = e /\ \A i \in 1..n : g[i] = Turn(job, g[i - 1], seq[i])

LEMMA MaxIs ==
  ASSUME NEW n \in Nat, NEW s \in SUBSET (1..n), s # {}
  PROVE  Max(s) \in s /\ \A i \in s : i <= Max(s)
<1>1. s \subseteq Nat /\ \A i \in s : i <= n
  OBVIOUS
<1>2. \E m \in s : \A i \in s : i <= m
  BY <1>1, LargestOf
<1>3. \E m \in s : \A i \in s : m >= i
  BY <1>1, <1>2
<1>4. Max(s) \in s /\ \A i \in s : Max(s) >= i
  BY <1>3 DEF Max
<1> QED
  BY <1>1, <1>4

LEMMA TurnsExist ==
  ASSUME NEW job, NEW e, NEW seq, NEW n \in Nat
  PROVE  \E f : TakesTurns(job, e, seq, f, n)
<1> DEFINE Ok(f, k) == TakesTurns(job, e, seq, f, k)
           N == {k \in Nat : \E f : Ok(f, k)}
<1>1. 0 \in N
  <2> DEFINE f == [s \in {{}} |-> e]
  <2>1. \A s \in SUBSET (1..0) : s = {}
    OBVIOUS
  <2>2. f[{}] = e
    OBVIOUS
  <2> HIDE DEF f
  <2>3. Ok(f, 0)
    BY <2>1, <2>2 DEF TakesTurns, Turns
  <2> QED
    BY <2>3
<1>2. ASSUME NEW k \in Nat, k \in N PROVE k + 1 \in N
  <2>1. PICK f : Ok(f, k)
    BY <1>2
  <2> DEFINE h == [s \in SUBSET (1..(k + 1)) |-> Turns(job, e, seq, f, s)]
  <2>2. \A s \in SUBSET (1..k) : s \in SUBSET (1..(k + 1)) /\ h[s] = f[s]
    BY <2>1 DEF TakesTurns
  <2>3. ASSUME NEW s \in SUBSET (1..(k + 1))
        PROVE  h[s] = Turns(job, e, seq, h, s)
    <3>1. CASE s = {}
      BY <3>1 DEF Turns
    <3>2. CASE s # {}
      <4> DEFINE t == s \ {Max(s)}
      <4>1. Max(s) \in s /\ \A i \in s : i <= Max(s)
        <5>1. k + 1 \in Nat
          OBVIOUS
        <5> QED
          BY <3>2, <5>1, MaxIs
      <4>2. t \in SUBSET (1..k)
        <5> SUFFICES ASSUME NEW i \in s, i # Max(s) PROVE i \in 1..k
          OBVIOUS
        <5>1. i <= Max(s) /\ i \in 1..(k + 1) /\ Max(s) \in 1..(k + 1)
          BY <4>1
        <5> QED
          BY <5>1
      <4>3. h[t] = f[t]
        BY <2>2, <4>2
      <4>4. h[s] = Turns(job, e, seq, f, s)
        OBVIOUS
      <4> HIDE DEF h
      <4> QED
        BY <3>2, <4>3, <4>4 DEF Turns
    <3> QED
      BY <3>1, <3>2
  <2> HIDE DEF h
  <2>4. Ok(h, k + 1)
    BY <2>3 DEF TakesTurns
  <2> QED
    BY <2>4
<1>3. Nat \subseteq N
  <2> HIDE DEF N
  <2> QED
    BY <1>1, <1>2, AllNumbers
<1> QED
  BY <1>3

\* A loop is a function that satisfies its equation.
Loops(job, e, seq, n, f) == f = [s \in SUBSET (1..n) |-> Turns(job, e, seq, f, s)]

LEMMA LoopIs ==
  ASSUME NEW job, NEW e, NEW seq, NEW n \in Nat
  PROVE  \E f : Loops(job, e, seq, n, f)
<1>1. PICK h : TakesTurns(job, e, seq, h, n)
  BY TurnsExist
<1> DEFINE k == [s \in SUBSET (1..n) |-> h[s]]
<1>2. ASSUME NEW s \in SUBSET (1..n) PROVE k[s] = Turns(job, e, seq, k, s)
  <2>1. s \ {Max(s)} \in SUBSET (1..n)
    OBVIOUS
  <2>2. k[s] = h[s] /\ k[s \ {Max(s)}] = h[s \ {Max(s)}]
    BY <2>1
  <2> HIDE DEF k
  <2> QED
    BY <1>1, <2>2 DEF TakesTurns, Turns
<1>3. k = [s \in SUBSET (1..n) |-> Turns(job, e, seq, k, s)]
  BY <1>2
<1> HIDE DEF k
<1>4. Loops(job, e, seq, n, k)
  BY <1>3 DEF Loops
<1> QED
  BY <1>4

LEMMA RunIs ==
  ASSUME NEW job, NEW e, NEW seq, NEW n \in Nat,
         NEW iter, Loops(job, e, seq, n, iter)
  PROVE  \E g : Run(g, job, e, seq, n) /\ iter[1..n] = g[n]
<1> DEFINE S == 1..n
           g == [i \in 0..n |-> iter[1..i]]
<1>1. \A s \in SUBSET S : iter[s] = Turns(job, e, seq, iter, s)
  BY DEF Loops
<1>2. ASSUME NEW i \in 1..n PROVE g[i] = Turn(job, g[i - 1], seq[i])
  <2>1. 1..i \in SUBSET S /\ 1..i # {} /\ i \in 1..i
    OBVIOUS
  <2>2. Max(1..i) \in 1..i /\ \A m \in 1..i : m <= Max(1..i)
    BY <2>1, MaxIs
  <2>3. Max(1..i) = i
    BY <2>1, <2>2
  <2>4. (1..i) \ {i} = 1..(i - 1)
    OBVIOUS
  <2>5. iter[1..i] = Turn(job, iter[1..(i - 1)], seq[i])
    <3>1. iter[1..i] = Turns(job, e, seq, iter, 1..i)
      BY <1>1, <2>1
    <3>2. iter[1..i] = Turn(job, iter[(1..i) \ {i}], seq[i])
      BY <2>1, <2>3, <3>1, Zenon DEF Turns
    <3> QED
      BY <2>4, <3>2, Zenon
  <2>6. g[i] = iter[1..i] /\ g[i - 1] = iter[1..(i - 1)]
    OBVIOUS
  <2> HIDE DEF g
  <2> QED
    BY <2>5, <2>6
<1>3. g[0] = e
  <2>1. 1..0 = {} /\ {} \in SUBSET S
    OBVIOUS
  <2>2. iter[{}] = e
    BY <1>1, <2>1 DEF Turns
  <2>3. g[0] = iter[1..0]
    OBVIOUS
  <2> HIDE DEF g
  <2> QED
    BY <2>1, <2>2, <2>3
<1>4. g[n] = iter[1..n]
  OBVIOUS
<1> HIDE DEF g
<1> QED
  BY <1>2, <1>3, <1>4 DEF Run

LEMMA BlocksAre ==
  ASSUME NEW e, NEW p, NEW host, NEW access, NEW level, NEW n \in Nat
  PROVE  \E g : /\ g[0] = e
                /\ \A i \in 1..n : g[i] = BlockTurn(g[i - 1], p, host, access, level, i)
                /\ MapBlocks(e, p, host, access, level, n) = g[n]
<1> DEFINE seq == [i \in 1..n |-> i]
           job == Blocks(p, host, access, level)
           Step(f, s) == IF s = {} THEN e
                         ELSE BlockTurn(f[s \ {Max(s)}], p, host, access, level, seq[Max(s)])
           iter == CHOOSE f : f = [s \in SUBSET DOMAIN seq |-> Step(f, s)]
<1>1. MapBlocks(e, p, host, access, level, n) = iter[DOMAIN seq]
  BY DEF MapBlocks, FoldLeft, MapThenFoldSet, BlockTurn
<1>2. DOMAIN seq = 1..n /\ \A i \in 1..n : seq[i] = i
  OBVIOUS
<1> HIDE DEF seq
<1>3. \A x, y : Turn(job, x, y) = BlockTurn(x, p, host, access, level, y)
  BY DEF Turn, Blocks
<1> HIDE DEF job
<1>4. \A f, s : Turns(job, e, seq, f, s) = Step(f, s)
  BY <1>3 DEF Turns
<1> HIDE DEF Step
<1>5. PICK k : Loops(job, e, seq, n, k)
  BY LoopIs
<1>6. k = [s \in SUBSET DOMAIN seq |-> Step(k, s)]
  BY <1>2, <1>4, <1>5 DEF Loops
<1>7. iter = [s \in SUBSET DOMAIN seq |-> Step(iter, s)]
  BY <1>6
<1> HIDE DEF iter
<1>8. Loops(job, e, seq, n, iter)
  BY <1>2, <1>4, <1>7 DEF Loops
<1>9. PICK g : Run(g, job, e, seq, n) /\ iter[1..n] = g[n]
  BY <1>8, RunIs
<1> QED
  BY <1>1, <1>2, <1>3, <1>9 DEF Run

\* Run g maps the n ranges of seq one after the other, from e to f.
RangeRun(g, e, f, seq, n) ==
  /\ g[0] = e
  /\ \A i \in 1..n : g[i] = RangeTurn(g[i - 1], seq[i])
  /\ f = g[n]

Numbered(seq, n) == DOMAIN seq = 1..n

LEMMA RangesAre ==
  ASSUME NEW e, NEW seq, NEW n \in Nat, Numbered(seq, n)
  PROVE  \E g : RangeRun(g, e, MapIdentitySparse(e, seq), seq, n)
<1> DEFINE job == [op |-> "range"]
           Step(f, s) == IF s = {} THEN e ELSE RangeTurn(f[s \ {Max(s)}], seq[Max(s)])
           iter == CHOOSE f : f = [s \in SUBSET DOMAIN seq |-> Step(f, s)]
<1>1. MapIdentitySparse(e, seq) = iter[DOMAIN seq]
  BY DEF MapIdentitySparse, FoldLeft, MapThenFoldSet, RangeTurn
<1>2. DOMAIN seq = 1..n
  BY DEF Numbered
<1>3. \A x, y : Turn(job, x, y) = RangeTurn(x, y)
  BY DEF Turn
<1> HIDE DEF job
<1>4. \A f, s : Turns(job, e, seq, f, s) = Step(f, s)
  BY <1>3 DEF Turns
<1> HIDE DEF Step
<1>5. PICK k : Loops(job, e, seq, n, k)
  BY LoopIs
<1>6. k = [s \in SUBSET DOMAIN seq |-> Step(k, s)]
  BY <1>2, <1>4, <1>5 DEF Loops
<1>7. iter = [s \in SUBSET DOMAIN seq |-> Step(iter, s)]
  BY <1>6
<1> HIDE DEF iter
<1>8. Loops(job, e, seq, n, iter)
  BY <1>2, <1>4, <1>7 DEF Loops
<1>9. PICK g : Run(g, job, e, seq, n) /\ iter[1..n] = g[n]
  BY <1>8, RunIs
<1> QED
  BY <1>1, <1>2, <1>3, <1>9 DEF Run, RangeRun

LEMMA DestroyIs ==
  ASSUME NEW e
  PROVE  \E g : /\ g[0] = e
                /\ \A i \in 1..F : g[i] = RootTurn(g[i - 1], i)
                /\ Destroy(e) = g[F]
<1> DEFINE seq == [i \in 1..F |-> i]
           job == [op |-> "root"]
           Step(f, s) == IF s = {} THEN e ELSE RootTurn(f[s \ {Max(s)}], seq[Max(s)])
           iter == CHOOSE f : f = [s \in SUBSET DOMAIN seq |-> Step(f, s)]
<1>1. Destroy(e) = iter[DOMAIN seq]
  BY DEF Destroy, FoldLeft, MapThenFoldSet, RootTurn, F
<1>2. DOMAIN seq = 1..F /\ F \in Nat /\ \A i \in 1..F : seq[i] = i
  BY FanoutIs
<1> HIDE DEF seq
<1>3. \A x, y : Turn(job, x, y) = RootTurn(x, y)
  BY DEF Turn
<1> HIDE DEF job
<1>4. \A f, s : Turns(job, e, seq, f, s) = Step(f, s)
  BY <1>3 DEF Turns
<1> HIDE DEF Step
<1>5. PICK k : Loops(job, e, seq, F, k)
  BY <1>2, LoopIs
<1>6. k = [s \in SUBSET DOMAIN seq |-> Step(k, s)]
  BY <1>2, <1>4, <1>5 DEF Loops
<1>7. iter = [s \in SUBSET DOMAIN seq |-> Step(iter, s)]
  BY <1>6
<1> HIDE DEF iter
<1>8. Loops(job, e, seq, F, iter)
  BY <1>2, <1>4, <1>7 DEF Loops
<1>9. PICK g : Run(g, job, e, seq, F) /\ iter[1..F] = g[F]
  BY <1>2, <1>8, RunIs
<1> QED
  BY <1>1, <1>2, <1>3, <1>9 DEF Run

---------------------------------------------------------------------------
(***************************************************************************)
(* Neighbouring blocks.                                                    *)
(***************************************************************************)
\* What a walk finds for a page of a block of level m.
Frame(q, m, shift, access) ==
  [host |-> q + shift, access |-> access, level |-> m, type |-> MemType[Align(q, m)]]

LEMMA AlignIs ==
  ASSUME NEW q \in Page, NEW m \in 1..4
  PROVE  /\ Align(q, m) = Size[m] * Blk(q, m) /\ Align(q, m) \in Page
         /\ q % Size[m] \in 0..(Size[m] - 1) /\ q = Align(q, m) + (q % Size[m])
<1> DEFINE s == Size[m]
           d == q \div s
           r == q % s
<1>1. s \in Nat \ {0} /\ q \in Nat /\ q < Pages /\ Pages \in Nat
  BY FanoutIs, PageIs, PagesAre DEF Page
<1>2. d \in Nat /\ r \in 0..(s - 1) /\ q = s * d + r
  BY <1>1, DivIs
<1>3. Align(q, m) = q - r /\ Blk(q, m) = d
  BY DEF Align, Blk
<1> HIDE DEF s, d, r
<1>4. s * d \in Nat
  BY <1>1, <1>2
<1>5. Align(q, m) = s * d /\ q = Align(q, m) + r /\ Align(q, m) <= q
  BY <1>1, <1>2, <1>3, <1>4
<1>6. Align(q, m) \in Page
  BY <1>1, <1>4, <1>5 DEF Page
<1> QED
  BY <1>2, <1>3, <1>5, <1>6 DEF s, r

LEMMA BlockIs ==
  ASSUME NEW m \in 1..4, NEW b \in Nat
  PROVE  Blk(Size[m] * b, m) = b
<1>1. Size[m] \in Nat \ {0} /\ 0 \in 0..(Size[m] - 1)
  BY FanoutIs
<1>2. (Size[m] * b + 0) \div Size[m] = b
  BY <1>1, QuotientIs
<1>3. Size[m] * b + 0 = Size[m] * b
  BY <1>1
<1> QED
  BY <1>2, <1>3 DEF Blk

LEMMA FrameIs ==
  ASSUME NEW p \in Page, NEW m \in 1..3, Align(p, m) = p, NEW shift \in Nat, NEW access,
         NEW q \in Page, Blk(q, m) = Blk(p, m)
  PROVE  Found(Leaf(p, m, p + shift, access), m, q) = Frame(q, m, shift, access)
<1> DEFINE x == Leaf(p, m, p + shift, access)
           r == q % Size[m]
<1>1. x.kind = "page" /\ x.host = p + shift /\ x.access = access /\ x.type = MemType[p]
  BY DEF Leaf, PageEntry
<1>2. Align(q, m) = p /\ r \in 0..(Size[m] - 1) /\ q = p + r
  BY AlignIs
<1>3. p \in Nat /\ Size[m] \in Nat
  BY PageIs, FanoutIs
<1>4. Found(x, m, q) = [host |-> x.host + r, access |-> x.access, level |-> m, type |-> x.type]
  BY <1>1 DEF Found
<1> HIDE DEF x, r
<1>5. (p + shift) + r = q + shift
  BY <1>2, <1>3
<1>6. Found(x, m, q) = Frame(q, m, shift, access)
  BY <1>1, <1>2, <1>4, <1>5 DEF Frame
<1> QED
  BY <1>6 DEF x

\* Blocks b to b + n - 1 of level m are mapped, the others are as they were.
Mapped(e, f, m, b, n, shift, access) ==
  \A q \in Page :
    Translate(f, q) = IF Blk(q, m) \in b..(b + n - 1) THEN Frame(q, m, shift, access)
                      ELSE Translate(e, q)

LEMMA OneBlock ==
  ASSUME NEW e, NEW m \in 1..3, NEW b \in Nat, Size[m] * b \in Page,
         Ready(e, Size[m] * b, m), NEW shift \in Nat, NEW access \in Rights \cup {RWX}
  PROVE  LET f == Map(e, Size[m] * b, Size[m] * b + shift, access, m)
         IN  Good(f) /\ Mapped(e, f, m, b, 1, shift, access)
<1> DEFINE p == Size[m] * b
           f == Map(e, p, p + shift, access, m)
           x == Leaf(p, m, p + shift, access)
<1>1. p \in Page /\ p \in Nat /\ p + shift \in Nat /\ Blk(p, m) = b /\ Align(p, m) = p
  <2>1. Blk(p, m) = b /\ p \in Page /\ p \in Nat
    BY BlockIs, PageIs
  <2> QED
    BY <2>1, AlignIs
<1> HIDE DEF p
<1>2. Good(f) /\ Remapped(e, f, p, m, x)
  BY <1>1, MapIs DEF p
<1> HIDE DEF f, x
<1>3. b..(b + 1 - 1) = {b}
  OBVIOUS
<1>4. ASSUME NEW q \in Page
      PROVE  Translate(f, q) = IF Blk(q, m) \in b..(b + 1 - 1) THEN Frame(q, m, shift, access)
                               ELSE Translate(e, q)
  <2>1. Translate(f, q) = IF Blk(q, m) = b THEN Found(x, m, q) ELSE Translate(e, q)
    BY <1>1, <1>2 DEF Remapped
  <2>2. Blk(q, m) = b => Found(x, m, q) = Frame(q, m, shift, access)
    BY <1>1, FrameIs DEF x
  <2> QED
    BY <1>3, <2>1, <2>2
<1> QED
  BY <1>2, <1>4 DEF Mapped, f, p

LEMMA MapBlocksIs ==
  ASSUME NEW e, NEW m \in 1..3, NEW b \in Nat, NEW n \in Nat \ {0},
         \A i \in 0..(n - 1) : Size[m] * (b + i) \in Page,
         Ready(e, Size[m] * b, m),
         \A q \in Page : Blk(q, m) \in (b + 1)..(b + n - 1) => Translate(e, q).level \in {0, m},
         NEW shift \in Nat, NEW access \in Rights \cup {RWX}
  PROVE  LET f == MapBlocks(e, Size[m] * b, Size[m] * b + shift, access, m, n)
         IN  Good(f) /\ Mapped(e, f, m, b, n, shift, access)
<1> DEFINE s == Size[m]
           p == s * b
<1>1. s \in Nat \ {0} /\ n \in Nat
  BY FanoutIs
<1>2. PICK g : /\ g[0] = e
               /\ \A i \in 1..n : g[i] = BlockTurn(g[i - 1], p, p + shift, access, m, i)
               /\ MapBlocks(e, p, p + shift, access, m, n) = g[n]
  BY <1>1, BlocksAre
<1>3. ASSUME NEW i \in 1..n
      PROVE  g[i] = Map(g[i - 1], s * (b + (i - 1)), s * (b + (i - 1)) + shift, access, m)
  <2>1. p + (i - 1) * s = s * (b + (i - 1))
    BY <1>1
  <2>2. p \in Nat /\ (i - 1) * s \in Nat
    BY <1>1
  <2> HIDE DEF p
  <2>3. (p + shift) + (i - 1) * s = (p + (i - 1) * s) + shift
    BY <2>2
  <2>4. g[i] = Map(g[i - 1], p + (i - 1) * s, (p + shift) + (i - 1) * s, access, m)
    BY <1>2 DEF BlockTurn
  <2> QED
    BY <2>1, <2>3, <2>4
<1> HIDE DEF s, p
<1> DEFINE G == {i \in Nat : i \in 1..n => Good(g[i]) /\ Mapped(e, g[i], m, b, i, shift, access)}
<1>4. 0 \in G
  OBVIOUS
<1>5. ASSUME NEW i \in Nat, i \in G PROVE i + 1 \in G
  <2> SUFFICES ASSUME i + 1 \in 1..n
               PROVE  Good(g[i + 1]) /\ Mapped(e, g[i + 1], m, b, i + 1, shift, access)
    OBVIOUS
  <2> DEFINE c == b + i
  <2>1. c \in Nat /\ s * c \in Page /\ i \in 0..(n - 1)
    BY DEF s
  <2>2. g[i + 1] = Map(g[i], s * c, s * c + shift, access, m)
    <3>1. (i + 1) - 1 = i
      OBVIOUS
    <3> QED
      BY <1>3, <3>1
  <2>3. i # 0 => Good(g[i]) /\ Mapped(e, g[i], m, b, i, shift, access)
    BY <1>5, <2>1
  <2>4. \A q \in Page : Blk(q, m) \in Nat
    BY PageIs
  <2>5. Ready(g[i], s * c, m)
    <3>1. CASE i = 0
      BY <1>2, <3>1 DEF s
    <3>2. CASE i # 0
      <4>1. Blk(s * c, m) = c
        BY <2>1, BlockIs DEF s
      <4>2. ASSUME NEW q \in Page, Blk(q, m) = c PROVE Translate(g[i], q).level \in {0, m}
        <5>1. c \notin b..(b + i - 1) /\ c \in (b + 1)..(b + n - 1)
          BY <2>1, <3>2
        <5>2. Translate(g[i], q) = Translate(e, q)
          BY <2>3, <3>2, <4>2, <5>1 DEF Mapped
        <5> QED
          BY <4>2, <5>1, <5>2
      <4> HIDE DEF c
      <4> QED
        BY <2>1, <2>3, <3>2, <4>1, <4>2, ReadyIs
    <3> QED
      BY <3>1, <3>2
  <2> HIDE DEF c
  <2>6. Good(g[i + 1]) /\ Mapped(g[i], g[i + 1], m, c, 1, shift, access)
    <3> DEFINE h == g[i]
               f == Map(h, Size[m] * c, Size[m] * c + shift, access, m)
    <3>1. Size[m] * c \in Page /\ Ready(h, Size[m] * c, m)
      BY <2>1, <2>5 DEF s
    <3> HIDE DEF h
    <3>2. Good(f) /\ Mapped(h, f, m, c, 1, shift, access)
      BY <2>1, <3>1, OneBlock
    <3>3. g[i + 1] = f
      BY <2>2 DEF s, h
    <3> HIDE DEF f
    <3> QED
      BY <3>2, <3>3 DEF h
  <2>7. ASSUME NEW q \in Page
        PROVE  Translate(g[i + 1], q) = IF Blk(q, m) \in b..(b + (i + 1) - 1)
                                        THEN Frame(q, m, shift, access) ELSE Translate(e, q)
    <3>1. Translate(g[i + 1], q) = IF Blk(q, m) \in c..(c + 1 - 1)
                                   THEN Frame(q, m, shift, access) ELSE Translate(g[i], q)
      BY <2>6 DEF Mapped
    <3>2. Translate(g[i], q) = IF Blk(q, m) \in b..(b + i - 1)
                               THEN Frame(q, m, shift, access) ELSE Translate(e, q)
      <4>1. CASE i = 0
        <5>1. b..(b + i - 1) = {}
          BY <4>1
        <5> QED
          BY <1>2, <4>1, <5>1
      <4>2. CASE i # 0
        BY <2>3, <4>2 DEF Mapped
      <4> QED
        BY <4>1, <4>2
    <3>3. Blk(q, m) \in b..(b + (i + 1) - 1)
            <=> Blk(q, m) \in c..(c + 1 - 1) \/ Blk(q, m) \in b..(b + i - 1)
      BY <2>4 DEF c
    <3> QED
      BY <3>1, <3>2, <3>3
  <2> QED
    BY <2>6, <2>7 DEF Mapped
<1>6. Nat \subseteq G
  <2> HIDE DEF G
  <2> QED
    BY <1>4, <1>5, AllNumbers
<1>7. Good(g[n]) /\ Mapped(e, g[n], m, b, n, shift, access)
  <2>1. n \in G /\ n \in 1..n
    BY <1>6
  <2> QED
    BY <2>1
<1> QED
  BY <1>2, <1>7 DEF s, p

---------------------------------------------------------------------------
(***************************************************************************)
(* The calls.                                                              *)
(***************************************************************************)
\* Block b of level m is mapped with frames of level n, the others are as they were.
Rewritten(e, f, p, m, n, shift, access) ==
  \A q \in Page :
    Translate(f, q) = IF Blk(q, m) = Blk(p, m) THEN Frame(q, n, shift, access)
                      ELSE Translate(e, q)

LEMMA MapCallIs ==
  ASSUME NEW e, NEW p \in Page, NEW m \in 1..3, Ready(e, p, m), Align(p, m) = p,
         NEW shift \in Nat, NEW access \in Rights \cup {RWX}
  PROVE  LET f == Map(e, p, p + shift, access, m)
         IN  Good(f) /\ Rewritten(e, f, p, m, m, shift, access)
<1> DEFINE f == Map(e, p, p + shift, access, m)
           x == Leaf(p, m, p + shift, access)
<1>1. p + shift \in Nat
  BY PageIs
<1>2. Good(f) /\ Remapped(e, f, p, m, x)
  BY <1>1, MapIs
<1> HIDE DEF f, x
<1>3. \A q \in Page : Blk(q, m) = Blk(p, m) => Found(x, m, q) = Frame(q, m, shift, access)
  BY FrameIs DEF x
<1> QED
  BY <1>2, <1>3 DEF Remapped, Rewritten, f

\* An aligned block is whole.
LEMMA WholeBlock ==
  ASSUME NEW p \in Page, NEW l \in 1..3, Align(p, l) = p
  PROVE  p + Size[l] <= Pages
<1> DEFINE s == Size[l]
           b == Blk(p, l)
<1>1. p = s * b /\ b \in Nat /\ s \in Nat \ {0} /\ F \in Nat \ {0}
  <2>1. l \in 1..4
    OBVIOUS
  <2>2. Align(p, l) = s * b
    BY <2>1, AlignIs
  <2>3. b \in Nat
    BY <2>1, PageIs
  <2>4. s \in Nat \ {0} /\ F \in Nat \ {0}
    BY <2>1, FanoutIs
  <2> QED
    BY <2>2, <2>3, <2>4
<1>2. PICK m \in Nat : Pages = (F * F) * m
  BY PagesAre
<1>3. \E c \in Nat : Pages = s * c
  <2>1. l = 1 \/ l = 2 \/ l = 3
    OBVIOUS
  <2>2. F * m \in Nat /\ (F * F) * m = F * (F * m) /\ (F * F) * m \in Nat
    BY <1>1
  <2>3. s = 1 \/ s = F \/ s = F * F
    BY <2>1, SizeIs
  <2>4. (F * F) * m = 1 * ((F * F) * m)
    BY <2>2
  <2> HIDE DEF s
  <2> QED
    BY <1>2, <2>2, <2>3, <2>4
<1>4. PICK c \in Nat : Pages = s * c
  BY <1>3
<1> HIDE DEF s, b
<1>5. p < Pages /\ p \in Nat
  BY PagesAre DEF Page
<1>6. b + 1 <= c
  <2>1. SUFFICES ASSUME c <= b PROVE FALSE
    BY <1>1
  <2>2. s * c <= s * b
    BY <1>1, <2>1, MulMono
  <2> QED
    BY <1>1, <1>4, <1>5, <2>2
<1>7. s * (b + 1) <= s * c /\ s * (b + 1) = s * b + s
  BY <1>1, <1>6, MulMono
<1> QED
  BY <1>1, <1>4, <1>7 DEF s

\* The blocks of the level below that an aligned block is made of.
LEMMA Halves ==
  ASSUME NEW p \in Page, NEW l \in 2..3, Align(p, l) = p
  PROVE  LET m == l - 1
             b == Blk(p, m)
         IN  /\ b \in Nat /\ p = Size[m] * b
             /\ \A i \in 0..(F - 1) : Size[m] * (b + i) \in Page
             /\ \A q \in Page : Blk(q, m) \in b..(b + F - 1) <=> Blk(q, l) = Blk(p, l)
<1> DEFINE m == l - 1
           s == Size[m]
           b == Blk(p, m)
           a == Blk(p, l)
<1>1. m \in 1..3 /\ m + 1 = l /\ m # 4
  OBVIOUS
<1>2. s \in Nat \ {0} /\ F \in Nat \ {0} /\ Size[l] = s * F
  BY <1>1, FanoutIs, SizeIs
<1>3. a \in Nat /\ p = Size[l] * a
  BY AlignIs, PageIs
<1> HIDE DEF m
<1>4. \A q \in Page : /\ Blk(q, m) = F * Blk(q, l) + Index(q, m) /\ Index(q, m) \in 0..(F - 1)
                      /\ Blk(q, l) \in Nat /\ Blk(q, m) \in Nat
  BY <1>1, PageIs DEF Above
<1> HIDE DEF s, a
<1>5. p = s * (F * a) /\ F * a \in Nat
  BY <1>2, <1>3
<1>6. b = F * a
  BY <1>1, <1>5, BlockIs DEF s
<1> HIDE DEF b
<1>7. ASSUME NEW i \in 0..(F - 1) PROVE s * (b + i) \in Page
  <2>1. s * (b + i) = s * b + s * i /\ s * b = p /\ s * i \in Nat
    BY <1>2, <1>5, <1>6
  <2>2. s * i <= s * (F - 1) /\ s * (F - 1) = s * F - s
    BY <1>2, MulMono
  <2>3. p + s * F <= Pages /\ p \in Nat /\ Pages \in Nat
    BY <1>2, WholeBlock, PageIs, PagesAre
  <2> DEFINE y == s * i
             z == s * F
  <2> HIDE DEF y, z
  <2>4. s * (b + i) = p + y /\ y \in Nat /\ y <= z - s /\ p + z <= Pages /\ z \in Nat
    BY <1>2, <2>1, <2>2, <2>3 DEF y, z
  <2> QED
    BY <1>2, <2>3, <2>4 DEF Page
<1>8. ASSUME NEW q \in Page PROVE Blk(q, m) \in b..(b + F - 1) <=> Blk(q, l) = a
  <2> DEFINE c == Blk(q, l)
             i == Index(q, m)
  <2>1. Blk(q, m) = F * c + i /\ i \in 0..(F - 1) /\ c \in Nat
    BY <1>4
  <2> HIDE DEF c, i
  <2>2. ASSUME c = a PROVE Blk(q, m) \in b..(b + F - 1)
    BY <1>2, <1>5, <1>6, <2>1, <2>2
  <2>3. ASSUME Blk(q, m) \in b..(b + F - 1) PROVE c = a
    <3>1. Blk(q, m) - b \in 0..(F - 1) /\ F * a + (Blk(q, m) - b) = F * c + i
      BY <1>2, <1>5, <1>6, <2>1, <2>3
    <3> QED
      BY <1>2, <1>3, <2>1, <3>1, CellIs DEF a
  <2> QED
    BY <2>2, <2>3 DEF c
<1> QED
  BY <1>4, <1>5, <1>6, <1>7, <1>8 DEF m, s, b, a

\* Where the mapping of a page is, and the table of a level above it.
LEMMA MappedAt ==
  ASSUME NEW e, NEW k, Tree(e, k), NEW p \in Page, Translate(e, p) # Unmapped
  PROVE  \E j \in 1..3, t \in DOMAIN e.tables :
           /\ End(e, k, t, j, p) /\ For(e, t, j, p).kind = "page"
           /\ Translate(e, p).level = j
<1>1. PICK j \in 1..4, t \in DOMAIN e.tables : End(e, k, t, j, p)
  BY WalkEnds
<1>2. Translate(e, p) = Found(For(e, t, j, p), j, p)
  BY <1>1, TranslateIs
<1>3. For(e, t, j, p).kind = "page" /\ Translate(e, p).level = j
  BY <1>2 DEF Found
<1>4. Fits(For(e, t, j, p), e, k, j, Blk(p, j))
  BY <1>1, ForFits DEF End
<1>5. j # 4
  BY <1>3, <1>4, Kinds DEF PageAt
<1> QED
  BY <1>1, <1>3, <1>5

\* The entry of a level for a mapped page: the mapping, or a table above it.
LEMMA EntryOf ==
  ASSUME NEW e, NEW k, Tree(e, k), NEW p \in Page, NEW l \in 2..3, Translate(e, p) # Unmapped
  PROVE  LET slot == EptEntry(e, p, l)
         IN  /\ slot # NoEntry
             /\ IsLarge(Entry(e, slot)) <=> Translate(e, p).level >= l
             /\ Translate(e, p).level <= l =>
                  \E u : /\ At(e, k, u, l, p) /\ slot.table = u /\ slot.index = Index(p, l)
                         /\ For(e, u, l, p).kind # "none"
<1> DEFINE slot == EptEntry(e, p, l)
<1>1. PICK j \in 1..3, t \in DOMAIN e.tables :
             /\ End(e, k, t, j, p) /\ For(e, t, j, p).kind = "page"
             /\ Translate(e, p).level = j
  BY MappedAt
<1>2. At(e, k, t, j, p) /\ Fits(For(e, t, j, p), e, k, j, Blk(p, j))
  BY <1>1, ForFits DEF End
<1>3. j # 1 => IsLarge(For(e, t, j, p))
  BY <1>1, <1>2, Kinds DEF PageAt
<1>4. CASE j >= l
  <2>1. slot = Slot(t, j, p)
    BY <1>1, <1>2, <1>4, EntryIs
  <2>2. slot # NoEntry /\ Entry(e, slot) = For(e, t, j, p)
    BY <2>1, SlotIs
  <2>3. slot.table = t /\ slot.index = Index(p, j)
    BY <2>1 DEF Slot
  <2> HIDE DEF slot
  <2>4. IsLarge(Entry(e, slot))
    BY <1>3, <1>4, <2>2
  <2>5. j <= l => j = l
    BY <1>4
  <2> QED
    BY <1>1, <1>2, <1>4, <2>2, <2>3, <2>4, <2>5 DEF slot
<1>5. CASE j < l
  <2>1. l \in (j + 1)..4
    BY <1>5
  <2>2. PICK u : At(e, k, u, l, p) /\ For(e, u, l, p).kind = "table"
    BY <1>2, <2>1, Ancestor
  <2>3. slot = Slot(u, l, p)
    BY <1>1, <2>2, EntryIs
  <2>4. u \in DOMAIN e.tables
    BY <2>2 DEF At
  <2>5. slot # NoEntry /\ Entry(e, slot) = For(e, u, l, p)
    BY <2>3, <2>4, SlotIs
  <2>6. slot.table = u /\ slot.index = Index(p, l)
    BY <2>3 DEF Slot
  <2> HIDE DEF slot
  <2>7. ~IsLarge(Entry(e, slot))
    BY <2>2, <2>5 DEF IsLarge
  <2> QED
    BY <1>1, <1>5, <2>2, <2>5, <2>6, <2>7 DEF slot
<1> QED
  BY <1>4, <1>5

LEMMA SplitIs ==
  ASSUME NEW e, Good(e), NEW p \in Page, NEW l \in 2..3, Align(p, l) = p,
         Translate(e, p).level \in 1..l, NEW shift \in Nat, NEW access \in Rights \cup {RWX}
  PROVE  LET f == Split(e, p, p + shift, access, l)
         IN  \/ f = e
             \/ /\ Translate(e, p).level = l
                /\ Good(f) /\ Rewritten(e, f, p, l, l - 1, shift, access)
<1> DEFINE f == Split(e, p, p + shift, access, l)
           slot == EptEntry(e, p, l)
           g == UnmapEntry(e, slot, l)
           m == l - 1
           b == Blk(p, m)
<1>1. PICK k : Tree(e, k) /\ Full(e)
  BY DEF Good
<1>2. Translate(e, p) # Unmapped
  BY DEF Unmapped
<1>3. /\ slot # NoEntry
      /\ IsLarge(Entry(e, slot)) <=> Translate(e, p).level >= l
  BY <1>1, <1>2, EntryOf
<1>4. CASE Translate(e, p).level < l
  <2>1. ~IsLarge(Entry(e, slot))
    BY <1>3, <1>4
  <2>2. f = e
    BY <1>3, <2>1 DEF Split
  <2> QED
    BY <2>2
<1>5. CASE Translate(e, p).level = l
  <2>1. PICK u : /\ At(e, k, u, l, p) /\ slot.table = u /\ slot.index = Index(p, l)
                 /\ For(e, u, l, p).kind # "none"
    BY <1>1, <1>2, <1>5, EntryOf
  <2>2. f = MapBlocks(g, p, p + shift, access, m, F)
    BY <1>3, <1>5 DEF Split, F
  <2> HIDE DEF f, slot
  <2>3. l \in 2..4 /\ m \in 1..l /\ m \in 1..3
    OBVIOUS
  <2>4. Remapped(e, g, p, l, Absent) /\ Ready(g, p, m)
    BY <1>1, <2>1, <2>3, UnmapIs
  <2> HIDE DEF g
  <2>5. /\ b \in Nat /\ p = Size[m] * b
        /\ \A i \in 0..(F - 1) : Size[m] * (b + i) \in Page
        /\ \A q \in Page : Blk(q, m) \in b..(b + F - 1) <=> Blk(q, l) = Blk(p, l)
    BY Halves
  <2> HIDE DEF b, m
  <2>6. ASSUME NEW q \in Page, Blk(q, m) \in (b + 1)..(b + F - 1)
        PROVE  Translate(g, q).level \in {0, m}
    <3>1. Blk(q, m) \in b..(b + F - 1)
      BY <2>5, <2>6
    <3>2. Blk(q, l) = Blk(p, l)
      BY <2>5, <3>1
    <3>3. Translate(g, q) = Unmapped
      BY <2>4, <3>2, TableKind DEF Remapped, Found
    <3> QED
      BY <3>3 DEF Unmapped
  <2>7. F \in Nat \ {0} /\ Ready(g, Size[m] * b, m)
    BY <2>4, <2>5, FanoutIs
  <2> DEFINE h == MapBlocks(g, Size[m] * b, Size[m] * b + shift, access, m, F)
  <2>8. Good(h) /\ Mapped(g, h, m, b, F, shift, access)
    BY <2>3, <2>5, <2>6, <2>7, MapBlocksIs
  <2>9. f = h
    BY <2>2, <2>5
  <2> HIDE DEF h
  <2>10. Rewritten(e, f, p, l, m, shift, access)
    <3> SUFFICES ASSUME NEW q \in Page
                 PROVE  Translate(h, q) = IF Blk(q, l) = Blk(p, l) THEN Frame(q, m, shift, access)
                                          ELSE Translate(e, q)
      BY <2>9 DEF Rewritten
    <3>1. Translate(h, q) = IF Blk(q, l) = Blk(p, l) THEN Frame(q, m, shift, access)
                            ELSE Translate(g, q)
      BY <2>5, <2>8 DEF Mapped
    <3>2. Blk(q, l) # Blk(p, l) => Translate(g, q) = Translate(e, q)
      BY <2>4 DEF Remapped
    <3> QED
      BY <3>1, <3>2
  <2> QED
    BY <1>5, <2>8, <2>9, <2>10 DEF f, m
<1> QED
  BY <1>4, <1>5

LEMMA JoinIs ==
  ASSUME NEW e, Good(e), NEW p \in Page, NEW l \in 2..3, Align(p, l) = p,
         Translate(e, p) # Unmapped, NEW shift \in Nat, NEW access \in Rights \cup {RWX}
  PROVE  LET f == Join(e, p, p + shift, access, l)
         IN  \/ f = e
             \/ /\ Translate(e, p).level \in 1..(l - 1)
                /\ Good(f) /\ Rewritten(e, f, p, l, l, shift, access)
<1> DEFINE f == Join(e, p, p + shift, access, l)
           slot == EptEntry(e, p, l)
           g == UnmapEntry(e, slot, l)
<1>1. PICK k : Tree(e, k) /\ Full(e)
  BY DEF Good
<1>2. Translate(e, p).level \in 1..3
  BY <1>1, MappedAt
<1>3. /\ slot # NoEntry
      /\ IsLarge(Entry(e, slot)) <=> Translate(e, p).level >= l
  BY <1>1, EntryOf
<1>4. CASE Translate(e, p).level >= l
  <2>1. IsLarge(Entry(e, slot))
    BY <1>3, <1>4
  <2>2. f = e
    BY <1>3, <2>1 DEF Join
  <2> QED
    BY <2>2
<1>5. CASE Translate(e, p).level < l
  <2>1. PICK u : /\ At(e, k, u, l, p) /\ slot.table = u /\ slot.index = Index(p, l)
                 /\ For(e, u, l, p).kind # "none"
    BY <1>1, <1>2, <1>5, EntryOf
  <2>2. f = Map(g, p, p + shift, access, l)
    <3>1. ~IsLarge(Entry(e, slot))
      BY <1>2, <1>3, <1>5
    <3> QED
      BY <1>3, <3>1 DEF Join
  <2> HIDE DEF f, slot
  <2>3. l \in 2..4 /\ l \in 1..l /\ l \in 1..3
    OBVIOUS
  <2>4. Remapped(e, g, p, l, Absent) /\ Ready(g, p, l)
    BY <1>1, <2>1, <2>3, UnmapIs
  <2> HIDE DEF g
  <2>5. Good(f) /\ Rewritten(g, f, p, l, l, shift, access)
    BY <2>2, <2>3, <2>4, MapCallIs
  <2>6. Rewritten(e, f, p, l, l, shift, access)
    BY <2>4, <2>5 DEF Remapped, Rewritten
  <2> QED
    BY <1>2, <1>5, <2>5, <2>6 DEF f
<1> QED
  BY <1>2, <1>4, <1>5

\* No page has a mapping of another level than 2MB.
Coarse(e) == \A q \in Page : Translate(e, q).level \in {0, 2}

LEMMA RightsAre == RWX \in Rights \cup {RWX}
OBVIOUS

LEMMA MapIdentityIs ==
  ASSUME NEW e, Good(e), Coarse(e)
  PROVE  LET f == MapIdentity(e, Pages)
         IN  Good(f) /\ \A q \in Page : Translate(f, q) = Frame(q, 2, 0, RWX)
<1> DEFINE n == Pages \div F
           f == MapIdentity(e, Pages)
<1>1. F \in Nat \ {0} /\ Size[2] = F /\ Pages \in Nat \ {0} /\ F * 0 = 0 /\ 0 + 0 = 0
  BY FanoutIs, SizeIs, PagesAre
<1>2. n \in Nat /\ Pages = F * n
  <2>1. PICK c \in Nat : Pages = (F * F) * c
    BY PagesAre
  <2>2. Pages = F * (F * c) + 0 /\ F * c \in Nat /\ 0 \in 0..(F - 1)
    BY <1>1, <2>1
  <2>3. n = F * c
    BY <1>1, <2>2, QuotientIs
  <2> HIDE DEF n
  <2>4. Pages = F * n + 0 /\ n \in Nat
    BY <2>2, <2>3
  <2> QED
    BY <1>1, <2>4
<1>3. f = MapBlocks(e, 0, 0, RWX, 2, n)
  BY <1>1 DEF MapIdentity, pd
<1> HIDE DEF f, n
<1>4. n \in Nat \ {0}
  BY <1>1, <1>2
<1>5. ASSUME NEW i \in 0..(n - 1) PROVE Size[2] * (0 + i) \in Page
  <2>1. F * i <= F * (n - 1) /\ F * (n - 1) = F * n - F /\ F * i \in Nat
    BY <1>1, <1>4, MulMono
  <2> QED
    BY <1>1, <1>2, <2>1 DEF Page
<1>6. ASSUME NEW q \in Page PROVE Blk(q, 2) \in 0..(0 + n - 1)
  <2> DEFINE b == Blk(q, 2)
  <2>1. b \in Nat /\ F * b <= q /\ q \in Nat /\ q < Pages
    <3>1. Align(q, 2) = F * b /\ q % F \in Nat /\ q = Align(q, 2) + (q % F) /\ q \in Page
      BY <1>1, AlignIs
    <3>2. b \in Nat /\ q \in Nat
      BY PageIs
    <3> DEFINE r == q % F
    <3> HIDE DEF r, b
    <3>3. F * b + r = q /\ r \in Nat /\ F * b \in Nat
      BY <1>1, <3>1, <3>2 DEF r
    <3> QED
      BY <1>1, <3>2, <3>3 DEF Page
  <2> HIDE DEF b
  <2>2. SUFFICES ASSUME n <= b PROVE FALSE
    BY <1>4, <2>1 DEF b
  <2>3. F * n <= F * b
    BY <1>1, <1>4, <2>1, <2>2, MulMono
  <2> QED
    BY <1>1, <1>2, <2>1, <2>3
<1>7. 0 \in Nat /\ 2 \in 1..3 /\ Size[2] * 0 = 0
  BY <1>1
<1>8. 0 \in Page
  BY <1>1 DEF Page
<1>9. Ready(e, Size[2] * 0, 2)
  <2>1. Ready(e, 0, 2)
    BY <1>7, <1>8, ReadyIs DEF Coarse
  <2> QED
    BY <1>7, <2>1
<1>10. \A q \in Page : Blk(q, 2) \in (0 + 1)..(0 + n - 1) => Translate(e, q).level \in {0, 2}
  BY DEF Coarse
<1> DEFINE h == MapBlocks(e, Size[2] * 0, Size[2] * 0 + 0, RWX, 2, n)
<1>11. Good(h) /\ Mapped(e, h, 2, 0, n, 0, RWX)
  BY <1>4, <1>5, <1>7, <1>9, <1>10, MapBlocksIs, RightsAre
<1>12. h = f
  BY <1>1, <1>3, <1>7
<1> HIDE DEF h
<1> QED
  BY <1>6, <1>11, <1>12 DEF Mapped, f

LEMMA DivMono ==
  ASSUME NEW s \in Nat \ {0}, NEW x \in Nat, NEW y \in Nat, x <= y
  PROVE  x \div s <= y \div s
<1> DEFINE a == x \div s
           c == y \div s
           r == x % s
           t == y % s
<1>1. /\ a \in Nat /\ c \in Nat /\ r \in 0..(s - 1) /\ t \in 0..(s - 1)
      /\ x = s * a + r /\ y = s * c + t
  BY DivIs
<1> HIDE DEF a, c, r, t
<1>2. SUFFICES ASSUME c + 1 <= a PROVE FALSE
  BY <1>1 DEF a, c
<1>3. s * (c + 1) <= s * a /\ s * (c + 1) = s * c + s
  BY <1>1, <1>2, MulMono
<1> QED
  BY <1>1, <1>3

\* A range of memory touches the 2MB block of a page.
Touches(range, q) == \E y \in (range.begin)..(range.end - 1) : Blk(y, 2) = Blk(q, 2)

LEMMA RangeIs ==
  ASSUME NEW e, Good(e), Coarse(e), NEW range \in [begin : Page, end : 1..Pages],
         range.begin < range.end
  PROVE  LET f == RangeTurn(e, range)
         IN  /\ Good(f)
             /\ \A q \in Page : Translate(f, q) = IF Touches(range, q) THEN Frame(q, 2, 0, RWX)
                                                  ELSE Translate(e, q)
<1> DEFINE begin == range.begin
           end == range.end
           last == end - 1
           b == begin \div F
           c == last \div F
           n == (c + 1) - b
           f == RangeTurn(e, range)
<1>1. F \in Nat \ {0} /\ Size[2] = F /\ Pages \in Nat \ {0}
  BY FanoutIs, SizeIs, PagesAre
<1>2. /\ begin \in Nat /\ begin \in Page /\ end \in Nat /\ last \in Nat /\ last \in Page
      /\ begin <= last /\ end = last + 1 /\ last < Pages
  BY <1>1 DEF Page
<1>3. /\ b \in Nat /\ begin % F \in 0..(F - 1) /\ begin = F * b + (begin % F)
      /\ c \in Nat /\ last % F \in 0..(F - 1) /\ last = F * c + (last % F)
  BY <1>1, <1>2, DivIs
<1>4. b <= c
  BY <1>1, <1>2, DivMono
<1>5. Align(begin, 2) = F * b
  <2>1. Blk(begin, 2) = b
    BY <1>1 DEF Blk
  <2> QED
    BY <1>1, <1>2, <2>1, AlignIs
<1>6. Align(end + F - 1, 2) = F * (c + 1)
  <2> DEFINE r == last % F
  <2>1. r \in 0..(F - 1) /\ last = F * c + r
    BY <1>3
  <2> HIDE DEF r, c
  <2>2. F * (c + 1) + r = end + F - 1 /\ c + 1 \in Nat
    BY <1>1, <1>2, <1>3, <2>1
  <2>3. (F * (c + 1) + r) % F = r
    BY <1>1, <2>1, <2>2, QuotientIs
  <2>4. Align(end + F - 1, 2) = (F * (c + 1) + r) - r
    BY <1>1, <2>2, <2>3 DEF Align
  <2>5. F * (c + 1) \in Nat
    BY <1>1, <2>2
  <2> QED
    BY <2>1, <2>4, <2>5
<1> HIDE DEF begin, end, last, b, c
<1>7. f = MapBlocks(e, F * b, F * b, RWX, 2, n)
  <2>1. (F * (c + 1) - F * b) \div F = n
    <3>1. F * (c + 1) - F * b = F * n + 0 /\ n \in Nat /\ 0 \in 0..(F - 1)
      BY <1>1, <1>3, <1>4
    <3> HIDE DEF n
    <3>2. (F * n + 0) \div F = n
      BY <1>1, <3>1, QuotientIs
    <3> QED
      BY <3>1, <3>2
  <2>2. f = MapBlocks(e, Align(begin, 2), Align(begin, 2), RWX, 2,
                      (Align(end + F - 1, 2) - Align(begin, 2)) \div F)
    BY <1>1 DEF RangeTurn, begin, end, pd
  <2> QED
    BY <1>5, <1>6, <2>1, <2>2
<1> HIDE DEF f
<1>8. n \in Nat \ {0} /\ b + n - 1 = c
  BY <1>3, <1>4
<1>9. ASSUME NEW i \in 0..(n - 1) PROVE Size[2] * (b + i) \in Page
  <2>1. b + i \in Nat /\ b + i <= c
    BY <1>3, <1>8
  <2>2. F * (b + i) <= F * c /\ F * (b + i) \in Nat
    BY <1>1, <1>3, <2>1, MulMono
  <2> DEFINE r == last % F
  <2>3. F * c + r = last /\ r \in Nat /\ F * c \in Nat
    BY <1>1, <1>3
  <2> HIDE DEF r
  <2> QED
    BY <1>1, <1>2, <2>2, <2>3 DEF Page
<1> HIDE DEF n
<1>10. F * b \in Page
  <2>1. 0 \in 0..(n - 1) /\ b + 0 = b
    BY <1>3, <1>8
  <2> QED
    BY <1>1, <1>9, <2>1
<1>11. 2 \in 1..3 /\ 0 \in Nat /\ Size[2] * b = F * b /\ Size[2] * b + 0 = F * b
  BY <1>1, <1>3
<1>12. Ready(e, Size[2] * b, 2)
  <2>1. Ready(e, F * b, 2)
    BY <1>10, <1>11, ReadyIs DEF Coarse
  <2> QED
    BY <1>11, <2>1
<1>13. \A q \in Page : Blk(q, 2) \in (b + 1)..(b + n - 1) => Translate(e, q).level \in {0, 2}
  BY DEF Coarse
<1> DEFINE h == MapBlocks(e, Size[2] * b, Size[2] * b + 0, RWX, 2, n)
<1>14. Good(h) /\ Mapped(e, h, 2, b, n, 0, RWX)
  BY <1>3, <1>8, <1>9, <1>11, <1>12, <1>13, MapBlocksIs, RightsAre
<1>15. h = f
  BY <1>7, <1>11
<1> HIDE DEF h
<1>16. ASSUME NEW q \in Page PROVE Touches(range, q) <=> Blk(q, 2) \in b..c
  <2> DEFINE d == Blk(q, 2)
  <2>1. d \in Nat
    BY PageIs
  <2>2. \A y : Blk(y, 2) = y \div F
    BY <1>1 DEF Blk
  <2>3. ASSUME NEW y \in begin..last PROVE y \div F \in b..c
    <3>1. y \in Nat /\ begin <= y /\ y <= last
      BY <1>2, <2>3
    <3>2. b <= y \div F /\ y \div F <= c
      BY <1>1, <1>2, <3>1, DivMono DEF b, c
    <3>3. y \div F \in Nat
      BY <1>1, <3>1, DivIs
    <3> QED
      BY <1>3, <3>2, <3>3
  <2> HIDE DEF d
  <2>4. ASSUME d \in b..c PROVE \E y \in begin..last : y \div F = d
    <3>1. CASE d = b
      BY <1>2, <3>1 DEF b
    <3>2. CASE d # b
      <4>1. (F * d) \div F = d
        BY <1>1, <1>11, <2>1, <2>2, BlockIs
      <4>2. F * (b + 1) <= F * d /\ F * d <= F * c /\ F * (b + 1) = F * b + F /\ F * d \in Nat
        BY <1>1, <1>3, <2>1, <2>4, <3>2, MulMono
      <4> DEFINE r == begin % F
                 t == last % F
      <4>3. /\ F * b + r = begin /\ r \in 0..(F - 1) /\ F * c + t = last /\ t \in Nat
            /\ F * b \in Nat /\ F * c \in Nat
        BY <1>1, <1>3
      <4> HIDE DEF r, t
      <4>4. F * d \in begin..last
        BY <1>1, <1>2, <4>2, <4>3
      <4> QED
        BY <4>1, <4>4
    <3> QED
      BY <3>1, <3>2
  <2>5. Touches(range, q) <=> \E y \in begin..last : y \div F = d
    BY <2>2 DEF Touches, begin, last, end, d
  <2>6. Touches(range, q) <=> d \in b..c
    BY <2>3, <2>4, <2>5
  <2> QED
    BY <2>6 DEF d
<1> QED
  BY <1>8, <1>14, <1>15, <1>16 DEF Mapped, f

LEMMA SparseIs ==
  ASSUME NEW e, Good(e), Coarse(e)
  PROVE  LET f == MapIdentitySparse(e, Ranges)
         IN  /\ Good(f)
             /\ \A q \in Page :
                  Translate(f, q) = IF \E i \in DOMAIN Ranges : Touches(Ranges[i], q)
                                    THEN Frame(q, 2, 0, RWX) ELSE Translate(e, q)
<1> DEFINE n == Len(Ranges)
           f == MapIdentitySparse(e, Ranges)
<1> DEFINE R == [begin : Page, end : 1..Pages]
<1>a. Ranges \in Seq(R) /\ \A i \in DOMAIN Ranges : Ranges[i].begin < Ranges[i].end
  BY MemoryAssumption
<1>1. /\ n \in Nat /\ DOMAIN Ranges = 1..n
      /\ \A i \in 1..n : Ranges[i] \in R /\ Ranges[i].begin < Ranges[i].end
  <2> HIDE DEF R
  <2> QED
    BY <1>a
<1>b. n = Len(Ranges) /\ f = MapIdentitySparse(e, Ranges)
  OBVIOUS
<1> HIDE DEF n, f, R
<1>2. PICK g : /\ g[0] = e
               /\ \A i \in 1..n : g[i] = RangeTurn(g[i - 1], Ranges[i])
               /\ f = g[n]
  <2>1. n \in Nat /\ Numbered(Ranges, n)
    BY <1>1 DEF Numbered
  <2>2. \E g : RangeRun(g, e, MapIdentitySparse(e, Ranges), Ranges, n)
    BY <2>1, RangesAre
  <2> QED
    BY <1>b, <2>2 DEF RangeRun
<1> DEFINE Hit(i, q) == \E j \in 1..i : Touches(Ranges[j], q)
           Done(i) == /\ Good(g[i])
                      /\ \A q \in Page : Translate(g[i], q) = IF Hit(i, q) THEN Frame(q, 2, 0, RWX)
                                                              ELSE Translate(e, q)
           G == {i \in Nat : i <= n => Done(i)}
<1>3. 0 \in G
  BY <1>2
<1>4. ASSUME NEW i \in Nat, i \in G PROVE i + 1 \in G
  <2> SUFFICES ASSUME i + 1 <= n PROVE Done(i + 1)
    OBVIOUS
  <2>1. i + 1 \in 1..n /\ (i + 1) - 1 = i /\ i <= n
    BY <1>1
  <2>2. Done(i)
    BY <1>4, <2>1
  <2>3. \A q \in Page : Hit(i + 1, q) <=> Hit(i, q) \/ Touches(Ranges[i + 1], q)
    <3>1. 1..(i + 1) = (1..i) \cup {i + 1}
      OBVIOUS
    <3> QED
      BY <3>1
  <2> DEFINE x == g[i]
             r == Ranges[i + 1]
             y == RangeTurn(x, r)
  <2>4. g[i + 1] = y
    BY <1>2, <2>1
  <2>5. Good(x) /\ \A q \in Page : Translate(x, q) = IF Hit(i, q) THEN Frame(q, 2, 0, RWX)
                                                     ELSE Translate(e, q)
    BY <2>2
  <2>6. r \in [begin : Page, end : 1..Pages] /\ r.begin < r.end
    BY <1>1, <2>1 DEF R
  <2> HIDE DEF Hit, x, r
  <2>7. Coarse(x)
    <3>1. \A q \in Page : Frame(q, 2, 0, RWX).level = 2
      BY DEF Frame
    <3> QED
      BY <2>5, <3>1 DEF Coarse
  <2>8. /\ Good(y)
        /\ \A q \in Page : Translate(y, q) = IF Touches(r, q) THEN Frame(q, 2, 0, RWX)
                                             ELSE Translate(x, q)
    BY <2>5, <2>6, <2>7, RangeIs
  <2> HIDE DEF y
  <2>9. ASSUME NEW q \in Page
        PROVE  Translate(y, q) = IF Hit(i + 1, q) THEN Frame(q, 2, 0, RWX) ELSE Translate(e, q)
    BY <2>3, <2>5, <2>8 DEF r
  <2> QED
    BY <2>4, <2>8, <2>9
<1>5. Nat \subseteq G
  <2> HIDE DEF G
  <2> QED
    BY <1>3, <1>4, AllNumbers
<1>6. Done(n)
  BY <1>1, <1>5
<1>7. DOMAIN Ranges = 1..n
  BY <1>1
<1> QED
  BY <1>2, <1>6, <1>7 DEF f

\* One entry of the PML4 after the other is unmapped.
LEMMA RootTurnIs ==
  ASSUME NEW e, NEW k, Tree(e, k), Full(e), NEW i \in 1..F
  PROVE  LET f == RootTurn(e, i)
         IN  /\ Tree(f, k) /\ Full(f) /\ f.tables[Root][i - 1] = Absent
             /\ \A j \in 0..(F - 1) : j # i - 1 => f.tables[Root][j] = e.tables[Root][j]
<1> DEFINE f == RootTurn(e, i)
           slot == [table |-> Root, index |-> i - 1]
           x == e.tables[Root][i - 1]
<1>1. /\ Root \in DOMAIN e.tables /\ k[Root].level = 4 /\ k[Root].block = 0
      /\ i - 1 \in 0..(F - 1) /\ F \in Nat
  BY FanoutIs DEF Tree, Base, Nodes, Node
<1>2. Fits(x, e, k, 4, F * 0 + (i - 1))
  BY <1>1 DEF Tree, Entries
<1>3. Entry(e, slot) = x
  BY DEF Entry
<1>4. f = UnmapEntry(e, slot, 4)
  BY DEF RootTurn, pml4
<1>5. slot.table = Root /\ slot.index = i - 1
  OBVIOUS
<1> HIDE DEF slot, x, f
<1>6. CASE x.kind = "none"
  <2>1. x = Absent
    BY <1>2, <1>6, Kinds
  <2>2. f = e
    BY <1>3, <1>4, <1>6 DEF UnmapEntry
  <2> QED
    BY <2>1, <2>2 DEF x, f
<1>7. CASE x.kind # "none"
  <2>1. PICK p \in Page : Blk(p, 4) = F * 0 + (i - 1)
    BY <1>2, <1>7 DEF Fits
  <2>2. Index(p, 4) = i - 1
    <3>1. /\ Blk(p, 4) = F * Above(p, 4) + Index(p, 4) /\ Above(p, 4) \in Nat
          /\ Index(p, 4) \in 0..(F - 1)
      BY PageIs
    <3>2. F * Above(p, 4) + Index(p, 4) = F * 0 + (i - 1)
      BY <2>1, <3>1
    <3> QED
      BY <1>1, <3>1, <3>2, CellIs
  <2>3. At(e, k, Root, 4, p) /\ For(e, Root, 4, p) = x
    BY <2>2, RootAt DEF For, x
  <2>4. slot.index = Index(p, 4) /\ For(e, Root, 4, p).kind # "none" /\ 4 \in 2..4
    BY <1>5, <1>7, <2>2, <2>3
  <2>5. /\ Tree(f, k) /\ f.tables[Root][Index(p, 4)] = Absent /\ Full(f)
        /\ \A j \in 0..(F - 1) : j # Index(p, 4) => f.tables[Root][j] = e.tables[Root][j]
    BY <1>4, <1>5, <2>3, <2>4, UnmapIs
  <2> QED
    BY <2>2, <2>5 DEF f
<1> QED
  BY <1>6, <1>7

\* An empty PML4 maps nothing.
LEMMA NothingMapped ==
  ASSUME NEW e, NEW k, Tree(e, k), \A j \in 0..(F - 1) : e.tables[Root][j] = Absent,
         NEW q \in Page
  PROVE  Translate(e, q) = Unmapped
<1>1. Index(q, 4) \in 0..(F - 1)
  BY PageIs
<1>2. At(e, k, Root, 4, q) /\ For(e, Root, 4, q) = Absent
  BY <1>1, RootAt DEF For
<1>3. End(e, k, Root, 4, q) /\ 4 \in 1..4
  BY <1>2, TableKind DEF End
<1>4. Translate(e, q) = Found(Absent, 4, q)
  BY <1>2, <1>3, TranslateIs
<1> QED
  BY <1>4, TableKind DEF Found

LEMMA DestroyedIs ==
  ASSUME NEW e, Good(e)
  PROVE  LET f == Destroy(e)
         IN  /\ Good(f) /\ DOMAIN f.tables = {Root}
             /\ \A q \in Page : Translate(f, q) = Unmapped
<1> DEFINE f == Destroy(e)
<1>1. PICK k : Tree(e, k) /\ Full(e)
  BY DEF Good
<1>2. PICK g : /\ g[0] = e
               /\ \A i \in 1..F : g[i] = RootTurn(g[i - 1], i)
               /\ f = g[F]
  BY DestroyIs
<1> HIDE DEF f
<1> DEFINE Done(i) == /\ Tree(g[i], k) /\ Full(g[i])
                      /\ \A j \in 0..(i - 1) : g[i].tables[Root][j] = Absent
           G == {i \in Nat : i <= F => Done(i)}
<1>3. F \in Nat
  BY FanoutIs
<1>4. 0 \in G
  BY <1>1, <1>2
<1>5. ASSUME NEW i \in Nat, i \in G PROVE i + 1 \in G
  <2> SUFFICES ASSUME i + 1 <= F PROVE Done(i + 1)
    OBVIOUS
  <2>1. i + 1 \in 1..F /\ (i + 1) - 1 = i /\ i <= F
    BY <1>3
  <2>2. Done(i)
    BY <1>5, <2>1
  <2> DEFINE x == g[i]
             y == RootTurn(x, i + 1)
  <2>3. g[i + 1] = y
    BY <1>2, <2>1
  <2>4. Tree(x, k) /\ Full(x) /\ \A j \in 0..(i - 1) : x.tables[Root][j] = Absent
    BY <2>2
  <2> HIDE DEF x
  <2>5. /\ Tree(y, k) /\ Full(y) /\ y.tables[Root][(i + 1) - 1] = Absent
        /\ \A j \in 0..(F - 1) : j # (i + 1) - 1 => y.tables[Root][j] = x.tables[Root][j]
    BY <2>1, <2>4, RootTurnIs
  <2> HIDE DEF y
  <2>6. ASSUME NEW j \in 0..((i + 1) - 1) PROVE y.tables[Root][j] = Absent
    <3>1. CASE j = i
      BY <2>1, <2>5, <3>1
    <3>2. CASE j # i
      <4>1. j \in 0..(i - 1) /\ j \in 0..(F - 1)
        BY <1>3, <2>1, <3>2
      <4> QED
        BY <2>1, <2>4, <2>5, <3>2, <4>1
    <3> QED
      BY <3>1, <3>2
  <2> QED
    BY <2>3, <2>5, <2>6
<1>6. Nat \subseteq G
  <2> HIDE DEF G
  <2> QED
    BY <1>4, <1>5, AllNumbers
<1>7. Tree(f, k) /\ Full(f) /\ \A j \in 0..(F - 1) : f.tables[Root][j] = Absent
  <2>1. Done(F)
    BY <1>3, <1>6
  <2> QED
    BY <1>2, <2>1
<1>8. \A q \in Page : At(f, k, Root, 4, q) /\ For(f, Root, 4, q) = Absent
  <2> SUFFICES ASSUME NEW q \in Page
               PROVE  At(f, k, Root, 4, q) /\ For(f, Root, 4, q) = Absent
    OBVIOUS
  <2>1. Index(q, 4) \in 0..(F - 1)
    BY PageIs
  <2> QED
    BY <1>7, <2>1, RootAt DEF For
<1>9. ASSUME NEW u \in DOMAIN f.tables \ {Root} PROVE FALSE
  <2>1. k[u].level \in 1..3 /\ \E p \in Page : At(f, k, u, k[u].level, p)
    BY <1>7, Hangs
  <2>2. PICK p \in Page : At(f, k, u, k[u].level, p)
    BY <2>1
  <2> DEFINE l == k[u].level
  <2>3. l \in 1..3 /\ 4 \in (l + 1)..4 /\ At(f, k, u, l, p)
    BY <2>1, <2>2
  <2> HIDE DEF l
  <2>4. PICK t : At(f, k, t, 4, p) /\ For(f, t, 4, p).kind = "table"
    BY <1>7, <2>3, Ancestor
  <2>5. t = Root
    BY <1>7, <1>8, <2>4, Unique
  <2> QED
    BY <1>8, <2>4, <2>5, TableKind
<1>10. DOMAIN f.tables = {Root}
  BY <1>7, <1>9 DEF Tree, Base
<1>11. \A q \in Page : Translate(f, q) = Unmapped
  BY <1>7, NothingMapped
<1> QED
  BY <1>7, <1>10, <1>11 DEF Good, f

LEMMA NewIs ==
  LET f == NewEpt
  IN  /\ Good(f) /\ DOMAIN f.tables = {Root}
      /\ \A q \in Page : Translate(f, q) = Unmapped
<1> DEFINE f == NewEpt
           k == [t \in {Root} |-> [level |-> 4, block |-> 0]]
<1>1. /\ DOMAIN f = {"tables", "fault"} /\ f.fault = FALSE /\ DOMAIN f.tables = {Root}
      /\ f.tables[Root] = Empty
  BY DEF NewEpt
<1>2. k[Root].level = 4 /\ k[Root].block = 0
  OBVIOUS
<1> HIDE DEF f, k
<1>3. DOMAIN f.tables[Root] = 0..(F - 1) /\ \A j \in 0..(F - 1) : f.tables[Root][j] = Absent
  BY <1>1 DEF Empty, F
<1>4. Base(f)
  BY <1>1, <1>3 DEF Base
<1>5. Nodes(f, k)
  BY <1>1, <1>2 DEF Nodes, Node
<1>6. Distinct(f, k)
  BY <1>1 DEF Distinct
<1>7. Entries(f, k)
  BY <1>1, <1>3, TableKind DEF Entries, Fits
<1>8. Tree(f, k)
  BY <1>4, <1>5, <1>6, <1>7 DEF Tree
<1>9. \A q \in Page : Translate(f, q) = Unmapped
  BY <1>3, <1>8, NothingMapped
<1>10. Full(f)
  BY <1>1 DEF Full
<1> QED
  BY <1>1, <1>8, <1>9, <1>10 DEF Good, f

---------------------------------------------------------------------------
(***************************************************************************)
(* The calls.  Every reachable ept_t is a full tree, and what its tables   *)
(* map is rewritten block by block.                                        *)
(***************************************************************************)
EptInv ==
  /\ Good(ept)
  /\ view = Walk(ept)
  /\ epml4 = "destroyed" => DOMAIN ept.tables = {Root}

LEMMA SizesAre == pt = 1 /\ pd = 2 /\ pdpt = 3 /\ pml4 = 4
BY DEF pt, pd, pdpt, pml4

LEMMA ViewIs ==
  ASSUME NEW e, NEW q \in Page
  PROVE  Walk(e)[q] = Translate(e, q)
BY DEF Walk

\* Pages of one block are aligned to the same page.
LEMMA SameBlock ==
  ASSUME NEW p \in Page, NEW q \in Page, NEW m \in 1..4, Align(p, m) = p
  PROVE  Align(q, m) = p <=> Blk(q, m) = Blk(p, m)
<1>1. Align(q, m) = Size[m] * Blk(q, m) /\ p = Size[m] * Blk(p, m)
  BY AlignIs
<1>2. Blk(Size[m] * Blk(q, m), m) = Blk(q, m)
  BY PageIs, BlockIs
<1> QED
  BY <1>1, <1>2

\* A page's block begins with a page of it.
LEMMA FirstIs ==
  ASSUME NEW q \in Page, NEW m \in 1..4
  PROVE  /\ Align(q, m) \in Page /\ Blk(Align(q, m), m) = Blk(q, m)
         /\ Align(Align(q, m), m) = Align(q, m)
<1>1. Align(q, m) = Size[m] * Blk(q, m) /\ Align(q, m) \in Page
  BY AlignIs
<1>2. Blk(Align(q, m), m) = Blk(q, m)
  BY <1>1, PageIs, BlockIs
<1>3. Align(Align(q, m), m) = Size[m] * Blk(Align(q, m), m)
  BY <1>1, AlignIs
<1> QED
  BY <1>1, <1>2, <1>3

\* EptMap's pages, blocks and mappings are those of the tables.
LEMMA AbstractIs ==
  /\ Abstract!Page = Page /\ Abstract!Unmapped = Unmapped /\ Abstract!RWX = RWX
  /\ \A q, m : Abstract!First(q, m) = Align(q, m)
<1>1. Abstract!Page = Page /\ Abstract!Unmapped = Unmapped /\ Abstract!RWX = RWX
  BY DEF Abstract!Page, Page, Abstract!Unmapped, Unmapped, Abstract!RWX, RWX
<1>2. \A q, m : Abstract!First(q, m) = Align(q, m)
  BY DEF Abstract!First, Abstract!Size, Align, Size
<1> QED
  BY <1>1, <1>2

LEMMA AbstractBlockIs ==
  ASSUME NEW q \in Page, NEW p \in Page, NEW m \in 1..4
  PROVE  q \in Abstract!Block(p, m) <=> Blk(q, m) = Blk(p, m)
<1>1. /\ Align(q, m) = Size[m] * Blk(q, m) /\ Align(p, m) = Size[m] * Blk(p, m)
      /\ Blk(Align(q, m), m) = Blk(q, m) /\ Blk(Align(p, m), m) = Blk(p, m)
  BY AlignIs, FirstIs
<1>2. q \in Abstract!Block(p, m) <=> Align(q, m) = Align(p, m)
  BY AbstractIs DEF Abstract!Block
<1> QED
  BY <1>1, <1>2

\* The type of the first page is one of the block's types.
LEMMA FrameMapsIs ==
  ASSUME NEW q \in Page, NEW m \in 1..4, NEW shift, NEW access
  PROVE  /\ Frame(q, m, shift, access) \in Abstract!Mappings(q, m, shift, access)
         /\ Frame(q, m, shift, access).type = MemType[Align(q, m)]
<1> DEFINE r == Align(q, m)
<1>1. r \in Abstract!Block(q, m)
  BY FirstIs, AbstractBlockIs
<1>2. Frame(q, m, shift, access)
        = [host |-> q + shift, access |-> access, level |-> m, type |-> MemType[r]]
  BY DEF Frame
<1> HIDE DEF r
<1>3. Frame(q, m, shift, access) \in Abstract!Mappings(q, m, shift, access)
  BY <1>1, <1>2, Zenon DEF Abstract!Mappings
<1>4. Frame(q, m, shift, access).type = MemType[r]
  BY <1>2
<1> QED
  BY <1>3, <1>4 DEF r

\* Whole blocks rewritten, seen through the walk.
LEMMA RewritesIs ==
  ASSUME NEW S \in SUBSET Page, NEW n \in 1..4, NEW shift, NEW access,
         view' = [q \in Page |-> view'[q]],
         \A q \in Page \ S : view'[q] = view[q],
         \A q \in S : view'[q] = Frame(q, n, shift, access) /\ Align(q, n) \in S
  PROVE  Abstract!Rewrite(S, n, shift, access)
<1>1. ASSUME NEW q \in S
      PROVE  /\ view'[q] \in Abstract!Mappings(q, n, shift, access)
             /\ view'[q].type = view'[Abstract!First(q, n)].type
  <2> DEFINE r == Align(q, n)
  <2>1. q \in Page /\ r \in Page /\ r \in S /\ Align(r, n) = r /\ Abstract!First(q, n) = r
    BY FirstIs, AbstractIs
  <2>2. view'[q] = Frame(q, n, shift, access) /\ view'[r] = Frame(r, n, shift, access)
    BY <2>1
  <2>3. /\ Frame(q, n, shift, access) \in Abstract!Mappings(q, n, shift, access)
        /\ Frame(q, n, shift, access).type = MemType[r]
    BY <2>1, FrameMapsIs
  <2>4. Frame(r, n, shift, access).type = MemType[Align(r, n)]
    BY <2>1, FrameMapsIs
  <2> HIDE DEF r
  <2> QED
    BY <2>1, <2>2, <2>3, <2>4
<1> QED
  BY <1>1, AbstractIs DEF Abstract!Rewrite

LEMMA RewriteIs ==
  ASSUME NEW f, NEW p \in Page, NEW m \in 1..4, NEW n \in 1..m, NEW shift, NEW access,
         Rewritten(ept, f, p, m, n, shift, access), EptInv, view' = Walk(f)
  PROVE  Abstract!Rewrite(Abstract!Block(p, m), n, shift, access)
<1> DEFINE S == Abstract!Block(p, m)
<1>1. S \in SUBSET Page /\ n \in 1..4 /\ m \in n..4
  BY AbstractIs DEF Abstract!Block
<1>2. \A q \in Page : q \in S <=> Blk(q, m) = Blk(p, m)
  BY AbstractBlockIs
<1>3. \A q \in Page : view'[q] = Translate(f, q) /\ view[q] = Translate(ept, q)
  BY ViewIs DEF EptInv
<1>4. view' = [q \in Page |-> view'[q]]
  BY DEF Walk
<1> HIDE DEF S
<1>5. \A q \in Page \ S : view'[q] = view[q]
  BY <1>2, <1>3 DEF Rewritten
<1>6. ASSUME NEW q \in S
      PROVE  view'[q] = Frame(q, n, shift, access) /\ Align(q, n) \in S
  <2>1. q \in Page /\ Blk(q, m) = Blk(p, m)
    BY <1>1, <1>2
  <2>2. Align(q, n) \in Page /\ Blk(Align(q, n), n) = Blk(q, n)
    BY <1>1, <2>1, FirstIs
  <2>3. Blk(Align(q, n), m) = Blk(q, m)
    BY <1>1, <2>1, <2>2, SameBlocks
  <2> QED
    BY <1>2, <1>3, <2>1, <2>2, <2>3 DEF Rewritten
<1>7. Abstract!Rewrite(S, n, shift, access)
  BY <1>1, <1>4, <1>5, <1>6, RewritesIs
<1> QED
  BY <1>7 DEF S

\* What a call leaves behind is again a full tree.
LEMMA CallIs ==
  ASSUME NEW f, Good(f), Call(f)
  PROVE  EptInv' /\ view' = Walk(f)
BY DEF Call, EptInv, Walk

\* The distances and rights a caller asks for are those of the lemmas.
LEMMA AsksIs ==
  ASSUME NEW shift \in Hosts, NEW access \in Rights
  PROVE  shift \in Nat /\ access \in Rights \cup {RWX}
<1>1. \A s \in Hosts : s \in Nat /\ s % (Fanout * Fanout) = 0
  BY MemoryAssumption
<1> QED
  BY <1>1

LEMMA MapStep ==
  ASSUME EptInv, NEW level \in pt..pdpt, NEW shift \in Hosts, NEW access \in Rights,
         NEW p \in Page, Aligned(p, level), CallMap(p, level, shift, access)
  PROVE  EptInv' /\ Abstract!Map(p, level, shift, access)
<1> DEFINE f == Map(ept, p, p + shift, access, level)
<1>1. level \in 1..3 /\ level \in 1..4 /\ Align(p, level) = p
  BY SizesAre DEF Aligned
<1>2. shift \in Nat /\ access \in Rights \cup {RWX}
  BY AsksIs
<1>3. \A q \in Page : Blk(q, level) = Blk(p, level) => Translate(ept, q).level \in {0, level}
  <2> SUFFICES ASSUME NEW q \in Page, Blk(q, level) = Blk(p, level)
               PROVE  Translate(ept, q).level \in {0, level}
    OBVIOUS
  <2>1. q \in Block(p, level)
    BY <1>1, SameBlock DEF Block
  <2> QED
    BY <2>1, ViewIs DEF CallMap, EptInv
<1>4. Ready(ept, p, level)
  BY <1>1, <1>3, ReadyIs DEF EptInv
<1>5. Good(f) /\ Rewritten(ept, f, p, level, level, shift, access)
  BY <1>1, <1>2, <1>4, MapCallIs
<1>6. Call(f)
  BY DEF CallMap
<1> HIDE DEF f
<1>7. EptInv' /\ view' = Walk(f)
  BY <1>5, <1>6, CallIs
<1>8. Abstract!Rewrite(Abstract!Block(p, level), level, shift, access)
  BY <1>1, <1>5, <1>7, RewriteIs
<1> QED
  BY <1>7, <1>8 DEF Abstract!Map

LEMMA SplitStep ==
  ASSUME EptInv, NEW level \in pt..pdpt, level > pt, NEW shift \in Hosts, NEW access \in Rights,
         NEW p \in Page, Aligned(p, level), CallSplit(p, level, shift, access)
  PROVE  EptInv' /\ (Abstract!Split(p, level, shift, access) \/ UNCHANGED view)
<1> DEFINE f == Split(ept, p, p + shift, access, level)
<1>1. level \in 2..3 /\ level \in 1..4 /\ Align(p, level) = p
  BY SizesAre DEF Aligned
<1>2. shift \in Nat /\ access \in Rights \cup {RWX}
  BY AsksIs
<1>3. Translate(ept, p).level \in 1..level /\ Good(ept)
  BY ViewIs DEF CallSplit, EptInv
<1>4. \/ f = ept
      \/ /\ Translate(ept, p).level = level
         /\ Good(f) /\ Rewritten(ept, f, p, level, level - 1, shift, access)
  BY <1>1, <1>2, <1>3, SplitIs
<1>5. Call(f)
  BY DEF CallSplit
<1> HIDE DEF f
<1>6. Good(f)
  BY <1>3, <1>4
<1>7. EptInv' /\ view' = Walk(f)
  BY <1>5, <1>6, CallIs
<1>8. CASE f = ept
  BY <1>7, <1>8 DEF EptInv
<1>9. CASE f # ept
  <2>1. view[p].level = level
    BY <1>4, <1>9, ViewIs DEF EptInv
  <2>2. Abstract!Rewrite(Abstract!Block(p, level), level - 1, shift, access)
    BY <1>1, <1>4, <1>7, <1>9, RewriteIs
  <2> QED
    BY <1>7, <2>1, <2>2 DEF Abstract!Split
<1> QED
  BY <1>8, <1>9

LEMMA JoinStep ==
  ASSUME EptInv, NEW level \in pt..pdpt, level > pt, NEW shift \in Hosts, NEW access \in Rights,
         NEW p \in Page, Aligned(p, level), CallJoin(p, level, shift, access)
  PROVE  EptInv' /\ (Abstract!Join(p, level, shift, access) \/ UNCHANGED view)
<1> DEFINE f == Join(ept, p, p + shift, access, level)
<1>1. level \in 2..3 /\ level \in 1..4 /\ Align(p, level) = p
  BY SizesAre DEF Aligned
<1>2. shift \in Nat /\ access \in Rights \cup {RWX}
  BY AsksIs
<1>3. Translate(ept, p) # Unmapped /\ Good(ept)
  BY ViewIs DEF CallJoin, EptInv
<1>4. \/ f = ept
      \/ /\ Translate(ept, p).level \in 1..(level - 1)
         /\ Good(f) /\ Rewritten(ept, f, p, level, level, shift, access)
  BY <1>1, <1>2, <1>3, JoinIs
<1>5. Call(f)
  BY DEF CallJoin
<1> HIDE DEF f
<1>6. Good(f)
  BY <1>3, <1>4
<1>7. EptInv' /\ view' = Walk(f)
  BY <1>5, <1>6, CallIs
<1>8. CASE f = ept
  BY <1>7, <1>8 DEF EptInv
<1>9. CASE f # ept
  <2>1. view[p].level \in 1..(level - 1)
    BY <1>4, <1>9, ViewIs DEF EptInv
  <2>2. Abstract!Rewrite(Abstract!Block(p, level), level, shift, access)
    BY <1>1, <1>4, <1>7, <1>9, RewriteIs
  <2> QED
    BY <1>7, <2>1, <2>2 DEF Abstract!Join
<1> QED
  BY <1>8, <1>9

\* The calls that follow name every 2MB block, or every one with memory in it.
LEMMA CoarseIs ==
  ASSUME EptInv, \A p \in Page : view[p].level \in {0, pd}
  PROVE  Good(ept) /\ Coarse(ept)
BY SizesAre, ViewIs DEF EptInv, Coarse

LEMMA IdentityStep ==
  ASSUME EptInv, CallMapIdentity
  PROVE  EptInv' /\ Abstract!MapIdentity
<1> DEFINE f == MapIdentity(ept, Pages)
<1>1. Good(f) /\ \A q \in Page : Translate(f, q) = Frame(q, 2, 0, RWX)
  BY CoarseIs, MapIdentityIs DEF CallMapIdentity
<1>2. Call(f)
  BY DEF CallMapIdentity
<1> HIDE DEF f
<1>3. EptInv' /\ view' = Walk(f)
  BY <1>1, <1>2, CallIs
<1>4. view' = [q \in Page |-> view'[q]]
  BY <1>3 DEF Walk
<1>5. \A q \in Page : view'[q] = Frame(q, 2, 0, RWX) /\ Align(q, 2) \in Page
  BY <1>1, <1>3, ViewIs, FirstIs
<1>6. Abstract!Rewrite(Page, 2, 0, RWX)
  BY <1>4, <1>5, RewritesIs
<1> QED
  BY <1>3, <1>6, AbstractIs DEF Abstract!MapIdentity

LEMMA MemoryIs ==
  ASSUME NEW q \in Page
  PROVE  (\E r \in MemoryPages : Abstract!First(r, 2) = Abstract!First(q, 2))
           <=> \E i \in DOMAIN Ranges : Touches(Ranges[i], q)
<1> DEFINE R == [begin : Page, end : 1..Pages]
<1>1. Ranges \in Seq(R)
  BY MemoryAssumption
<1>2. \A i \in DOMAIN Ranges : Ranges[i] \in R
  <2> HIDE DEF R
  <2> QED
    BY <1>1
<1>3. ASSUME NEW i \in DOMAIN Ranges, NEW r \in (Ranges[i].begin)..(Ranges[i].end - 1)
      PROVE  Abstract!First(r, 2) = Abstract!First(q, 2) <=> Blk(r, 2) = Blk(q, 2)
  <2>1. Ranges[i].begin \in Page /\ Ranges[i].end \in 1..Pages
    BY <1>2
  <2>2. r \in Page
    BY <2>1, PagesAre DEF Page
  <2>3. /\ Align(r, 2) = Size[2] * Blk(r, 2) /\ Align(q, 2) = Size[2] * Blk(q, 2)
        /\ Blk(Size[2] * Blk(r, 2), 2) = Blk(r, 2) /\ Blk(Size[2] * Blk(q, 2), 2) = Blk(q, 2)
    BY <2>2, PageIs, AlignIs, BlockIs
  <2> QED
    BY <2>3, AbstractIs
<1>4. \A r : r \in MemoryPages
               <=> \E i \in DOMAIN Ranges : r \in (Ranges[i].begin)..(Ranges[i].end - 1)
  BY DEF MemoryPages
<1> QED
  BY <1>3, <1>4 DEF Touches

LEMMA SparseStep ==
  ASSUME EptInv, CallMapIdentitySparse
  PROVE  EptInv' /\ Abstract!MapIdentitySparse
<1> DEFINE f == MapIdentitySparse(ept, Ranges)
           Hit(q) == \E i \in DOMAIN Ranges : Touches(Ranges[i], q)
           Near(q) == \E r \in MemoryPages : Abstract!First(r, 2) = Abstract!First(q, 2)
<1>1. /\ Good(f)
      /\ \A q \in Page : Translate(f, q) = IF Hit(q) THEN Frame(q, 2, 0, RWX)
                                           ELSE Translate(ept, q)
  BY CoarseIs, SparseIs DEF CallMapIdentitySparse
<1>2. Call(f)
  BY DEF CallMapIdentitySparse
<1>3. \A q \in Page : Near(q) <=> Hit(q)
  BY MemoryIs
<1> HIDE DEF f, Hit, Near
<1>4. EptInv' /\ view' = Walk(f)
  BY <1>1, <1>2, CallIs
<1>5. view' = [q \in Page |-> view'[q]]
  BY <1>4 DEF Walk
<1>6. \A q \in Page : view'[q] = Translate(f, q) /\ view[q] = Translate(ept, q)
  BY <1>4, ViewIs DEF EptInv
<1> DEFINE S == Abstract!Occupied
<1>7. S \in SUBSET Page /\ \A q \in Page : q \in S <=> Near(q)
  BY AbstractIs DEF Abstract!Occupied, Near
<1>8. ASSUME NEW q \in Page PROVE Align(q, 2) \in Page /\ (Near(Align(q, 2)) <=> Near(q))
  <2>1. Align(q, 2) \in Page /\ Abstract!First(Align(q, 2), 2) = Abstract!First(q, 2)
    BY FirstIs, AbstractIs
  <2> QED
    BY <2>1 DEF Near
<1> HIDE DEF S
<1>9. \A q \in Page \ S : view'[q] = view[q]
  BY <1>1, <1>3, <1>6, <1>7
<1>10. \A q \in S : view'[q] = Frame(q, 2, 0, RWX) /\ Align(q, 2) \in S
  BY <1>1, <1>3, <1>6, <1>7, <1>8
<1>11. Abstract!Rewrite(S, 2, 0, RWX)
  BY <1>5, <1>7, <1>9, <1>10, RewritesIs
<1> QED
  BY <1>4, <1>11, AbstractIs DEF Abstract!MapIdentitySparse, S

LEMMA DestroyStep ==
  ASSUME EptInv, CallDestroy
  PROVE  EptInv' /\ Abstract!Destroy
<1> DEFINE f == Destroy(ept)
<1>1. /\ Good(f) /\ DOMAIN f.tables = {Root}
      /\ \A q \in Page : Translate(f, q) = Unmapped
  BY DestroyedIs DEF EptInv
<1>2. ept' = f /\ view' = Walk(ept')
  BY DEF CallDestroy
<1> HIDE DEF f
<1>3. EptInv'
  BY <1>1, <1>2 DEF EptInv, Walk
<1>4. view' = [q \in Page |-> Unmapped]
  BY <1>1, <1>2 DEF Walk
<1> QED
  BY <1>3, <1>4, AbstractIs DEF Abstract!Destroy

LEMMA InitIs ==
  ASSUME Init
  PROVE  EptInv /\ Abstract!Init
<1>1. ept = NewEpt /\ view = Walk(ept) /\ epml4 = "live"
  BY DEF Init
<1>2. /\ Good(ept) /\ DOMAIN ept.tables = {Root}
      /\ \A q \in Page : Translate(ept, q) = Unmapped
  BY <1>1, NewIs
<1>3. view = [q \in Page |-> Unmapped]
  BY <1>1, <1>2 DEF Walk
<1> QED
  BY <1>1, <1>2, <1>3, AbstractIs DEF EptInv, Abstract!Init

LEMMA NextIs ==
  ASSUME EptInv, [Next]_vars
  PROVE  EptInv' /\ [Abstract!Next]_view
<1>1. CASE CallMapIdentity
  BY <1>1, IdentityStep DEF Abstract!Next
<1>2. CASE CallMapIdentitySparse
  BY <1>2, SparseStep DEF Abstract!Next
<1>3. CASE CallDestroy
  BY <1>3, DestroyStep DEF Abstract!Next
<1>4. ASSUME NEW level \in pt..pdpt, NEW shift \in Hosts, NEW access \in Rights,
             NEW p \in {q \in Page : Aligned(q, level)},
             \/ CallMap(p, level, shift, access)
             \/ level > pt /\ CallSplit(p, level, shift, access)
             \/ level > pt /\ CallJoin(p, level, shift, access)
      PROVE  EptInv' /\ [Abstract!Next]_view
  <2>1. p \in Page /\ Aligned(p, level)
    OBVIOUS
  <2>2. level \in Abstract!Levels /\ (level > pt <=> level > 1)
    BY SizesAre DEF Abstract!Levels
  <2>3. p \in {q \in Abstract!Page : Abstract!Aligned(q, level)}
    BY <2>1, AbstractIs DEF Abstract!Aligned, Aligned
  <2>4. CASE CallMap(p, level, shift, access)
    BY <2>1, <2>2, <2>3, <2>4, MapStep DEF Abstract!Next
  <2>5. CASE level > pt /\ CallSplit(p, level, shift, access)
    BY <2>1, <2>2, <2>3, <2>5, SplitStep DEF Abstract!Next
  <2>6. CASE level > pt /\ CallJoin(p, level, shift, access)
    BY <2>1, <2>2, <2>3, <2>6, JoinStep DEF Abstract!Next
  <2> QED
    BY <1>4, <2>4, <2>5, <2>6
<1>5. CASE UNCHANGED vars
  BY <1>5 DEF vars, EptInv, Walk
<1> QED
  BY <1>1, <1>2, <1>3, <1>4, <1>5 DEF Next

---------------------------------------------------------------------------
(***************************************************************************)
(* What the runs check, for every fan-out, memory and caller.              *)
(***************************************************************************)

\* Every ept_t that the calls reach is a full tree, whose walk is the view.
THEOREM EptInvariance == Spec => []EptInv
<1>1. Init => EptInv
  BY InitIs
<1>2. EptInv /\ [Next]_vars => EptInv'
  BY NextIs
<1> QED
  BY <1>1, <1>2, PTL DEF Spec

\* An ept_t does what EptMap says: every call rewrites one aligned block with contiguous
\* frames, or nothing, whatever tables it allocates or frees for it (ept.cpp:41-197), and
\* a mapping whose pages share a memory type has that type.
THEOREM EptImplementsMap == Spec => ImplementsMap
<1>1. Init => Abstract!Init
  BY InitIs
<1>2. EptInv /\ [Next]_vars => [Abstract!Next]_view
  BY NextIs
<1> QED
  BY <1>1, <1>2, EptInvariance, PTL DEF Spec, ImplementsMap, Abstract!Spec

\* Entries keep their shape, no call runs out of tables while there are as many as blocks
\* that may be divided, and none takes a mapped page for a table (ept.cpp:398-439).
THEOREM EptTypes == Spec => []TypeOK
<1>1. ASSUME NEW k, Tree(ept, k) PROVE TypeOK
  <2>1. Root \in DOMAIN ept.tables /\ DOMAIN ept.tables \subseteq Tables \cup {Root} /\ ~ept.fault
    BY <1>1 DEF Tree, Base
  <2>2. ASSUME NEW t \in DOMAIN ept.tables, NEW i \in 0..(Fanout - 1)
        PROVE  LET x == ept.tables[t][i]
               IN  \/ x = Absent
                   \/ /\ x.kind = "page" /\ x.host \in Nat
                      /\ x.large \in BOOLEAN /\ x.access \in Rights \cup {RWX}
                      /\ \E p \in Page : x.type = MemType[p]
                   \/ x.kind = "table" /\ x.to \in Tables
    <3> DEFINE x == ept.tables[t][i]
               l == k[t].level
               b == F * k[t].block + i
    <3>1. Fits(x, ept, k, l, b)
      BY <1>1 DEF Tree, Entries, F
    <3>2. k[t].level \in 1..4
      BY <1>1 DEF Tree, Nodes, Node
    <3> HIDE DEF x, b
    <3>3. CASE x.kind = "none"
      BY <3>1, <3>3, Kinds DEF x
    <3>4. CASE x.kind = "page"
      <4>1. PageAt(x, l)
        BY <3>1, <3>4, Kinds
      <4> QED
        BY <4>1 DEF PageAt, x
    <3>5. CASE x.kind = "table"
      <4>1. x.to \in DOMAIN ept.tables /\ k[x.to].level = l - 1
        BY <3>1, <3>5, Kinds DEF TableAt
      <4>2. x.to # Root
        BY <1>1, <3>2, <4>1 DEF Tree, Nodes, Node
      <4> QED
        BY <2>1, <3>5, <4>1, <4>2 DEF x
    <3> QED
      BY <3>1, <3>3, <3>4, <3>5, Kinds
  <2> QED
    BY <2>1, <2>2 DEF TypeOK
<1>2. EptInv => TypeOK
  BY <1>1 DEF EptInv, Good
<1> QED
  BY <1>2, EptInvariance, PTL

LEMMA ChildIs ==
  ASSUME NEW e, NEW S, NEW t \in S, NEW i \in 0..(F - 1), NEW u, e.tables[t][i] = TableEntry(u)
  PROVE  u \in Children(e, S)
<1>1. e.tables[t][i].kind = "table" /\ e.tables[t][i].to = u
  BY TableKind
<1> QED
  BY <1>1 DEF Children, F

LEMMA ChildrenIn ==
  ASSUME NEW e, NEW k, Tree(e, k), NEW S, S \subseteq DOMAIN e.tables
  PROVE  Children(e, S) \subseteq DOMAIN e.tables
<1> SUFFICES ASSUME NEW u \in Children(e, S) PROVE u \in DOMAIN e.tables
  OBVIOUS
<1>1. PICK t \in S, i \in 0..(F - 1) : e.tables[t][i].kind = "table" /\ u = e.tables[t][i].to
  BY DEF Children, F
<1>2. Fits(e.tables[t][i], e, k, k[t].level, F * k[t].block + i)
  BY <1>1 DEF Tree, Entries
<1> QED
  BY <1>1, <1>2, Kinds DEF TableAt

\* A tree has no table that a walk from the PML4 does not find.
LEMMA AllReached ==
  ASSUME NEW e, NEW k, Tree(e, k)
  PROVE  DOMAIN e.tables = Reachable(e)
<1> DEFINE A == Children(e, {Root})
           B == Children(e, A)
           C == Children(e, B)
<1>1. A \subseteq DOMAIN e.tables /\ Root \in DOMAIN e.tables
  BY ChildrenIn DEF Tree, Base
<1>2. B \subseteq DOMAIN e.tables
  BY <1>1, ChildrenIn
<1>3. C \subseteq DOMAIN e.tables
  BY <1>2, ChildrenIn
<1>4. ASSUME NEW u \in DOMAIN e.tables \ {Root}
      PROVE  \E t \in DOMAIN e.tables, i \in 0..(F - 1) :
               e.tables[t][i] = TableEntry(u) /\ k[t].level = k[u].level + 1
  <2>1. PICK t \in DOMAIN e.tables, i \in 0..(F - 1) : e.tables[t][i] = TableEntry(u)
    BY DEF Tree, Nodes, Node
  <2>2. Fits(e.tables[t][i], e, k, k[t].level, F * k[t].block + i)
    BY <2>1 DEF Tree, Entries
  <2>3. k[u].level = k[t].level - 1 /\ k[t].level \in 1..4
    BY <2>1, <2>2, TableKind, Kinds DEF TableAt, Tree, Nodes, Node
  <2> QED
    BY <2>1, <2>3
<1>5. \A t \in DOMAIN e.tables : k[t].level \in 1..4 /\ (k[t].level = 4 <=> t = Root)
  BY DEF Tree, Nodes, Node
<1>6. \A u \in DOMAIN e.tables : k[u].level = 3 => u \in A
  BY <1>4, <1>5, ChildIs
<1>7. \A u \in DOMAIN e.tables : k[u].level = 2 => u \in B
  BY <1>4, <1>5, <1>6, ChildIs
<1>8. \A u \in DOMAIN e.tables : k[u].level = 1 => u \in C
  BY <1>4, <1>5, <1>7, ChildIs
<1> HIDE DEF A, B, C
<1>9. ASSUME NEW u \in DOMAIN e.tables PROVE u \in {Root} \cup A \cup B \cup C
  <2>1. k[u].level = 1 \/ k[u].level = 2 \/ k[u].level = 3 \/ u = Root
    BY <1>5
  <2> QED
    BY <1>6, <1>7, <1>8, <2>1
<1> QED
  BY <1>1, <1>2, <1>3, <1>9 DEF Reachable, A, B, C

\* No call leaks a table, points two entries to one, or leaves an entry to a table that was
\* deleted, and a destroyed ept_t has freed all but the PML4 (ept.cpp:510-564).
THEOREM EptTree == Spec => []TableTree
<1>1. ASSUME NEW k, Tree(ept, k), NEW u \in DOMAIN ept.tables \ {Root}
      PROVE  LET Parents == {x \in (DOMAIN ept.tables) \X (0..(Fanout - 1)) :
                               ept.tables[x[1]][x[2]] = TableEntry(u)}
             IN  Cardinality(Parents) = 1
  <2> DEFINE Parents == {x \in (DOMAIN ept.tables) \X (0..(Fanout - 1)) :
                           ept.tables[x[1]][x[2]] = TableEntry(u)}
  <2>1. PICK t \in DOMAIN ept.tables, i \in 0..(F - 1) : ept.tables[t][i] = TableEntry(u)
    BY <1>1 DEF Tree, Nodes, Node
  <2>2. <<t, i>> \in Parents
    BY <2>1 DEF F
  <2>3. ASSUME NEW x \in Parents PROVE x = <<t, i>>
    <3>1. /\ x = <<x[1], x[2]>> /\ x[1] \in DOMAIN ept.tables /\ x[2] \in 0..(F - 1)
          /\ ept.tables[x[1]][x[2]] = TableEntry(u)
      BY DEF F
    <3>2. x[1] = t /\ x[2] = i
      BY <1>1, <2>1, <3>1, ParentUnique
    <3> QED
      BY <3>1, <3>2
  <2>4. Parents = {<<t, i>>}
    BY <2>2, <2>3
  <2> QED
    BY <2>4, FS_Singleton
<1>2. EptInv => TableTree
  BY <1>1, AllReached DEF EptInv, Good, TableTree
<1> QED
  BY <1>2, EptInvariance, PTL

=============================================================================
