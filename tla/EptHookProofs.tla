------------------------------ MODULE EptHookProofs ------------------------------
(***************************************************************************)
(* Proofs about EptHook, for any processors, hooks and instructions, any   *)
(* fan-out and any amount of memory that one PML4 entry covers: a hidden   *)
(* page shows its two frames, no other page changes, and unhiding restores *)
(* the very tables of the identity map.                                    *)
(***************************************************************************)
EXTENDS EptHook, NumberProofs

---------------------------------------------------------------------------
(***************************************************************************)
(* Pages.  A page is entry r of block j of group g: its 2MB block is the   *)
(* j-th of a page directory, which is the g-th of the one PDPT.            *)
(***************************************************************************)
F == Fanout

Block(g, j) == F * (F * g + j)

LEMMA SizeIs ==
  Size[1] = 1 /\ Size[2] = F /\ Size[3] = F * F /\ Size[4] = F * F * F
BY DEF Size, F

LEMMA FanoutIs == F \in Nat \ {0, 1} /\ F * F \in Nat \ {0} /\ F * F * F \in Nat \ {0}
<1>1. F \in Nat \ {0, 1}
  BY EptAssumption DEF F
<1>2. \A x, y \in Nat \ {0} : x * y \in Nat \ {0}
  OBVIOUS
<1> QED
  BY <1>1, <1>2

LEMMA PagesAre ==
  /\ Pages \in Nat \ {0} /\ Pages <= F * F * F
  /\ \E m \in Nat \ {0} : Pages = F * m /\ Pages \div Size[pd] = m
<1>1. Pages \in Nat \ {0} /\ Pages % F = 0 /\ Pages <= F * F * F
  BY HookAssumption, SizeIs DEF pd, pml4
<1>2. PICK m \in Nat : m = Pages \div F /\ Pages = F * m
  <2>1. F \in Nat \ {0}
    BY FanoutIs
  <2>2. Pages \div F \in Nat /\ Pages = F * (Pages \div F) + (Pages % F)
    BY <1>1, <2>1, DivIs
  <2> QED
    BY <1>1, <2>1, <2>2
<1>3. m # 0
  BY <1>1, <1>2, FanoutIs
<1> QED
  BY <1>1, <1>2, <1>3, SizeIs DEF pd

\* Where the walk for a page goes.
LEMMA IndexIs ==
  ASSUME NEW g \in Nat, NEW j \in 0..(F - 1), NEW r \in 0..(F - 1), Block(g, j) + r \in Page
  PROVE  /\ g \in 0..(F - 1)
         /\ Index(Block(g, j) + r, 4) = 0 /\ Index(Block(g, j) + r, 3) = g
         /\ Index(Block(g, j) + r, 2) = j /\ Index(Block(g, j) + r, 1) = r
         /\ Align(Block(g, j) + r, 2) = Block(g, j)
         /\ (Block(g, j) + r) % F = r
<1> DEFINE a == F * g + j
           p == F * a + r
<1>1. F \in Nat \ {0, 1} /\ F \in Nat \ {0} /\ F * F \in Nat \ {0} /\ F * F * F \in Nat \ {0}
  BY FanoutIs
<1>2. a \in Nat /\ p \in Nat /\ Block(g, j) + r = p /\ Block(g, j) = F * a
  BY <1>1 DEF Block
<1>3. p < F * F * F
  <2>1. p < Pages
    BY <1>2, PagesAre DEF Page
  <2> QED
    BY <1>1, <1>2, <2>1, PagesAre
<1>4. a \div F = g /\ a % F = j
  BY <1>1, QuotientIs
<1>5. p \div F = a /\ p % F = r
  BY <1>1, <1>2, QuotientIs
<1>6. /\ F * j + r \in 0..(F * F - 1) /\ p = (F * F) * g + (F * j + r)
  <2>1. F * j <= F * (F - 1)
    BY <1>1, MulMono
  <2>2. F * (F - 1) = F * F - F /\ F * j \in Nat
    BY <1>1
  <2>3. F * (F * g + j) = (F * F) * g + F * j
    BY <1>1
  <2> QED
    BY <1>1, <2>1, <2>2, <2>3
<1> HIDE DEF a, p
<1>7. p \div (F * F) = g
  BY <1>1, <1>6, QuotientIs
<1>8. g < F
  <2>1. SUFFICES ASSUME F <= g PROVE FALSE
    BY <1>1
  <2>2. (F * F) * F <= (F * F) * g
    BY <1>1, <2>1, MulMono
  <2> QED
    BY <1>1, <1>2, <1>3, <1>6, <2>2
<1>9. g % F = g /\ r % F = r
  <2>1. \A x \in 0..(F - 1) : F * 0 + x = x
    BY <1>1
  <2>2. \A x \in 0..(F - 1) : (F * 0 + x) % F = x
    BY <1>1, QuotientIs
  <2> QED
    BY <1>1, <1>8, <2>1, <2>2
<1>10. p \div (F * F * F) = 0
  <2> DEFINE c == F * F * F
  <2>1. c \in Nat \ {0} /\ p \in 0..(c - 1) /\ 0 \in Nat
    BY <1>1, <1>2, <1>3
  <2> HIDE DEF c
  <2>2. (c * 0 + p) \div c = 0
    BY <2>1, QuotientIs
  <2>3. c * 0 + p = p
    BY <2>1
  <2>4. p \div c = 0
    BY <2>2, <2>3
  <2> QED
    BY <2>4 DEF c
<1>11. 0 % F = 0
  <2>1. F * 0 = 0 /\ (F * 0) % F = 0
    BY <1>1, MultipleIs
  <2> QED
    BY <2>1
<1>12. p \div 1 = p /\ p % 1 = 0
  BY <1>2
<1>13. Index(p, 4) = 0 /\ Index(p, 3) = g
  <2>1. Index(p, 4) = (p \div (F * F * F)) % F /\ Index(p, 3) = (p \div (F * F)) % F
    BY SizeIs DEF Index, F
  <2> QED
    BY <1>7, <1>9, <1>10, <1>11, <2>1
<1>14. Index(p, 2) = j /\ Index(p, 1) = r
  <2>1. Index(p, 2) = (p \div F) % F /\ Index(p, 1) = (p \div 1) % F
    BY SizeIs DEF Index, F
  <2> QED
    BY <1>4, <1>5, <1>12, <2>1
<1>15. Align(p, 2) = p - r
  BY <1>5, SizeIs DEF Align
<1>16. p - r = F * a
  BY <1>1, <1>2 DEF p
<1> QED
  BY <1>1, <1>2, <1>5, <1>8, <1>13, <1>14, <1>15, <1>16

\* Every page is one of those, and its block lies in memory.
LEMMA PageIs ==
  ASSUME NEW p \in Page
  PROVE  \E g \in 0..(F - 1), j \in 0..(F - 1), r \in 0..(F - 1) :
           /\ p = Block(g, j) + r
           /\ \A i \in 0..(F - 1) : Block(g, j) + i \in Page
<1> DEFINE a == p \div F
           r == p % F
           g == a \div F
           j == a % F
<1>1. F \in Nat \ {0, 1} /\ p \in Nat /\ p < Pages /\ Pages \in Nat
  BY FanoutIs, PagesAre DEF Page
<1>2. a \in Nat /\ r \in 0..(F - 1) /\ p = F * a + r
  BY <1>1, DivIs
<1>3. g \in Nat /\ j \in 0..(F - 1) /\ a = F * g + j
  BY <1>1, <1>2, DivIs
<1> HIDE DEF a, r, g, j
<1>4. p = Block(g, j) + r /\ Block(g, j) = F * a
  BY <1>2, <1>3 DEF Block
<1>5. PICK m \in Nat : Pages = F * m
  BY PagesAre
<1>6. a + 1 <= m
  <2>1. SUFFICES ASSUME m <= a PROVE FALSE
    BY <1>2, <1>5
  <2>2. F * m <= F * a
    BY <1>1, <1>2, <1>5, <2>1, MulMono
  <2> QED
    BY <1>1, <1>2, <1>5, <2>2
<1>7. F * (a + 1) <= F * m /\ F * (a + 1) = F * a + F
  BY <1>1, <1>2, <1>5, <1>6, MulMono
<1>8. \A i \in 0..(F - 1) : Block(g, j) + i \in Page
  <2>1. F * a \in Nat
    BY <1>1, <1>2
  <2> QED
    BY <1>1, <1>4, <1>5, <1>7, <2>1 DEF Page
<1>9. g \in 0..(F - 1)
  BY <1>2, <1>3, <1>4, IndexIs
<1> QED
  BY <1>2, <1>3, <1>4, <1>8, <1>9

---------------------------------------------------------------------------
(***************************************************************************)
(* Tables.  Structures no access has left are a function of their tables.  *)
(***************************************************************************)
Whole(T) == [tables |-> T, fault |-> FALSE]

\* Entry i of table t is x.
With(T, t, i, x) == [T EXCEPT ![t] = [T[t] EXCEPT ![i] = x]]

\* A new table, and entry i of table t points to it.
Joined(T, new, leaf) == [u \in DOMAIN T \cup {new} |-> IF u = new THEN leaf ELSE T[u]]
WithNew(T, t, i, new) == Joined(With(T, t, i, TableEntry(new)), new, Empty)

LEMMA PutIs ==
  ASSUME NEW T, NEW t \in DOMAIN T, NEW i, NEW x, t # Null
  PROVE  Put(Whole(T), t, i, x) = Whole(With(T, t, i, x))
BY DEF Put, Whole, With

LEMMA WholeIs ==
  ASSUME NEW T
  PROVE  Whole(T).tables = T /\ Whole(T).fault = FALSE
BY DEF Whole

LEMMA SameStructures ==
  ASSUME NEW e, NEW f, e = [k \in DOMAIN e |-> e[k]], f = [k \in DOMAIN f |-> f[k]],
         DOMAIN e = {"tables", "fault"}, DOMAIN f = {"tables", "fault"},
         e.tables = f.tables, e.fault = f.fault
  PROVE  e = f
OBVIOUS

LEMMA WholeExcept ==
  ASSUME NEW T, NEW X
  PROVE  [Whole(T) EXCEPT !.tables = X] = Whole(X)
<1> DEFINE e == [Whole(T) EXCEPT !.tables = X]
<1>1. e.tables = X /\ e.fault = FALSE
  BY DEF Whole
<1>2. DOMAIN e = {"tables", "fault"} /\ DOMAIN Whole(X) = {"tables", "fault"}
  BY DEF Whole
<1>3. e = [k \in DOMAIN e |-> e[k]]
  OBVIOUS
<1>4. Whole(X) = [k \in DOMAIN Whole(X) |-> Whole(X)[k]]
  BY DEF Whole
<1>5. Whole(X).tables = X /\ Whole(X).fault = FALSE
  BY WholeIs
<1> HIDE DEF e
<1>6. e = Whole(X)
  BY <1>1, <1>2, <1>3, <1>4, <1>5, SameStructures
<1> QED
  BY <1>6 DEF e

\* The two kinds of pages.
LargePage(host, access, type) == PageEntry(host, TRUE, access, type)
SmallPage(host, access, type) == PageEntry(host, FALSE, access, type)

LEMMA Kinds ==
  ASSUME NEW t
  PROVE  TableEntry(t).kind = "table" /\ TableEntry(t).to = t /\ Absent.kind = "none"
BY DEF TableEntry, Absent

LEMMA PageKinds ==
  ASSUME NEW host, NEW access, NEW type
  PROVE  /\ LargePage(host, access, type).kind = "page" /\ IsLarge(LargePage(host, access, type))
         /\ LargePage(host, access, type).host = host
         /\ LargePage(host, access, type).access = access
         /\ LargePage(host, access, type).type = type
         /\ SmallPage(host, access, type).kind = "page" /\ ~IsLarge(SmallPage(host, access, type))
         /\ SmallPage(host, access, type).host = host
         /\ SmallPage(host, access, type).access = access
         /\ SmallPage(host, access, type).type = type
BY DEF LargePage, SmallPage, PageEntry, IsLarge

LEMMA SubtableThere ==
  ASSUME NEW T, NEW t \in DOMAIN T, NEW i, t # Null, T[t][i].kind = "table"
  PROVE  /\ MapSubtable(Whole(T), t, i).ept = Whole(T)
         /\ MapSubtable(Whole(T), t, i).table = T[t][i].to
BY WholeIs DEF MapSubtable

LEMMA SubtableNew ==
  ASSUME NEW T, NEW t \in DOMAIN T, NEW i, t # Null, T[t][i] = Absent,
         Tables \ DOMAIN T # {}
  PROVE  /\ MapSubtable(Whole(T), t, i).ept
              = Whole(WithNew(T, t, i, Min(Tables \ DOMAIN T)))
         /\ MapSubtable(Whole(T), t, i).table = Min(Tables \ DOMAIN T)
<1> DEFINE new == Min(Tables \ DOMAIN T)
           e == Put(Whole(T), t, i, TableEntry(new))
<1>1. e = Whole(With(T, t, i, TableEntry(new)))
  BY PutIs
<1>2. [e EXCEPT !.tables = Allocate(@, new)] = Whole(WithNew(T, t, i, new))
  <2> DEFINE W == With(T, t, i, TableEntry(new))
             X == Joined(W, new, Empty)
  <2>1. e.tables = W /\ e = Whole(W)
    BY <1>1, WholeIs
  <2>2. [e EXCEPT !.tables = Allocate(@, new)] = [Whole(W) EXCEPT !.tables = X]
    <3>1. Allocate(W, new) = X
      BY DEF Allocate, Joined
    <3> HIDE DEF e, W, X
    <3> QED
      BY <2>1, <3>1
  <2>3. [Whole(W) EXCEPT !.tables = X] = Whole(X)
    <3> HIDE DEF W, X
    <3> QED
      BY WholeExcept
  <2> QED
    BY <2>2, <2>3 DEF WithNew
<1>3. T[t][i].kind = "none"
  BY Kinds
<1>4. ~(Tables \subseteq DOMAIN T)
  OBVIOUS
<1>5. MapSubtable(Whole(T), t, i)
        = [ept |-> [e EXCEPT !.tables = Allocate(@, new)], table |-> new]
  <2> HIDE DEF e, new
  <2> QED
    BY <1>3, <1>4, WholeIs DEF MapSubtable, e, new
<1> QED
  BY <1>2, <1>5

\* Tables that are functions on their indices.
Structure(T) ==
  /\ T = [t \in DOMAIN T |-> T[t]]
  /\ \A t \in DOMAIN T : T[t] = [i \in 0..(F - 1) |-> T[t][i]]

LEMMA SameTables ==
  ASSUME NEW T, NEW U, Structure(T), Structure(U), DOMAIN T = DOMAIN U,
         \A t \in DOMAIN T : \A i \in 0..(F - 1) : T[t][i] = U[t][i]
  PROVE  T = U
<1>1. \A t \in DOMAIN T : T[t] = U[t]
  <2> SUFFICES ASSUME NEW t \in DOMAIN T PROVE T[t] = U[t]
    OBVIOUS
  <2>1. T[t] = [i \in 0..(F - 1) |-> T[t][i]] /\ U[t] = [i \in 0..(F - 1) |-> U[t][i]]
    BY DEF Structure
  <2>2. [i \in 0..(F - 1) |-> T[t][i]] = [i \in 0..(F - 1) |-> U[t][i]]
    OBVIOUS
  <2> QED
    BY <2>1, <2>2, Zenon
<1>2. T = [t \in DOMAIN T |-> T[t]] /\ U = [t \in DOMAIN T |-> U[t]]
  BY DEF Structure
<1>3. [t \in DOMAIN T |-> T[t]] = [t \in DOMAIN T |-> U[t]]
  BY <1>1
<1> QED
  BY <1>2, <1>3, Zenon

LEMMA WithIs ==
  ASSUME NEW T, Structure(T), NEW t \in DOMAIN T, NEW i \in 0..(F - 1), NEW x
  PROVE  /\ Structure(With(T, t, i, x)) /\ DOMAIN With(T, t, i, x) = DOMAIN T
         /\ With(T, t, i, x)[t][i] = x
         /\ \A u \in DOMAIN T : \A k \in 0..(F - 1) :
              ~(u = t /\ k = i) => With(T, t, i, x)[u][k] = T[u][k]
<1> DEFINE W == With(T, t, i, x)
<1>1. DOMAIN W = DOMAIN T /\ W = [u \in DOMAIN W |-> W[u]]
  BY DEF With
<1>2. W[t] = [T[t] EXCEPT ![i] = x] /\ \A u \in DOMAIN T : u # t => W[u] = T[u]
  BY DEF With
<1>3. T[t] = [k \in 0..(F - 1) |-> T[t][k]]
  BY DEF Structure
<1>4. W[t] = [k \in 0..(F - 1) |-> IF k = i THEN x ELSE T[t][k]]
  BY <1>2, <1>3
<1> HIDE DEF W
<1>5. \A u \in DOMAIN T : W[u] = [k \in 0..(F - 1) |-> W[u][k]]
  <2>1. W[t] = [k \in 0..(F - 1) |-> W[t][k]]
    BY <1>4
  <2>2. \A u \in DOMAIN T : u # t => W[u] = [k \in 0..(F - 1) |-> W[u][k]]
    BY <1>2 DEF Structure
  <2> QED
    BY <2>1, <2>2
<1>6. W[t][i] = x
  BY <1>4
<1>7. \A u \in DOMAIN T : \A k \in 0..(F - 1) : ~(u = t /\ k = i) => W[u][k] = T[u][k]
  BY <1>2, <1>4
<1> QED
  BY <1>1, <1>5, <1>6, <1>7 DEF Structure, W

IsTable(leaf) == leaf = [i \in 0..(F - 1) |-> leaf[i]]

LEMMA JoinedDomain ==
  ASSUME NEW T, NEW new, NEW leaf
  PROVE  DOMAIN Joined(T, new, leaf) = DOMAIN T \cup {new}
BY DEF Joined

LEMMA JoinedIs ==
  ASSUME NEW T, Structure(T), NEW new, new \notin DOMAIN T, NEW leaf, IsTable(leaf)
  PROVE  /\ Structure(Joined(T, new, leaf)) /\ Joined(T, new, leaf)[new] = leaf
         /\ \A t \in DOMAIN T : Joined(T, new, leaf)[t] = T[t]
<1> DEFINE W == Joined(T, new, leaf)
<1>1. W = [t \in (DOMAIN T) \cup {new} |-> IF t \in DOMAIN T THEN T[t] ELSE leaf]
  BY DEF Joined
<1> HIDE DEF W
<1>2. /\ DOMAIN W = DOMAIN T \cup {new} /\ W[new] = leaf
      /\ \A t \in DOMAIN T : W[t] = T[t]
  BY <1>1
<1>3. W = [t \in DOMAIN W |-> W[t]]
  BY <1>1
<1>4. \A t \in DOMAIN W : W[t] = [i \in 0..(F - 1) |-> W[t][i]]
  <2>1. W[new] = [i \in 0..(F - 1) |-> W[new][i]]
    BY <1>2 DEF IsTable
  <2>2. \A t \in DOMAIN T : W[t] = [i \in 0..(F - 1) |-> W[t][i]]
    BY <1>2 DEF Structure
  <2> QED
    BY <1>2, <2>1, <2>2
<1> QED
  BY <1>2, <1>3, <1>4 DEF Structure, W

LEMMA WithNewDomain ==
  ASSUME NEW T, NEW t, NEW i, NEW new
  PROVE  DOMAIN WithNew(T, t, i, new) = DOMAIN T \cup {new}
BY DEF WithNew, Joined, With

LEMMA WithNewIs ==
  ASSUME NEW T, Structure(T), NEW t \in DOMAIN T, NEW i \in 0..(F - 1), NEW new,
         new \notin DOMAIN T
  PROVE  /\ Structure(WithNew(T, t, i, new))
         /\ WithNew(T, t, i, new)[t][i] = TableEntry(new)
         /\ \A k \in 0..(F - 1) : WithNew(T, t, i, new)[new][k] = Absent
         /\ \A u \in DOMAIN T : \A k \in 0..(F - 1) :
              ~(u = t /\ k = i) => WithNew(T, t, i, new)[u][k] = T[u][k]
<1> DEFINE W == With(T, t, i, TableEntry(new))
<1>1. /\ Structure(W) /\ DOMAIN W = DOMAIN T /\ W[t][i] = TableEntry(new)
      /\ \A u \in DOMAIN T : \A k \in 0..(F - 1) :
           ~(u = t /\ k = i) => W[u][k] = T[u][k]
  BY WithIs
<1> HIDE DEF W
<1>2. IsTable(Empty) /\ \A k \in 0..(F - 1) : Empty[k] = Absent
  BY DEF IsTable, Empty, F
<1>3. new \notin DOMAIN W
  BY <1>1
<1> DEFINE V == Joined(W, new, Empty)
<1>4. Structure(V) /\ V[new] = Empty /\ \A u \in DOMAIN W : V[u] = W[u]
  BY <1>1, <1>2, <1>3, JoinedIs
<1>5. WithNew(T, t, i, new) = V
  BY DEF WithNew, W
<1> HIDE DEF V
<1> QED
  BY <1>1, <1>2, <1>4, <1>5

---------------------------------------------------------------------------
(***************************************************************************)
(* Walks.  The tables a walk for page p goes through, and what map() does  *)
(* at the place where it arrives.                                          *)
(***************************************************************************)
PdptOf(T, p) == T[Root][Index(p, 4)].to
PdOf(T, p)   == T[PdptOf(T, p)][Index(p, 3)].to
PtOf(T, p)   == T[PdOf(T, p)][Index(p, 2)].to

HasPdpt(T, p) ==
  /\ Root \in DOMAIN T /\ T[Root][Index(p, 4)].kind = "table"
  /\ PdptOf(T, p) \in DOMAIN T /\ PdptOf(T, p) # Null

HasPd(T, p) ==
  /\ HasPdpt(T, p) /\ T[PdptOf(T, p)][Index(p, 3)].kind = "table"
  /\ PdOf(T, p) \in DOMAIN T /\ PdOf(T, p) # Null

HasPt(T, p) ==
  /\ HasPd(T, p) /\ T[PdOf(T, p)][Index(p, 2)].kind = "table"
  /\ PtOf(T, p) \in DOMAIN T /\ PtOf(T, p) # Null

Large(p, host, access) == LargePage(host, access, MemType[p])
Small(p, host, access) == SmallPage(host, access, MemType[p])

LEMMA MapPtIs ==
  ASSUME NEW e, NEW t, NEW p, NEW host, NEW access
  PROVE  MapPt(e, t, p, host, access) = Put(e, t, Index(p, 1), Small(p, host, access))
BY DEF MapPt, pt, Small, SmallPage

LEMMA MapPdIs ==
  ASSUME NEW e, NEW t, NEW p, NEW host, NEW access
  PROVE  /\ MapPd(e, t, p, host, access, 2) = Put(e, t, Index(p, 2), Large(p, host, access))
         /\ MapPd(e, t, p, host, access, 1)
              = MapPt(MapSubtable(e, t, Index(p, 2)).ept, MapSubtable(e, t, Index(p, 2)).table,
                      p, host, access)
BY DEF MapPd, pd, Large, LargePage

LEMMA MapPdptIs ==
  ASSUME NEW e, NEW t, NEW p, NEW host, NEW access, NEW level, level # 3
  PROVE  MapPdpt(e, t, p, host, access, level)
           = MapPd(MapSubtable(e, t, Index(p, 3)).ept, MapSubtable(e, t, Index(p, 3)).table,
                   p, host, access, level)
BY DEF MapPdpt, pdpt

LEMMA RootIs == Root # Null
BY DEF Root, Null

LEMMA MapToPdpt ==
  ASSUME NEW T, NEW p, HasPdpt(T, p), NEW host, NEW access, NEW level
  PROVE  Map(Whole(T), p, host, access, level)
           = MapPdpt(Whole(T), PdptOf(T, p), p, host, access, level)
<1>1. /\ MapSubtable(Whole(T), Root, Index(p, 4)).ept = Whole(T)
      /\ MapSubtable(Whole(T), Root, Index(p, 4)).table = PdptOf(T, p)
  BY RootIs, SubtableThere DEF HasPdpt, PdptOf
<1> QED
  BY <1>1 DEF Map, pml4

LEMMA MapToPd ==
  ASSUME NEW T, NEW p, HasPd(T, p), NEW host, NEW access, NEW level, level # 3
  PROVE  Map(Whole(T), p, host, access, level)
           = MapPd(Whole(T), PdOf(T, p), p, host, access, level)
<1>1. /\ MapSubtable(Whole(T), PdptOf(T, p), Index(p, 3)).ept = Whole(T)
      /\ MapSubtable(Whole(T), PdptOf(T, p), Index(p, 3)).table = PdOf(T, p)
  BY SubtableThere DEF HasPd, HasPdpt, PdOf
<1>2. MapPdpt(Whole(T), PdptOf(T, p), p, host, access, level)
        = MapPd(Whole(T), PdOf(T, p), p, host, access, level)
  BY <1>1, MapPdptIs
<1> QED
  BY <1>2, MapToPdpt DEF HasPd

LEMMA MapLarge ==
  ASSUME NEW T, NEW p, HasPd(T, p), NEW host, NEW access
  PROVE  Map(Whole(T), p, host, access, 2)
           = Whole(With(T, PdOf(T, p), Index(p, 2), Large(p, host, access)))
<1>1. Map(Whole(T), p, host, access, 2) = MapPd(Whole(T), PdOf(T, p), p, host, access, 2)
  BY MapToPd
<1>2. MapPd(Whole(T), PdOf(T, p), p, host, access, 2)
        = Put(Whole(T), PdOf(T, p), Index(p, 2), Large(p, host, access))
  BY MapPdIs
<1> QED
  BY <1>1, <1>2, PutIs DEF HasPd

LEMMA MapSmall ==
  ASSUME NEW T, NEW p, HasPt(T, p), NEW host, NEW access
  PROVE  Map(Whole(T), p, host, access, 1)
           = Whole(With(T, PtOf(T, p), Index(p, 1), Small(p, host, access)))
<1>1. Map(Whole(T), p, host, access, 1) = MapPd(Whole(T), PdOf(T, p), p, host, access, 1)
  BY MapToPd DEF HasPt
<1>2. /\ MapSubtable(Whole(T), PdOf(T, p), Index(p, 2)).ept = Whole(T)
      /\ MapSubtable(Whole(T), PdOf(T, p), Index(p, 2)).table = PtOf(T, p)
  BY SubtableThere DEF HasPt, HasPd, PtOf
<1>3. MapPd(Whole(T), PdOf(T, p), p, host, access, 1)
        = Put(Whole(T), PtOf(T, p), Index(p, 1), Small(p, host, access))
  BY <1>2, MapPdIs, MapPtIs
<1> QED
  BY <1>1, <1>3, PutIs DEF HasPt

\* The same where the last table has to be made.
LEMMA MapNewPt ==
  ASSUME NEW T, Structure(T), NEW p, HasPd(T, p), T[PdOf(T, p)][Index(p, 2)] = Absent,
         NEW host, NEW access, NEW new, new = Min(Tables \ DOMAIN T),
         Tables \ DOMAIN T # {}, new # Null
  PROVE  Map(Whole(T), p, host, access, 1)
           = Whole(With(WithNew(T, PdOf(T, p), Index(p, 2), new), new, Index(p, 1),
                        Small(p, host, access)))
<1> DEFINE W == WithNew(T, PdOf(T, p), Index(p, 2), new)
<1>1. Map(Whole(T), p, host, access, 1) = MapPd(Whole(T), PdOf(T, p), p, host, access, 1)
  BY MapToPd
<1>2. /\ MapSubtable(Whole(T), PdOf(T, p), Index(p, 2)).ept = Whole(W)
      /\ MapSubtable(Whole(T), PdOf(T, p), Index(p, 2)).table = new
  BY SubtableNew DEF HasPd
<1>3. new \in DOMAIN W
  BY DEF WithNew, Joined
<1> HIDE DEF W
<1>4. MapPd(Whole(T), PdOf(T, p), p, host, access, 1)
        = Put(Whole(W), new, Index(p, 1), Small(p, host, access))
  BY <1>2, MapPdIs, MapPtIs
<1>5. Put(Whole(W), new, Index(p, 1), Small(p, host, access))
        = Whole(With(W, new, Index(p, 1), Small(p, host, access)))
  BY <1>3, PutIs
<1> QED
  BY <1>1, <1>4, <1>5 DEF W

LEMMA MapNewPd ==
  ASSUME NEW T, Structure(T), NEW p, HasPdpt(T, p), T[PdptOf(T, p)][Index(p, 3)] = Absent,
         NEW host, NEW access, NEW new, new = Min(Tables \ DOMAIN T),
         Tables \ DOMAIN T # {}, new # Null
  PROVE  Map(Whole(T), p, host, access, 2)
           = Whole(With(WithNew(T, PdptOf(T, p), Index(p, 3), new), new, Index(p, 2),
                        Large(p, host, access)))
<1> DEFINE W == WithNew(T, PdptOf(T, p), Index(p, 3), new)
<1>1. Map(Whole(T), p, host, access, 2) = MapPdpt(Whole(T), PdptOf(T, p), p, host, access, 2)
  BY MapToPdpt
<1>2. /\ MapSubtable(Whole(T), PdptOf(T, p), Index(p, 3)).ept = Whole(W)
      /\ MapSubtable(Whole(T), PdptOf(T, p), Index(p, 3)).table = new
  BY SubtableNew DEF HasPdpt
<1>3. new \in DOMAIN W
  BY DEF WithNew, Joined
<1> HIDE DEF W
<1>4. MapPdpt(Whole(T), PdptOf(T, p), p, host, access, 2)
        = Put(Whole(W), new, Index(p, 2), Large(p, host, access))
  BY <1>2, MapPdIs, MapPdptIs
<1>5. Put(Whole(W), new, Index(p, 2), Large(p, host, access))
        = Whole(With(W, new, Index(p, 2), Large(p, host, access)))
  BY <1>3, PutIs
<1> QED
  BY <1>1, <1>4, <1>5 DEF W

LEMMA MapNewPdpt ==
  ASSUME NEW T, Structure(T), NEW p, Root \in DOMAIN T, Index(p, 4) \in 0..(F - 1),
         T[Root][Index(p, 4)] = Absent, NEW host, NEW access, NEW level,
         NEW new, new = Min(Tables \ DOMAIN T), new \notin DOMAIN T,
         Tables \ DOMAIN T # {}, new # Null
  PROVE  /\ HasPdpt(WithNew(T, Root, Index(p, 4), new), p)
         /\ PdptOf(WithNew(T, Root, Index(p, 4), new), p) = new
         /\ Map(Whole(T), p, host, access, level)
              = Map(Whole(WithNew(T, Root, Index(p, 4), new)), p, host, access, level)
<1> DEFINE W == WithNew(T, Root, Index(p, 4), new)
<1>1. W[Root][Index(p, 4)] = TableEntry(new)
  BY WithNewIs
<1>2. Root \in DOMAIN W /\ new \in DOMAIN W
  BY DEF WithNew, Joined, With
<1>3. /\ MapSubtable(Whole(T), Root, Index(p, 4)).ept = Whole(W)
      /\ MapSubtable(Whole(T), Root, Index(p, 4)).table = new
  BY RootIs, SubtableNew
<1> HIDE DEF W
<1>4. HasPdpt(W, p) /\ PdptOf(W, p) = new
  BY <1>1, <1>2, Kinds DEF HasPdpt, PdptOf
<1>5. Map(Whole(W), p, host, access, level) = MapPdpt(Whole(W), new, p, host, access, level)
  BY <1>4, MapToPdpt
<1>6. Map(Whole(T), p, host, access, level) = MapPdpt(Whole(W), new, p, host, access, level)
  BY <1>3 DEF Map, pml4
<1> QED
  BY <1>4, <1>5, <1>6 DEF W

---------------------------------------------------------------------------
\* The slots ept_entry() returns.
PdSlot(T, p) == [table |-> PdOf(T, p), index |-> Index(p, 2), level |-> 2]
PtSlot(T, p) == [table |-> PtOf(T, p), index |-> Index(p, 1), level |-> 1]

LEMMA SlotIs ==
  ASSUME NEW T, NEW t, NEW i, NEW l
  PROVE  LET slot == [table |-> t, index |-> i, level |-> l]
         IN /\ Entry(Whole(T), slot) = T[t][i] /\ slot.level = l
            /\ l # 0 => slot # NoEntry
BY WholeIs DEF Entry, NoEntry

LEMMA BelowIs ==
  ASSUME NEW T, NEW t, NEW i, NEW k, NEW p, NEW l, T[t][i].kind = "table"
  PROVE  Below(Whole(T), [table |-> t, index |-> i, level |-> k], p, l)
           = [table |-> T[t][i].to, index |-> Index(p, l), level |-> l]
BY SlotIs DEF Below

LEMMA EntryBelowPdpt ==
  ASSUME NEW T, NEW p, HasPd(T, p), NEW level, level # 3
  PROVE  EptEntry(Whole(T), p, level)
           = IF IsLarge(T[PdOf(T, p)][Index(p, 2)]) \/ level = 2 THEN PdSlot(T, p)
             ELSE Below(Whole(T), PdSlot(T, p), p, 1)
<1> DEFINE e == Whole(T)
           pml4e == [table |-> Root, index |-> Index(p, 4), level |-> 4]
           pdpte == [table |-> PdptOf(T, p), index |-> Index(p, 3), level |-> 3]
           pde == PdSlot(T, p)
<1>1. Below(e, pml4e, p, 3) = pdpte
  BY BelowIs DEF HasPd, HasPdpt, PdptOf
<1>2. Below(e, pdpte, p, 2) = pde
  BY BelowIs DEF HasPd, PdOf, PdSlot
<1>3. /\ pdpte # NoEntry /\ pdpte.level = 3 /\ ~IsLarge(Entry(e, pdpte))
  <2>1. Entry(e, pdpte) = T[PdptOf(T, p)][Index(p, 3)] /\ pdpte.level = 3 /\ pdpte # NoEntry
    BY SlotIs
  <2>2. Entry(e, pdpte).kind = "table"
    BY <2>1 DEF HasPd
  <2> HIDE DEF e, pdpte
  <2> QED
    BY <2>1, <2>2 DEF IsLarge
<1>4. pde # NoEntry /\ pde.level = 2 /\ Entry(e, pde) = T[PdOf(T, p)][Index(p, 2)]
  BY SlotIs DEF PdSlot
<1>5. EptEntry(e, p, level)
        = LET Found(slot) == slot = NoEntry \/ IsLarge(Entry(e, slot)) \/ level = slot.level
          IN IF Found(pdpte) THEN pdpte ELSE IF Found(pde) THEN pde ELSE Below(e, pde, p, 1)
  <2> HIDE DEF e, pdpte, pde
  <2> QED
    BY <1>1, <1>2 DEF EptEntry, pml4, pdpt, pd, pt
<1> HIDE DEF e, pdpte, pde
<1>6. EptEntry(e, p, level)
        = IF IsLarge(T[PdOf(T, p)][Index(p, 2)]) \/ level = 2 THEN pde ELSE Below(e, pde, p, 1)
  BY <1>3, <1>4, <1>5
<1> QED
  BY <1>6 DEF e, pde

LEMMA EntryAtPd ==
  ASSUME NEW T, NEW p, HasPd(T, p)
  PROVE  EptEntry(Whole(T), p, 2) = PdSlot(T, p)
BY EntryBelowPdpt

LEMMA EntryAtPt ==
  ASSUME NEW T, NEW p, HasPt(T, p)
  PROVE  EptEntry(Whole(T), p, 1) = PtSlot(T, p)
<1>1. ~IsLarge(T[PdOf(T, p)][Index(p, 2)])
  BY DEF HasPt, IsLarge
<1>2. HasPd(T, p) /\ T[PdOf(T, p)][Index(p, 2)].kind = "table"
  BY DEF HasPt
<1>3. Below(Whole(T), PdSlot(T, p), p, 1) = PtSlot(T, p)
  BY <1>2, BelowIs DEF PdSlot, PtSlot, PtOf
<1> QED
  BY <1>1, <1>2, <1>3, EntryBelowPdpt

\* What a walk finds.
LEMMA FoundLarge ==
  ASSUME NEW T, NEW p, HasPd(T, p), NEW host, NEW access, NEW type,
         T[PdOf(T, p)][Index(p, 2)] = LargePage(host, access, type)
  PROVE  Translate(Whole(T), p)
           = [host |-> host + (p % F), access |-> access, level |-> 2, type |-> type]
<1> DEFINE e == Whole(T)
           slot == PdSlot(T, p)
           entry == T[PdOf(T, p)][Index(p, 2)]
<1>1. IsLarge(entry) /\ entry.kind = "page"
  BY PageKinds
<1>2. EptEntry(e, p, 1) = slot
  BY <1>1, EntryBelowPdpt
<1>3. slot # NoEntry /\ slot.level = 2 /\ Entry(e, slot) = entry
  BY SlotIs DEF PdSlot
<1>4. entry.host = host /\ entry.access = access /\ entry.type = type
  BY PageKinds
<1> HIDE DEF e, slot, entry
<1>5. Translate(e, p) = [host |-> entry.host + (p % Size[2]), access |-> entry.access,
                         level |-> 2, type |-> entry.type]
  BY <1>1, <1>2, <1>3 DEF Translate, pt
<1> QED
  BY <1>4, <1>5, SizeIs DEF e

LEMMA FoundSmall ==
  ASSUME NEW T, NEW p \in Page, HasPt(T, p), NEW host \in Nat, NEW access, NEW type,
         T[PtOf(T, p)][Index(p, 1)] = SmallPage(host, access, type)
  PROVE  Translate(Whole(T), p) = [host |-> host, access |-> access, level |-> 1, type |-> type]
<1> DEFINE e == Whole(T)
           slot == PtSlot(T, p)
           entry == T[PtOf(T, p)][Index(p, 1)]
<1>1. EptEntry(e, p, 1) = slot
  BY EntryAtPt
<1>2. slot # NoEntry /\ slot.level = 1 /\ Entry(e, slot) = entry
  BY SlotIs DEF PtSlot
<1>3. entry.kind = "page" /\ entry.host = host /\ entry.access = access /\ entry.type = type
  BY PageKinds
<1>4. p % 1 = 0 /\ host + 0 = host
  BY DEF Page
<1> HIDE DEF e, slot, entry
<1>5. Translate(e, p) = [host |-> entry.host + (p % Size[1]), access |-> entry.access,
                         level |-> 1, type |-> entry.type]
  BY <1>1, <1>2, <1>3 DEF Translate, pt
<1> QED
  BY <1>3, <1>4, <1>5, SizeIs DEF e

---------------------------------------------------------------------------
(***************************************************************************)
(* A loop of map().  MapBlocks is a fold, a function on sets of turns that *)
(* is chosen by its own equation; Run says what the turns do one by one.   *)
(***************************************************************************)
Turn(x, p, host, access, level, i) ==
  Map(x, p + (i - 1) * Size[level], host + (i - 1) * Size[level], access, level)

Turns(e, p, host, access, level, seq, f, s) ==
  IF s = {} THEN e ELSE Turn(f[s \ {Max(s)}], p, host, access, level, seq[Max(s)])

TakesTurns(e, p, host, access, level, seq, f, n) ==
  \A s \in SUBSET (1..n) : f[s] = Turns(e, p, host, access, level, seq, f, s)

Run(g, e, p, host, access, level, n) ==
  /\ g[0] = e
  /\ \A i \in 1..n : g[i] = Turn(g[i - 1], p, host, access, level, i)

LEMMA MaxIs ==
  ASSUME NEW n \in Nat, NEW s \in SUBSET (1..n), s # {}
  PROVE  Max(s) \in s /\ \A i \in s : i <= Max(s)
<1>1. s \subseteq Nat /\ \A i \in s : i <= n
  OBVIOUS
<1>2. \E m \in s : \A i \in s : i <= m
  BY <1>1, LargestOf
<1>3. \E m \in s : \A i \in s : m >= i
  BY <1>1, <1>2
<1>4. Max(s) \in s /\ \A i \in s : Max(s) >= i
  BY <1>3 DEF Max
<1> QED
  BY <1>1, <1>4

LEMMA TurnsExist ==
  ASSUME NEW e, NEW p, NEW host, NEW access, NEW level, NEW seq, NEW n \in Nat
  PROVE  \E f : TakesTurns(e, p, host, access, level, seq, f, n)
<1> DEFINE Ok(f, k) == TakesTurns(e, p, host, access, level, seq, f, k)
           N == {k \in Nat : \E f : Ok(f, k)}
<1>1. 0 \in N
  <2> DEFINE f == [s \in {{}} |-> e]
  <2>1. \A s \in SUBSET (1..0) : s = {}
    OBVIOUS
  <2>2. f[{}] = e
    OBVIOUS
  <2> HIDE DEF f
  <2>3. Ok(f, 0)
    BY <2>1, <2>2 DEF TakesTurns, Turns
  <2> QED
    BY <2>3
<1>2. ASSUME NEW k \in Nat, k \in N PROVE k + 1 \in N
  <2>1. PICK f : Ok(f, k)
    BY <1>2
  <2> DEFINE h == [s \in SUBSET (1..(k + 1)) |-> Turns(e, p, host, access, level, seq, f, s)]
  <2>2. \A s \in SUBSET (1..k) : s \in SUBSET (1..(k + 1)) /\ h[s] = f[s]
    BY <2>1 DEF TakesTurns
  <2>3. ASSUME NEW s \in SUBSET (1..(k + 1))
        PROVE  h[s] = Turns(e, p, host, access, level, seq, h, s)
    <3>1. CASE s = {}
      BY <3>1 DEF Turns
    <3>2. CASE s # {}
      <4> DEFINE t == s \ {Max(s)}
      <4>1. Max(s) \in s /\ \A i \in s : i <= Max(s)
        <5>1. k + 1 \in Nat
          OBVIOUS
        <5> QED
          BY <3>2, <5>1, MaxIs
      <4>2. t \in SUBSET (1..k)
        <5> SUFFICES ASSUME NEW i \in s, i # Max(s) PROVE i \in 1..k
          OBVIOUS
        <5>1. i <= Max(s) /\ i \in 1..(k + 1) /\ Max(s) \in 1..(k + 1)
          BY <4>1
        <5> QED
          BY <5>1
      <4>3. h[t] = f[t]
        BY <2>2, <4>2
      <4>4. h[s] = Turns(e, p, host, access, level, seq, f, s)
        OBVIOUS
      <4> HIDE DEF h
      <4> QED
        BY <3>2, <4>3, <4>4 DEF Turns
    <3> QED
      BY <3>1, <3>2
  <2> HIDE DEF h
  <2>4. Ok(h, k + 1)
    BY <2>3 DEF TakesTurns
  <2> QED
    BY <2>4
<1>3. Nat \subseteq N
  <2> HIDE DEF N
  <2> QED
    BY <1>1, <1>2, AllNumbers
<1> QED
  BY <1>3

LEMMA BlocksAre ==
  ASSUME NEW e, NEW p, NEW host, NEW access, NEW level, NEW n \in Nat
  PROVE  \E g : /\ Run(g, e, p, host, access, level, n)
                /\ MapBlocks(e, p, host, access, level, n) = g[n]
<1> DEFINE S == 1..n
           seq == [i \in 1..n |-> i]
           iter == CHOOSE f : f = [s \in SUBSET DOMAIN seq |-> Turns(e, p, host, access, level, seq, f, s)]
<1>0. DOMAIN seq = S /\ \A i \in S : seq[i] = i
  OBVIOUS
<1>1. MapBlocks(e, p, host, access, level, n) = iter[DOMAIN seq]
  BY DEF MapBlocks, FoldLeft, MapThenFoldSet, Turns, Turn
<1> HIDE DEF seq
<1>2. PICK h : TakesTurns(e, p, host, access, level, seq, h, n)
  BY TurnsExist
<1> DEFINE k == [s \in SUBSET S |-> h[s]]
<1>3. k = [s \in SUBSET S |-> Turns(e, p, host, access, level, seq, k, s)]
  <2>1. ASSUME NEW s \in SUBSET S PROVE k[s] = Turns(e, p, host, access, level, seq, k, s)
    <3>1. s \ {Max(s)} \in SUBSET S
      OBVIOUS
    <3>2. k[s] = h[s] /\ k[s \ {Max(s)}] = h[s \ {Max(s)}]
      BY <3>1
    <3> HIDE DEF k
    <3> QED
      BY <1>2, <3>2 DEF TakesTurns, Turns
  <2> QED
    BY <2>1
<1>4. iter = [s \in SUBSET S |-> Turns(e, p, host, access, level, seq, iter, s)]
  BY <1>0, <1>3
<1> HIDE DEF iter, k
<1>5. \A s \in SUBSET S : iter[s] = Turns(e, p, host, access, level, seq, iter, s)
  BY <1>4
<1> DEFINE g == [i \in 0..n |-> iter[1..i]]
<1>6. ASSUME NEW i \in 1..n PROVE g[i] = Turn(g[i - 1], p, host, access, level, i)
  <2>1. 1..i \in SUBSET S /\ 1..i # {} /\ i \in 1..i
    OBVIOUS
  <2>2. Max(1..i) \in 1..i /\ \A m \in 1..i : m <= Max(1..i)
    BY <2>1, MaxIs
  <2>3. Max(1..i) = i
    BY <2>1, <2>2
  <2>4. (1..i) \ {i} = 1..(i - 1)
    OBVIOUS
  <2>5. iter[1..i] = Turn(iter[1..(i - 1)], p, host, access, level, i)
    <3>1. iter[1..i] = Turns(e, p, host, access, level, seq, iter, 1..i)
      BY <1>5, <2>1
    <3>2. iter[1..i] = Turn(iter[(1..i) \ {i}], p, host, access, level, seq[i])
      BY <2>1, <2>3, <3>1, Zenon DEF Turns
    <3> QED
      BY <1>0, <2>4, <3>2, Zenon
  <2>6. g[i] = iter[1..i] /\ g[i - 1] = iter[1..(i - 1)]
    OBVIOUS
  <2> QED
    BY <2>5, <2>6
<1>7. g[0] = e
  <2>1. 1..0 = {} /\ {} \in SUBSET S
    OBVIOUS
  <2> QED
    BY <1>5, <2>1 DEF Turns
<1>8. g[n] = iter[S]
  OBVIOUS
<1> HIDE DEF g
<1> QED
  BY <1>0, <1>1, <1>6, <1>7, <1>8 DEF Run

---------------------------------------------------------------------------
(***************************************************************************)
(* The identity map.  After k blocks there are the PDPT d and the page     *)
(* directories P[0] to P[n - 1], the last of them perhaps not full.        *)
(***************************************************************************)
Counts(k, n) == k \in Nat /\ n \in Nat /\ F * n - F < k /\ k <= F * n

Named(n, d, P) ==
  /\ d \in Tables
  /\ \A a \in 0..(n - 1) : P[a] \in Tables /\ P[a] # d
  /\ \A a, b \in 0..(n - 1) : P[a] = P[b] => a = b

Allocated(T, n, d, P) ==
  /\ Structure(T) /\ DOMAIN T \subseteq Tables \cup {Root}
  /\ IsFiniteSet(DOMAIN T) /\ Cardinality(DOMAIN T) = n + 2
  /\ Root \in DOMAIN T /\ d \in DOMAIN T /\ \A a \in 0..(n - 1) : P[a] \in DOMAIN T

Upper(T, n, d, P) ==
  /\ T[Root][0] = TableEntry(d)
  /\ \A a \in 0..(F - 1) : T[d][a] = IF a < n THEN TableEntry(P[a]) ELSE Absent

Lower(T, k, n, P) ==
  \A a \in 0..(n - 1), b \in 0..(F - 1) :
    F * a + b < k => T[P[a]][b] = Large(Block(a, b), Block(a, b), RWX)

Filled(T, k, n, d, P) ==
  Counts(k, n) /\ Named(n, d, P) /\ Allocated(T, n, d, P) /\ Upper(T, n, d, P)
    /\ Lower(T, k, n, P)

LEMMA TablesAre ==
  /\ Tables \subseteq Nat \ {0} /\ Root \notin Tables /\ Null \notin Tables
  /\ IsFiniteSet(Tables) /\ Cardinality(Tables) \in Nat
  /\ Cardinality(Tables) >= Pages \div (F * F) + 3
<1>1. Tables \subseteq Nat \ {0} /\ Root \notin Tables /\ Null \notin Tables
  BY EptAssumption DEF Root, Null
<1>2. IsFiniteSet(Tables) /\ Cardinality(Tables) >= Pages \div Size[3] + 3
  BY HookAssumption DEF pdpt
<1>3. Cardinality(Tables) \in Nat
  BY <1>2, FS_CardinalityType
<1> QED
  BY <1>1, <1>2, <1>3, SizeIs

\* The allocator does not run dry.
LEMMA Room ==
  ASSUME NEW T, NEW k, NEW n, Counts(k, n), F * k <= Pages,
         DOMAIN T \subseteq Tables \cup {Root}, Root \in DOMAIN T,
         IsFiniteSet(DOMAIN T), Cardinality(DOMAIN T) = n + 2
  PROVE  /\ Tables \ DOMAIN T # {}
         /\ Min(Tables \ DOMAIN T) \in Tables /\ Min(Tables \ DOMAIN T) \notin DOMAIN T
<1>1. F \in Nat \ {0} /\ F * F \in Nat \ {0} /\ Pages \in Nat /\ k \in Nat /\ n \in Nat
  BY FanoutIs, PagesAre DEF Counts
<1>2. n < Pages \div (F * F) + 2
  <2> DEFINE q == Pages \div (F * F)
             r == Pages % (F * F)
  <2>1. q \in Nat /\ r \in 0..(F * F - 1) /\ Pages = (F * F) * q + r
    BY <1>1, DivIs
  <2> HIDE DEF q, r
  <2>2. SUFFICES ASSUME q + 1 <= n - 1 PROVE FALSE
    BY <1>1, <2>1 DEF q
  <2>3. F * (n - 1) = F * n - F /\ F * (n - 1) \in Int
    BY <1>1
  <2>4. F * (n - 1) <= k
    BY <1>1, <2>3 DEF Counts
  <2>5. F * (F * (n - 1)) <= F * k
    BY <1>1, <2>3, <2>4, MulMono
  <2>6. (F * F) * (q + 1) <= (F * F) * (n - 1)
    BY <1>1, <2>1, <2>2, MulMono
  <2>7. (F * F) * (n - 1) = F * (F * (n - 1)) /\ (F * F) * (q + 1) = (F * F) * q + F * F
    BY <1>1, <2>1
  <2>8. (F * F) * q + F * F <= F * k
    <3>1. F * F \in Int /\ (F * F) * q \in Int /\ F * k \in Int /\ (F * F) * (n - 1) \in Int
      BY <1>1, <2>1
    <3> QED
      BY <2>5, <2>6, <2>7, <3>1
  <2>9. (F * F) * q + r < (F * F) * q + F * F
    BY <1>1, <2>1
  <2> QED
    BY <1>1, <2>1, <2>8, <2>9
<1>3. Cardinality(DOMAIN T \ {Root}) = n + 1 /\ IsFiniteSet(DOMAIN T \ {Root})
  BY <1>1, FS_RemoveElement
<1>4. Tables \ DOMAIN T # {}
  <2>1. SUFFICES ASSUME Tables \subseteq DOMAIN T PROVE FALSE
    OBVIOUS
  <2>2. Tables \in SUBSET (DOMAIN T \ {Root})
    BY <2>1, TablesAre
  <2>3. Cardinality(Tables) <= n + 1
    BY <1>3, <2>2, FS_Subset
  <2>4. Pages \div (F * F) \in Nat
    BY <1>1, DivIs
  <2> QED
    BY <1>1, <1>2, <2>3, <2>4, TablesAre
<1>5. Min(Tables \ DOMAIN T) \in Tables \ DOMAIN T
  <2>1. Tables \ DOMAIN T \subseteq Nat
    BY TablesAre
  <2> QED
    BY <1>4, <2>1, MinIs
<1> QED
  BY <1>4, <1>5

\* The two coordinates of a block tell it from the others.
LEMMA CellIs ==
  ASSUME NEW a \in Nat, NEW b \in 0..(F - 1), NEW c \in Nat, NEW e \in 0..(F - 1),
         F * a + b = F * c + e
  PROVE  a = c /\ b = e
<1>1. F \in Nat \ {0}
  BY FanoutIs
<1>2. (F * a + b) \div F = a /\ (F * a + b) % F = b
  BY <1>1, QuotientIs
<1>3. (F * c + e) \div F = c /\ (F * c + e) % F = e
  BY <1>1, QuotientIs
<1> QED
  BY <1>2, <1>3

LEMMA BlockIs ==
  ASSUME NEW k \in Nat, NEW g \in Nat, NEW j \in 0..(F - 1), k = F * g + j,
         F * k < Pages
  PROVE  /\ g \in 0..(F - 1) /\ F * k = Block(g, j) /\ F * k \in Page
         /\ Index(F * k, 4) = 0 /\ Index(F * k, 3) = g /\ Index(F * k, 2) = j
<1>1. F \in Nat \ {0, 1} /\ Pages \in Nat
  BY FanoutIs, PagesAre
<1>2. 0 \in 0..(F - 1) /\ F * k \in Nat
  BY <1>1
<1>3. F * k \in Page
  BY <1>1, <1>2 DEF Page
<1>4. Block(g, j) = F * k /\ F * k + 0 = F * k
  BY <1>2 DEF Block
<1>5. Block(g, j) + 0 \in Page
  BY <1>3, <1>4
<1> QED
  BY <1>2, <1>3, <1>4, <1>5, IndexIs

LEMMA WalkFilled ==
  ASSUME NEW T, NEW k, NEW n, NEW d, NEW P, Filled(T, k, n, d, P), NEW p,
         Index(p, 4) = 0, Index(p, 3) \in 0..(n - 1), Index(p, 3) \in 0..(F - 1)
  PROVE  HasPd(T, p) /\ PdptOf(T, p) = d /\ PdOf(T, p) = P[Index(p, 3)]
<1>1. Root \in DOMAIN T /\ d \in DOMAIN T /\ d # Null /\ T[Root][0] = TableEntry(d)
  BY TablesAre DEF Filled, Named, Allocated, Upper
<1>2. PdptOf(T, p) = d /\ HasPdpt(T, p)
  BY <1>1, Kinds DEF PdptOf, HasPdpt
<1>3. T[d][Index(p, 3)] = TableEntry(P[Index(p, 3)])
  <2>1. n \in Nat
    BY DEF Filled, Counts
  <2>2. Index(p, 3) < n
    BY <2>1
  <2> QED
    BY <2>2 DEF Filled, Upper
<1>4. P[Index(p, 3)] \in DOMAIN T /\ P[Index(p, 3)] # Null
  BY TablesAre DEF Filled, Named, Allocated
<1> QED
  BY <1>2, <1>3, <1>4, Kinds DEF HasPd, PdOf

\* One more block in the last page directory.
LEMMA FillEntry ==
  ASSUME NEW T, NEW k, NEW n, NEW d, NEW P, Filled(T, k, n, d, P), k # F * n,
         F * k < Pages
  PROVE  \E T2 : Filled(T2, k + 1, n, d, P) /\ Map(Whole(T), F * k, F * k, RWX, 2) = Whole(T2)
<1> DEFINE g == n - 1
           j == k - (F * n - F)
           x == Large(F * k, F * k, RWX)
           T2 == With(T, P[g], j, x)
<1>1. F \in Nat \ {0, 1} /\ k \in Nat /\ n \in Nat /\ F * n \in Nat /\ F * n - F < k /\ k < F * n
  BY FanoutIs DEF Filled, Counts
<1>2. n # 0
  BY <1>1
<1>3. g \in Nat /\ g \in 0..(n - 1) /\ F * g = F * n - F
  BY <1>1, <1>2
<1>4. j \in 0..(F - 1) /\ k = F * g + j
  BY <1>1, <1>3
<1> HIDE DEF g, j
<1>5. /\ g \in 0..(F - 1) /\ F * k = Block(g, j)
      /\ Index(F * k, 4) = 0 /\ Index(F * k, 3) = g /\ Index(F * k, 2) = j
  BY <1>1, <1>3, <1>4, BlockIs
<1>6. HasPd(T, F * k) /\ PdOf(T, F * k) = P[g]
  BY <1>3, <1>5, WalkFilled
<1>7. Map(Whole(T), F * k, F * k, RWX, 2) = Whole(T2)
  BY <1>5, <1>6, MapLarge
<1>8. Structure(T) /\ P[g] \in DOMAIN T /\ d \in DOMAIN T /\ Root \in DOMAIN T
  BY <1>3 DEF Filled, Allocated
<1>9. /\ Structure(T2) /\ DOMAIN T2 = DOMAIN T /\ T2[P[g]][j] = x
      /\ \A u \in DOMAIN T : \A i \in 0..(F - 1) : ~(u = P[g] /\ i = j) => T2[u][i] = T[u][i]
  BY <1>4, <1>8, WithIs
<1> HIDE DEF x, T2
<1>10. d # P[g] /\ Root # P[g]
  BY <1>3, TablesAre DEF Filled, Named
<1>11. Counts(k + 1, n)
  BY <1>1 DEF Counts
<1>12. Allocated(T2, n, d, P)
  BY <1>9 DEF Filled, Allocated
<1>13. Upper(T2, n, d, P)
  <2>1. 0 \in 0..(F - 1)
    BY <1>1
  <2>2. T2[Root][0] = T[Root][0] /\ \A a \in 0..(F - 1) : T2[d][a] = T[d][a]
    BY <1>8, <1>9, <1>10, <2>1
  <2> QED
    BY <2>2 DEF Filled, Upper
<1>14. Lower(T2, k + 1, n, P)
  <2> SUFFICES ASSUME NEW a \in 0..(n - 1), NEW b \in 0..(F - 1), F * a + b < k + 1
               PROVE  T2[P[a]][b] = Large(Block(a, b), Block(a, b), RWX)
    BY DEF Lower
  <2>1. CASE a = g /\ b = j
    BY <1>5, <1>9, <2>1 DEF x
  <2>2. CASE ~(a = g /\ b = j)
    <3>1. a \in Nat /\ F * a + b \in Nat
      BY <1>1
    <3>2. F * a + b # k
      BY <1>3, <1>4, <2>2, <3>1, CellIs
    <3>3. F * a + b < k
      BY <1>1, <3>1, <3>2
    <3>4. P[a] = P[g] => a = g
      BY <1>3 DEF Filled, Named
    <3>5. P[a] \in DOMAIN T
      BY DEF Filled, Allocated
    <3>6. T2[P[a]][b] = T[P[a]][b]
      BY <1>9, <2>2, <3>4, <3>5
    <3> QED
      BY <3>3, <3>6 DEF Filled, Lower
  <2> QED
    BY <2>1, <2>2
<1>15. Filled(T2, k + 1, n, d, P)
  BY <1>11, <1>12, <1>13, <1>14 DEF Filled
<1> QED
  BY <1>7, <1>15

\* One more page directory.
LEMMA FillTable ==
  ASSUME NEW T, NEW k, NEW n, NEW d, NEW P, Filled(T, k, n, d, P), k = F * n,
         F * k < Pages
  PROVE  \E T2, P2 : /\ Filled(T2, k + 1, n + 1, d, P2)
                     /\ Map(Whole(T), F * k, F * k, RWX, 2) = Whole(T2)
<1> DEFINE new == Min(Tables \ DOMAIN T)
           x == Large(F * k, F * k, RWX)
           W == WithNew(T, d, n, new)
           T2 == With(W, new, 0, x)
           P2 == [a \in 0..n |-> IF a = n THEN new ELSE P[a]]
<1>1. F \in Nat \ {0, 1} /\ k \in Nat /\ n \in Nat /\ k = F * n + 0 /\ 0 \in 0..(F - 1)
      /\ Pages \in Nat
  BY FanoutIs, PagesAre DEF Filled, Counts
<1>2. /\ n \in 0..(F - 1) /\ F * k = Block(n, 0)
      /\ Index(F * k, 4) = 0 /\ Index(F * k, 3) = n /\ Index(F * k, 2) = 0
  <2> DEFINE j == 0
  <2>1. k \in Nat /\ n \in Nat /\ j \in 0..(F - 1) /\ k = F * n + j
    BY <1>1
  <2> HIDE DEF j
  <2>2. /\ n \in 0..(F - 1) /\ F * k = Block(n, j)
        /\ Index(F * k, 4) = 0 /\ Index(F * k, 3) = n /\ Index(F * k, 2) = j
    BY <2>1, BlockIs
  <2> QED
    BY <2>2 DEF j
<1>3. /\ Structure(T) /\ d \in DOMAIN T /\ Root \in DOMAIN T /\ d # Root /\ d # Null
      /\ DOMAIN T \subseteq Tables \cup {Root}
      /\ IsFiniteSet(DOMAIN T) /\ Cardinality(DOMAIN T) = n + 2 /\ Counts(k, n)
      /\ T[Root][0] = TableEntry(d) /\ T[d][n] = Absent
  BY <1>1, <1>2, TablesAre DEF Filled, Allocated, Named, Upper
<1>4. Tables \ DOMAIN T # {} /\ new \in Tables /\ new \notin DOMAIN T
  <2>1. F * k <= Pages
    BY <1>1
  <2> QED
    BY <1>3, <2>1, Room
<1>5. HasPdpt(T, F * k) /\ PdptOf(T, F * k) = d
  BY <1>2, <1>3, Kinds DEF HasPdpt, PdptOf
<1> HIDE DEF new
<1>6. new # Null /\ new # Root
  BY <1>4, TablesAre
<1>7. Map(Whole(T), F * k, F * k, RWX, 2) = Whole(T2)
  BY <1>2, <1>3, <1>4, <1>5, <1>6, MapNewPd DEF new
<1>8. /\ Structure(W) /\ W[d][n] = TableEntry(new)
      /\ \A u \in DOMAIN T : \A i \in 0..(F - 1) : ~(u = d /\ i = n) => W[u][i] = T[u][i]
  BY <1>2, <1>3, <1>4, WithNewIs
<1>9. DOMAIN W = DOMAIN T \cup {new}
  BY DEF WithNew, Joined, With
<1> HIDE DEF W
<1>10. /\ Structure(T2) /\ DOMAIN T2 = DOMAIN W /\ T2[new][0] = x
       /\ \A u \in DOMAIN W : \A i \in 0..(F - 1) : ~(u = new /\ i = 0) => T2[u][i] = W[u][i]
  <2>1. Structure(W) /\ new \in DOMAIN W /\ 0 \in 0..(F - 1)
    BY <1>1, <1>8, <1>9
  <2> HIDE DEF x
  <2> QED
    BY <2>1, WithIs
<1> HIDE DEF x, T2
<1>11. T2[d][n] = TableEntry(new)
  BY <1>2, <1>3, <1>4, <1>8, <1>9, <1>10
<1>12. \A u \in DOMAIN T : \A i \in 0..(F - 1) : ~(u = d /\ i = n) => T2[u][i] = T[u][i]
  BY <1>4, <1>8, <1>9, <1>10
<1>13. P2[n] = new /\ \A a \in 0..(n - 1) : P2[a] = P[a] /\ P[a] \in DOMAIN T /\ P[a] \in Tables
  BY <1>1 DEF Filled, Named, Allocated
<1> HIDE DEF P2
<1>14. Counts(k + 1, n + 1)
  BY <1>1 DEF Counts
<1>15. Named(n + 1, d, P2)
  <2>1. \A a \in 0..((n + 1) - 1) : a = n \/ a \in 0..(n - 1)
    BY <1>1
  <2>2. d \in Tables /\ \A a \in 0..(n - 1) : P[a] # d
    BY DEF Filled, Named
  <2>3. \A a \in 0..((n + 1) - 1) : P2[a] \in Tables /\ P2[a] # d
    BY <1>3, <1>4, <1>13, <2>1, <2>2
  <2>4. \A a, b \in 0..((n + 1) - 1) : P2[a] = P2[b] => a = b
    <3> SUFFICES ASSUME NEW a \in 0..((n + 1) - 1), NEW b \in 0..((n + 1) - 1), P2[a] = P2[b]
                 PROVE  a = b
      OBVIOUS
    <3>1. CASE a = n
      BY <1>4, <1>13, <2>1, <3>1
    <3>2. CASE a \in 0..(n - 1) /\ b = n
      BY <1>4, <1>13, <3>2
    <3>3. CASE a \in 0..(n - 1) /\ b \in 0..(n - 1)
      BY <1>13, <3>3 DEF Filled, Named
    <3> QED
      BY <2>1, <3>1, <3>2, <3>3
  <2> QED
    BY <2>2, <2>3, <2>4 DEF Named
<1>16. Allocated(T2, n + 1, d, P2)
  <2>1. \A a \in 0..((n + 1) - 1) : a = n \/ a \in 0..(n - 1)
    BY <1>1
  <2>2. IsFiniteSet(DOMAIN T2) /\ Cardinality(DOMAIN T2) = (n + 1) + 2
    <3>1. /\ IsFiniteSet(DOMAIN T \cup {new})
          /\ Cardinality(DOMAIN T \cup {new}) = Cardinality(DOMAIN T) + 1
      BY <1>3, <1>4, FS_AddElement
    <3> QED
      BY <1>1, <1>3, <1>9, <1>10, <3>1
  <2>3. DOMAIN T2 \subseteq Tables \cup {Root}
    BY <1>3, <1>4, <1>9, <1>10
  <2>4. Root \in DOMAIN T2 /\ d \in DOMAIN T2
    BY <1>3, <1>9, <1>10
  <2>5. \A a \in 0..((n + 1) - 1) : P2[a] \in DOMAIN T2
    BY <1>9, <1>10, <1>13, <2>1
  <2> QED
    BY <1>10, <2>2, <2>3, <2>4, <2>5 DEF Allocated
<1>17. Upper(T2, n + 1, d, P2)
  <2>1. T2[Root][0] = TableEntry(d)
    BY <1>1, <1>3, <1>12
  <2>2. ASSUME NEW a \in 0..(F - 1)
        PROVE  T2[d][a] = IF a < n + 1 THEN TableEntry(P2[a]) ELSE Absent
    <3>1. CASE a = n
      BY <1>1, <1>11, <1>13, <3>1
    <3>2. CASE a < n
      <4>1. a \in 0..(n - 1) /\ a < n + 1
        BY <1>1, <3>2
      <4>2. T2[d][a] = TableEntry(P[a])
        BY <1>1, <1>3, <1>12, <3>2 DEF Filled, Upper
      <4> QED
        BY <1>13, <4>1, <4>2
    <3>3. CASE ~(a < n + 1)
      <4>1. a # n /\ ~(a < n)
        BY <1>1, <3>3
      <4> QED
        BY <1>3, <1>12, <3>3, <4>1 DEF Filled, Upper
    <3> QED
      BY <1>1, <3>1, <3>2, <3>3
  <2> QED
    BY <2>1, <2>2 DEF Upper
<1>18. Lower(T2, k + 1, n + 1, P2)
  <2> SUFFICES ASSUME NEW a \in 0..((n + 1) - 1), NEW b \in 0..(F - 1), F * a + b < k + 1
               PROVE  T2[P2[a]][b] = Large(Block(a, b), Block(a, b), RWX)
    BY DEF Lower
  <2>1. CASE a = n
    <3>1. b = 0
      BY <1>1, <2>1
    <3> QED
      BY <1>2, <1>10, <1>13, <2>1, <3>1 DEF x
  <2>2. CASE a # n
    <3>1. a \in 0..(n - 1) /\ a \in Nat
      BY <1>1, <2>2
    <3>2. F * a + b # k
      BY <1>1, <2>2, <3>1, CellIs
    <3>3. F * a + b < k
      <4>1. F * a + b \in Nat
        BY <1>1, <3>1
      <4> QED
        BY <1>1, <3>2, <4>1
    <3>4. P2[a] = P[a] /\ P[a] \in DOMAIN T /\ P[a] # d
      BY <1>13, <3>1 DEF Filled, Named
    <3>5. T2[P2[a]][b] = T[P[a]][b]
      BY <1>12, <3>4
    <3> QED
      BY <3>1, <3>3, <3>5 DEF Filled, Lower
  <2> QED
    BY <2>1, <2>2
<1>19. Filled(T2, k + 1, n + 1, d, P2)
  BY <1>14, <1>15, <1>16, <1>17, <1>18 DEF Filled
<1> QED
  BY <1>7, <1>19

FilledTo(e, k) == \E T, n, d, P : Filled(T, k, n, d, P) /\ e = Whole(T)

LEMMA FillNext ==
  ASSUME NEW e, NEW k, FilledTo(e, k), F * k < Pages
  PROVE  FilledTo(Map(e, F * k, F * k, RWX, 2), k + 1)
<1>1. PICK T, n, d, P : Filled(T, k, n, d, P) /\ e = Whole(T)
  BY DEF FilledTo
<1>2. CASE k = F * n
  BY <1>1, <1>2, FillTable DEF FilledTo
<1>3. CASE k # F * n
  BY <1>1, <1>3, FillEntry DEF FilledTo
<1> QED
  BY <1>2, <1>3

\* The first map() makes the PDPT.
LEMMA FillFirst ==
  \E e : FilledTo(e, 0) /\ Map(NewEpt, 0, 0, RWX, 2) = Map(e, 0, 0, RWX, 2)
<1> DEFINE T0 == [t \in {Root} |-> Empty]
           d == Min(Tables \ DOMAIN T0)
           T1 == WithNew(T0, Root, 0, d)
<1>1. F \in Nat \ {0, 1} /\ 0 \in 0..(F - 1) /\ F * 0 = 0 /\ Pages \in Nat \ {0}
  BY FanoutIs, PagesAre
<1>2. Index(0, 4) = 0
  <2>1. 0 = F * 0 + 0 /\ F * 0 < Pages /\ 0 \in Nat
    BY <1>1
  <2>2. Index(F * 0, 4) = 0
    BY <1>1, <2>1, BlockIs
  <2> QED
    BY <1>1, <2>2
<1>3. DOMAIN T0 = {Root} /\ Structure(T0) /\ T0[Root][0] = Absent
  BY <1>1 DEF Structure, Empty, F
<1> HIDE DEF T0
<1>4. Tables \ DOMAIN T0 # {} /\ Tables \ DOMAIN T0 \subseteq Nat
  <2>1. Tables # {}
    <3> SUFFICES ASSUME Tables = {} PROVE FALSE
      OBVIOUS
    <3>1. Cardinality(Tables) = 0
      BY FS_EmptySet
    <3>2. Pages \div (F * F) \in Nat
      BY <1>1, FanoutIs, DivIs
    <3> QED
      BY <3>1, <3>2, TablesAre
  <2> QED
    BY <1>3, <2>1, TablesAre
<1>5. d \in Tables \ DOMAIN T0
  BY <1>4, MinIs
<1> HIDE DEF d
<1>6. d \notin DOMAIN T0 /\ d \in Tables /\ d # Null /\ d # Root
  BY <1>3, <1>5, TablesAre
<1>7. Map(Whole(T0), 0, 0, RWX, 2) = Map(Whole(T1), 0, 0, RWX, 2)
  BY <1>1, <1>2, <1>3, <1>4, <1>6, MapNewPdpt DEF d
<1>8. NewEpt = Whole(T0)
  BY DEF NewEpt, Whole, T0
<1>9. DOMAIN T1 = {Root, d}
  BY <1>3 DEF WithNew, Joined, With
<1>10. /\ Structure(T1) /\ T1[Root][0] = TableEntry(d)
       /\ \A a \in 0..(F - 1) : T1[d][a] = Absent
  BY <1>1, <1>3, <1>6, WithNewIs
<1> HIDE DEF T1
<1>11. \A a : a \notin 0..(0 - 1)
  OBVIOUS
<1>12. Counts(0, 0)
  BY <1>1 DEF Counts
<1>13. Named(0, d, <<>>)
  BY <1>6, <1>11 DEF Named
<1>14. Allocated(T1, 0, d, <<>>)
  <2>1. IsFiniteSet({Root, d}) /\ Cardinality({Root, d}) = 0 + 2
    <3>1. IsFiniteSet({Root}) /\ Cardinality({Root}) = 1
      BY FS_Singleton
    <3>2. {Root, d} = {Root} \cup {d}
      OBVIOUS
    <3> QED
      BY <1>6, <3>1, <3>2, FS_AddElement
  <2> QED
    BY <1>6, <1>9, <1>10, <1>11, <2>1 DEF Allocated
<1>15. Upper(T1, 0, d, <<>>)
  BY <1>1, <1>10 DEF Upper
<1>16. Lower(T1, 0, 0, <<>>)
  BY <1>11 DEF Lower
<1>17. FilledTo(Whole(T1), 0)
  BY <1>12, <1>13, <1>14, <1>15, <1>16 DEF Filled, FilledTo
<1> QED
  BY <1>7, <1>8, <1>17

\* map_identity() of the whole memory.
LEMMA IdentityFilled ==
  \E m \in Nat \ {0} : Pages = F * m /\ FilledTo(Identity, m)
<1>1. PICK m \in Nat \ {0} : Pages = F * m /\ Pages \div Size[pd] = m
  BY PagesAre
<1>2. F \in Nat \ {0, 1}
  BY FanoutIs
<1>3. Identity = MapBlocks(NewEpt, 0, 0, RWX, 2, m)
  BY <1>1 DEF Identity, MapIdentity, pd
<1>4. PICK g : /\ Run(g, NewEpt, 0, 0, RWX, 2, m)
               /\ MapBlocks(NewEpt, 0, 0, RWX, 2, m) = g[m]
  BY <1>1, BlocksAre
<1>5. ASSUME NEW i \in 1..m
      PROVE  g[i] = Map(g[i - 1], F * (i - 1), F * (i - 1), RWX, 2)
  <2>1. 0 + (i - 1) * Size[2] = F * (i - 1)
    <3>1. Size[2] = F
      BY SizeIs
    <3> QED
      BY <1>2, <3>1
  <2> QED
    BY <1>4, <2>1 DEF Run, Turn
<1> DEFINE G == {i \in Nat : i + 1 \in 1..m => FilledTo(g[i + 1], i + 1)}
<1>6. 0 \in G
  <2>1. 1 \in 1..m /\ 1 - 1 = 0 /\ F * 0 = 0 /\ F * 0 < Pages /\ 0 + 1 = 1
    BY <1>1, <1>2, PagesAre
  <2>2. g[0] = NewEpt
    BY <1>4 DEF Run
  <2>3. g[1] = Map(NewEpt, 0, 0, RWX, 2)
    BY <1>5, <2>1, <2>2
  <2>4. PICK e : FilledTo(e, 0) /\ Map(NewEpt, 0, 0, RWX, 2) = Map(e, 0, 0, RWX, 2)
    BY FillFirst
  <2>5. FilledTo(Map(e, F * 0, F * 0, RWX, 2), 0 + 1)
    BY <2>1, <2>4, FillNext
  <2>6. FilledTo(g[1], 1)
    BY <2>1, <2>3, <2>4, <2>5
  <2> QED
    BY <2>6
<1>7. ASSUME NEW i \in Nat, i \in G PROVE i + 1 \in G
  <2> SUFFICES ASSUME (i + 1) + 1 \in 1..m PROVE FilledTo(g[(i + 1) + 1], (i + 1) + 1)
    OBVIOUS
  <2>1. i + 1 \in 1..m /\ i + 1 < m /\ ((i + 1) + 1) - 1 = i + 1 /\ i + 1 \in Nat
    BY <1>1
  <2>2. FilledTo(g[i + 1], i + 1)
    BY <1>7, <2>1
  <2>3. F * (i + 1) < Pages
    <3>1. F * ((i + 1) + 1) <= F * m /\ F * ((i + 1) + 1) = F * (i + 1) + F
      BY <1>1, <1>2, <2>1, MulMono
    <3> QED
      BY <1>1, <1>2, <2>1, <3>1
  <2>4. FilledTo(Map(g[i + 1], F * (i + 1), F * (i + 1), RWX, 2), (i + 1) + 1)
    BY <2>2, <2>3, FillNext
  <2>5. g[(i + 1) + 1] = Map(g[i + 1], F * (i + 1), F * (i + 1), RWX, 2)
    BY <1>5, <2>1
  <2> QED
    BY <2>4, <2>5
<1>8. Nat \subseteq G
  <2> HIDE DEF G
  <2> QED
    BY <1>6, <1>7, AllNumbers
<1>9. m - 1 \in G /\ (m - 1) + 1 = m /\ m \in 1..m
  BY <1>1, <1>8
<1>10. FilledTo(g[m], m)
  BY <1>9
<1> QED
  BY <1>1, <1>3, <1>4, <1>10

---------------------------------------------------------------------------
(***************************************************************************)
(* What the identity map is: a large page for every block, and at least    *)
(* one table to spare.                                                     *)
(***************************************************************************)
Plain == Identity.tables
Spare == Min(Tables \ DOMAIN Plain)

LEMMA PlainIs ==
  /\ Identity = Whole(Plain) /\ Structure(Plain)
  /\ DOMAIN Plain \subseteq Tables \cup {Root} /\ IsFiniteSet(DOMAIN Plain)
  /\ Tables \ DOMAIN Plain # {} /\ Spare \in Tables /\ Spare \notin DOMAIN Plain
  /\ Spare # Null
<1>1. PICK m \in Nat \ {0} : Pages = F * m /\ FilledTo(Identity, m)
  BY IdentityFilled
<1>2. PICK T, n, d, P : Filled(T, m, n, d, P) /\ Identity = Whole(T)
  BY <1>1 DEF FilledTo
<1>3. Plain = T
  BY <1>2, WholeIs DEF Plain
<1>4. /\ Structure(T) /\ DOMAIN T \subseteq Tables \cup {Root} /\ IsFiniteSet(DOMAIN T)
      /\ Root \in DOMAIN T /\ Cardinality(DOMAIN T) = n + 2 /\ Counts(m, n)
  BY <1>2 DEF Filled, Allocated
<1>5. F * m <= Pages
  BY <1>1, PagesAre
<1>6. Tables \ DOMAIN T # {} /\ Spare \in Tables /\ Spare \notin DOMAIN T
  BY <1>3, <1>4, <1>5, Room DEF Spare
<1>7. Spare # Null
  BY <1>6, TablesAre
<1> QED
  BY <1>2, <1>3, <1>4, <1>6, <1>7

\* Page p leads to block (g, j), and what the entry of the block is.
LEMMA PlainWalk ==
  ASSUME NEW p \in Page
  PROVE  /\ HasPd(Plain, p) /\ Index(p, 2) \in 0..(F - 1)
         /\ Plain[PdOf(Plain, p)][Index(p, 2)] = Large(Align(p, 2), Align(p, 2), RWX)
<1>1. PICK m \in Nat \ {0} : Pages = F * m /\ FilledTo(Identity, m)
  BY IdentityFilled
<1>2. PICK T, n, d, P : Filled(T, m, n, d, P) /\ Identity = Whole(T)
  BY <1>1 DEF FilledTo
<1>3. Plain = T
  BY <1>2, WholeIs DEF Plain
<1>4. PICK g \in 0..(F - 1), j \in 0..(F - 1), r \in 0..(F - 1) : p = Block(g, j) + r
  BY PageIs
<1>5. F \in Nat \ {0, 1} /\ g \in Nat /\ n \in Nat /\ m <= F * n /\ F * n \in Nat
  BY <1>2, FanoutIs DEF Filled, Counts
<1>6. Index(p, 4) = 0 /\ Index(p, 3) = g /\ Index(p, 2) = j /\ Align(p, 2) = Block(g, j)
  BY <1>4, <1>5, IndexIs
<1>7. F * g + j \in Nat /\ Block(g, j) = F * (F * g + j) /\ p < F * m
  BY <1>1, <1>4, <1>5, PagesAre DEF Block, Page
<1>8. F * g + j < m
  <2>1. SUFFICES ASSUME m <= F * g + j PROVE FALSE
    BY <1>7
  <2>2. F * m <= F * (F * g + j)
    BY <1>5, <1>7, <2>1, MulMono
  <2>3. F * m \in Int /\ Block(g, j) \in Int
    BY <1>5, <1>7
  <2> QED
    BY <1>4, <1>7, <2>2, <2>3
<1>9. g \in 0..(n - 1)
  <2>1. SUFFICES ASSUME n <= g PROVE FALSE
    BY <1>5
  <2>2. F * n <= F * g /\ F * g \in Int
    BY <1>5, <2>1, MulMono
  <2> QED
    BY <1>5, <1>8, <2>2
<1>10. HasPd(T, p) /\ PdOf(T, p) = P[g]
  BY <1>2, <1>6, <1>9, WalkFilled
<1>11. T[P[g]][j] = Large(Block(g, j), Block(g, j), RWX)
  BY <1>2, <1>8, <1>9 DEF Filled, Lower
<1> QED
  BY <1>3, <1>6, <1>10, <1>11

\* Two pages of one block have the same way down, and differ in their last index.
SameBlock(p, q) == Align(p, 2) = Align(q, 2)

LEMMA BlockWalk ==
  ASSUME NEW p \in Page, NEW q \in Page, SameBlock(p, q)
  PROVE  /\ Index(p, 4) = Index(q, 4) /\ Index(p, 3) = Index(q, 3) /\ Index(p, 2) = Index(q, 2)
         /\ Index(p, 1) = Index(q, 1) => p = q
<1>1. PICK g \in 0..(F - 1), j \in 0..(F - 1), r \in 0..(F - 1) : p = Block(g, j) + r
  BY PageIs
<1>2. PICK h \in 0..(F - 1), k \in 0..(F - 1), s \in 0..(F - 1) : q = Block(h, k) + s
  BY PageIs
<1>3. F \in Nat \ {0, 1} /\ g \in Nat /\ h \in Nat
  BY FanoutIs
<1>4. /\ Index(p, 4) = 0 /\ Index(p, 3) = g /\ Index(p, 2) = j /\ Index(p, 1) = r
      /\ Align(p, 2) = Block(g, j)
  BY <1>1, <1>3, IndexIs
<1>5. /\ Index(q, 4) = 0 /\ Index(q, 3) = h /\ Index(q, 2) = k /\ Index(q, 1) = s
      /\ Align(q, 2) = Block(h, k)
  BY <1>2, <1>3, IndexIs
<1>6. F * g + j = F * h + k
  <2>1. F * (F * g + j) = F * (F * h + k)
    BY <1>4, <1>5 DEF SameBlock, Block
  <2>2. F * g + j \in Nat /\ F * h + k \in Nat
    BY <1>3
  <2>3. ASSUME NEW a \in Nat, NEW b \in Nat, F * a = F * b PROVE a = b
    <3>1. F * a + 0 = F * a /\ F * b + 0 = F * b /\ 0 \in 0..(F - 1)
      BY <1>3
    <3> QED
      BY <2>3, <3>1, CellIs
  <2> QED
    BY <2>1, <2>2, <2>3
<1>7. g = h /\ j = k
  BY <1>3, <1>6, CellIs
<1> QED
  BY <1>1, <1>2, <1>4, <1>5, <1>7

\* The entry of the block of q.
Replaced(q, x) == With(Plain, PdOf(Plain, q), Index(q, 2), x)

LEMMA ReplacedIs ==
  ASSUME NEW q \in Page, NEW x
  PROVE  /\ Structure(Replaced(q, x)) /\ DOMAIN Replaced(q, x) = DOMAIN Plain
         /\ PdOf(Plain, q) \in DOMAIN Plain /\ PdOf(Plain, q) # Null
         /\ Replaced(q, x)[PdOf(Plain, q)][Index(q, 2)] = x
         /\ \A u \in DOMAIN Plain : \A k \in 0..(F - 1) :
              ~(u = PdOf(Plain, q) /\ k = Index(q, 2)) => Replaced(q, x)[u][k] = Plain[u][k]
<1>1. PdOf(Plain, q) \in DOMAIN Plain /\ Index(q, 2) \in 0..(F - 1) /\ PdOf(Plain, q) # Null
  BY PlainWalk DEF HasPd
<1> QED
  BY <1>1, PlainIs, WithIs DEF Replaced

LEMMA IndexType ==
  ASSUME NEW p \in Page
  PROVE  \A l \in 1..4 : Index(p, l) \in 0..(F - 1)
<1>1. PICK g \in 0..(F - 1), j \in 0..(F - 1), r \in 0..(F - 1) : p = Block(g, j) + r
  BY PageIs
<1>2. g \in Nat /\ 0 \in 0..(F - 1)
  BY FanoutIs
<1>3. Index(p, 4) = 0 /\ Index(p, 3) = g /\ Index(p, 2) = j /\ Index(p, 1) = r
  BY <1>1, <1>2, IndexIs
<1> QED
  BY <1>2, <1>3

\* A walk for another page does not notice, one for a page of the block arrives there.
LEMMA ReplacedWalk ==
  ASSUME NEW p \in Page, NEW q \in Page, NEW x
  PROVE  /\ HasPd(Replaced(q, x), p) /\ PdOf(Replaced(q, x), p) = PdOf(Plain, p)
         /\ SameBlock(p, q) => Replaced(q, x)[PdOf(Plain, p)][Index(p, 2)] = x
         /\ ~SameBlock(p, q) => Replaced(q, x)[PdOf(Plain, p)][Index(p, 2)]
                                  = Large(Align(p, 2), Align(p, 2), RWX)
<1> DEFINE R == Replaced(q, x)
           t == PdOf(Plain, q)
           i == Index(q, 2)
<1>1. /\ DOMAIN R = DOMAIN Plain /\ R[t][i] = x
      /\ \A u \in DOMAIN Plain : \A k \in 0..(F - 1) : ~(u = t /\ k = i) => R[u][k] = Plain[u][k]
  BY ReplacedIs
<1>2. Plain[t][i] = Large(Align(q, 2), Align(q, 2), RWX)
  BY PlainWalk
<1>3. Plain[t][i].kind = "page" /\ Plain[t][i].host = Align(q, 2)
  BY <1>2, PageKinds DEF Large
<1>4. /\ HasPd(Plain, p)
      /\ Plain[PdOf(Plain, p)][Index(p, 2)] = Large(Align(p, 2), Align(p, 2), RWX)
  BY PlainWalk
<1>5. Plain[PdOf(Plain, p)][Index(p, 2)].host = Align(p, 2)
  BY <1>4, PageKinds DEF Large
<1>6. Index(p, 4) \in 0..(F - 1) /\ Index(p, 3) \in 0..(F - 1) /\ Index(p, 2) \in 0..(F - 1)
  BY IndexType
<1> HIDE DEF R, t, i
<1>7. R[Root][Index(p, 4)] = Plain[Root][Index(p, 4)]
  <2>1. Plain[Root][Index(p, 4)].kind = "table" /\ Root \in DOMAIN Plain
    BY <1>4 DEF HasPd, HasPdpt
  <2> QED
    BY <1>1, <1>3, <1>6, <2>1
<1>8. R[PdptOf(Plain, p)][Index(p, 3)] = Plain[PdptOf(Plain, p)][Index(p, 3)]
  <2>1. /\ Plain[PdptOf(Plain, p)][Index(p, 3)].kind = "table"
        /\ PdptOf(Plain, p) \in DOMAIN Plain
    BY <1>4 DEF HasPd, HasPdpt
  <2> QED
    BY <1>1, <1>3, <1>6, <2>1
<1>9. PdptOf(R, p) = PdptOf(Plain, p) /\ PdOf(R, p) = PdOf(Plain, p)
  BY <1>7, <1>8 DEF PdptOf, PdOf
<1>10. HasPd(R, p)
  BY <1>1, <1>4, <1>7, <1>8, <1>9 DEF HasPd, HasPdpt
<1>11. ASSUME SameBlock(p, q) PROVE R[PdOf(Plain, p)][Index(p, 2)] = x
  <2>1. Index(p, 4) = Index(q, 4) /\ Index(p, 3) = Index(q, 3) /\ Index(p, 2) = Index(q, 2)
    BY <1>11, BlockWalk
  <2>2. PdOf(Plain, p) = PdOf(Plain, q)
    BY <2>1 DEF PdOf, PdptOf
  <2> QED
    BY <1>1, <2>1, <2>2 DEF t, i
<1>12. ASSUME ~SameBlock(p, q)
       PROVE  R[PdOf(Plain, p)][Index(p, 2)] = Large(Align(p, 2), Align(p, 2), RWX)
  <2>1. ~(PdOf(Plain, p) = t /\ Index(p, 2) = i)
    BY <1>3, <1>5, <1>12 DEF SameBlock
  <2>2. PdOf(Plain, p) \in DOMAIN Plain
    BY <1>4 DEF HasPd
  <2> QED
    BY <1>1, <1>4, <1>6, <2>1, <2>2
<1> QED
  BY <1>9, <1>10, <1>11, <1>12 DEF R

\* The block of q is mapped page by page, in the spare table.
Divided(q, leaf) == Joined(Replaced(q, TableEntry(Spare)), Spare, leaf)

LEMMA DividedIs ==
  ASSUME NEW q \in Page, NEW leaf, IsTable(leaf)
  PROVE  /\ Structure(Divided(q, leaf)) /\ Divided(q, leaf)[Spare] = leaf
         /\ \A t \in DOMAIN Plain : Divided(q, leaf)[t] = Replaced(q, TableEntry(Spare))[t]
<1>1. Structure(Replaced(q, TableEntry(Spare))) /\ DOMAIN Replaced(q, TableEntry(Spare)) = DOMAIN Plain
  BY ReplacedIs
<1>2. Spare \notin DOMAIN Plain
  BY PlainIs
<1> QED
  BY <1>1, <1>2, JoinedIs DEF Divided

LEMMA DividedDomain ==
  ASSUME NEW q \in Page, NEW leaf
  PROVE  DOMAIN Divided(q, leaf) = DOMAIN Plain \cup {Spare}
<1>1. DOMAIN Replaced(q, TableEntry(Spare)) = DOMAIN Plain
  BY ReplacedIs
<1> QED
  BY <1>1 DEF Divided, Joined

LEMMA DividedWalk ==
  ASSUME NEW p \in Page, NEW q \in Page, NEW leaf, IsTable(leaf)
  PROVE  /\ HasPd(Divided(q, leaf), p) /\ PdOf(Divided(q, leaf), p) = PdOf(Plain, p)
         /\ SameBlock(p, q) =>
              /\ Divided(q, leaf)[PdOf(Plain, p)][Index(p, 2)] = TableEntry(Spare)
              /\ HasPt(Divided(q, leaf), p) /\ PtOf(Divided(q, leaf), p) = Spare
         /\ ~SameBlock(p, q) => Divided(q, leaf)[PdOf(Plain, p)][Index(p, 2)]
                                  = Large(Align(p, 2), Align(p, 2), RWX)
<1> DEFINE D == Divided(q, leaf)
           R == Replaced(q, TableEntry(Spare))
<1>1. DOMAIN D = DOMAIN Plain \cup {Spare}
  BY DividedDomain
<1>2. \A t \in DOMAIN Plain : D[t] = R[t]
  BY DividedIs
<1>3. /\ HasPd(R, p) /\ PdOf(R, p) = PdOf(Plain, p)
      /\ SameBlock(p, q) => R[PdOf(Plain, p)][Index(p, 2)] = TableEntry(Spare)
      /\ ~SameBlock(p, q) => R[PdOf(Plain, p)][Index(p, 2)]
                               = Large(Align(p, 2), Align(p, 2), RWX)
  BY ReplacedWalk
<1>4. DOMAIN R = DOMAIN Plain
  BY ReplacedIs
<1> HIDE DEF D, R
<1>5. Root \in DOMAIN Plain /\ PdptOf(R, p) \in DOMAIN Plain /\ PdOf(R, p) \in DOMAIN Plain
  BY <1>3, <1>4 DEF HasPd, HasPdpt
<1>6. PdptOf(D, p) = PdptOf(R, p)
  BY <1>2, <1>5 DEF PdptOf
<1>7. PdOf(D, p) = PdOf(R, p)
  BY <1>2, <1>5, <1>6 DEF PdOf
<1>8. HasPd(D, p)
  BY <1>1, <1>2, <1>3, <1>5, <1>6, <1>7 DEF HasPd, HasPdpt
<1>9. D[PdOf(Plain, p)] = R[PdOf(Plain, p)]
  BY <1>2, <1>3, <1>5
<1>10. ASSUME SameBlock(p, q)
       PROVE  /\ D[PdOf(Plain, p)][Index(p, 2)] = TableEntry(Spare)
              /\ HasPt(D, p) /\ PtOf(D, p) = Spare
  <2>1. D[PdOf(Plain, p)][Index(p, 2)] = TableEntry(Spare)
    BY <1>3, <1>9, <1>10
  <2>2. PtOf(D, p) = Spare
    BY <1>3, <1>7, <2>1, Kinds DEF PtOf
  <2>3. Spare \in DOMAIN D /\ Spare # Null
    BY <1>1, PlainIs
  <2> QED
    BY <1>3, <1>7, <1>8, <2>1, <2>2, <2>3, Kinds DEF HasPt
<1> QED
  BY <1>3, <1>7, <1>8, <1>9, <1>10 DEF D

\* Two structures that differ in nothing.
LEMMA DividedWith ==
  ASSUME NEW q \in Page, NEW leaf, IsTable(leaf), NEW i \in 0..(F - 1), NEW x
  PROVE  With(Divided(q, leaf), Spare, i, x) = Divided(q, [leaf EXCEPT ![i] = x])
<1> DEFINE D == Divided(q, leaf)
           l == [leaf EXCEPT ![i] = x]
           E == Divided(q, l)
           W == With(D, Spare, i, x)
<1>1. leaf = [k \in 0..(F - 1) |-> leaf[k]]
  BY DEF IsTable
<1>2. l = [k \in 0..(F - 1) |-> IF k = i THEN x ELSE leaf[k]]
  BY <1>1
<1>3. IsTable(l) /\ l[i] = x /\ \A k \in 0..(F - 1) : k # i => l[k] = leaf[k]
  BY <1>2 DEF IsTable
<1> HIDE DEF l
<1>4. Structure(D) /\ D[Spare] = leaf /\ Structure(E) /\ E[Spare] = l
      /\ \A t \in DOMAIN Plain : D[t] = E[t]
  BY <1>3, DividedIs
<1>5. Spare \in DOMAIN D
  BY DividedDomain
<1>6. DOMAIN D = DOMAIN E
  BY DividedDomain
<1>7. \A t \in DOMAIN D : t = Spare \/ t \in DOMAIN Plain
  BY DividedDomain
<1>8. Spare \notin DOMAIN Plain
  BY PlainIs
<1> HIDE DEF D, E
<1>9. /\ Structure(W) /\ DOMAIN W = DOMAIN D /\ W[Spare][i] = x
      /\ \A u \in DOMAIN D : \A k \in 0..(F - 1) : ~(u = Spare /\ k = i) => W[u][k] = D[u][k]
  BY <1>4, <1>5, WithIs
<1> HIDE DEF W
<1>10. \A u \in DOMAIN W : \A k \in 0..(F - 1) : W[u][k] = E[u][k]
  BY <1>3, <1>4, <1>5, <1>7, <1>8, <1>9
<1>11. W = E
  BY <1>4, <1>6, <1>9, <1>10, SameTables
<1> QED
  BY <1>11 DEF D, E, W, l

---------------------------------------------------------------------------
(***************************************************************************)
(* unmap_entry(), split() and join() at the level of the 2MB pages.        *)
(***************************************************************************)
Without(T, S) == [t \in DOMAIN T \ S |-> T[t]]

LEMMA UnmapIs ==
  ASSUME NEW T, NEW t \in DOMAIN T, NEW i, t # Null
  PROVE  LET slot == [table |-> t, index |-> i, level |-> 2]
             freed == IF T[t][i].kind = "table" THEN {T[t][i].to} ELSE {}
         IN /\ T[t][i].kind # "none"
            /\ t \notin freed
            => UnmapEntry(Whole(T), slot, 2) = Whole(With(Without(T, freed), t, i, Absent))
<1> DEFINE slot == [table |-> t, index |-> i, level |-> 2]
           freed == IF T[t][i].kind = "table" THEN {T[t][i].to} ELSE {}
           e == [Whole(T) EXCEPT !.tables = [u \in DOMAIN @ \ freed |-> @[u]]]
<1> SUFFICES ASSUME T[t][i].kind # "none", t \notin freed
             PROVE  UnmapEntry(Whole(T), slot, 2) = Whole(With(Without(T, freed), t, i, Absent))
  OBVIOUS
<1>1. Entry(Whole(T), slot) = T[t][i] /\ slot.table = t /\ slot.index = i
  BY SlotIs
<1>2. UnmapEntry(Whole(T), slot, 2) = Put(e, t, i, Absent)
  <2>1. Entry(Whole(T), slot).kind # "none"
    BY <1>1
  <2> HIDE DEF slot
  <2> QED
    BY <1>1, <2>1 DEF UnmapEntry, pd, pdpt
<1>3. e = Whole(Without(T, freed))
  <2>1. [u \in DOMAIN Whole(T).tables \ freed |-> Whole(T).tables[u]] = Without(T, freed)
    BY WholeIs DEF Without
  <2>2. e = [Whole(T) EXCEPT !.tables = Without(T, freed)]
    BY <2>1
  <2> HIDE DEF e, freed
  <2> QED
    BY <2>2, WholeExcept
<1> HIDE DEF freed
<1>4. t \in DOMAIN Without(T, freed)
  BY DEF Without
<1> HIDE DEF e, slot
<1> QED
  BY <1>2, <1>3, <1>4, PutIs

LEMMA WithoutNone ==
  ASSUME NEW T, Structure(T) PROVE Without(T, {}) = T
BY DEF Without, Structure

\* The block is not mapped at all.
Cleared(q) == Replaced(q, Absent)

LEMMA UnmapPlain ==
  ASSUME NEW q \in Page
  PROVE  UnmapEntry(Identity, PdSlot(Plain, q), 2) = Whole(Cleared(q))
<1> DEFINE t == PdOf(Plain, q)
           i == Index(q, 2)
<1>1. Plain[t][i] = Large(Align(q, 2), Align(q, 2), RWX)
  BY PlainWalk
<1>2. Plain[t][i].kind = "page"
  BY <1>1, PageKinds DEF Large
<1>3. t \in DOMAIN Plain /\ t # Null
  BY ReplacedIs
<1> HIDE DEF t, i
<1>4. UnmapEntry(Whole(Plain), [table |-> t, index |-> i, level |-> 2], 2)
        = Whole(With(Without(Plain, {}), t, i, Absent))
  BY <1>2, <1>3, UnmapIs
<1>5. Without(Plain, {}) = Plain /\ Identity = Whole(Plain)
  BY PlainIs, WithoutNone
<1> QED
  BY <1>4, <1>5 DEF PdSlot, Cleared, Replaced, t, i

LEMMA UnmapDivided ==
  ASSUME NEW q \in Page, NEW leaf, IsTable(leaf)
  PROVE  UnmapEntry(Whole(Divided(q, leaf)), PdSlot(Divided(q, leaf), q), 2) = Whole(Cleared(q))
<1> DEFINE D == Divided(q, leaf)
           R == Replaced(q, TableEntry(Spare))
           C == Cleared(q)
           t == PdOf(Plain, q)
           i == Index(q, 2)
           B == Without(D, {Spare})
           W == With(B, t, i, Absent)
<1>1. PdOf(D, q) = t /\ D[t][i] = TableEntry(Spare)
  BY DividedWalk DEF SameBlock
<1>2. /\ t \in DOMAIN Plain /\ t # Null /\ i \in 0..(F - 1) /\ Structure(R)
      /\ DOMAIN R = DOMAIN Plain
      /\ \A u \in DOMAIN Plain : \A k \in 0..(F - 1) : ~(u = t /\ k = i) => R[u][k] = Plain[u][k]
  BY ReplacedIs, PlainWalk
<1>3. /\ Structure(C) /\ DOMAIN C = DOMAIN Plain /\ C[t][i] = Absent
      /\ \A u \in DOMAIN Plain : \A k \in 0..(F - 1) : ~(u = t /\ k = i) => C[u][k] = Plain[u][k]
  BY ReplacedIs DEF Cleared
<1>4. /\ DOMAIN D = DOMAIN Plain \cup {Spare} /\ Spare \notin DOMAIN Plain
  BY DividedDomain, PlainIs
<1>5. \A u \in DOMAIN Plain : D[u] = R[u]
  BY DividedIs
<1>6. PdSlot(D, q) = [table |-> t, index |-> i, level |-> 2]
  BY <1>1 DEF PdSlot
<1> HIDE DEF D, R, C, t, i
<1>7. D[t][i].kind = "table" /\ D[t][i].to = Spare /\ t \in DOMAIN D /\ t # Spare
  BY <1>1, <1>2, <1>4, Kinds
<1>8. UnmapEntry(Whole(D), [table |-> t, index |-> i, level |-> 2], 2) = Whole(W)
  BY <1>2, <1>7, UnmapIs
<1>9. B = R
  <2>1. DOMAIN B = DOMAIN Plain /\ B = [u \in DOMAIN Plain |-> R[u]]
    BY <1>4, <1>5 DEF Without
  <2>2. R = [u \in DOMAIN Plain |-> R[u]]
    BY <1>2 DEF Structure
  <2> QED
    BY <2>1, <2>2, Zenon
<1> HIDE DEF B
<1>10. /\ Structure(W) /\ DOMAIN W = DOMAIN R /\ W[t][i] = Absent
       /\ \A u \in DOMAIN R : \A k \in 0..(F - 1) : ~(u = t /\ k = i) => W[u][k] = R[u][k]
  BY <1>2, <1>9, WithIs
<1> HIDE DEF W
<1>11. \A u \in DOMAIN W : \A k \in 0..(F - 1) : W[u][k] = C[u][k]
  BY <1>2, <1>3, <1>10
<1>12. W = C
  BY <1>2, <1>3, <1>10, <1>11, SameTables
<1> QED
  BY <1>6, <1>8, <1>12 DEF C, D

\* Small pages 0 to k - 1 of the block that begins with page b are mapped.
Leaf(b, k) == [i \in 0..(F - 1) |-> IF i < k THEN Small(b + i, b + i, RWX) ELSE Absent]

LEMMA LeafIs ==
  ASSUME NEW b \in Nat, NEW k \in Nat, k < F
  PROVE  /\ IsTable(Leaf(b, k)) /\ Leaf(b, 0) = Empty
         /\ [Leaf(b, k) EXCEPT ![k] = Small(b + k, b + k, RWX)] = Leaf(b, k + 1)
<1>1. F \in Nat \ {0, 1}
  BY FanoutIs
<1>2. IsTable(Leaf(b, k))
  BY DEF IsTable, Leaf
<1>3. Leaf(b, 0) = Empty
  BY <1>1 DEF Leaf, Empty, F
<1>4. ASSUME NEW i \in 0..(F - 1)
      PROVE  [Leaf(b, k) EXCEPT ![k] = Small(b + k, b + k, RWX)][i] = Leaf(b, k + 1)[i]
  <2>1. CASE i = k
    BY <1>1, <2>1 DEF Leaf
  <2>2. CASE i < k
    BY <1>1, <2>2 DEF Leaf
  <2>3. CASE i > k
    <3>1. ~(i < k) /\ ~(i < k + 1) /\ i # k
      BY <1>1, <2>3
    <3> QED
      BY <3>1 DEF Leaf
  <2> QED
    BY <1>1, <2>1, <2>2, <2>3
<1>5. [Leaf(b, k) EXCEPT ![k] = Small(b + k, b + k, RWX)] = Leaf(b, k + 1)
  <2> DEFINE l == [Leaf(b, k) EXCEPT ![k] = Small(b + k, b + k, RWX)]
  <2>1. DOMAIN l = 0..(F - 1) /\ l = [i \in DOMAIN l |-> l[i]]
    BY DEF Leaf
  <2>2. DOMAIN Leaf(b, k + 1) = 0..(F - 1)
        /\ Leaf(b, k + 1) = [i \in 0..(F - 1) |-> Leaf(b, k + 1)[i]]
    BY DEF Leaf
  <2> HIDE DEF l
  <2>3. l = [i \in 0..(F - 1) |-> l[i]]
    BY <2>1
  <2>4. [i \in 0..(F - 1) |-> l[i]] = [i \in 0..(F - 1) |-> Leaf(b, k + 1)[i]]
    BY <1>4 DEF l
  <2>5. l = Leaf(b, k + 1)
    BY <2>2, <2>3, <2>4, Zenon
  <2> QED
    BY <2>5 DEF l
<1> QED
  BY <1>2, <1>3, <1>5

\* The block of a page, and the pages of a block.
LEMMA MaskIs ==
  ASSUME NEW q \in Page
  PROVE  /\ Align(q, 2) \in Page /\ Align(Align(q, 2), 2) = Align(q, 2)
         /\ \A i \in 0..(F - 1) :
              /\ Align(q, 2) + i \in Page /\ Align(Align(q, 2) + i, 2) = Align(q, 2)
              /\ Index(Align(q, 2) + i, 1) = i
         /\ q = Align(q, 2) + Index(q, 1)
<1>1. PICK g \in 0..(F - 1), j \in 0..(F - 1), r \in 0..(F - 1) :
        q = Block(g, j) + r /\ \A i \in 0..(F - 1) : Block(g, j) + i \in Page
  BY PageIs
<1>2. g \in Nat /\ 0 \in 0..(F - 1)
  BY FanoutIs
<1>3. Align(q, 2) = Block(g, j) /\ Index(q, 1) = r
  BY <1>1, <1>2, IndexIs
<1>4. \A i \in 0..(F - 1) :
        /\ Block(g, j) + i \in Page /\ Align(Block(g, j) + i, 2) = Block(g, j)
        /\ Index(Block(g, j) + i, 1) = i
  BY <1>1, <1>2, IndexIs
<1>5. Block(g, j) \in Nat
  <2>1. F \in Nat /\ j \in Nat
    BY FanoutIs
  <2> QED
    BY <1>2, <2>1 DEF Block
<1>6. Block(g, j) + 0 = Block(g, j)
  BY <1>5
<1> QED
  BY <1>1, <1>2, <1>3, <1>4, <1>6

LEMMA ReplacedTwice ==
  ASSUME NEW q \in Page, NEW x, NEW y
  PROVE  With(Replaced(q, x), PdOf(Plain, q), Index(q, 2), y) = Replaced(q, y)
<1> DEFINE R == Replaced(q, x)
           S == Replaced(q, y)
           t == PdOf(Plain, q)
           i == Index(q, 2)
           W == With(R, t, i, y)
<1>1. /\ Structure(R) /\ DOMAIN R = DOMAIN Plain /\ t \in DOMAIN Plain
      /\ \A u \in DOMAIN Plain : \A k \in 0..(F - 1) : ~(u = t /\ k = i) => R[u][k] = Plain[u][k]
  BY ReplacedIs
<1>2. /\ Structure(S) /\ DOMAIN S = DOMAIN Plain /\ S[t][i] = y
      /\ \A u \in DOMAIN Plain : \A k \in 0..(F - 1) : ~(u = t /\ k = i) => S[u][k] = Plain[u][k]
  BY ReplacedIs
<1>3. i \in 0..(F - 1)
  BY PlainWalk
<1> HIDE DEF R, S, t, i
<1>4. /\ Structure(W) /\ DOMAIN W = DOMAIN R /\ W[t][i] = y
      /\ \A u \in DOMAIN R : \A k \in 0..(F - 1) : ~(u = t /\ k = i) => W[u][k] = R[u][k]
  BY <1>1, <1>3, WithIs
<1> HIDE DEF W
<1>5. \A u \in DOMAIN W : \A k \in 0..(F - 1) : W[u][k] = S[u][k]
  BY <1>1, <1>2, <1>4
<1>6. W = S
  BY <1>1, <1>2, <1>4, <1>5, SameTables
<1> QED
  BY <1>6 DEF W, S, R, t, i

LEMMA ReplacedBack ==
  ASSUME NEW q \in Page
  PROVE  Replaced(q, Large(Align(q, 2), Align(q, 2), RWX)) = Plain
<1> DEFINE x == Large(Align(q, 2), Align(q, 2), RWX)
           R == Replaced(q, x)
           t == PdOf(Plain, q)
           i == Index(q, 2)
<1>1. Plain[t][i] = x
  BY PlainWalk
<1> HIDE DEF x
<1>2. /\ Structure(R) /\ DOMAIN R = DOMAIN Plain /\ R[t][i] = x
      /\ \A u \in DOMAIN Plain : \A k \in 0..(F - 1) : ~(u = t /\ k = i) => R[u][k] = Plain[u][k]
  BY ReplacedIs
<1> HIDE DEF R, t, i
<1>3. \A u \in DOMAIN R : \A k \in 0..(F - 1) : R[u][k] = Plain[u][k]
  BY <1>1, <1>2
<1>4. R = Plain
  BY <1>2, <1>3, PlainIs, SameTables
<1> QED
  BY <1>4 DEF R, x

\* The first small page of a block makes the table.
LEMMA MapFirstSmall ==
  ASSUME NEW b \in Page, Align(b, 2) = b
  PROVE  Map(Whole(Cleared(b)), b, b, RWX, 1) = Whole(Divided(b, Leaf(b, 1)))
<1> DEFINE C == Cleared(b)
           t == PdOf(Plain, b)
           i == Index(b, 2)
           x == Small(b, b, RWX)
<1>1. /\ Structure(C) /\ DOMAIN C = DOMAIN Plain /\ C[t][i] = Absent
  BY ReplacedIs DEF Cleared
<1>2. HasPd(C, b) /\ PdOf(C, b) = t
  BY ReplacedWalk DEF Cleared
<1>3. Spare = Min(Tables \ DOMAIN C) /\ Tables \ DOMAIN C # {} /\ Spare # Null
  BY <1>1, PlainIs DEF Spare
<1>4. 0 \in 0..(F - 1) /\ b \in Nat /\ b + 0 = b
  BY FanoutIs, PagesAre DEF Page
<1>5. Index(b, 1) = 0
  <2>1. Index(Align(b, 2) + 0, 1) = 0
    BY <1>4, MaskIs
  <2> QED
    BY <1>4, <2>1
<1> HIDE DEF C, t, i, x
<1>6. Map(Whole(C), b, b, RWX, 1) = Whole(With(WithNew(C, t, i, Spare), Spare, 0, x))
  BY <1>1, <1>2, <1>3, <1>5, MapNewPt DEF i, x
<1>7. WithNew(C, t, i, Spare) = Divided(b, Empty)
  <2>1. With(C, t, i, TableEntry(Spare)) = Replaced(b, TableEntry(Spare))
    BY ReplacedTwice DEF C, t, i, Cleared
  <2> QED
    BY <2>1 DEF WithNew, Divided
<1>8. With(Divided(b, Empty), Spare, 0, x) = Divided(b, Leaf(b, 1))
  <2>1. 0 < F /\ 0 \in Nat /\ 0 + 1 = 1
    BY FanoutIs
  <2>2. IsTable(Leaf(b, 0)) /\ Leaf(b, 0) = Empty
        /\ [Leaf(b, 0) EXCEPT ![0] = Small(b + 0, b + 0, RWX)] = Leaf(b, 0 + 1)
    BY <1>4, <2>1, LeafIs
  <2>3. With(Divided(b, Leaf(b, 0)), Spare, 0, x) = Divided(b, [Leaf(b, 0) EXCEPT ![0] = x])
    BY <1>4, <2>2, DividedWith
  <2>4. [Leaf(b, 0) EXCEPT ![0] = x] = Leaf(b, 1)
    BY <1>4, <2>1, <2>2 DEF x
  <2> QED
    BY <2>2, <2>3, <2>4
<1> QED
  BY <1>6, <1>7, <1>8 DEF C

\* map() of a small page of a block that is divided.
LEMMA MapDivided ==
  ASSUME NEW b \in Page, NEW p \in Page, SameBlock(p, b), NEW leaf, IsTable(leaf),
         NEW host, NEW access
  PROVE  Map(Whole(Divided(b, leaf)), p, host, access, 1)
           = Whole(Divided(b, [leaf EXCEPT ![Index(p, 1)] = Small(p, host, access)]))
<1>1. HasPt(Divided(b, leaf), p) /\ PtOf(Divided(b, leaf), p) = Spare
  BY DividedWalk
<1>2. Map(Whole(Divided(b, leaf)), p, host, access, 1)
        = Whole(With(Divided(b, leaf), Spare, Index(p, 1), Small(p, host, access)))
  BY <1>1, MapSmall
<1>3. Index(p, 1) \in 0..(F - 1)
  BY IndexType
<1> QED
  BY <1>2, <1>3, DividedWith

LEMMA BlockDivided ==
  ASSUME NEW b \in Page, Align(b, 2) = b
  PROVE  MapBlocks(Whole(Cleared(b)), b, b, RWX, 1, F) = Whole(Divided(b, Leaf(b, F)))
<1>1. F \in Nat \ {0, 1} /\ b \in Nat
  BY FanoutIs, PagesAre DEF Page
<1>2. PICK g : /\ Run(g, Whole(Cleared(b)), b, b, RWX, 1, F)
               /\ MapBlocks(Whole(Cleared(b)), b, b, RWX, 1, F) = g[F]
  BY <1>1, BlocksAre
<1>3. ASSUME NEW i \in 1..F PROVE g[i] = Map(g[i - 1], b + (i - 1), b + (i - 1), RWX, 1)
  <2>1. b + (i - 1) * Size[1] = b + (i - 1)
    <3>1. Size[1] = 1
      BY SizeIs
    <3> QED
      BY <1>1, <3>1
  <2> QED
    BY <1>2, <2>1 DEF Run, Turn
<1> DEFINE G == {i \in Nat : i + 1 \in 1..F => g[i + 1] = Whole(Divided(b, Leaf(b, i + 1)))}
<1>4. 0 \in G
  <2>1. 1 \in 1..F /\ 1 - 1 = 0 /\ b + 0 = b /\ 0 + 1 = 1
    BY <1>1
  <2>2. g[0] = Whole(Cleared(b))
    BY <1>2 DEF Run
  <2>3. g[1] = Map(Whole(Cleared(b)), b, b, RWX, 1)
    BY <1>3, <2>1, <2>2
  <2>4. g[1] = Whole(Divided(b, Leaf(b, 1)))
    BY <2>3, MapFirstSmall
  <2> QED
    BY <2>1, <2>4
<1>5. ASSUME NEW i \in Nat, i \in G PROVE i + 1 \in G
  <2> SUFFICES ASSUME (i + 1) + 1 \in 1..F
               PROVE  g[(i + 1) + 1] = Whole(Divided(b, Leaf(b, (i + 1) + 1)))
    OBVIOUS
  <2> DEFINE k == i + 1
  <2>1. /\ k \in 1..F /\ k \in Nat /\ k < F /\ (k + 1) - 1 = k /\ k \in 0..(F - 1)
        /\ k + 1 \in 1..F
    BY <1>1
  <2>2. g[k] = Whole(Divided(b, Leaf(b, k)))
    BY <1>5, <2>1
  <2> HIDE DEF k
  <2>3. g[k + 1] = Map(Whole(Divided(b, Leaf(b, k))), b + k, b + k, RWX, 1)
    BY <1>3, <2>1, <2>2
  <2>4. b + k \in Page /\ Align(b + k, 2) = b /\ Index(b + k, 1) = k
    BY <2>1, MaskIs
  <2>5. IsTable(Leaf(b, k)) /\ [Leaf(b, k) EXCEPT ![k] = Small(b + k, b + k, RWX)] = Leaf(b, k + 1)
    BY <1>1, <2>1, LeafIs
  <2>6. SameBlock(b + k, b)
    BY <2>4 DEF SameBlock
  <2> DEFINE q == b + k
             l == Leaf(b, k)
  <2>7. Map(Whole(Divided(b, l)), q, q, RWX, 1)
          = Whole(Divided(b, [l EXCEPT ![Index(q, 1)] = Small(q, q, RWX)]))
    <3>1. q \in Page /\ SameBlock(q, b) /\ IsTable(l)
      BY <2>4, <2>5, <2>6
    <3> HIDE DEF q, l
    <3> QED
      BY <3>1, MapDivided
  <2>8. g[k + 1] = Whole(Divided(b, Leaf(b, k + 1)))
    BY <2>3, <2>4, <2>5, <2>7
  <2> QED
    BY <2>8 DEF k
<1>6. Nat \subseteq G
  <2> HIDE DEF G
  <2> QED
    BY <1>4, <1>5, AllNumbers
<1>7. F - 1 \in G /\ (F - 1) + 1 = F /\ F \in 1..F
  BY <1>1, <1>6
<1>8. g[F] = Whole(Divided(b, Leaf(b, F)))
  BY <1>7
<1> QED
  BY <1>2, <1>8

---------------------------------------------------------------------------
(***************************************************************************)
(* The two kinds of structures a processor can have: the identity map, and *)
(* one whose page q alone leads to another frame, with other rights.       *)
(***************************************************************************)
HookedLeaf(q, host, access) ==
  [Leaf(Mask(q), F) EXCEPT ![Index(q, 1)] = Small(q, host, access)]

HookedEpt(q, host, access) == Whole(Divided(Mask(q), HookedLeaf(q, host, access)))

LEMMA MaskBlock ==
  ASSUME NEW q \in Page
  PROVE  Mask(q) \in Page /\ Align(Mask(q), 2) = Mask(q) /\ SameBlock(q, Mask(q)) /\ Mask(q) \in Nat
BY MaskIs DEF Mask, pd, SameBlock, Page

LEMMA HookedLeafIs ==
  ASSUME NEW q \in Page, NEW host, NEW access
  PROVE  /\ IsTable(Leaf(Mask(q), F)) /\ IsTable(HookedLeaf(q, host, access))
         /\ HookedLeaf(q, host, access)[Index(q, 1)] = Small(q, host, access)
         /\ \A i \in 0..(F - 1) : i # Index(q, 1) =>
              HookedLeaf(q, host, access)[i] = Small(Mask(q) + i, Mask(q) + i, RWX)
<1> DEFINE l == HookedLeaf(q, host, access)
           j == Index(q, 1)
           x == Small(q, host, access)
<1>1. j \in 0..(F - 1) /\ F \in Nat
  BY IndexType, FanoutIs
<1>2. IsTable(Leaf(Mask(q), F))
  BY DEF IsTable, Leaf
<1>3. \A i \in 0..(F - 1) : Leaf(Mask(q), F)[i] = Small(Mask(q) + i, Mask(q) + i, RWX)
  BY <1>1 DEF Leaf
<1>4. Leaf(Mask(q), F) = [i \in 0..(F - 1) |-> Leaf(Mask(q), F)[i]]
  BY <1>2 DEF IsTable
<1>5. l = [Leaf(Mask(q), F) EXCEPT ![j] = x]
  BY DEF HookedLeaf
<1> HIDE DEF l, j, x
<1>6. l = [i \in 0..(F - 1) |-> IF i = j THEN x ELSE Leaf(Mask(q), F)[i]]
  BY <1>4, <1>5
<1>7. IsTable(l) /\ l[j] = x /\ \A i \in 0..(F - 1) : i # j => l[i] = Leaf(Mask(q), F)[i]
  BY <1>1, <1>6 DEF IsTable
<1> QED
  BY <1>2, <1>3, <1>7 DEF l, j, x

\* map() of the page that is hidden, once its block is divided.
LEMMA HookDivided ==
  ASSUME NEW q \in Page, NEW host, NEW access
  PROVE  Map(Whole(Divided(Mask(q), Leaf(Mask(q), F))), q, host, access, 1)
           = HookedEpt(q, host, access)
<1>1. Mask(q) \in Page /\ SameBlock(q, Mask(q)) /\ IsTable(Leaf(Mask(q), F))
  BY MaskBlock, HookedLeafIs
<1> QED
  BY <1>1, MapDivided DEF HookedEpt, HookedLeaf

LEMMA HookAgain ==
  ASSUME NEW q \in Page, NEW host, NEW access, NEW host2, NEW access2
  PROVE  Map(HookedEpt(q, host, access), q, host2, access2, 1) = HookedEpt(q, host2, access2)
<1> DEFINE l == HookedLeaf(q, host, access)
           j == Index(q, 1)
<1>1. Mask(q) \in Page /\ SameBlock(q, Mask(q)) /\ IsTable(l)
  BY MaskBlock, HookedLeafIs
<1> HIDE DEF l
<1>2. Map(Whole(Divided(Mask(q), l)), q, host2, access2, 1)
        = Whole(Divided(Mask(q), [l EXCEPT ![Index(q, 1)] = Small(q, host2, access2)]))
  BY <1>1, MapDivided
<1>3. [l EXCEPT ![Index(q, 1)] = Small(q, host2, access2)] = HookedLeaf(q, host2, access2)
  <2> DEFINE L == Leaf(Mask(q), F)
             x == Small(q, host, access)
             y == Small(q, host2, access2)
  <2>1. [[L EXCEPT ![j] = x] EXCEPT ![j] = y] = [L EXCEPT ![j] = y]
    <3> HIDE DEF L, x, y, j
    <3> QED
      OBVIOUS
  <2> QED
    BY <2>1 DEF l, HookedLeaf
<1> QED
  BY <1>2, <1>3 DEF HookedEpt, l

\* split() of the block.
LEMMA SplitIdentity ==
  ASSUME NEW q \in Page
  PROVE  Split(Identity, Mask(q), Mask(q), RWX, 2)
           = Whole(Divided(Mask(q), Leaf(Mask(q), F)))
<1> DEFINE b == Mask(q)
           slot == PdSlot(Plain, b)
<1>1. b \in Page /\ Align(b, 2) = b
  BY MaskBlock
<1> HIDE DEF b
<1>2. /\ HasPd(Plain, b)
      /\ Plain[PdOf(Plain, b)][Index(b, 2)] = Large(b, b, RWX)
  BY <1>1, PlainWalk
<1>3. Identity = Whole(Plain)
  BY PlainIs
<1>4. EptEntry(Identity, b, 2) = slot
  BY <1>2, <1>3, EntryAtPd
<1>5. slot # NoEntry /\ Entry(Identity, slot) = Plain[PdOf(Plain, b)][Index(b, 2)]
  BY <1>3, SlotIs DEF PdSlot
<1>6. IsLarge(Entry(Identity, slot))
  BY <1>2, <1>5, PageKinds DEF Large
<1>7. UnmapEntry(Identity, slot, 2) = Whole(Cleared(b))
  BY <1>1, UnmapPlain
<1> HIDE DEF slot
<1>8. Split(Identity, b, b, RWX, 2) = MapBlocks(Whole(Cleared(b)), b, b, RWX, 2 - 1, Fanout)
  BY <1>4, <1>5, <1>6, <1>7 DEF Split
<1>9. MapBlocks(Whole(Cleared(b)), b, b, RWX, 1, F) = Whole(Divided(b, Leaf(b, F)))
  BY <1>1, BlockDivided
<1> QED
  BY <1>8, <1>9 DEF b, F

\* split() of a block that is divided.
LEMMA SplitHooked ==
  ASSUME NEW q \in Page, NEW host, NEW access
  PROVE  Split(HookedEpt(q, host, access), Mask(q), Mask(q), RWX, 2) = HookedEpt(q, host, access)
<1> DEFINE b == Mask(q)
           D == Divided(b, HookedLeaf(q, host, access))
           slot == PdSlot(D, b)
<1>1. b \in Page /\ Align(b, 2) = b /\ SameBlock(b, b) /\ IsTable(HookedLeaf(q, host, access))
  BY MaskBlock, HookedLeafIs DEF SameBlock
<1>2. HasPd(D, b) /\ PdOf(D, b) = PdOf(Plain, b) /\ D[PdOf(Plain, b)][Index(b, 2)] = TableEntry(Spare)
  <2> HIDE DEF b
  <2> QED
    BY <1>1, DividedWalk
<1>3. EptEntry(Whole(D), b, 2) = slot
  <2> HIDE DEF b, D
  <2> QED
    BY <1>2, EntryAtPd
<1>4. slot # NoEntry /\ Entry(Whole(D), slot) = D[PdOf(D, b)][Index(b, 2)]
  <2> HIDE DEF b, D
  <2> QED
    BY SlotIs DEF PdSlot
<1> HIDE DEF b, D, slot
<1>5. ~IsLarge(Entry(Whole(D), slot))
  BY <1>2, <1>4, Kinds DEF IsLarge
<1>6. Split(Whole(D), b, b, RWX, 2) = Whole(D)
  BY <1>3, <1>4, <1>5 DEF Split
<1> QED
  BY <1>6 DEF b, D, HookedEpt

\* join() of the block, of large pages and of small ones.
LEMMA JoinIdentity ==
  ASSUME NEW q \in Page
  PROVE  Join(Identity, Mask(q), Mask(q), RWX, 2) = Identity
<1> DEFINE b == Mask(q)
           slot == PdSlot(Plain, b)
<1>1. b \in Page /\ Align(b, 2) = b
  BY MaskBlock
<1> HIDE DEF b
<1>2. /\ HasPd(Plain, b)
      /\ Plain[PdOf(Plain, b)][Index(b, 2)] = Large(b, b, RWX)
  BY <1>1, PlainWalk
<1>3. Identity = Whole(Plain)
  BY PlainIs
<1>4. EptEntry(Identity, b, 2) = slot
  BY <1>2, <1>3, EntryAtPd
<1>5. slot # NoEntry /\ Entry(Identity, slot) = Plain[PdOf(Plain, b)][Index(b, 2)]
  BY <1>3, SlotIs DEF PdSlot
<1>6. IsLarge(Entry(Identity, slot))
  BY <1>2, <1>5, PageKinds DEF Large
<1> HIDE DEF slot
<1>7. Join(Identity, b, b, RWX, 2) = Identity
  BY <1>1, <1>4, <1>5, <1>6 DEF Join
<1> QED
  BY <1>7 DEF b

LEMMA JoinHooked ==
  ASSUME NEW q \in Page, NEW host, NEW access
  PROVE  Join(HookedEpt(q, host, access), Mask(q), Mask(q), RWX, 2) = Identity
<1> DEFINE b == Mask(q)
           D == Divided(b, HookedLeaf(q, host, access))
           slot == PdSlot(D, b)
           t == PdOf(Plain, b)
           i == Index(b, 2)
           x == Large(b, b, RWX)
<1>1. b \in Page /\ Align(b, 2) = b /\ SameBlock(b, b) /\ IsTable(HookedLeaf(q, host, access))
  BY MaskBlock, HookedLeafIs DEF SameBlock
<1>2. HasPd(D, b) /\ PdOf(D, b) = t /\ D[t][i] = TableEntry(Spare)
  <2> HIDE DEF b
  <2> QED
    BY <1>1, DividedWalk
<1>3. EptEntry(Whole(D), b, 2) = slot
  <2> HIDE DEF b, D
  <2> QED
    BY <1>2, EntryAtPd
<1>4. slot # NoEntry /\ Entry(Whole(D), slot) = D[PdOf(D, b)][Index(b, 2)]
  <2> HIDE DEF b, D
  <2> QED
    BY SlotIs DEF PdSlot
<1>5. UnmapEntry(Whole(D), slot, 2) = Whole(Cleared(b))
  <2> DEFINE l == HookedLeaf(q, host, access)
  <2> HIDE DEF b, l
  <2> QED
    BY <1>1, UnmapDivided DEF l
<1>6. ~IsLarge(Entry(Whole(D), slot))
  <2> HIDE DEF b, D, slot, t, i
  <2> QED
    BY <1>2, <1>4, Kinds DEF IsLarge, i
<1> HIDE DEF b, D, slot
<1>7. Join(Whole(D), b, b, RWX, 2) = Map(Whole(Cleared(b)), b, b, RWX, 2)
  BY <1>1, <1>3, <1>4, <1>5, <1>6 DEF Join
<1>8. HasPd(Cleared(b), b) /\ PdOf(Cleared(b), b) = t
  BY <1>1, ReplacedWalk DEF Cleared
<1>9. Map(Whole(Cleared(b)), b, b, RWX, 2) = Whole(With(Cleared(b), t, i, x))
  BY <1>8, MapLarge
<1>10. With(Cleared(b), t, i, x) = Plain
  <2>1. With(Cleared(b), t, i, x) = Replaced(b, x)
    <3> HIDE DEF x
    <3> QED
      BY <1>1, ReplacedTwice DEF Cleared
  <2>2. Replaced(b, x) = Plain
    BY <1>1, ReplacedBack
  <2> QED
    BY <2>1, <2>2
<1> QED
  BY <1>7, <1>9, <1>10, PlainIs DEF b, D, HookedEpt

---------------------------------------------------------------------------
(***************************************************************************)
(* What the handlers make of the structures.                               *)
(***************************************************************************)
Executed(d) == HookedEpt(d.exec, d.exec, {"x"})
Read(d)     == HookedEpt(d.exec, d.read, {"r", "w"})

LEMMA HideIs ==
  ASSUME NEW d, d.exec \in Page, NEW host, NEW access
  PROVE  /\ HideEpt(Identity, d) = Executed(d)
         /\ HideEpt(HookedEpt(d.exec, host, access), d) = Executed(d)
<1> DEFINE q == d.exec
           D == Whole(Divided(Mask(q), Leaf(Mask(q), F)))
<1>1. Split(Identity, Mask(q), Mask(q), RWX, 2) = D
  BY SplitIdentity
<1>2. Split(HookedEpt(q, host, access), Mask(q), Mask(q), RWX, 2) = HookedEpt(q, host, access)
  BY SplitHooked
<1>3. Map(D, q, q, {"x"}, 1) = HookedEpt(q, q, {"x"})
  BY HookDivided
<1>4. Map(HookedEpt(q, host, access), q, q, {"x"}, 1) = HookedEpt(q, q, {"x"})
  BY HookAgain
<1> HIDE DEF D
<1> QED
  BY <1>1, <1>2, <1>3, <1>4 DEF HideEpt, Executed, pd, pt

LEMMA UnhideIs ==
  ASSUME NEW d, d.exec \in Page, NEW host, NEW access
  PROVE  /\ UnhideEpt(Identity, d) = Identity
         /\ UnhideEpt(HookedEpt(d.exec, host, access), d) = Identity
BY JoinIdentity, JoinHooked DEF UnhideEpt, pd

LEMMA ViolationIs ==
  ASSUME NEW d, d.exec \in Page, NEW host, NEW access, NEW right
  PROVE  ViolationEpt(HookedEpt(d.exec, host, access), d, right)
           = IF right \in {"r", "w"} THEN Read(d) ELSE Executed(d)
BY HookAgain DEF ViolationEpt, Read, Executed, pt

\* What a walk of them finds.
LEMMA BlockOffset ==
  ASSUME NEW p \in Page
  PROVE  Align(p, 2) + (p % F) = p
<1>1. p \in Nat /\ F \in Nat \ {0}
  BY FanoutIs, PagesAre DEF Page
<1>2. Align(p, 2) = p - (p % F) /\ p % F \in 0..(F - 1)
  BY <1>1, DivIs, SizeIs DEF Align
<1> QED
  BY <1>1, <1>2

LEMMA WalkIdentity ==
  ASSUME NEW p \in Page
  PROVE  Translate(Identity, p)
           = [host |-> p, access |-> RWX, level |-> 2, type |-> MemType[Align(p, 2)]]
<1>1. /\ HasPd(Plain, p)
      /\ Plain[PdOf(Plain, p)][Index(p, 2)] = LargePage(Align(p, 2), RWX, MemType[Align(p, 2)])
  BY PlainWalk DEF Large
<1>2. Translate(Whole(Plain), p)
        = [host |-> Align(p, 2) + (p % F), access |-> RWX, level |-> 2,
           type |-> MemType[Align(p, 2)]]
  BY <1>1, FoundLarge
<1>3. Align(p, 2) + (p % F) = p
  BY BlockOffset
<1> QED
  BY <1>2, <1>3, PlainIs

LEMMA WalkHooked ==
  ASSUME NEW q \in Page, NEW host \in Page, NEW access, NEW p \in Page
  PROVE  /\ Translate(HookedEpt(q, host, access), p).host = IF p = q THEN host ELSE p
         /\ Translate(HookedEpt(q, host, access), p).access = IF p = q THEN access ELSE RWX
         /\ Translate(HookedEpt(q, host, access), p).level \in {1, 2}
<1> DEFINE b == Mask(q)
           l == HookedLeaf(q, host, access)
           D == Divided(b, l)
<1>1. b \in Page /\ SameBlock(q, b) /\ Align(b, 2) = b /\ b \in Nat
  BY MaskBlock
<1>2. /\ IsTable(l) /\ l[Index(q, 1)] = Small(q, host, access)
      /\ \A i \in 0..(F - 1) : i # Index(q, 1) => l[i] = Small(b + i, b + i, RWX)
  BY HookedLeafIs
<1>3. HookedEpt(q, host, access) = Whole(D)
  BY DEF HookedEpt
<1> HIDE DEF b, l
<1>4. /\ HasPd(D, p) /\ PdOf(D, p) = PdOf(Plain, p)
      /\ SameBlock(p, b) => HasPt(D, p) /\ PtOf(D, p) = Spare
      /\ ~SameBlock(p, b) => D[PdOf(Plain, p)][Index(p, 2)]
                               = Large(Align(p, 2), Align(p, 2), RWX)
  BY <1>1, <1>2, DividedWalk
<1>5. D[Spare] = l
  BY <1>1, <1>2, DividedIs
<1> HIDE DEF D
<1>6. CASE p = q
  <2>1. HasPt(D, p) /\ D[PtOf(D, p)][Index(p, 1)] = SmallPage(host, access, MemType[q])
    BY <1>1, <1>2, <1>4, <1>5, <1>6 DEF Small
  <2>2. host \in Nat
    BY DEF Page
  <2>3. Translate(Whole(D), p)
          = [host |-> host, access |-> access, level |-> 1, type |-> MemType[q]]
    BY <2>1, <2>2, FoundSmall
  <2> QED
    BY <1>3, <1>6, <2>3
<1>7. CASE p # q /\ SameBlock(p, b)
  <2>1. Index(p, 1) # Index(q, 1) /\ SameBlock(p, q)
    BY <1>1, <1>7, BlockWalk DEF SameBlock
  <2>2. Index(p, 1) \in 0..(F - 1)
    BY IndexType
  <2>3. b + Index(p, 1) = p
    <3>1. Align(p, 2) = b
      BY <1>1, <1>7 DEF SameBlock
    <3> QED
      BY <3>1, MaskIs
  <2>4. HasPt(D, p) /\ D[PtOf(D, p)][Index(p, 1)] = SmallPage(p, RWX, MemType[p])
    BY <1>2, <1>4, <1>5, <1>7, <2>1, <2>2, <2>3 DEF Small
  <2>5. p \in Nat
    BY DEF Page
  <2>6. Translate(Whole(D), p)
          = [host |-> p, access |-> RWX, level |-> 1, type |-> MemType[p]]
    BY <2>4, <2>5, FoundSmall
  <2> QED
    BY <1>3, <1>7, <2>6
<1>8. CASE p # q /\ ~SameBlock(p, b)
  <2>1. D[PdOf(D, p)][Index(p, 2)] = LargePage(Align(p, 2), RWX, MemType[Align(p, 2)])
    BY <1>4, <1>8 DEF Large
  <2>2. Translate(Whole(D), p)
          = [host |-> Align(p, 2) + (p % F), access |-> RWX, level |-> 2,
             type |-> MemType[Align(p, 2)]]
    BY <1>4, <2>1, FoundLarge
  <2>3. Align(p, 2) + (p % F) = p
    BY BlockOffset
  <2> QED
    BY <1>3, <1>8, <2>2, <2>3
<1> QED
  BY <1>6, <1>7, <1>8

---------------------------------------------------------------------------
(***************************************************************************)
(* The inductive invariant.  A processor without a hook has the identity   *)
(* map, one with a hook the same with its hidden page executed or read; a  *)
(* cached translation is one of those its processor may find; and while    *)
(* hvppctrl hides a page, no processor hides another one.                  *)
(***************************************************************************)
NoHook == [exec |-> 0, read |-> 0]

Shapes ==
  /\ ept = [c \in CPU |-> ept[c]] /\ view = [c \in CPU |-> Walk(ept[c])]
  /\ tlb = [c \in CPU |-> [p \in Page |-> tlb[c][p]]]
  /\ data \in [CPU -> Hooks \cup {NoHook}] /\ instr \in [CPU -> Instr \cup {NoInstr}]
  /\ hooked \in [CPU -> BOOLEAN] /\ fetched \in [CPU -> BOOLEAN]

Tabled(e, h, d) ==
  IF h THEN d \in Hooks /\ e \in {Executed(d), Read(d)} ELSE e = Identity

Agrees(h, d, p, x) ==
  IF h /\ p = d.exec
  THEN \/ x.host = d.exec /\ x.access = {"x"}
       \/ x.host = d.read /\ x.access = {"r", "w"}
  ELSE x.host = p /\ x.access = RWX

TablesInv == \A c \in CPU : Tabled(ept[c], hooked[c], data[c])

TlbInv ==
  \A c \in CPU, p \in Page :
    tlb[c][p] = Unmapped \/ Agrees(hooked[c], data[c], p, tlb[c][p])

CallInv ==
  /\ ctl.call \in {"none", "hide", "unhide"} /\ ctl.next \in CPU
  /\ ctl = [call |-> ctl.call, hook |-> ctl.hook, next |-> ctl.next]
  /\ ctl.call = "hide" => /\ ctl.hook \in Hooks
                          /\ \A c \in CPU : hooked[c] => data[c] = ctl.hook

HookInv == Shapes /\ TablesInv /\ TlbInv /\ CallInv

\* The arguments of the operations are pages of memory.
LEMMA Arguments ==
  /\ 0 \in Page /\ \A d \in Hooks \cup {NoHook} : d.exec \in Page /\ d.read \in Page
  /\ \A i \in Instr \cup {NoInstr} : i.fetch \in Page /\ i.data \in Page
  /\ \A i \in Instr : i.right \in RWX
<1>1. 0 \in Page
  BY PagesAre DEF Page
<1> QED
  BY <1>1, HookAssumption DEF NoHook, NoInstr, RWX

\* What the tables of a processor lead to.
LEMMA TablesAgree ==
  ASSUME NEW e, NEW h \in BOOLEAN, NEW d, Tabled(e, h, d), NEW p \in Page
  PROVE  Agrees(h, d, p, Translate(e, p))
<1>1. CASE ~h
  <2>1. Translate(e, p).host = p /\ Translate(e, p).access = RWX
    BY <1>1, WalkIdentity DEF Tabled
  <2> QED
    BY <1>1, <2>1 DEF Agrees
<1>2. CASE h
  <2>1. d.exec \in Page /\ d.read \in Page /\ (e = Executed(d) \/ e = Read(d))
    BY <1>2, Arguments DEF Tabled
  <2>2. /\ Translate(Executed(d), p).host = IF p = d.exec THEN d.exec ELSE p
        /\ Translate(Executed(d), p).access = IF p = d.exec THEN {"x"} ELSE RWX
    BY <2>1, WalkHooked DEF Executed
  <2>3. /\ Translate(Read(d), p).host = IF p = d.exec THEN d.read ELSE p
        /\ Translate(Read(d), p).access = IF p = d.exec THEN {"r", "w"} ELSE RWX
    BY <2>1, WalkHooked DEF Read
  <2>4. CASE p = d.exec
    BY <1>2, <2>1, <2>2, <2>3, <2>4 DEF Agrees
  <2>5. CASE p # d.exec
    BY <1>2, <2>1, <2>2, <2>3, <2>5 DEF Agrees
  <2> QED
    BY <2>4, <2>5
<1> QED
  BY <1>1, <1>2

LEMMA LookupAgrees ==
  ASSUME HookInv, NEW c \in CPU, NEW p \in Page
  PROVE  Agrees(hooked[c], data[c], p, Lookup(c, p))
<1>1. CASE tlb[c][p] # Unmapped
  BY <1>1 DEF HookInv, TlbInv, Lookup
<1>2. CASE tlb[c][p] = Unmapped
  <2>1. Lookup(c, p) = Translate(ept[c], p)
    <3>1. view[c] = Walk(ept[c])
      BY DEF HookInv, Shapes
    <3> QED
      BY <1>2, <3>1 DEF Lookup, Walk
  <2>2. hooked[c] \in BOOLEAN /\ Tabled(ept[c], hooked[c], data[c])
    BY DEF HookInv, Shapes, TablesInv
  <2> QED
    BY <2>1, <2>2, TablesAgree
<1> QED
  BY <1>1, <1>2

\* A violation is one of the hidden page.
LEMMA ViolationWhere ==
  ASSUME HookInv, NEW c \in CPU, NEW p \in Page, NEW right \in RWX, ~Allowed(c, p, right)
  PROVE  hooked[c] /\ p = data[c].exec
BY LookupAgrees DEF Allowed, Agrees

LEMMA FirstCpu == 1 \in CPU
<1>1. Cardinality(CPU) \in Nat /\ Cardinality(CPU) # 0
  BY HookAssumption, FS_CardinalityType, FS_EmptySet
<1> QED
  BY <1>1, HookAssumption

LEMMA HookInit == Init => HookInv
<1> SUFFICES ASSUME Init PROVE HookInv
  OBVIOUS
<1>1. Shapes
  <2>1. /\ ept = [c \in CPU |-> ept[c]] /\ view = [c \in CPU |-> Walk(ept[c])]
        /\ tlb = [c \in CPU |-> [p \in Page |-> tlb[c][p]]]
    BY DEF Init
  <2>2. /\ data \in [CPU -> Hooks \cup {NoHook}] /\ instr \in [CPU -> Instr \cup {NoInstr}]
        /\ hooked \in [CPU -> BOOLEAN] /\ fetched \in [CPU -> BOOLEAN]
    BY DEF Init, NoHook
  <2> QED
    BY <2>1, <2>2 DEF Shapes
<1>2. TablesInv
  BY DEF Init, TablesInv, Tabled
<1>3. TlbInv
  BY DEF Init, TlbInv
<1>4. CallInv
  <2>1. 1 \in CPU
    BY FirstCpu
  <2> QED
    BY <2>1 DEF Init, CallInv, Idle
<1> QED
  BY <1>1, <1>2, <1>3, <1>4 DEF HookInv

\* The steps in which the processor uses its translations.
LEMMA CacheKeeps ==
  ASSUME HookInv, NEW c \in CPU, NEW p \in Page, Cache(c, p), UNCHANGED <<hooked, data>>
  PROVE  TlbInv' /\ tlb' = [a \in CPU |-> [q \in Page |-> tlb'[a][q]]]
<1> DEFINE x == Lookup(c, p)
<1>1. Agrees(hooked[c], data[c], p, x)
  BY LookupAgrees
<1>2. tlb = [a \in CPU |-> [q \in Page |-> tlb[a][q]]] /\ TlbInv
  BY DEF HookInv, Shapes
<1>3. tlb' = [tlb EXCEPT ![c][p] = x]
  BY DEF Cache
<1> HIDE DEF x
<1>4. tlb' = [a \in CPU |-> [q \in Page |-> IF a = c /\ q = p THEN x ELSE tlb[a][q]]]
  BY <1>2, <1>3
<1>5. tlb' = [a \in CPU |-> [q \in Page |-> tlb'[a][q]]]
  BY <1>4
<1>6. TlbInv'
  BY <1>1, <1>2, <1>4 DEF TlbInv
<1> QED
  BY <1>5, <1>6

LEMMA SetEptIs ==
  ASSUME Shapes, NEW c \in CPU, NEW e, SetEpt(c, e)
  PROVE  /\ ept'[c] = e /\ \A a \in CPU \ {c} : ept'[a] = ept[a]
         /\ ept' = [a \in CPU |-> ept'[a]] /\ view' = [a \in CPU |-> Walk(ept'[a])]
<1>1. ept = [a \in CPU |-> ept[a]] /\ ept' = [ept EXCEPT ![c] = e]
  BY DEF Shapes, SetEpt
<1>2. ept' = [a \in CPU |-> IF a = c THEN e ELSE ept[a]]
  BY <1>1
<1>3. ept'[c] = e /\ \A a \in CPU \ {c} : ept'[a] = ept[a]
  BY <1>2
<1>4. ept' = [a \in CPU |-> ept'[a]]
  BY <1>2
<1>5. view = [a \in CPU |-> Walk(ept[a])] /\ view' = [view EXCEPT ![c] = Walk(ept'[c])]
  BY DEF Shapes, SetEpt
<1>6. view' = [a \in CPU |-> Walk(ept'[a])]
  <2>1. view' = [a \in CPU |-> IF a = c THEN Walk(ept'[c]) ELSE view[a]]
    BY <1>5
  <2>2. \A a \in CPU : (IF a = c THEN Walk(ept'[c]) ELSE view[a]) = Walk(ept'[a])
    BY <1>3, <1>5
  <2> QED
    BY <2>1, <2>2
<1> QED
  BY <1>3, <1>4, <1>6

LEMMA ViolationKeeps ==
  ASSUME HookInv, NEW c \in CPU, NEW p \in Page, NEW right \in RWX, Violation(c, p, right)
  PROVE  HookInv'
<1> DEFINE d == data[c]
           e == ViolationEpt(ept[c], d, right)
<1>1. hooked[c] /\ p = d.exec
  BY ViolationWhere DEF Violation
<1>2. d \in Hooks /\ ept[c] \in {Executed(d), Read(d)}
  BY <1>1 DEF HookInv, TablesInv, Tabled
<1>3. e \in {Executed(d), Read(d)}
  <2>1. d.exec \in Page /\ \E host, access : ept[c] = HookedEpt(d.exec, host, access)
    BY <1>2, Arguments DEF Executed, Read
  <2> QED
    BY <2>1, ViolationIs
<1>4. /\ ept'[c] = e /\ \A a \in CPU \ {c} : ept'[a] = ept[a]
      /\ ept' = [a \in CPU |-> ept'[a]] /\ view' = [a \in CPU |-> Walk(ept'[a])]
  BY SetEptIs DEF Violation, HookInv
<1>5. UNCHANGED <<data, hooked, instr, ctl>>
  BY DEF Violation
<1>6. tlb' = [a \in CPU |-> [q \in Page |-> IF a = c /\ q = p THEN Unmapped ELSE tlb[a][q]]]
  BY DEF Violation, HookInv, Shapes
<1>7. fetched' \in [CPU -> BOOLEAN]
  BY DEF Violation, HookInv, Shapes
<1> HIDE DEF e, d
<1>8. Shapes'
  <2>1. tlb' = [a \in CPU |-> [q \in Page |-> tlb'[a][q]]]
    BY <1>6
  <2> QED
    BY <1>4, <1>5, <1>7, <2>1 DEF HookInv, Shapes
<1>9. TablesInv'
  BY <1>1, <1>2, <1>3, <1>4, <1>5 DEF HookInv, TablesInv, Tabled, d
<1>10. TlbInv'
  BY <1>5, <1>6 DEF HookInv, TlbInv
<1>11. CallInv'
  BY <1>5 DEF HookInv, CallInv
<1> QED
  BY <1>8, <1>9, <1>10, <1>11 DEF HookInv

LEMMA ProcessorKeeps ==
  ASSUME HookInv, NEW c \in CPU,
         Execute(c) \/ (\E i \in Instr : Issue(c, i)) \/ (\E p \in Page : Evict(c, p))
  PROVE  HookInv'
<1>1. instr[c] \in Instr \cup {NoInstr}
  BY DEF HookInv, Shapes
<1>2. instr[c].fetch \in Page /\ instr[c].data \in Page
  BY <1>1, Arguments
<1>3. instr[c] # NoInstr => instr[c].right \in RWX
  BY <1>1, Arguments
<1>4. "x" \in RWX
  BY DEF RWX
<1>5. CASE Fetch(c)
  <2>1. TlbInv' /\ tlb' = [a \in CPU |-> [q \in Page |-> tlb'[a][q]]]
    BY <1>2, <1>5, CacheKeeps DEF Fetch
  <2>2. UNCHANGED <<ept, view, data, hooked, instr, ctl>>
    BY <1>5 DEF Fetch
  <2>3. fetched' \in [CPU -> BOOLEAN]
    BY <1>5 DEF Fetch, HookInv, Shapes
  <2> QED
    BY <2>1, <2>2, <2>3 DEF HookInv, Shapes, TablesInv, CallInv
<1>6. CASE Retire(c)
  <2>1. TlbInv' /\ tlb' = [a \in CPU |-> [q \in Page |-> tlb'[a][q]]]
    BY <1>2, <1>6, CacheKeeps DEF Retire
  <2>2. UNCHANGED <<ept, view, data, hooked, ctl>>
    BY <1>6 DEF Retire
  <2>3. fetched' \in [CPU -> BOOLEAN] /\ instr' \in [CPU -> Instr \cup {NoInstr}]
    BY <1>6 DEF Retire, HookInv, Shapes
  <2> QED
    BY <2>1, <2>2, <2>3 DEF HookInv, Shapes, TablesInv, CallInv
<1>7. CASE HandleEptViolation(c)
  BY <1>2, <1>3, <1>4, <1>7, ViolationKeeps DEF HandleEptViolation
<1>8. CASE \E i \in Instr : Issue(c, i)
  <2>1. UNCHANGED <<ept, view, data, hooked, tlb, fetched, ctl>>
    BY <1>8 DEF Issue
  <2>2. instr' \in [CPU -> Instr \cup {NoInstr}]
    BY <1>8 DEF Issue, HookInv, Shapes
  <2> QED
    BY <2>1, <2>2 DEF HookInv, Shapes, TablesInv, TlbInv, CallInv
<1>9. CASE \E p \in Page : Evict(c, p)
  <2>1. PICK p \in Page : Evict(c, p)
    BY <1>9
  <2>2. UNCHANGED <<ept, view, data, hooked, instr, fetched, ctl>>
    BY <2>1 DEF Evict
  <2>3. tlb' = [a \in CPU |-> [q \in Page |-> IF a = c /\ q = p THEN Unmapped ELSE tlb[a][q]]]
    BY <2>1 DEF Evict, HookInv, Shapes
  <2>4. tlb' = [a \in CPU |-> [q \in Page |-> tlb'[a][q]]]
    BY <2>3
  <2>5. TlbInv'
    BY <2>2, <2>3 DEF HookInv, TlbInv
  <2> QED
    BY <2>2, <2>4, <2>5 DEF HookInv, Shapes, TablesInv, CallInv
<1> QED
  BY <1>5, <1>6, <1>7, <1>8, <1>9 DEF Execute

\* The VMCALLs: INVEPT leaves no translation behind.
LEMMA InveptKeeps ==
  ASSUME HookInv, NEW c \in CPU, Invept(c),
         \A a \in CPU \ {c} : hooked'[a] = hooked[a] /\ data'[a] = data[a]
  PROVE  TlbInv' /\ tlb' = [a \in CPU |-> [q \in Page |-> tlb'[a][q]]]
<1>1. tlb' = [a \in CPU |-> IF a = c THEN [q \in Page |-> Unmapped] ELSE tlb[a]]
  BY DEF Invept, HookInv, Shapes
<1>2. \A a \in CPU \ {c} : tlb'[a] = tlb[a] /\ tlb[a] = [q \in Page |-> tlb[a][q]]
  BY <1>1 DEF HookInv, Shapes
<1>3. tlb'[c] = [q \in Page |-> Unmapped]
  BY <1>1
<1>4. \A a \in CPU : tlb'[a] = [q \in Page |-> tlb'[a][q]]
  BY <1>2, <1>3
<1>5. tlb' = [a \in CPU |-> tlb'[a]]
  BY <1>1
<1>6. tlb' = [a \in CPU |-> [q \in Page |-> tlb'[a][q]]]
  BY <1>4, <1>5
<1>7. TlbInv'
  <2> SUFFICES ASSUME NEW a \in CPU, NEW p \in Page
               PROVE  tlb'[a][p] = Unmapped \/ Agrees(hooked'[a], data'[a], p, tlb'[a][p])
    BY DEF TlbInv
  <2>1. CASE a = c
    BY <1>3, <2>1
  <2>2. CASE a # c
    BY <1>2, <2>2 DEF HookInv, TlbInv
  <2> QED
    BY <2>1, <2>2
<1> QED
  BY <1>6, <1>7

LEMMA HideKeeps ==
  ASSUME HookInv, ctl.call = "hide", VmcallHide(ctl.next, ctl.hook)
  PROVE  /\ TlbInv' /\ TablesInv' /\ data' \in [CPU -> Hooks \cup {NoHook}]
         /\ hooked' \in [CPU -> BOOLEAN] /\ \A a \in CPU : hooked'[a] => data'[a] = ctl.hook
         /\ ept' = [a \in CPU |-> ept'[a]] /\ view' = [a \in CPU |-> Walk(ept'[a])]
         /\ tlb' = [a \in CPU |-> [q \in Page |-> tlb'[a][q]]]
<1> DEFINE c == ctl.next
           d == ctl.hook
           e == HideEpt(ept[c], d)
<1>1. c \in CPU /\ d \in Hooks /\ \A a \in CPU : hooked[a] => data[a] = d
  BY DEF HookInv, CallInv
<1>2. d.exec \in Page
  BY <1>1, Arguments
<1>3. /\ ept'[c] = e /\ \A a \in CPU \ {c} : ept'[a] = ept[a]
      /\ ept' = [a \in CPU |-> ept'[a]] /\ view' = [a \in CPU |-> Walk(ept'[a])]
  BY <1>1, SetEptIs DEF VmcallHide, HookInv
<1>4. e = Executed(d)
  <2>1. CASE ~hooked[c]
    <3>1. ept[c] = Identity
      BY <1>1, <2>1 DEF HookInv, TablesInv, Tabled
    <3> QED
      BY <1>2, <3>1, HideIs
  <2>2. CASE hooked[c]
    <3>1. data[c] = d /\ ept[c] \in {Executed(data[c]), Read(data[c])}
      BY <1>1, <2>2 DEF HookInv, TablesInv, Tabled
    <3>2. \E host, access : ept[c] = HookedEpt(d.exec, host, access)
      BY <3>1 DEF Executed, Read
    <3> QED
      BY <1>2, <3>2, HideIs
  <2> QED
    BY <2>1, <2>2
<1>5. data' = [data EXCEPT ![c] = d] /\ hooked' = [hooked EXCEPT ![c] = TRUE] /\ Invept(c)
  BY DEF VmcallHide
<1> HIDE DEF c, d, e
<1>6. data' \in [CPU -> Hooks \cup {NoHook}] /\ hooked' \in [CPU -> BOOLEAN]
  BY <1>1, <1>5 DEF HookInv, Shapes
<1>7. /\ data'[c] = d /\ hooked'[c] /\ \A a \in CPU \ {c} : hooked'[a] = hooked[a] /\ data'[a] = data[a]
  BY <1>1, <1>5 DEF HookInv, Shapes
<1>8. TlbInv' /\ tlb' = [a \in CPU |-> [q \in Page |-> tlb'[a][q]]]
  BY <1>1, <1>5, <1>7, InveptKeeps
<1>9. TablesInv'
  <2> SUFFICES ASSUME NEW a \in CPU PROVE Tabled(ept'[a], hooked'[a], data'[a])
    BY DEF TablesInv
  <2>1. CASE a = c
    BY <1>1, <1>3, <1>4, <1>7, <2>1 DEF Tabled
  <2>2. CASE a # c
    BY <1>3, <1>7, <2>2 DEF HookInv, TablesInv
  <2> QED
    BY <2>1, <2>2
<1>10. \A a \in CPU : hooked'[a] => data'[a] = d
  BY <1>1, <1>7
<1> QED
  BY <1>3, <1>6, <1>8, <1>9, <1>10 DEF d

LEMMA UnhideKeeps ==
  ASSUME HookInv, VmcallUnhide(ctl.next)
  PROVE  /\ TlbInv' /\ TablesInv' /\ hooked' \in [CPU -> BOOLEAN]
         /\ ept' = [a \in CPU |-> ept'[a]] /\ view' = [a \in CPU |-> Walk(ept'[a])]
         /\ tlb' = [a \in CPU |-> [q \in Page |-> tlb'[a][q]]]
<1> DEFINE c == ctl.next
           d == data[c]
           e == UnhideEpt(ept[c], d)
<1>1. c \in CPU /\ d \in Hooks \cup {NoHook}
  BY DEF HookInv, CallInv, Shapes
<1>2. d.exec \in Page
  BY <1>1, Arguments
<1>3. /\ ept'[c] = e /\ \A a \in CPU \ {c} : ept'[a] = ept[a]
      /\ ept' = [a \in CPU |-> ept'[a]] /\ view' = [a \in CPU |-> Walk(ept'[a])]
  BY <1>1, SetEptIs DEF VmcallUnhide, HookInv
<1>4. e = Identity
  <2>1. CASE ~hooked[c]
    <3>1. ept[c] = Identity
      BY <1>1, <2>1 DEF HookInv, TablesInv, Tabled
    <3> QED
      BY <1>2, <3>1, UnhideIs
  <2>2. CASE hooked[c]
    <3>1. ept[c] \in {Executed(d), Read(d)}
      BY <1>1, <2>2 DEF HookInv, TablesInv, Tabled
    <3>2. \E host, access : ept[c] = HookedEpt(d.exec, host, access)
      BY <3>1 DEF Executed, Read
    <3> QED
      BY <1>2, <3>2, UnhideIs
  <2> QED
    BY <2>1, <2>2
<1>5. hooked' = [hooked EXCEPT ![c] = FALSE] /\ Invept(c) /\ UNCHANGED data
  BY DEF VmcallUnhide
<1> HIDE DEF c, d, e
<1>6. hooked' \in [CPU -> BOOLEAN]
  BY <1>1, <1>5 DEF HookInv, Shapes
<1>7. ~hooked'[c] /\ \A a \in CPU \ {c} : hooked'[a] = hooked[a] /\ data'[a] = data[a]
  BY <1>1, <1>5 DEF HookInv, Shapes
<1>8. TlbInv' /\ tlb' = [a \in CPU |-> [q \in Page |-> tlb'[a][q]]]
  BY <1>1, <1>5, <1>7, InveptKeeps
<1>9. TablesInv'
  <2> SUFFICES ASSUME NEW a \in CPU PROVE Tabled(ept'[a], hooked'[a], data'[a])
    BY DEF TablesInv
  <2>1. CASE a = c
    BY <1>3, <1>4, <1>7, <2>1 DEF Tabled
  <2>2. CASE a # c
    BY <1>3, <1>7, <2>2 DEF HookInv, TablesInv
  <2> QED
    BY <2>1, <2>2
<1> QED
  BY <1>3, <1>6, <1>8, <1>9

LEMMA HookNext == HookInv /\ [Next]_vars => HookInv'
<1> SUFFICES ASSUME HookInv, [Next]_vars PROVE HookInv'
  OBVIOUS
<1>1. CASE UNCHANGED vars
  BY <1>1 DEF HookInv, Shapes, TablesInv, TlbInv, CallInv, vars
<1>2. ASSUME NEW c \in CPU,
             Execute(c) \/ (\E i \in Instr : Issue(c, i)) \/ (\E p \in Page : Evict(c, p))
      PROVE  HookInv'
  BY <1>2, ProcessorKeeps
<1>3. ASSUME NEW hook \in Hooks, Hide(hook) PROVE HookInv'
  <2>1. /\ UNCHANGED <<ept, view, data, hooked, tlb, instr, fetched>>
        /\ ctl' = [call |-> "hide", hook |-> hook, next |-> 1]
        /\ \A c \in CPU : hooked[c] => data[c] = hook
    BY <1>3 DEF Hide
  <2>2. CallInv'
    BY <2>1, FirstCpu DEF CallInv
  <2> QED
    BY <2>1, <2>2 DEF HookInv, Shapes, TablesInv, TlbInv
<1>4. CASE Unhide
  <2>1. /\ UNCHANGED <<ept, view, data, hooked, tlb, instr, fetched>>
        /\ ctl' = [call |-> "unhide", hook |-> Idle.hook, next |-> 1]
    BY <1>4 DEF Unhide, Idle
  <2>2. CallInv'
    BY <2>1, FirstCpu DEF CallInv
  <2> QED
    BY <2>1, <2>2 DEF HookInv, Shapes, TablesInv, TlbInv
<1>5. CASE Visit
  <2>1. UNCHANGED <<instr, fetched>>
    BY <1>5 DEF Visit
  <2>2. \/ ctl' = [call |-> ctl.call, hook |-> ctl.hook, next |-> ctl.next + 1]
           /\ ctl.next + 1 \in CPU
        \/ ctl' = Idle
    BY <1>5 DEF Visit, HookInv, CallInv
  <2>3. CASE ctl.call = "hide" /\ VmcallHide(ctl.next, ctl.hook)
    <3>1. /\ TlbInv' /\ TablesInv' /\ data' \in [CPU -> Hooks \cup {NoHook}]
          /\ hooked' \in [CPU -> BOOLEAN] /\ \A a \in CPU : hooked'[a] => data'[a] = ctl.hook
          /\ ept' = [a \in CPU |-> ept'[a]] /\ view' = [a \in CPU |-> Walk(ept'[a])]
          /\ tlb' = [a \in CPU |-> [q \in Page |-> tlb'[a][q]]]
      BY <2>3, HideKeeps
    <3>2. CallInv'
      <4>1. CASE ctl' = [call |-> ctl.call, hook |-> ctl.hook, next |-> ctl.next + 1]
                 /\ ctl.next + 1 \in CPU
        BY <3>1, <4>1 DEF HookInv, CallInv
      <4>2. CASE ctl' = Idle
        BY <4>2, FirstCpu DEF CallInv, Idle
      <4> QED
        BY <2>2, <4>1, <4>2
    <3> QED
      BY <2>1, <3>1, <3>2 DEF HookInv, Shapes
  <2>4. CASE ctl.call = "unhide" /\ VmcallUnhide(ctl.next)
    <3>1. /\ TlbInv' /\ TablesInv' /\ hooked' \in [CPU -> BOOLEAN]
          /\ ept' = [a \in CPU |-> ept'[a]] /\ view' = [a \in CPU |-> Walk(ept'[a])]
          /\ tlb' = [a \in CPU |-> [q \in Page |-> tlb'[a][q]]]
      BY <2>4, UnhideKeeps
    <3>2. data' = data
      BY <2>4 DEF VmcallUnhide
    <3>3. CallInv'
      <4>1. CASE ctl' = [call |-> ctl.call, hook |-> ctl.hook, next |-> ctl.next + 1]
                 /\ ctl.next + 1 \in CPU
        BY <2>4, <4>1 DEF HookInv, CallInv
      <4>2. CASE ctl' = Idle
        BY <4>2, FirstCpu DEF CallInv, Idle
      <4> QED
        BY <2>2, <4>1, <4>2
    <3> QED
      BY <2>1, <3>1, <3>2, <3>3 DEF HookInv, Shapes
  <2> QED
    BY <1>5, <2>3, <2>4 DEF Visit
<1>6. CASE GiveUp
  <2>1. UNCHANGED <<ept, view, data, hooked, tlb, instr, fetched>> /\ ctl' = Idle
    BY <1>6 DEF GiveUp
  <2>2. CallInv'
    BY <2>1, FirstCpu DEF CallInv, Idle
  <2> QED
    BY <2>1, <2>2 DEF HookInv, Shapes, TablesInv, TlbInv
<1> QED
  BY <1>1, <1>2, <1>3, <1>4, <1>5, <1>6 DEF Next

\* Every reachable state satisfies the invariant.
THEOREM HookInvariance == Spec => []HookInv
BY HookInit, HookNext, PTL DEF Spec

---------------------------------------------------------------------------
\* No handler leaves the tables (vmexit_custom.cpp:180-287), the allocator does not run
\* dry, and what the TLBs hold lies in memory.
THEOREM HookTypes == Spec => []TypeOK
<1>1. HookInv => TypeOK
  <2> SUFFICES ASSUME HookInv PROVE TypeOK
    OBVIOUS
  <2>1. ASSUME NEW c \in CPU
        PROVE  ~ept[c].fault /\ DOMAIN ept[c].tables \subseteq Tables \cup {Root}
    <3>1. \A T : Whole(T).tables = T /\ ~Whole(T).fault
      BY WholeIs
    <3>2. CASE ept[c] = Identity
      BY <3>1, <3>2, PlainIs
    <3>3. CASE ept[c] # Identity
      <4>1. PICK d \in Hooks : ept[c] \in {Executed(d), Read(d)}
        BY <2>1, <3>3 DEF HookInv, TablesInv, Tabled
      <4>2. PICK leaf : ept[c] = Whole(Divided(Mask(d.exec), leaf))
        BY <4>1 DEF Executed, Read, HookedEpt
      <4>3. Mask(d.exec) \in Page
        BY <4>1, Arguments, MaskBlock
      <4>4. DOMAIN Divided(Mask(d.exec), leaf) = DOMAIN Plain \cup {Spare}
        BY <4>3, DividedDomain
      <4> QED
        BY <3>1, <4>2, <4>4, PlainIs
    <3> QED
      BY <3>2, <3>3
  <2>2. ASSUME NEW c \in CPU, NEW p \in Page
        PROVE  tlb[c][p].host \in Page /\ tlb[c][p].access \subseteq RWX
    <3>1. CASE tlb[c][p] = Unmapped
      BY <3>1, Arguments DEF Unmapped
    <3>2. CASE Agrees(hooked[c], data[c], p, tlb[c][p])
      <4>1. data[c].exec \in Page /\ data[c].read \in Page
        BY Arguments DEF HookInv, Shapes
      <4> QED
        BY <3>2, <4>1 DEF Agrees, RWX
    <3> QED
      BY <2>2, <3>1, <3>2 DEF HookInv, TlbInv
  <2> QED
    BY <2>1, <2>2 DEF TypeOK, HookInv, Shapes, CallInv, NoHook
<1> QED
  BY <1>1, HookInvariance, PTL

\* Whatever the TLBs hold, an access that succeeds reaches the right frame: the hidden
\* page is executed in one frame and read and written in the other, and every other page
\* is itself (vmexit_custom.cpp:193-203, :241-282).
THEOREM HookGuestView == Spec => []GuestView
<1>1. HookInv => GuestView
  <2> SUFFICES ASSUME HookInv, NEW c \in CPU, NEW p \in Page, NEW right \in RWX,
                      Allowed(c, p, right)
               PROVE  Lookup(c, p).host = Expected(c, p, right)
    BY DEF GuestView
  <2>1. Agrees(hooked[c], data[c], p, Lookup(c, p))
    BY LookupAgrees
  <2>2. right \in Lookup(c, p).access
    BY DEF Allowed
  <2>3. CASE hooked[c] /\ p = data[c].exec
    BY <2>1, <2>2, <2>3 DEF Agrees, Expected, RWX
  <2>4. CASE ~(hooked[c] /\ p = data[c].exec)
    BY <2>1, <2>4 DEF Agrees, Expected
  <2> QED
    BY <2>3, <2>4
<1> QED
  BY <1>1, HookInvariance, PTL

\* The tables restrict the hidden page alone, which they never make readable and
\* executable at once.
THEOREM HookIsLocal == Spec => []HookLocal
<1>1. HookInv => HookLocal
  <2> SUFFICES ASSUME HookInv, NEW c \in CPU, NEW p \in Page
               PROVE  LET access == view[c][p].access IN
                      IF hooked[c] /\ p = data[c].exec THEN access \in {{"x"}, {"r", "w"}}
                      ELSE access = RWX
    BY DEF HookLocal
  <2>1. view[c][p] = Translate(ept[c], p)
    <3>1. view[c] = Walk(ept[c])
      BY DEF HookInv, Shapes
    <3> QED
      BY <3>1 DEF Walk
  <2>2. hooked[c] \in BOOLEAN /\ Tabled(ept[c], hooked[c], data[c])
    BY DEF HookInv, Shapes, TablesInv
  <2>3. Agrees(hooked[c], data[c], p, view[c][p])
    BY <2>1, <2>2, TablesAgree
  <2> QED
    BY <2>3 DEF Agrees
<1> QED
  BY <1>1, HookInvariance, PTL

\* A hook costs one table and the unhook gives it back (ept.cpp:164-215), however often
\* hvppctrl repeats its calls or gives up half way.
THEOREM HookTablesBalanced == Spec => []TablesBalanced
<1>1. HookInv => TablesBalanced
  <2> SUFFICES ASSUME HookInv, NEW c \in CPU
               PROVE  Cardinality(DOMAIN ept[c].tables)
                        = Cardinality(DOMAIN Plain) + IF hooked[c] THEN 1 ELSE 0
    BY DEF TablesBalanced, Plain
  <2>0. Cardinality(DOMAIN Plain) \in Nat
    BY PlainIs, FS_CardinalityType
  <2>1. CASE ~hooked[c]
    <3>1. ept[c].tables = Plain
      BY <2>1 DEF HookInv, TablesInv, Tabled, Plain
    <3> QED
      BY <2>0, <2>1, <3>1
  <2>2. CASE hooked[c]
    <3>1. PICK d \in Hooks : ept[c] \in {Executed(d), Read(d)}
      BY <2>2 DEF HookInv, TablesInv, Tabled
    <3>2. PICK leaf : ept[c] = Whole(Divided(Mask(d.exec), leaf))
      BY <3>1 DEF Executed, Read, HookedEpt
    <3>3. Mask(d.exec) \in Page
      BY <3>1, Arguments, MaskBlock
    <3>4. DOMAIN ept[c].tables = DOMAIN Plain \cup {Spare}
      <4>1. ept[c].tables = Divided(Mask(d.exec), leaf)
        BY <3>2, WholeIs
      <4> QED
        BY <3>3, <4>1, DividedDomain
    <3>5. Cardinality(DOMAIN Plain \cup {Spare}) = Cardinality(DOMAIN Plain) + 1
      BY PlainIs, FS_AddElement
    <3> QED
      BY <2>2, <3>4, <3>5
  <2> QED
    BY <2>1, <2>2
<1> QED
  BY <1>1, HookInvariance, PTL
==============================================================================
