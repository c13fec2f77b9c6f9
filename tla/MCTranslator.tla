---- MODULE MCTranslator ----
EXTENDS Translator

\* Frames 1 to 4 hold the structures.  A hole, a page, a large page of two, a large page
\* of four; the upper half of the address space is the structures themselves.
Layout ==
  << << Entry(FALSE, 2), Entry(FALSE, 1) >>,
     << Entry(FALSE, 3), Entry(TRUE, 8) >>,
     << Entry(FALSE, 4), Entry(TRUE, 6) >>,
     << Absent, Entry(FALSE, 5) >> >>
Tables == [f \in 1..4 |-> [i \in 0..1 |-> Layout[f][i + 1]]]
MCStructures == Tables

\* A page goes, comes, moves to physical address 0; a large page goes.
MCChanges ==
  {[frame |-> 4, index |-> 0, entry |-> Entry(FALSE, 12)],
   [frame |-> 4, index |-> 1, entry |-> Entry(FALSE, 0)],
   [frame |-> 4, index |-> 1, entry |-> Absent],
   [frame |-> 3, index |-> 1, entry |-> Absent]}

Call(va, size, write, ignore, physical) ==
  [va |-> va, size |-> size, write |-> write, ignore |-> ignore, physical |-> physical]
MCCalls ==
  {Call(va, size, FALSE, ignore, FALSE) : va \in {0, 1, 3, 5}, size \in {1, 4, 5},
                                          ignore \in BOOLEAN}
  \cup {Call(2, 4, TRUE, ignore, FALSE) : ignore \in BOOLEAN}
  \cup {Call(19, 2, FALSE, FALSE, FALSE), Call(3, 4, FALSE, FALSE, TRUE)}
=============================
