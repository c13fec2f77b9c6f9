---- MODULE MCEpt ----
EXTENDS Ept, Mtrr

\* Two entries a table, one PML4 entry: eight pages, four 2MB blocks, two 1GB blocks.
\* Seven tables are all that one PML4 entry can need.
MCTables == 1..7

\* A page is mapped by map_identity() or by the caller's one other mapping.
MCHosts  == {8}
MCRights == {{"x"}}

\* Memory ends in the middle of 2MB blocks, and its ranges leave a hole.
MCRanges == << [begin |-> 0, end |-> 1], [begin |-> 4, end |-> 7] >>

\* Two MTRRs of one page each inside larger blocks; the rest has the default type.
Device(page) == [valid |-> TRUE, base |-> page, mask |-> 2^12 - 1, type |-> "UC"]
MCMtrrs ==
  [enable |-> TRUE, fixedSupported |-> TRUE, fixedEnable |-> FALSE, default |-> "WB",
   fixed |-> <<>>, variable |-> << Device(1), Device(4) >>]
Types     == [p \in 0..7 |-> Type(Descriptor(MCMtrrs), p, FALSE)]
MCMemType == Types
======================
