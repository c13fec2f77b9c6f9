---- MODULE MCEptHook ----
EXTENDS EptHook

\* Page 1, the second one of its 2MB page, is hidden behind page 2, which lies in
\* another 2MB page; Unhide() may come first, when page_exec is still 0.
MCTables == 1..4
MCMemType == [p \in 0..3 |-> "WB"]
MCHooks  == {[exec |-> 1, read |-> 2]}

\* Code in page 2 that writes the hidden page, and code in the hidden page that reads
\* page 2.
MCInstr  == {[fetch |-> 2, data |-> 1, right |-> "w"],
             [fetch |-> 1, data |-> 2, right |-> "r"]}
==========================
