---- MODULE MCVmExits ----
EXTENDS VmExits
CONSTANTS c1, c2
MCCPU   == {c1, c2}
MCLocks == {1, 2}
==========================
