------------------------------ MODULE MCDriverLife ------------------------------
(* Instances of DriverLife for TLC. *)
EXTENDS DriverLife

CONSTANTS c1, c2

MCCPU == {c1, c2}
MCOne == {c1}
AllFaults == Fault
NoFaults  == {}
=============================================================================
