------------------------------ MODULE MCInterrupts ------------------------------
(* Instances of Interrupts for TLC. *)
EXTENDS Interrupts

CONSTANTS i1, i2, i3

\* Two places in each queue and three events at once: a full ring, one that wraps
\* around, and an event in the VM-entry field besides.
MCId == {i1, i2, i3}
=============================================================================
