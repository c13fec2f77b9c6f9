------------------------------ MODULE MCHypervisor ------------------------------
(* Instances of Hypervisor for TLC. *)
EXTENDS Hypervisor

CONSTANTS c1, c2

MCCPU  == {c1, c2}
\* start() may be refused, and then nothing was broadcast.
EarlyFaults == {"memory", "features"}
\* Any processor may fail at any of its steps.
VmxFaults   == {"vmxon", "vmcs", "setup", "vmlaunch"}
AllFaults   == Fault
=============================================================================
