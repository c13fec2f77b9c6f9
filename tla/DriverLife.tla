------------------------------- MODULE DriverLife -------------------------------
(***************************************************************************)
(* The driver around Hypervisor: DriverEntry and DriverUnload with every   *)
(* object they make and delete, and a user program that opens the device   *)
(* and sends the I/O control that sets a breakpoint on a port.             *)
(*                                                                         *)
(* The device can be opened as soon as create() has made it, long before   *)
(* DriverEntry returns.  Windows does not call DriverUnload while a handle *)
(* is open, and never after a DriverEntry that failed.                     *)
(***************************************************************************)
EXTENDS Hypervisor

VARIABLES
  phase,     \* where DriverEntry or DriverUnload is
  loaded,    \* DriverEntry has returned success
  made,      \* the objects that exist
  pool,      \* the default hypervisor allocator's memory
  handler_,  \* device_custom::handler_
  request    \* the user program: no handle, a handle, or the pointer its I/O
             \* control has taken from handler_

lifeVars == <<phase, loaded, made, pool, handler_, request>>
allVars  == <<vars, lifeVars>>

Common == {"logger", "descriptors", "system allocator"}
Object == Common \cup {"device", "handler"}

LifeInit ==
  /\ Init
  /\ phase = "image" /\ loaded = FALSE /\ made = {} /\ pool = "none"
  /\ handler_ = "null" /\ request = "none"

---------------------------------------------------------------------------
(***************************************************************************)
(* DriverEntry.                                                            *)
(***************************************************************************)

\* common::initialize() up to the driver's initialize().
CommonInitialize ==
  /\ phase = "image"
  /\ \/ /\ "memory" \in Faults
        /\ phase' = "refused"
        /\ UNCHANGED made
     \/ phase' = "create" /\ made' = Common
  /\ UNCHANGED <<vars, loaded, pool, handler_, request>>

\* An object is made, or initialize() goes to destroy().
Make(from, object, to) ==
  /\ phase = from
  /\ \/ "memory" \in Faults /\ phase' = "destroy" /\ UNCHANGED made
     \/ phase' = to /\ made' = made \cup {object}
  /\ UNCHANGED <<vars, loaded, pool, handler_, request>>

CreateDevice == Make("create", "device", "handler")
NewHandler   == Make("handler", "handler", "assign")

\* device_->handler(...).
AssignHandler ==
  /\ phase = "assign"
  /\ phase' = "start" /\ handler_' = "handler"
  /\ UNCHANGED <<vars, loaded, made, pool, request>>

\* What start() can leave of the default pool when it returns early.
RefusedPools ==
  (IF "memory" \in Faults THEN {"none", "unattached"} ELSE {})
    \cup (IF "features" \in Faults THEN {"attached"} ELSE {})

\* hypervisor::start() up to its broadcast.
CallStart ==
  /\ phase = "start" /\ Start
  /\ phase' = IF driver' = "failed" THEN "destroy" ELSE "starting"
  /\ pool' \in IF driver' # "failed" THEN {"attached"}
               ELSE IF ~list' THEN {"none"}
               ELSE RefusedPools
  /\ UNCHANGED <<loaded, made, handler_, request>>

\* The rest of it, which stops again what it could not start.
StartReturns ==
  /\ phase = "starting"
  /\ \/ JoinStart /\ phase' = IF startErr THEN phase ELSE "loaded"
     \/ JoinStop  /\ phase' = "destroy"
  /\ loaded' = (phase' = "loaded")
  /\ UNCHANGED <<made, pool, handler_, request>>

---------------------------------------------------------------------------
(***************************************************************************)
(* The driver's destroy(), from DriverUnload or from its own initialize(). *)
(***************************************************************************)

Unload ==
  /\ phase = "loaded" /\ request = "none"
  /\ phase' = "destroy"
  /\ UNCHANGED <<vars, loaded, made, pool, handler_, request>>

\* stop() of a hypervisor nobody has tried to start.
StopUnstarted ==
  /\ driver = "stopped" /\ Assert(running, "stop_running")
  /\ driver' = "unloaded"
  /\ UNCHANGED <<running, list, startErr, ipi, pc, exit, cause, mode, state, data,
                 allocVars, halted>>

\* Mutant: common::destroy() returns the pool before it calls the driver's destroy().
CallStop_PoolFirst ==
  /\ phase = "destroy" /\ (Stop \/ StopUnstarted)
  /\ phase' = IF driver' = "ipi_stop" THEN "stopping" ELSE "delete"
  /\ pool' = "none"
  /\ UNCHANGED <<loaded, made, handler_, request>>

CallStop ==
  /\ phase = "destroy" /\ (Stop \/ StopUnstarted)
  /\ phase' = IF driver' = "ipi_stop" THEN "stopping" ELSE "delete"
  /\ UNCHANGED <<loaded, made, pool, handler_, request>>

StopReturns ==
  /\ phase = "stopping" /\ JoinStop
  /\ phase' = "delete"
  /\ UNCHANGED <<loaded, made, pool, handler_, request>>

Delete(from, object, to) ==
  /\ phase = from
  /\ phase' = to /\ made' = made \ {object}
  /\ UNCHANGED <<vars, loaded, pool, handler_, request>>

\* A failed DriverEntry undoes nothing of common::initialize().
DeleteHandler == Delete("delete", "handler", "remove")
DeleteDevice  == Delete("remove", "device", IF loaded THEN "memory" ELSE "refused")

\* hypervisor_allocator_default_destroy(), which does nothing without an allocator.
PoolFreed == IF pool = "attached" THEN "none" ELSE pool

\* common::destroy() after the driver's destroy().
CommonDestroy ==
  /\ phase = "memory"
  /\ phase' = "gone" /\ made' = made \ Common /\ pool' = PoolFreed
  /\ UNCHANGED <<vars, loaded, handler_, request>>

\* The image goes when nobody holds a handle, and may be loaded again: what is
\* left of it is out of the new one's reach.
LoadAgain ==
  /\ phase \in {"gone", "refused"} /\ request = "none"
  /\ Reload \/ (driver = "stopped" /\ UNCHANGED vars)
  /\ phase' = "image" /\ loaded' = FALSE /\ made' = {} /\ pool' = "none"
  /\ handler_' = "null"
  /\ UNCHANGED request

---------------------------------------------------------------------------
(***************************************************************************)
(* The user program.                                                       *)
(***************************************************************************)

Request(r) == request' = r /\ UNCHANGED <<vars, phase, loaded, made, pool, handler_>>

\* Possible once create() has cleared DO_DEVICE_INITIALIZING.
Open == /\ request = "none" /\ "device" \in made /\ (loaded => phase = "loaded")
        /\ Request("open")

\* ioctl_enable_io_debugbreak() takes the pointer, and then sets the two bits.
Ioctl == request = "open" /\ "device" \in made /\ Request(handler_)
SetPort == request = "handler" /\ Request("open")
CloseHandle == request = "open" /\ Request("none")

---------------------------------------------------------------------------
DriverThread ==
  \/ CommonInitialize \/ CreateDevice \/ NewHandler \/ AssignHandler
  \/ CallStart \/ StartReturns
  \/ Unload \/ CallStop \/ StopReturns \/ DeleteHandler \/ DeleteDevice
  \/ CommonDestroy \/ LoadAgain

User == Open \/ Ioctl \/ SetPort \/ CloseHandle

LifeNext ==
  /\ ~halted
  /\ \/ DriverThread
     \/ User
     \/ /\ \E c \in CPU : CodeStep(c) \/ ExitStep(c) \/ VmExit(c)
        /\ UNCHANGED lifeVars

LifeSpec == LifeInit /\ [][LifeNext]_allVars
---------------------------------------------------------------------------
(***************************************************************************)
(* Properties.                                                             *)
(***************************************************************************)

\* No object goes before its last user.  The memory descriptors, the handler and the
\* attached pool are there as long as a processor is virtualized, selects the pool or
\* has data in it, whatever failed on the way and however often stop() was called; the
\* handler an I/O control of a loaded driver writes to is there until it has written;
\* and the unload of a loaded driver leaves nothing.
UsersOutlived ==
  /\ (\E c \in CPU : mode[c] # "native" \/ allocator[c] = "custom" \/ data[c] # "none")
       => {"descriptors", "handler"} \subseteq made /\ pool = "attached"
  /\ loaded /\ request = "handler" => "handler" \in made
  /\ phase = "gone" => made = {} /\ pool = "none" /\ ~list

\* device_custom.cpp:32: hvpp_assert(handler_).
HandlerAssertion == request # "null"
=============================================================================
