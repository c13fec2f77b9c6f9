------------------------------- MODULE Interrupts -------------------------------
(***************************************************************************)
(* Injection of interrupts into the guest of one VCPU (vcpu.inl), with the *)
(* handlers of vmexit_passthrough.cpp that use it: an event that causes a  *)
(* VM-exit is reinjected at once or queued, interrupt-window and           *)
(* NMI-window exits drain the queues, and every VM-entry delivers the      *)
(* event in the VM-entry interruption-information field, if it may.        *)
(***************************************************************************)
EXTENDS Naturals, Sequences, Deque   \* Size: capacity of a pending_interrupt_queue_

CONSTANTS
  Id,        \* identities of events in flight
  Fronts     \* values of the "front" argument: a subset of BOOLEAN

ASSUME InterruptsAssumption ==
  /\ None \notin Id
  /\ Fronts \subseteq BOOLEAN

Queued == {"external", "nmi"}
Kind   == Queued \cup {"exception"}
Events == [kind : Kind, id : Id]

VARIABLES
  guest,    \* RFLAGS.IF and guest_interruptibility_state()
  queue,    \* pending_interrupt_queue_
  window,   \* interrupt_window_exiting and nmi_window_exiting
  entry,    \* the event the next VM-entry injects
  phase     \* "guest", "entry" (a handler is done) or "dead" (VM-entry failed)

vars == <<guest, queue, window, entry, phase>>

NoEvent == [kind |-> "none", id |-> None]

\* guest_interruptibility_state().flags # 0.
AnyFlag == guest.shadow \/ guest.nmi

\* What the processor requires of an injection, and of the matching window exit.
Open(k) ==
  /\ ~guest.shadow
  /\ k = "external" => guest.if
  /\ k = "nmi"      => ~guest.nmi

WindowOpen(k) == window[k] /\ Open(k)

Init ==
  /\ guest  = [if |-> TRUE, shadow |-> FALSE, nmi |-> FALSE]
  /\ queue  = [k \in Queued |-> New]
  /\ window = [k \in Queued |-> FALSE]
  /\ entry  = NoEvent
  /\ phase  = "guest"

---------------------------------------------------------------------------
\* The guest runs until a window opens: CLI, STI, MOV SS, IRET, any instruction.
Guest ==
  /\ phase = "guest" /\ \A k \in Queued : ~WindowOpen(k)
  /\ guest' \in {[guest EXCEPT !.if = FALSE, !.shadow = FALSE],
                 [guest EXCEPT !.if = TRUE, !.shadow = ~guest.if],
                 [guest EXCEPT !.shadow = TRUE],
                 [guest EXCEPT !.if = TRUE, !.nmi = FALSE, !.shadow = FALSE],
                 [guest EXCEPT !.shadow = FALSE]}
  /\ UNCHANGED <<queue, window, entry, phase>>

---------------------------------------------------------------------------
\* Mutant: RFLAGS.IF is not looked at.
Interruptible_NoIf(k) ==
  CASE k = "external" -> AnyFlag
    [] k = "nmi"      -> ~guest.nmi
    [] OTHER          -> TRUE

\* interrupt_inject() tests the flags themselves where its comment means that none is
\* set, and it does not look at the shadow for an NMI.
Interruptible(k) ==
  CASE k = "external" -> guest.if /\ AnyFlag
    [] k = "nmi"      -> ~guest.nmi
    [] OTHER          -> TRUE

\* interrupt_inject().
Inject(event, front) ==
  LET k == event.kind IN
  IF Interruptible(k)
  THEN entry' = event /\ UNCHANGED <<queue, window>>
  ELSE /\ queue'  = [queue EXCEPT ![k] = IF front THEN PushFront(@, event)
                                         ELSE PushBack(@, event)]
       /\ window' = [window EXCEPT ![k] = TRUE]
       /\ UNCHANGED entry

InFlight == {entry.id} \cup
            UNION {{Contents(queue[k])[i].id : i \in 1..queue[k].count} : k \in Queued}

\* handle_interrupt() reinjects the event that caused a VM-exit, and the handler of any
\* other VM-exit may inject one of its own: also in the shadow of STI or MOV SS, whose
\* instruction may exit like any other.  Open windows cause their VM-exits first.  The
\* interrupt controller holds back what would be more than Size unfinished interrupts.
HandleInterrupt(event, front) ==
  /\ phase = "guest" /\ \A k \in Queued : ~WindowOpen(k)
  /\ event.id \notin InFlight
  /\ event.kind \in Queued => HasRoom(queue[event.kind])
  /\ Inject(event, front)
  /\ phase' = "entry"
  /\ UNCHANGED guest

\* Mutant: the window is closed whether the queue is empty or not.
StillPending_Never(d) == FALSE

\* interrupt_is_pending(), after the interrupt was dequeued.
StillPending(d) == d.count > 0

\* handle_interrupt_window() and handle_nmi_window(), with interrupt_inject_pending().
HandleWindow(k) ==
  /\ phase = "guest" /\ WindowOpen(k)
  /\ entry'  = Front(queue[k])
  /\ queue'  = [queue EXCEPT ![k] = PopFront(@)]
  /\ window' = [window EXCEPT ![k] = StillPending(queue'[k])]
  /\ phase'  = "entry"
  /\ UNCHANGED guest

---------------------------------------------------------------------------
\* VMRESUME delivers the event through the guest's IDT, or fails.
VmEntry ==
  /\ phase = "entry"
  /\ IF entry.kind \in Queued /\ ~Open(entry.kind)
     THEN phase' = "dead" /\ UNCHANGED <<guest, entry>>
     ELSE /\ phase' = "guest"
          /\ entry' = NoEvent
          /\ guest' = CASE entry.kind = "none" -> guest
                        [] entry.kind = "nmi"  ->
                             [if |-> FALSE, shadow |-> FALSE, nmi |-> TRUE]
                        [] OTHER ->
                             [guest EXCEPT !.if = FALSE, !.shadow = FALSE]
  /\ UNCHANGED <<queue, window>>

Next ==
  \/ Guest
  \/ \E event \in Events, front \in Fronts : HandleInterrupt(event, front)
  \/ \E k \in Queued : HandleWindow(k)
  \/ VmEntry

\* VMX root mode runs to its end, and an open window causes its VM-exit.
Spec == /\ Init /\ [][Next]_vars
        /\ WF_vars(VmEntry)
        /\ \A k \in Queued : SF_vars(HandleWindow(k))

---------------------------------------------------------------------------
TypeOK ==
  /\ guest \in [if : BOOLEAN, shadow : BOOLEAN, nmi : BOOLEAN]
  /\ queue \in [Queued -> Deques(Events)]
  /\ window \in [Queued -> BOOLEAN]
  /\ entry \in Events \cup {NoEvent}
  /\ phase \in {"guest", "entry", "dead"}

\* A window exit is requested exactly while something waits for it: else an interrupt
\* would stay in its queue, or the exit would find the queue empty
\* (vmexit_passthrough.cpp:141-161, :168-188).
WindowTracksQueue ==
  \A k \in Queued :
    /\ window[k] <=> queue[k].count > 0
    /\ \A i \in 1..queue[k].count : Contents(queue[k])[i].kind = k

\* The comment at vcpu.inl:119-123 promises that nothing is injected into a guest that is
\* not interruptible, "blocked by "mov ss", or EFLAGS.IF == 0".  The code keeps the half of
\* it about IF, and about NMIs while one is handled: what it injects, at once or from a
\* queue, VM-entry accepts.  It breaks the other half, as it injects at once where STI or
\* MOV SS blocks, and then VM-entry fails; it fails nowhere else.
EntryFailsInShadow ==
  /\ phase = "dead" => guest.shadow
  /\ phase = "entry" /\ entry.kind = "external" => guest.if
  /\ phase = "entry" /\ entry.kind = "nmi"      => ~guest.nmi

\* The ring buffers, the direct injections and the window exits together deliver every
\* event once and in order.
pending ==
  [k \in Kind |->
     (IF entry.kind = k THEN <<entry.id>> ELSE <<>>) \o
     (IF k \in Queued
      THEN [i \in 1..queue[k].count |-> Contents(queue[k])[i].id] ELSE <<>>)]

Fifo == INSTANCE InterruptFifo WITH Kind <- Kind, Id <- Id, pending <- pending
InOrder == Fifo!Spec

\* An interrupt that waits is injected, if the guest can take one again and again and
\* handlers do not go on putting others in front of it.
PushedFront(k) ==
  queue'[k].count > queue[k].count /\ queue'[k].first # queue[k].first

QueuedDelivered ==
  \A k \in Queued : \A id \in Id :
    []<>(phase = "guest" /\ Open(k)) /\ <>[][~PushedFront(k)]_vars =>
      ((\E i \in 1..queue[k].count : Contents(queue[k])[i].id = id)
         ~> (entry = [kind |-> k, id |-> id]))
=============================================================================
