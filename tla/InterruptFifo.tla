----------------------------- MODULE InterruptFifo -----------------------------
(***************************************************************************)
(* What the injection of interrupts promises: a processor hands every      *)
(* event it has taken from the hardware to the guest exactly once, and     *)
(* those of one kind in the order they came, but for the ones a handler    *)
(* puts in front.                                                          *)
(***************************************************************************)
EXTENDS Naturals, Sequences

CONSTANTS Kind, Id

VARIABLE pending   \* the events taken and not yet delivered, by kind

Init == pending = [k \in Kind |-> <<>>]

Take(k, id)      == pending' = [pending EXCEPT ![k] = Append(@, id)]
TakeFirst(k, id) == pending' = [pending EXCEPT ![k] = <<id>> \o @]

Deliver(k) ==
  /\ pending[k] # <<>>
  /\ pending' = [pending EXCEPT ![k] = Tail(@)]

Next == \E k \in Kind : \/ Deliver(k)
                        \/ \E id \in Id : Take(k, id) \/ TakeFirst(k, id)

Spec == Init /\ [][Next]_pending
=============================================================================
