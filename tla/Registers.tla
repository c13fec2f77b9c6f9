------------------------------- MODULE Registers -------------------------------
(***************************************************************************)
(* Register files as functions from names to values.                       *)
(***************************************************************************)

\* No register.
Nothing == [r \in {} |-> {}]

\* The registers of old with the values new gives to some of them.
new \oplus old ==
  [r \in DOMAIN new \union DOMAIN old |-> IF r \in DOMAIN new THEN new[r] ELSE old[r]]
=============================================================================
