----------------------------- MODULE MCHvAllocator -----------------------------
(* An instance of HvAllocator for TLC: pages of 16 bytes, so that the bookkeeping of
   ten pages takes three; a region that is aligned, one of whole pages that is not, one
   of which the pool leaves the end, and one too small for the bookkeeping. *)
EXTENDS HvAllocator

MCRegions == {[address |-> 32, size |-> 160], [address |-> 37, size |-> 160],
              [address |-> 37, size |-> 170], [address |-> 32, size |-> 64]}

\* One page (also for no bytes at all), two, three, and one more than a pgmap_t counts.
MCRequests == {0, 17, 48, 80}
=============================================================================
