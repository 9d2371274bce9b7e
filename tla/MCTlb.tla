------------------------------- MODULE MCTlb -------------------------------
(* Tlb on two cores, with two spaces of which one is forked off the other. *)
EXTENDS Tlb

Forking == {[pcid |-> TRUE, spaces |-> Spaces, gens |-> 1, reuses |-> 0, kchanges |-> 0, timeouts |-> 0]}
=============================================================================
