------------------------------- MODULE Memory -------------------------------
(***************************************************************************)
(* What an app sees of its mmap region (kernel/uvm.h): a page has the      *)
(* value last written to it since it was mapped, zero at first, whatever   *)
(* the kernel does with the memory behind it.                              *)
(***************************************************************************)
CONSTANTS Pages, Vals, Zero, Unmapped

VARIABLE mem

Init == mem = [p \in Pages |-> Unmapped]

Map(p) == mem[p] = Unmapped /\ mem' = [mem EXCEPT ![p] = Zero]

Unmap(p) == mem' = [mem EXCEPT ![p] = Unmapped]

Write(p, v) == mem[p] # Unmapped /\ mem' = [mem EXCEPT ![p] = v]

\* the app is gone
End == mem' = [p \in Pages |-> Unmapped]

Next == End \/ \E p \in Pages : Map(p) \/ Unmap(p) \/ \E v \in Vals : Write(p, v)

Spec == Init /\ [][Next]_mem
=============================================================================
