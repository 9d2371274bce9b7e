------------------------------ MODULE MCLive ------------------------------
(***************************************************************************)
(* What must end: shootdowns (Tlb) and reads of pages from the disk        *)
(* (Pager), on instances small enough for liveness.  A behaviour is one of *)
(* them: which.                                                            *)
(***************************************************************************)
EXTENDS TLC

CONSTANTS c0, c1, s1, K, None, f1, f2, p1, e1, d1, Unmapped

VARIABLES which,
    mach, pt, own, id, gen, nextId, smp_cur_cr3, cr3, tlb, slot, next, last, kver, kgen,
    ck, ktlb, pc, tgt, lgen, hand, us, todo, want, req, done, svc, timeouts,
    vma, pte, ptlb, free, fdata, ent, lru, used, disk, count, out, wb, th

Actors == {c0, c1}

\* two changes of the one space
Waiting == {[pcid |-> FALSE, spaces |-> {s1}, gens |-> 2, reuses |-> 0, kchanges |-> 0, timeouts |-> 0]}

T == INSTANCE Tlb WITH Cores <- Actors, Boot <- c0, Spaces <- {s1}, Frames <- {f1, f2}, NSLOT <- 1, Machines <- Waiting,
                       NoPage <- None
P == INSTANCE Pager WITH Threads <- Actors, Pages <- {p1}, Frames <- {f1, f2}, Ents <- {e1}, Sectors <- {d1},
                         Vals <- {0, 1}, Zero <- 0, Racing <- FALSE, tlb <- ptlb

tlbVars == <<mach, pt, own, id, gen, nextId, smp_cur_cr3, cr3, tlb, slot, next, last, kver, kgen,
             ck, ktlb, pc, tgt, lgen, hand, us, todo, want, req, done, svc, timeouts>>
pagerVars == <<vma, pte, ptlb, free, fdata, ent, lru, used, disk, count, out, wb, th>>
vars == <<which, tlbVars, pagerVars>>

Init == which \in {"tlb", "pager"} /\ T!TlbInit /\ P!Init

InTlb == which = "tlb" /\ UNCHANGED <<which, pagerVars>>
InPager == which = "pager" /\ UNCHANGED <<which, tlbVars>>

Next == (InTlb /\ T!TlbNext) \/ (InPager /\ P!Next)

\* the fairness of Tlb and of Pager, each for its own behaviours
LiveSpec ==
    /\ Init /\ [][Next]_vars
    /\ WF_vars((InTlb /\ T!KernelChanged) \/ (InPager /\ P!ZswapStep))
    /\ \A c \in Actors :
         /\ WF_vars(InTlb /\ T!CoreStep(c))
         /\ SF_vars((InTlb /\ T!Service(c)) \/ (InPager /\ P!ThreadStep(c)))
         /\ SF_vars(InPager /\ P!ReadOk(c))

-----------------------------------------------------------------------------
(* Properties *)

\* A page taken out of a space's tables is given back in the end, also when
\* two cores with interrupts off ask each other to forget ("two cores asking
\* each other: both go on").
ShootdownEnds == T!ShootdownEnds

\* A thread that waits for a page from the disk goes on in the end.
ReadEnds == P!ReadEnds
=============================================================================
