------------------------------ MODULE MCSched ------------------------------
(***************************************************************************)
(* What several cores do to each other: the tasks they pass around (Sched: *)
(* two tasks beside the desktop's, one core beside the boot core, one      *)
(* sleep of the machine) and the translations they must forget (Tlb: two   *)
(* cores).  A behaviour is one of them, the other stays as it started:     *)
(* which.                                                                  *)
(***************************************************************************)
EXTENDS Sched, Tlb

VARIABLE which

Base == [pcid |-> TRUE, spaces |-> Spaces, gens |-> 1, reuses |-> 0, kchanges |-> 0, timeouts |-> 0]
OneSpace == {CHOOSE s \in Spaces : TRUE}

\* machines that each isolate one reason for translations to go stale: two
\* spaces share one PCID; no PCIDs, and a new space where an old one was; two
\* changes of a space and a late answer; changes of the kernel's tables
Small == {Base,
          [Base EXCEPT !.pcid = FALSE, !.reuses = 1],
          [Base EXCEPT !.spaces = OneSpace, !.reuses = 1, !.timeouts = 1],
          [Base EXCEPT !.spaces = OneSpace, !.gens = 2, !.timeouts = 1],
          [Base EXCEPT !.spaces = OneSpace, !.kchanges = 2]}

ASSUME TlbConstants == TlbAssumption

all == <<which, vars, tlbVars>>

AllInit == which \in {"sched", "tlb"} /\ Init /\ TlbInit /\ (which = "sched" => mach = Base)

InSched == which = "sched" /\ UNCHANGED <<which, tlbVars>>
InTlb == which = "tlb" /\ UNCHANGED <<which, vars>>

AllNext == (InSched /\ Next) \/ (InTlb /\ TlbNext)

\* with the fairness of Sched
AllSpec ==
    /\ AllInit /\ [][AllNext]_all
    /\ WF_all(InSched /\ YieldSwitch) /\ WF_all(InSched /\ HelpPop) /\ WF_all(InSched /\ TaskSwitch)
    /\ WF_all(InSched /\ FinishSwitch) /\ WF_all(InSched /\ (PauseDone \/ PauseTimeout)) /\ WF_all(InSched /\ SleepEnd)
    /\ WF_all(InSched /\ SmpTick)
    /\ \A c \in Aps : WF_all(InSched /\ ApStep(c))
=============================================================================
