------------------------------ MODULE MCWaits ------------------------------
(***************************************************************************)
(* Those who wait: threads at a mutex over the kernel's wait and wake      *)
(* (Mutex) and at the objects built on it (Sync), and tasks at a disk      *)
(* (Disk).  They share no state here, so a behaviour is one of them, and   *)
(* the others stay as they started: which.                                 *)
(***************************************************************************)
EXTENDS Mutex, Sync, Disk, TLC

CONSTANTS t1, t2, t3

VARIABLE which

\* two threads nest, one by one, or three threads contend for the one entry
Contended == {
    [kind |-> "normal", slots |-> 1, calls |-> t1 :> 1 @@ t2 :> 1 @@ t3 :> 1],
    [kind |-> "recursive", slots |-> 1, calls |-> t1 :> 2 @@ t2 :> 1 @@ t3 :> 0],
    [kind |-> "errorcheck", slots |-> 2, calls |-> t1 :> 2 @@ t2 :> 1 @@ t3 :> 0] }

ASSUME WaitConstants == MutexAssumption /\ SyncAssumption /\ DiskAssumption

all == <<which, vars, syncVars, diskVars>>

\* what is not looked at has one initial state
AllInit ==
    /\ which \in {"mutex", "sync", "disk"}
    /\ Init /\ SyncInit /\ DiskInit
    /\ which = "mutex" \/ kind = "normal"
    /\ which = "sync" \/ obj = "cond"
    /\ which = "disk" \/ (drv = "nvme" /\ irq)

InMutex == which = "mutex" /\ UNCHANGED <<which, syncVars, diskVars>>
InSync == which = "sync" /\ UNCHANGED <<which, vars, diskVars>>
InDisk == which = "disk" /\ UNCHANGED <<which, vars, syncVars>>

AllNext ==
    \/ InMutex /\ Next
    \/ InSync /\ SyncNext
    \/ InDisk /\ DiskNext

\* the fairness of Mutex, Sync and Disk, each for its own behaviours
Goes1 == (InMutex /\ Step(t1)) \/ (InSync /\ Goes(t1)) \/ (InDisk /\ Waiting(t1))
Goes2 == (InMutex /\ Step(t2)) \/ (InSync /\ Goes(t2)) \/ (InDisk /\ Waiting(t2))
Goes3 == (InMutex /\ Step(t3)) \/ (InSync /\ Goes(t3)) \/ (InDisk /\ TimePasses)

AllSpec ==
    AllInit /\ [][AllNext]_all /\ WF_all(Goes1) /\ WF_all(Goes2) /\ WF_all(Goes3)

-----------------------------------------------------------------------------
(* Properties: those of Mutex, Sync and Disk, and one of all three *)

\* who waits: a thread in a lock call or in one of the objects' calls, a task
\* with a disk command
InCall(t) ==
    CASE which = "mutex" -> pc[t] # "app"
      [] which = "sync" -> spc[t] \notin {"app", "oncedone"}
      [] which = "disk" -> t # t3 /\ dpc[t] # "app"

\* Whoever waits goes on: a lock call comes back though its wake was lost,
\* so does a call on the objects built on it, and a disk command whose
\* interrupt came early or not at all.
WaitsEnd == \A t \in Threads : InCall(t) ~> ~InCall(t)
=============================================================================
