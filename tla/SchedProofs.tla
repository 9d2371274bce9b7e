---------------------------- MODULE SchedProofs ----------------------------
(***************************************************************************)
(* What Sched guarantees for every number of tasks and cores: its types,   *)
(* that no two cores ever execute on one kernel stack, that pinned tasks   *)
(* stay, and, across one sleep of the machine, that no task is lost.       *)
(***************************************************************************)
EXTENDS Sched, TLAPS

\* a core's loop has a task's context between q_pop and the task's stop
Active == {"got", "on", "off"}

\* Where the boot core is decides whose stack it is on, whether g_prev is
\* set, and that only the current task is RUNNING and never AWAY.
BootInv ==
    /\ bpc # "switch" => stk = cur
    /\ bpc = "switch" => stk = prev
    /\ bpc \in {"switch", "landed"} => prev \in Threads /\ prev # cur
    /\ bpc \notin {"switch", "landed"} => prev = None
    /\ state[cur] # "AWAY" /\ state[Idle] # "AWAY"
    /\ prev \in Tasks /\ state[prev] = "AWAY" => cpu[prev] = "none"

\* A queued task is AWAY and nobody else has it.
QueueInv == \A t \in q : state[t] = "AWAY" /\ t # prev

\* A task with another core's loop is AWAY, not queued, not being switched
\* away from, and with one core only.
HeldInv ==
    \A c \in Aps : apc[c] \in Active =>
      /\ held[c] \in Tasks /\ state[held[c]] = "AWAY"
      /\ held[c] \notin q /\ held[c] # prev
      /\ \A d \in Aps : apc[d] \in Active /\ held[d] = held[c] => d = c

IInv == TypeOK /\ BootInv /\ QueueInv /\ HeldInv

USE SchedAssumption

\* The initial state satisfies the inductive invariant.
LEMMA InitIInv == Init => IInv
<1> SUFFICES ASSUME Init PROVE IInv
  OBVIOUS
<1>a. pause \in BOOLEAN  BY DEF Init
<1>b. pauses \in 0..MaxPauses  BY DEF Init
<1>1. TypeOK
  BY <1>a, <1>b DEF Init, TypeOK, Threads, States, BootPc, ApPc
<1>2. BootInv /\ QueueInv /\ HeldInv
  BY DEF Init, BootInv, QueueInv, HeldInv, Active, Threads
<1> QED  BY <1>1, <1>2 DEF IInv

\* An interrupt more or less keeps the pending kicks Booleans.
LEMMA QPushType ==
  ASSUME NEW t \in Tasks, q \subseteq Tasks, QPush(t)
  PROVE  q' \subseteq Tasks /\ kick' \in [Aps -> BOOLEAN]
  BY DEF QPush, Kicked

\* Every step keeps the types.
LEMMA NextTypeOK == TypeOK /\ QueueInv /\ HeldInv /\ [Next]_vars => TypeOK'
<1> SUFFICES ASSUME TypeOK, QueueInv, HeldInv, [Next]_vars PROVE TypeOK'
  OBVIOUS
<1> USE DEF TypeOK, boot, aps, sleep, Threads, States, BootPc, ApPc
<1>1. CASE TaskYield  BY <1>1 DEF TaskYield
<1>2. CASE TaskSleep  BY <1>2 DEF TaskSleep
<1>3. CASE TaskEnd  BY <1>3 DEF TaskEnd
<1>4. CASE YieldSwitch
  BY <1>4 DEF YieldSwitch, SwitchTo, PickNext, WakeExpired, Sleepers
<1>5. CASE YieldHelp  BY <1>5 DEF YieldHelp
<1>6. CASE HelpPop  BY <1>6 DEF HelpPop
<1>7. CASE TaskSwitch  BY <1>7 DEF TaskSwitch
<1>8. CASE FinishSwitch  BY <1>8 DEF FinishSwitch, QPush, Kicked
<1>9. CASE TaskPin  BY <1>9 DEF TaskPin
<1>10. CASE TaskOffload
  <2>1. PICK W \in SUBSET Sleepers(state),
             nxt \in Threads :
               SwitchTo(WakeExpired([state EXCEPT ![cur] = "AWAY"], W), [cpu EXCEPT ![cur] = "none"], nxt)
    BY <1>10 DEF TaskOffload, PickNext
  <2>2. state' \in [Threads -> States]
    BY <2>1 DEF SwitchTo, WakeExpired
  <2> QED  BY <1>10, <2>1, <2>2 DEF TaskOffload, SwitchTo
<1>11. CASE SmpPause  BY <1>11 DEF SmpPause
<1>12. CASE PauseDone  BY <1>12 DEF PauseDone
<1>17. CASE S3Resume  BY <1>17 DEF S3Resume
<1>16. CASE PauseTimeout \/ SleepEnd
  <2>1. SmpUnpause  BY <1>16 DEF PauseTimeout, SleepEnd
  <2>2. pause' \in BOOLEAN  BY <2>1 DEF SmpUnpause
  <2> QED  BY <2>1, <2>2 DEF SmpUnpause
<1>13. ASSUME NEW t \in Tasks, TaskCreate(t) PROVE TypeOK'  BY <1>13 DEF TaskCreate
<1>14. CASE SmpTick  BY <1>14 DEF SmpTick, Kicked
<1>15. ASSUME NEW c \in Aps, ApStep(c) \/ ApGoHome(c) \/ TlbKick(c) PROVE TypeOK'
  <2>1. CASE ApTop(c)  BY <2>1 DEF ApTop, Goto
  <2>2. CASE ApPark(c)  BY <2>2 DEF ApPark, Goto
  <2>3. CASE ApUnpark(c)  BY <2>3 DEF ApUnpark, Goto
  <2>4. CASE ApPop(c)  BY <2>4 DEF ApPop, Goto
  <2>5. CASE ApIdle(c)
    <3>1. idle' = idle \/ idle' = [idle EXCEPT ![c] = TRUE]  BY <2>5 DEF ApIdle
    <3>2. idle' \in [Aps -> BOOLEAN]  BY <3>1
    <3>3. apc' \in [Aps -> ApPc]  BY <2>5 DEF ApIdle, Goto
    <3> QED  BY <2>5, <3>2, <3>3 DEF ApIdle
  <2>6. CASE ApWake(c)  BY <2>6 DEF ApWake, Goto
  <2>7. CASE ApRun(c)  BY <2>7 DEF ApRun, Goto
  <2>8. CASE ApIpi(c)  BY <2>8 DEF ApIpi, ApSwitchOut, Goto
  <2>9. CASE ApGoHome(c)  BY <2>9 DEF ApGoHome, ApSwitchOut, Goto
  <2>10. CASE ApStopped(c)
    <3>1. held[c] \in Tasks  BY <2>10 DEF ApStopped, Goto, HeldInv, Active
    <3>2. CASE reason[c] = "REQUEUE"
      <4>1. q' \subseteq Tasks /\ kick' \in [Aps -> BOOLEAN]
        BY <2>10, <3>1, <3>2, QPushType DEF ApStopped
      <4> QED  BY <2>10, <3>1, <3>2, <4>1 DEF ApStopped, Goto
    <3>4. CASE reason[c] # "REQUEUE"
      BY <2>10, <3>1, <3>4 DEF ApStopped, Goto
    <3> QED  BY <3>2, <3>4
  <2>11. CASE TlbKick(c)  BY <2>11 DEF TlbKick
  <2> QED
    BY <1>15, <2>1, <2>2, <2>3, <2>4, <2>5, <2>6, <2>7, <2>8, <2>9, <2>10, <2>11 DEF ApStep
<1>19. CASE UNCHANGED vars  BY <1>19 DEF vars
<1> QED
  BY <1>1, <1>2, <1>3, <1>4, <1>5, <1>6, <1>7, <1>8, <1>9, <1>10, <1>11, <1>12, <1>13,
     <1>14, <1>15, <1>16, <1>17, <1>19 DEF Next, BootNext

\* A switch on the boot core from a state map st that only changed the
\* current task and woke sleepers.
LEMMA SwitchToIInv ==
  ASSUME IInv, NEW st \in [Threads -> States], NEW c \in [Threads -> {"boot", "none"} \union Aps],
         NEW nxt \in Threads, nxt = Idle \/ (nxt \in Tasks /\ st[nxt] = "READY"),
         SwitchTo(st, c, nxt), UNCHANGED <<q, apc, held>>,
         bpc \in {"run", "sched"},
         \A t \in Threads \ {cur} : state[t] = "AWAY" => st[t] = "AWAY",
         \A t \in Threads \ {cur} : st[t] = "AWAY" => state[t] = "AWAY" /\ c[t] = cpu[t],
         st[cur] = "AWAY" => cur \in Tasks /\ c[cur] = "none" /\ nxt # cur
  PROVE  BootInv' /\ QueueInv' /\ HeldInv'
<1> USE DEF IInv, TypeOK, Threads, States, BootPc
<1>1. prev = None /\ stk = cur /\ state[cur] # "AWAY"
  BY DEF BootInv
<1>2. BootInv'
  BY <1>1 DEF BootInv, SwitchTo
<1>3. QueueInv'
  BY <1>1 DEF QueueInv, SwitchTo
<1>4. HeldInv'
  BY <1>1 DEF HeldInv, SwitchTo
<1> QED  BY <1>2, <1>3, <1>4

\* Every step keeps the inductive invariant.
LEMMA NextIInv == IInv /\ [Next]_vars => IInv'
<1> SUFFICES ASSUME IInv, [Next]_vars PROVE BootInv' /\ QueueInv' /\ HeldInv'
  BY NextTypeOK DEF IInv
<1> USE DEF IInv, TypeOK, boot, aps, sleep, Threads, States, BootPc, ApPc
<1> DEFINE Goal == BootInv' /\ QueueInv' /\ HeldInv'
<1>1. CASE TaskYield \/ TaskSleep \/ TaskEnd
  <2>1. bpc = "run" /\ bpc' = "sched" /\ UNCHANGED <<cpu, cur, prev, stk, q, aps>>
    BY <1>1 DEF TaskYield, TaskSleep, TaskEnd
  <2>2. \E x \in States \ {"AWAY"} : state' = [state EXCEPT ![cur] = x]
    BY <1>1 DEF TaskYield, TaskSleep, TaskEnd
  <2> QED  BY <2>1, <2>2 DEF BootInv, QueueInv, HeldInv, Active
<1>2. CASE YieldSwitch
  <2>1. PICK W \in SUBSET Sleepers(state) :
          \E nxt \in PickNext(WakeExpired(state, W)) : SwitchTo(WakeExpired(state, W), cpu, nxt)
    BY <1>2 DEF YieldSwitch
  <2> DEFINE st == WakeExpired(state, W)
  <2>2. /\ st \in [Threads -> States]
        /\ \A t \in Threads : (st[t] = "AWAY") <=> (state[t] = "AWAY")
    BY <2>1 DEF WakeExpired, Sleepers
  <2>3. PICK nxt \in PickNext(st) : SwitchTo(st, cpu, nxt)
    BY <2>1
  <2>4. nxt \in Tasks /\ st[nxt] = "READY"
    BY <2>3 DEF PickNext
  <2>5. st[cur] # "AWAY" /\ bpc = "sched" /\ UNCHANGED <<q, apc, held>>
    BY <1>2, <2>2 DEF BootInv, YieldSwitch
  <2> HIDE DEF st
  <2> QED  BY <2>2, <2>3, <2>4, <2>5, SwitchToIInv
<1>3. CASE TaskOffload
  <2>1. bpc = "run" /\ cur \in Tasks /\ state[cur] # "AWAY" /\ UNCHANGED <<q, apc, held>>
    BY <1>3 DEF TaskOffload, BootInv
  <2>a. PICK W \in SUBSET Sleepers(state) :
          LET st == WakeExpired([state EXCEPT ![cur] = "AWAY"], W)
          IN  \E nxt \in (IF PickNext(st) = {} THEN {Idle} ELSE PickNext(st)) :
                SwitchTo(st, [cpu EXCEPT ![cur] = "none"], nxt)
    BY <1>3 DEF TaskOffload
  <2>2. PICK st \in {WakeExpired([state EXCEPT ![cur] = "AWAY"], W)},
             k \in {[cpu EXCEPT ![cur] = "none"]}, nxt \in Threads :
               /\ SwitchTo(st, k, nxt)
               /\ nxt = Idle \/ (nxt \in Tasks /\ st[nxt] = "READY")
    BY <2>a DEF PickNext, SwitchTo
  <2>3. st \in [Threads -> States] /\ k \in [Threads -> {"boot", "none"} \union Aps]
    BY <2>1, <2>2 DEF WakeExpired, Sleepers
  <2>4. /\ \A t \in Threads \ {cur} : (st[t] = "AWAY") <=> (state[t] = "AWAY")
        /\ k[cur] = "none" /\ \A t \in Threads \ {cur} : k[t] = cpu[t]
    BY <2>1, <2>2 DEF WakeExpired, Sleepers
  <2>5. st[cur] = "AWAY" => nxt # cur
    BY <2>1, <2>2
  <2> QED  BY <2>1, <2>2, <2>3, <2>4, <2>5, SwitchToIInv
<1>4. CASE YieldHelp  BY <1>4 DEF YieldHelp, BootInv, QueueInv, HeldInv
<1>5. CASE HelpPop
  <2>1. CASE q = {}  BY <1>5, <2>1 DEF HelpPop, BootInv, QueueInv, HeldInv
  <2>2. CASE q # {}
    <3>1. PICK s \in q : /\ q' = q \ {s}
                         /\ cpu' = [cpu EXCEPT ![s] = "boot"]
                         /\ state' = [state EXCEPT ![s] = "READY"]
      BY <1>5, <2>2 DEF HelpPop
    <3>2. s \in Tasks /\ state[s] = "AWAY" /\ s # prev
      BY <3>1 DEF QueueInv
    <3>3. bpc = "help" /\ bpc' = "sched" /\ UNCHANGED <<cur, prev, stk, apc, held>>
      BY <1>5 DEF HelpPop
    <3>4. BootInv'  BY <3>1, <3>2, <3>3 DEF BootInv
    <3>5. QueueInv'  BY <3>1, <3>2, <3>3 DEF QueueInv
    <3>6. HeldInv'  BY <3>1, <3>2, <3>3 DEF HeldInv, Active
    <3> QED  BY <3>4, <3>5, <3>6
  <2> QED  BY <2>1, <2>2
<1>6. CASE TaskSwitch  BY <1>6 DEF TaskSwitch, BootInv, QueueInv, HeldInv
<1>7. CASE FinishSwitch
  BY <1>7 DEF FinishSwitch, QPush, BootInv, QueueInv, HeldInv
<1>8. CASE TaskPin  BY <1>8 DEF TaskPin, BootInv, QueueInv, HeldInv
<1>9. CASE SmpPause  BY <1>9 DEF SmpPause, BootInv, QueueInv, HeldInv
<1>10. CASE PauseDone  BY <1>10 DEF PauseDone, BootInv, QueueInv, HeldInv
<1>11. CASE PauseTimeout \/ SleepEnd
  BY <1>11 DEF PauseTimeout, SleepEnd, SmpUnpause, BootInv, QueueInv, HeldInv
<1>12. CASE S3Resume  BY <1>12 DEF S3Resume, BootInv, QueueInv, HeldInv, Active
<1>13. ASSUME NEW t \in Tasks, TaskCreate(t) PROVE Goal
  BY <1>13 DEF TaskCreate, BootInv, QueueInv, HeldInv
<1>14. CASE SmpTick  BY <1>14 DEF SmpTick, BootInv, QueueInv, HeldInv
<1>15. ASSUME NEW c \in Aps, ApStep(c) \/ ApGoHome(c) \/ TlbKick(c) PROVE Goal
  <2> USE DEF Goto, BootInv, QueueInv, HeldInv, Active
  <2>1. CASE ApTop(c)  BY <2>1 DEF ApTop
  <2>2. CASE ApPark(c)  BY <2>2 DEF ApPark
  <2>3. CASE ApUnpark(c)  BY <2>3 DEF ApUnpark
  <2>4. CASE ApPop(c)  BY <2>4 DEF ApPop
  <2>5. CASE ApIdle(c)
    <3>1. UNCHANGED <<state, cpu, boot, q, held>> /\ \E pc \in ApPc \ Active : apc' = [apc EXCEPT ![c] = pc]
      BY <2>5 DEF ApIdle
    <3> QED  BY <3>1
  <2>6. CASE ApWake(c)  BY <2>6 DEF ApWake
  <2>7. CASE ApRun(c)  BY <2>7 DEF ApRun
  <2>8. CASE ApIpi(c)  BY <2>8 DEF ApIpi, ApSwitchOut
  <2>9. CASE ApGoHome(c)  BY <2>9 DEF ApGoHome, ApSwitchOut
  <2>10. CASE ApStopped(c)  BY <2>10 DEF ApStopped, QPush
  <2>11. CASE TlbKick(c)  BY <2>11 DEF TlbKick
  <2> QED
    BY <1>15, <2>1, <2>2, <2>3, <2>4, <2>5, <2>6, <2>7, <2>8, <2>9, <2>10, <2>11 DEF ApStep
<1>19. CASE UNCHANGED vars  BY <1>19 DEF vars, BootInv, QueueInv, HeldInv
<1> QED
  BY <1>1, <1>2, <1>3, <1>4, <1>5, <1>6, <1>7, <1>8, <1>9, <1>10, <1>11, <1>12, <1>13,
     <1>14, <1>15, <1>19 DEF Next, BootNext

\* The inductive invariant holds in every reachable state.
THEOREM Invariance == Spec => []IInv
  BY InitIInv, NextIInv, PTL DEF Spec

\* Types, for every number of tasks and cores.
THEOREM TypeCorrect == Spec => []TypeOK
<1>1. IInv => TypeOK  BY DEF IInv
<1> QED  BY Invariance, <1>1, PTL

\* No two cores ever execute on one task's kernel stack, and only tasks whose
\* context is saved can be started: for every number of tasks, cores, sleeps.
THEOREM StacksExclusive == Spec => []OneStack
<1>1. IInv => OneStack
  BY DEF IInv, TypeOK, BootInv, QueueInv, HeldInv, Active, OneStack, OnStack, Threads
<1> QED  BY Invariance, <1>1, PTL

-----------------------------------------------------------------------------
(* Pinned tasks *)

\* A pinned task is not AWAY; that it is not queued follows from QueueInv.
PinInv == \A t \in pinned : state[t] # "AWAY"

\* Every step keeps it: only task_offload makes a task AWAY, one that is not
\* pinned, and task_pin pins the current task, which is not AWAY.
LEMMA NextPinInv == IInv /\ PinInv /\ [Next]_vars => PinInv'
<1> SUFFICES ASSUME IInv, PinInv, [Next]_vars PROVE PinInv'
  OBVIOUS
<1> USE DEF IInv, TypeOK, boot, aps, sleep, Threads, States
<1>1. CASE TaskYield \/ TaskSleep \/ TaskEnd
  BY <1>1 DEF TaskYield, TaskSleep, TaskEnd, PinInv
<1>2. CASE YieldSwitch
  BY <1>2 DEF YieldSwitch, SwitchTo, WakeExpired, PickNext, PinInv
<1>3. CASE TaskOffload
  <2>1. cur \notin pinned /\ pinned' = pinned  BY <1>3 DEF TaskOffload
  <2>2. PICK W \in SUBSET Sleepers(state), nxt \in Threads :
               SwitchTo(WakeExpired([state EXCEPT ![cur] = "AWAY"], W), [cpu EXCEPT ![cur] = "none"], nxt)
    BY <1>3 DEF TaskOffload, PickNext
  <2> QED  BY <2>1, <2>2 DEF SwitchTo, WakeExpired, PinInv
<1>4. CASE YieldHelp \/ TaskSwitch \/ FinishSwitch
  BY <1>4 DEF YieldHelp, TaskSwitch, FinishSwitch, PinInv
<1>5. CASE HelpPop  BY <1>5 DEF HelpPop, PinInv
<1>6. CASE TaskPin  BY <1>6 DEF TaskPin, BootInv, PinInv
<1>7. CASE SmpPause \/ PauseDone \/ PauseTimeout \/ S3Resume \/ SleepEnd
  BY <1>7 DEF SmpPause, PauseDone, PauseTimeout, S3Resume, SleepEnd, SmpUnpause, PinInv
<1>8. ASSUME NEW t \in Tasks, TaskCreate(t) PROVE PinInv'
  BY <1>8 DEF TaskCreate, PinInv
<1>9. CASE SmpTick  BY <1>9 DEF SmpTick, PinInv
<1>10. ASSUME NEW c \in Aps, ApStep(c) \/ ApGoHome(c) \/ TlbKick(c) PROVE PinInv'
  <2>1. CASE ApStopped(c)
    <3>1. pinned' = pinned /\ \A t \in Threads : state'[t] = "AWAY" => state[t] = "AWAY"
      BY <2>1 DEF ApStopped, HeldInv, Active
    <3> QED  BY <3>1 DEF PinInv
  <2>2. CASE ~ApStopped(c)
    BY <1>10, <2>2 DEF ApStep, ApTop, ApPark, ApUnpark, ApPop, ApIdle, ApWake, ApRun, ApIpi,
                       ApSwitchOut, ApGoHome, TlbKick, PinInv
  <2> QED  BY <2>1, <2>2
<1>11. CASE UNCHANGED vars  BY <1>11 DEF vars, PinInv
<1> QED
  BY <1>1, <1>2, <1>3, <1>4, <1>5, <1>6, <1>7, <1>8, <1>9, <1>10, <1>11 DEF Next, BootNext

\* A pinned task never leaves the boot core: for every number of tasks,
\* cores and sleeps, however slots are reused.
THEOREM PinsHold == Spec => []PinnedStay
<1>1. Init => PinInv  BY DEF Init, PinInv, Threads
<1>2. IInv /\ PinInv => PinnedStay  BY DEF IInv, QueueInv, PinInv, PinnedStay
<1> QED  BY Invariance, NextPinInv, <1>1, <1>2, PTL DEF Spec

-----------------------------------------------------------------------------
(* No task is lost, as long as the machine is asked to sleep at most once *)
(* (with a second request the parked flag of the first can be stale).     *)

\* The cores' loops hold exactly the tasks they are running, and an AWAY
\* task is somewhere.
PlaceInv ==
    /\ \A c \in Aps : apc[c] \notin Active => held[c] = None
    /\ \A t \in Tasks : state[t] = "AWAY" => t \in q \/ t = prev \/ \E c \in Aps : held[c] = t

\* While a sleep is under way every core that says it is parked stays in the
\* parking branch of its loop.
SleepInv ==
    /\ bpc \in {"pausing", "paused", "resumed"} => pause = TRUE
    /\ pauses = 0 => /\ bpc \notin {"pausing", "paused", "resumed"}
                     /\ \A c \in Aps : parked[c] = FALSE
    /\ bpc \in {"pausing", "paused"} =>
         \A c \in Aps : parked[c] = TRUE => apc[c] \in {"top", "park", "parkhlt"}
    /\ bpc = "paused" => \A c \in Aps : parked[c] = TRUE
    /\ pauses = 0 => pause = FALSE /\ \A c \in Aps : apc[c] # "park"

SInv == IInv /\ PlaceInv /\ SleepInv

\* The initial state satisfies the invariant about sleeping.
LEMMA InitSInv == Init => SInv
  BY InitIInv DEF SInv, Init, PlaceInv, SleepInv, Active, Threads

\* Every step keeps the parking protocol's part of it.
LEMMA NextSleepInv == MaxPauses <= 1 /\ SInv /\ [Next]_vars => SleepInv'
<1> SUFFICES ASSUME MaxPauses <= 1, SInv, [Next]_vars PROVE SleepInv'
  OBVIOUS
<1> USE DEF SInv, IInv, TypeOK, boot, aps, sleep, BootPc, ApPc
<1>1. CASE TaskYield \/ TaskSleep \/ TaskEnd
  BY <1>1 DEF TaskYield, TaskSleep, TaskEnd, SleepInv
<1>2. CASE YieldSwitch \/ TaskOffload
  <2>1. bpc \in {"run", "sched"} /\ bpc' \in {"run", "switch"} /\ UNCHANGED <<aps, sleep>>
    BY <1>2 DEF YieldSwitch, TaskOffload, SwitchTo
  <2> QED  BY <2>1 DEF SleepInv
<1>4. CASE YieldHelp \/ HelpPop \/ TaskSwitch \/ FinishSwitch
  BY <1>4 DEF YieldHelp, HelpPop, TaskSwitch, FinishSwitch, SleepInv
<1>8. CASE TaskPin  BY <1>8 DEF TaskPin, SleepInv
<1>9. CASE SmpPause
  <2>1. pauses = 0  BY <1>9 DEF SmpPause
  <2> QED  BY <1>9, <2>1 DEF SmpPause, SleepInv
<1>10. CASE PauseDone  BY <1>10 DEF PauseDone, AllParked, SleepInv
<1>11. CASE PauseTimeout \/ SleepEnd
  BY <1>11 DEF PauseTimeout, SleepEnd, SmpUnpause, SleepInv
<1>12. CASE S3Resume  BY <1>12 DEF S3Resume, SleepInv
<1>13. ASSUME NEW t \in Tasks, TaskCreate(t) PROVE SleepInv'
  BY <1>13 DEF TaskCreate, SleepInv
<1>14. CASE SmpTick  BY <1>14 DEF SmpTick, SleepInv
<1>15. ASSUME NEW c \in Aps, ApStep(c) \/ ApGoHome(c) \/ TlbKick(c) PROVE SleepInv'
  <2> USE DEF Goto, SleepInv
  <2>1. CASE ApTop(c)  BY <2>1 DEF ApTop
  <2>2. CASE ApPark(c)  BY <2>2 DEF ApPark
  <2>3. CASE ApUnpark(c)  BY <2>3 DEF ApUnpark
  <2>4. CASE ApPop(c)  BY <2>4 DEF ApPop
  <2>5. CASE ApIdle(c)
    <3>1. UNCHANGED <<boot, parked, sleep>> /\ apc[c] \in {"empty", "late", "check"}
          /\ \E pc \in ApPc \ {"park"} : apc' = [apc EXCEPT ![c] = pc]
      BY <2>5 DEF ApIdle
    <3> QED  BY <3>1
  <2>6. CASE ApWake(c)  BY <2>6 DEF ApWake
  <2>7. CASE ApRun(c)  BY <2>7 DEF ApRun
  <2>8. CASE ApIpi(c)  BY <2>8 DEF ApIpi, ApSwitchOut
  <2>9. CASE ApGoHome(c)  BY <2>9 DEF ApGoHome, ApSwitchOut
  <2>10. CASE ApStopped(c)  BY <2>10 DEF ApStopped
  <2>11. CASE TlbKick(c)  BY <2>11 DEF TlbKick
  <2> QED
    BY <1>15, <2>1, <2>2, <2>3, <2>4, <2>5, <2>6, <2>7, <2>8, <2>9, <2>10, <2>11 DEF ApStep
<1>19. CASE UNCHANGED vars  BY <1>19 DEF vars, SleepInv
<1> QED
  BY <1>1, <1>2, <1>4, <1>8, <1>9, <1>10, <1>11, <1>12, <1>13, <1>14, <1>15, <1>19
  DEF Next, BootNext

\* Every step keeps every AWAY task somewhere.
LEMMA NextPlaceInv == SInv /\ [Next]_vars => PlaceInv'
<1> SUFFICES ASSUME SInv, [Next]_vars PROVE PlaceInv'
  OBVIOUS
<1> USE DEF SInv, IInv, TypeOK, boot, aps, sleep, Threads, States, BootPc, ApPc
<1>1. CASE TaskYield \/ TaskSleep \/ TaskEnd
  BY <1>1 DEF TaskYield, TaskSleep, TaskEnd, PlaceInv, Active
<1>2. CASE YieldSwitch \/ TaskOffload
  <2>1. bpc \in {"run", "sched"} /\ UNCHANGED <<q, apc, held>>
    BY <1>2 DEF YieldSwitch, TaskOffload
  <2>2. \A t \in Tasks : state'[t] = "AWAY" => state[t] = "AWAY" \/ (t = cur /\ prev' = cur)
    <3>1. CASE YieldSwitch
      BY <3>1 DEF YieldSwitch, SwitchTo, WakeExpired, Sleepers, PickNext
    <3>2. CASE TaskOffload
      <4>1. PICK W \in SUBSET Sleepers(state) :
              LET st == WakeExpired([state EXCEPT ![cur] = "AWAY"], W)
              IN  \E nxt \in (IF PickNext(st) = {} THEN {Idle} ELSE PickNext(st)) :
                    SwitchTo(st, [cpu EXCEPT ![cur] = "none"], nxt)
        BY <3>2 DEF TaskOffload
      <4>2. cur \in Tasks
        BY <3>2 DEF TaskOffload
      <4> QED  BY <4>1, <4>2 DEF SwitchTo, WakeExpired, PickNext
    <3> QED  BY <1>2, <3>1, <3>2
  <2>3. prev = None  BY <2>1 DEF BootInv
  <2> QED  BY <2>1, <2>2, <2>3 DEF PlaceInv
<1>4. CASE YieldHelp \/ HelpPop \/ TaskSwitch
  BY <1>4 DEF YieldHelp, HelpPop, TaskSwitch, PlaceInv
<1>5. CASE FinishSwitch
  <2>1. prev \in Tasks /\ state[prev] = "AWAY" => cpu[prev] = "none"  BY DEF BootInv
  <2> QED  BY <1>5, <2>1 DEF FinishSwitch, QPush, PlaceInv
<1>8. CASE TaskPin  BY <1>8 DEF TaskPin, PlaceInv
<1>9. CASE SmpPause  BY <1>9 DEF SmpPause, PlaceInv
<1>10. CASE PauseDone  BY <1>10 DEF PauseDone, PlaceInv
<1>11. CASE PauseTimeout \/ SleepEnd
  BY <1>11 DEF PauseTimeout, SleepEnd, SmpUnpause, PlaceInv
<1>12. CASE S3Resume
  <2>1. \A c \in Aps : held[c] = None
    BY <1>12 DEF S3Resume, SleepInv, PlaceInv, Active
  <2> QED  BY <1>12, <2>1 DEF S3Resume, PlaceInv, Active
<1>13. ASSUME NEW t \in Tasks, TaskCreate(t) PROVE PlaceInv'
  BY <1>13 DEF TaskCreate, PlaceInv
<1>14. CASE SmpTick  BY <1>14 DEF SmpTick, PlaceInv
<1>15. ASSUME NEW c \in Aps, ApStep(c) \/ ApGoHome(c) \/ TlbKick(c) PROVE PlaceInv'
  <2> USE DEF Goto, PlaceInv, Active
  <2>1. CASE ApTop(c)  BY <2>1 DEF ApTop
  <2>2. CASE ApPark(c)  BY <2>2 DEF ApPark
  <2>3. CASE ApUnpark(c)  BY <2>3 DEF ApUnpark
  <2>4. CASE ApPop(c)  BY <2>4 DEF ApPop
  <2>5. CASE ApIdle(c)  BY <2>5 DEF ApIdle
  <2>6. CASE ApWake(c)  BY <2>6 DEF ApWake
  <2>7. CASE ApRun(c)  BY <2>7 DEF ApRun
  <2>8. CASE ApIpi(c)  BY <2>8 DEF ApIpi, ApSwitchOut
  <2>9. CASE ApGoHome(c)  BY <2>9 DEF ApGoHome, ApSwitchOut
  <2>10. CASE ApStopped(c)  BY <2>10 DEF ApStopped, QPush, HeldInv
  <2>11. CASE TlbKick(c)  BY <2>11 DEF TlbKick
  <2> QED
    BY <1>15, <2>1, <2>2, <2>3, <2>4, <2>5, <2>6, <2>7, <2>8, <2>9, <2>10, <2>11 DEF ApStep
<1>19. CASE UNCHANGED vars  BY <1>19 DEF vars, PlaceInv
<1> QED
  BY <1>1, <1>2, <1>4, <1>5, <1>8, <1>9, <1>10, <1>11, <1>12, <1>13, <1>14, <1>15, <1>19
  DEF Next, BootNext

\* With at most one sleep, the invariant about sleeping holds throughout.
THEOREM SleepInvariance == MaxPauses <= 1 => (Spec => []SInv)
<1> SUFFICES ASSUME MaxPauses <= 1 PROVE Spec => []SInv
  OBVIOUS
<1>1. SInv /\ [Next]_vars => SInv'
  BY NextIInv, NextSleepInv, NextPlaceInv DEF SInv
<1> QED  BY InitSInv, <1>1, PTL DEF Spec

\* A task away from the boot core is always in exactly one place from which
\* it will be run again, across a sleep of the machine too.
THEOREM TasksKept == MaxPauses <= 1 => (Spec => []NoTaskLost)
<1> SUFFICES ASSUME MaxPauses <= 1 PROVE Spec => []NoTaskLost
  OBVIOUS
<1>1. SInv => NoTaskLost
  <2> SUFFICES ASSUME SInv, NEW t \in Tasks, state[t] = "AWAY"
      PROVE  NoTaskLost!(t)!2
    BY DEF NoTaskLost
  <2> QED  BY DEF SInv, IInv, TypeOK, PlaceInv, BootInv, QueueInv, HeldInv, Active
<1> QED  BY SleepInvariance, <1>1, PTL

\* When task_smp_pause has succeeded once, the other cores have no task.
THEOREM PauseParks == MaxPauses <= 1 => (Spec => []PausedMeansParked)
<1> SUFFICES ASSUME MaxPauses <= 1 PROVE Spec => []PausedMeansParked
  OBVIOUS
<1>1. SInv => PausedMeansParked
  BY DEF SInv, SleepInv, PlaceInv, Active, PausedMeansParked
<1> QED  BY SleepInvariance, <1>1, PTL

=============================================================================
