---------------------------- MODULE SleepProofs ----------------------------
(***************************************************************************)
(* What task_sleep_ms, wake_expired and task_wake promise for every number *)
(* of tasks and cores and wherever milliseconds wrap around, as long as a  *)
(* sleep and the scheduler's delay together stay below half the wrap.      *)
(***************************************************************************)
EXTENDS Sleep, TLAPS

Times == 0..(W - 1)

H == W \div 2

-----------------------------------------------------------------------------
(* Differences of times that wrap around *)

LEMMA Half == H \in Nat /\ W = 2 * H /\ MaxLate + MaxSleep < H - 1 /\ MaxLate \in Nat /\ MaxSleep \in Nat
  BY SleepAssumption DEF H

LEMMA DiffIs ==
  ASSUME NEW a \in Times, NEW b \in Times
  PROVE  /\ a - b >= H => Diff(a, b) = a - b - W
         /\ a - b < H /\ a - b >= -H => Diff(a, b) = a - b
         /\ a - b < -H => Diff(a, b) = a - b + W
<1>1. (a - b) % W = IF a >= b THEN a - b ELSE a - b + W
  BY Half DEF Times
<1> QED  BY <1>1, Half DEF Diff, Times, H

LEMMA DiffRange ==
  ASSUME NEW a \in Times, NEW b \in Times
  PROVE  /\ Diff(a, b) \in Int /\ -H <= Diff(a, b) /\ Diff(a, b) < H
         /\ Diff(a, a) = 0
         /\ Diff(a, b) # -H => Diff(b, a) = -Diff(a, b)
<1> USE DEF Times
<1> QED  BY DiffIs, Half

LEMMA DiffAdds ==
  ASSUME NEW a \in Times, NEW b \in Times, NEW c \in Times,
         -H <= Diff(a, b) + Diff(b, c), Diff(a, b) + Diff(b, c) < H
  PROVE  Diff(a, c) = Diff(a, b) + Diff(b, c)
<1> USE DEF Times
<1> QED  BY DiffIs, Half

LEMMA Later ==
  ASSUME NEW a \in Times, NEW n \in Nat, n < H
  PROVE  /\ (a + n) % W \in Times
         /\ Diff((a + n) % W, a) = n
<1>1. (a + n) % W = IF a + n < W THEN a + n ELSE a + n - W  BY Half DEF Times
<1>2. (a + n) % W \in Times  BY <1>1, Half DEF Times
<1> DEFINE b == (a + n) % W
<1>3. b \in Times /\ b = IF a + n < W THEN a + n ELSE a + n - W  BY <1>1, <1>2
<1> HIDE DEF b
<1>4. Diff(b, a) = n  BY <1>3, DiffIs, Half DEF Times
<1> QED  BY <1>2, <1>4, Zenon DEF b

\* wake_expired's comparison finds the earlier of two times after a, if the
\* one to beat is less than half the wrap away.
LEMMA EarlierIs ==
  ASSUME NEW a \in Times, NEW x \in Times, NEW y \in Times,
         Diff(a, x) < 0, -H < Diff(a, y), Diff(a, y) < 0
  PROVE  Diff(x, y) < 0 <=> Diff(a, y) < Diff(a, x)
<1> USE DEF Times
<1> QED  BY DiffIs, Half

-----------------------------------------------------------------------------
(* The invariant *)

SleepTypes ==
    /\ now \in Times /\ next \in Times /\ own \in Times /\ until \in [Tasks -> Times]
    /\ scan \in [i : Nat, now : Times, sleepers : Nat, next : Times]
    /\ state \in [Tasks -> {"running", "ready", "sleeping"}] /\ cur \in Tasks
    /\ pending \in BOOLEAN /\ have \in BOOLEAN /\ buf \in BOOLEAN
    /\ pc \in {"task", "deadline", "asleep", "yield", "scan", "scanned", "pick", "halt"}
    /\ pc = "task" => state[cur] = "running"
    /\ pc = "scan" => scan.i \in Tasks
    /\ pc = "scanned" => scan.i = NTasks + 1

Sleeping == {t \in Tasks : state[t] = "sleeping"}

\* Time goes on a little during a scan, and no deadline of a sleeper passes
\* from "long ago" to "far ahead" by it.
ScanInv ==
    pc \in {"scan", "scanned"} =>
      /\ Diff(now, scan.now) \in 0..MaxLate
      /\ \A t \in Sleeping : Diff(now, until[t]) = Diff(scan.now, until[t]) + Diff(now, scan.now)

NoWakers == up = {} => \A c \in Cores : wake[c] = None

\* The scan so far: its next deadline is no later than any it has passed,
\* and no more than 1 ms earlier than all of them.
ScannedBefore ==
    /\ -H < Diff(scan.now, scan.next) /\ Diff(scan.now, scan.next) < 0
    /\ \A t \in Sleeping : t < scan.i => Diff(scan.now, until[t]) <= Diff(scan.now, scan.next)
    /\ scan.sleepers = 0 => Diff(scan.now, scan.next) = 1 - H /\ \A t \in Sleeping : ~(t < scan.i)
    /\ scan.sleepers # 0 =>
         \E t \in Sleeping : t < scan.i /\ Diff(scan.now, scan.next) <= Diff(scan.now, until[t]) + 1

FoundInv == up = {} /\ pc \in {"scan", "scanned"} => Pending \/ ScannedBefore

\* The same of g_next_wake, once the scan is over.
NextBefore ==
    /\ \A t \in Sleeping : have /\ Diff(now, until[t]) <= Diff(now, next)
    /\ have => \E t \in Sleeping : Diff(now, next) <= Diff(now, until[t]) + 1

SeenInv == up = {} /\ pc \in {"pick", "task"} => Pending \/ NextBefore

SleepInv == SleepTypes /\ ScanInv /\ NoWakers /\ FoundInv /\ SeenInv

LEMMA SleepInitInv ==
  ASSUME Init
  PROVE  SleepInv
<1>1. 0 \in Times /\ 1 \in Tasks  BY SleepAssumption, Half DEF Times, Tasks
<1>2. SleepTypes  BY <1>1 DEF Init, SleepTypes, NoScan
<1>3. Sleeping = {} /\ pc = "task" /\ ~have  BY <1>1 DEF Init, Sleeping
<1>4. ScanInv /\ FoundInv /\ SeenInv  BY <1>3 DEF ScanInv, FoundInv, SeenInv, NextBefore
<1>5. NoWakers  BY DEF Init, NoWakers
<1> QED  BY <1>2, <1>4, <1>5 DEF SleepInv

-----------------------------------------------------------------------------
(* The clock and task_wake *)

LEMMA TickKeeps ==
  ASSUME SleepInv, Tick
  PROVE  SleepInv'
<1> USE DEF SleepInv
<1>1. /\ now' = (now + 1) % W /\ UNCHANGED <<state, until, cur, own, scan, pending, next, have, buf, wake, up>>
      /\ pc' = pc \/ (pc = "halt" /\ pc' = "yield")
  BY DEF Tick, Interrupted, sched
<1>2. now' \in Times /\ Diff(now', now) = 1  BY <1>1, Half, Later DEF SleepTypes
<1>3. ASSUME NEW x \in Times, Diff(now, x) < H - 1  PROVE Diff(now', x) = Diff(now, x) + 1
  BY <1>2, <1>3, DiffRange, DiffAdds, Half DEF SleepTypes
<1>4. SleepTypes'  BY <1>1, <1>2 DEF SleepTypes
<1>5. Sleeping' = Sleeping  BY <1>1 DEF Sleeping
<1>6. ASSUME pc # "halt", NEW t \in Sleeping
      PROVE  until[t] \in Times /\ Diff(now, until[t]) \in Int /\ Diff(now, until[t]) < MaxLate
             /\ Diff(now', until[t]) = Diff(now, until[t]) + 1
  <2>1. until[t] \in Times /\ Diff(now, until[t]) < MaxLate  BY <1>6 DEF Tick, Sleeping, SleepTypes
  <2> QED  BY <1>3, <2>1, Half, DiffRange DEF SleepTypes
<1>7. ScanInv'
  <2> SUFFICES ASSUME pc \in {"scan", "scanned"}
               PROVE  /\ Diff(now', scan.now) \in 0..MaxLate
                      /\ \A t \in Sleeping :
                           Diff(now', until[t]) = Diff(scan.now, until[t]) + Diff(now', scan.now)
    BY <1>1, <1>5 DEF ScanInv
  <2>1. Diff(now, scan.now) < MaxLate /\ Diff(now, scan.now) \in 0..MaxLate  BY DEF Tick, ScanInv
  <2>2. Diff(now', scan.now) = Diff(now, scan.now) + 1  BY <1>3, <2>1, Half DEF SleepTypes
  <2>3. \A t \in Sleeping : Diff(scan.now, until[t]) \in Int  BY <1>6, DiffRange DEF SleepTypes
  <2> QED  BY <1>6, <2>1, <2>2, <2>3, Half DEF ScanInv
<1>8. NoWakers' /\ FoundInv'
  BY <1>1, <1>5 DEF NoWakers, FoundInv, ScannedBefore, Pending
<1>9. SeenInv'
  <2> SUFFICES ASSUME up = {}, pc \in {"pick", "task"}, NextBefore  PROVE NextBefore'
    BY <1>1 DEF SeenInv, Pending
  <2>1. next \in Times /\ Diff(now, next) \in Int  BY DiffRange DEF SleepTypes
  <2>2. have => Diff(now', next) = Diff(now, next) + 1
    <3> SUFFICES ASSUME have  PROVE Diff(now, next) < H - 1
      BY <1>3, <2>1
    <3> PICK t \in Sleeping : Diff(now, next) <= Diff(now, until[t]) + 1  BY DEF NextBefore
    <3> QED  BY <1>6, <2>1, Half
  <2> QED  BY <1>1, <1>5, <1>6, <2>1, <2>2 DEF NextBefore
<1> QED  BY <1>4, <1>7, <1>8, <1>9

\* A deadline that is moved to now fits in with a scan that is under way.
LEMMA MovedFits ==
  ASSUME SleepTypes, ScanInv, pc \in {"scan", "scanned"}
  PROVE  Diff(now, now) = Diff(scan.now, now) + Diff(now, scan.now)
  BY DiffRange, Half DEF SleepTypes, ScanInv

LEMMA IrqWakeKeeps ==
  ASSUME SleepInv, NEW t \in Tasks, IrqWake(t)
  PROVE  SleepInv'
<1> USE DEF SleepInv
<1>1. /\ until' = [until EXCEPT ![t] = now] /\ pending' = TRUE /\ buf' = FALSE
      /\ UNCHANGED <<now, state, cur, own, scan, next, have, wake, up>>
      /\ pc' = pc \/ (pc = "halt" /\ pc' = "yield")
  BY DEF IrqWake, Interrupted
<1>2. SleepTypes'  BY <1>1 DEF SleepTypes
<1>3. Sleeping' = Sleeping  BY <1>1 DEF Sleeping
<1>4. ScanInv'  BY <1>1, <1>3, MovedFits DEF ScanInv, Sleeping, SleepTypes
<1>5. NoWakers' /\ FoundInv' /\ SeenInv'  BY <1>1 DEF NoWakers, FoundInv, SeenInv, Pending
<1> QED  BY <1>2, <1>4, <1>5

LEMMA CoreStepKeeps ==
  ASSUME SleepInv, CoreStep
  PROVE  SleepInv'
<1> USE DEF SleepInv
<1>1. /\ UNCHANGED <<now, state, cur, pc, own, scan, next, have, buf, up>>
      /\ pending' \in BOOLEAN
      /\ until' = until \/ \E t : until' = [until EXCEPT ![t] = now]
  BY DEF CoreStep, CoreWake, CoreMove, CorePending, sched, SleepTypes
<1>2. up # {}
  BY DEF CoreStep, CoreWake, CoreMove, CorePending, NoWakers
<1>3. SleepTypes'  BY <1>1 DEF SleepTypes
<1>4. Sleeping' = Sleeping  BY <1>1 DEF Sleeping
<1>5. ScanInv'  BY <1>1, <1>4, MovedFits DEF ScanInv, Sleeping, SleepTypes
<1>6. NoWakers' /\ FoundInv' /\ SeenInv'  BY <1>1, <1>2 DEF NoWakers, FoundInv, SeenInv
<1> QED  BY <1>3, <1>5, <1>6

LEMMA DrainKeeps ==
  ASSUME SleepInv, Drain
  PROVE  SleepInv'
<1> USE DEF SleepInv
<1>1. /\ buf /\ buf' = FALSE /\ pending' = FALSE
      /\ UNCHANGED <<now, state, until, cur, pc, own, scan, next, have, wake, up>>
  BY DEF Drain
<1>2. SleepTypes'  BY <1>1 DEF SleepTypes
<1>3. Sleeping' = Sleeping  BY <1>1 DEF Sleeping
<1>4. ScanInv' /\ NoWakers'  BY <1>1, <1>3 DEF ScanInv, NoWakers
<1>5. FoundInv'  BY <1>1, <1>3 DEF FoundInv, ScannedBefore, Pending
<1>6. SeenInv'  BY <1>1, <1>3 DEF SeenInv, NextBefore, Pending
<1> QED  BY <1>2, <1>4, <1>5, <1>6

-----------------------------------------------------------------------------
(* task_sleep_ms and task_yield *)

\* A step of the boot core to a place where nobody relies on g_next_wake.
LEMMA AwayKeeps ==
  ASSUME SleepInv, SleepTypes', UNCHANGED <<wake, up>>,
         pc' \notin {"scan", "scanned", "pick", "task"}
  PROVE  SleepInv'
  BY DEF SleepInv, ScanInv, NoWakers, FoundInv, SeenInv

LEMMA SleepStepsKeep ==
  ASSUME SleepInv,
         Yield \/ SleepState \/ SleepNote \/ Halt \/ \E ms \in 1..MaxSleep : SleepDeadline(ms)
  PROVE  SleepInv'
<1> USE DEF SleepInv
<1>1. CASE Yield  BY <1>1, AwayKeeps DEF Yield, SleepTypes, sched
<1>2. CASE SleepState  BY <1>2, AwayKeeps DEF SleepState, SleepTypes, sched
<1>3. CASE SleepNote
  <2>1. 0 \in Times  BY Half DEF Times
  <2> QED  BY <1>3, <2>1, AwayKeeps DEF SleepNote, SleepTypes
<1>4. CASE Halt  BY <1>4, AwayKeeps DEF Halt, SleepTypes, sched
<1>5. ASSUME NEW ms \in 1..MaxSleep, SleepDeadline(ms)  PROVE SleepInv'
  <2>1. ms \in Nat /\ ms < H  BY Half
  <2>2. own' \in Times  BY <1>5, <2>1, Later DEF SleepDeadline, SleepTypes
  <2> QED  BY <1>5, <2>2, AwayKeeps DEF SleepDeadline, SleepTypes
<1> QED  BY <1>1, <1>2, <1>3, <1>4, <1>5

LEMMA ScanStartKeeps ==
  ASSUME SleepInv, ScanStart
  PROVE  SleepInv'
<1> USE DEF SleepInv
<1>1. /\ scan' = [i |-> 1, now |-> now, sleepers |-> 0, next |-> (now + W \div 2 - 1) % W]
      /\ buf' = TRUE /\ pc' = "scan"
      /\ UNCHANGED <<now, state, until, cur, own, pending, next, have, wake, up>>
  BY DEF ScanStart
<1>2. scan'.next \in Times /\ Diff(scan'.next, now) = H - 1
  <2>1. scan'.next = (now + (H - 1)) % W  BY <1>1, Half DEF H, SleepTypes, Times
  <2> QED  BY <2>1, Later, Half DEF SleepTypes
<1>3. SleepTypes'
  <2>1. 1 \in Tasks  BY SleepAssumption DEF Tasks
  <2> QED  BY <1>1, <1>2, <2>1 DEF SleepTypes
<1>4. Sleeping' = Sleeping  BY <1>1 DEF Sleeping
<1>5. ScanInv'
  <2>1. Diff(now, now) = 0  BY DiffRange DEF SleepTypes
  <2>2. \A t \in Sleeping : Diff(now, until[t]) \in Int  BY DiffRange DEF SleepTypes, Sleeping
  <2> QED  BY <1>1, <1>4, <2>1, <2>2, Half DEF ScanInv
<1>6. FoundInv'
  <2>1. Diff(now, scan'.next) = 1 - H  BY <1>2, DiffRange, Half DEF SleepTypes
  <2>2. \A t \in Sleeping : ~(t < 1)  BY DEF Sleeping, Tasks
  <2> QED  BY <1>1, <1>4, <2>1, <2>2, Half DEF FoundInv, ScannedBefore
<1>7. NoWakers' /\ SeenInv'  BY <1>1 DEF NoWakers, SeenInv
<1> QED  BY <1>3, <1>5, <1>6, <1>7

LEMMA ScanTaskKeeps ==
  ASSUME SleepInv, ScanTask
  PROVE  SleepInv'
<1> USE DEF SleepInv
<1> DEFINE t == scan.i
           due == state[t] = "sleeping" /\ Diff(scan.now, until[t]) >= 0
<1>1. /\ pc = "scan" /\ pc' = IF t = NTasks THEN "scanned" ELSE "scan"
      /\ UNCHANGED <<now, cur, own, pending, next, have, buf, wake, up>>
      /\ t \in Tasks /\ t \in 1..NTasks /\ NTasks \in Nat
  BY SleepAssumption DEF ScanTask, SleepTypes, Tasks
<1>2. scan'.i = t + 1 /\ scan'.now = scan.now
  BY DEF ScanTask, SleepTypes
<1>3. CASE due
  <2>1. /\ state' = [state EXCEPT ![t] = "ready"] /\ until' = [until EXCEPT ![t] = 0]
        /\ scan' = [scan EXCEPT !.i = @ + 1]
    BY <1>3 DEF ScanTask
  <2>2. SleepTypes'
    <3>1. 0 \in Times  BY Half DEF Times
    <3>2. scan' \in [i : Nat, now : Times, sleepers : Nat, next : Times]  BY <2>1 DEF SleepTypes
    <3>3. until' \in [Tasks -> Times] /\ state' \in [Tasks -> {"running", "ready", "sleeping"}]
      BY <2>1, <3>1 DEF SleepTypes
    <3>4. /\ pc' \in {"scan", "scanned"} /\ (pc' = "scan" => scan'.i \in Tasks)
          /\ pc' = "scanned" => scan'.i = NTasks + 1
      BY <1>1, <1>2 DEF Tasks
    <3> QED  BY <1>1, <3>2, <3>3, <3>4 DEF SleepTypes
  <2>3. Sleeping' = Sleeping \ {t} /\ \A u \in Sleeping' : until'[u] = until[u]
    BY <1>1, <2>1 DEF Sleeping, SleepTypes
  <2>4. ScanInv'  BY <1>1, <1>2, <2>3 DEF ScanInv
  <2>5. FoundInv'
    <3> SUFFICES ASSUME up = {}, ScannedBefore  PROVE ScannedBefore'
      BY <1>1 DEF FoundInv, Pending
    <3>1. scan'.next = scan.next /\ scan'.sleepers = scan.sleepers  BY <2>1 DEF SleepTypes
    <3>2. \A u \in Tasks : u # t => (u < scan'.i <=> u < t)  BY <1>1, <1>2 DEF Tasks
    <3>3. \A u \in Sleeping' : u \in Sleeping /\ u \in Tasks /\ u # t  BY <2>3 DEF Sleeping
    <3>4. \A u \in Sleeping : u < t => u \in Sleeping' /\ u < scan'.i
      <4> TAKE u \in Sleeping
      <4> HAVE u < t
      <4>1. u # t /\ u \in Tasks  BY <1>1 DEF Sleeping, Tasks
      <4> QED  BY <2>3, <3>2, <4>1
    <3> QED  BY <1>2, <2>3, <3>1, <3>2, <3>3, <3>4 DEF ScannedBefore
  <2>6. NoWakers' /\ SeenInv'  BY <1>1 DEF NoWakers, SeenInv
  <2> QED  BY <2>2, <2>4, <2>5, <2>6
<1>4. CASE ~due
  <2>1. /\ UNCHANGED <<state, until>>
        /\ scan' = IF state[t] # "sleeping" THEN [scan EXCEPT !.i = @ + 1]
                   ELSE [scan EXCEPT !.i = @ + 1, !.sleepers = @ + 1,
                                     !.next = IF Diff(until[t], @) < 0 THEN until[t] ELSE @]
    BY <1>4 DEF ScanTask
  <2>2. until[t] \in Times  BY <1>1 DEF SleepTypes
  <2>3. SleepTypes'
    <3>1. scan.next \in Times /\ scan \in [i : Nat, now : Times, sleepers : Nat, next : Times]  BY DEF SleepTypes
    <3>a. ASSUME state[t] # "sleeping" PROVE scan' \in [i : Nat, now : Times, sleepers : Nat, next : Times]
      <4>1. scan' = [scan EXCEPT !.i = @ + 1]  BY <2>1, <3>a
      <4> QED  BY <3>1, <4>1
    <3>b. ASSUME state[t] = "sleeping" PROVE scan' \in [i : Nat, now : Times, sleepers : Nat, next : Times]
      <4> DEFINE n == IF Diff(until[t], scan.next) < 0 THEN until[t] ELSE scan.next
      <4>1. n \in Times  BY <2>2, <3>1, Zenon
      <4>2. scan' = [scan EXCEPT !.i = @ + 1, !.sleepers = @ + 1, !.next = n]  BY <2>1, <3>b
      <4> HIDE DEF n
      <4>3. /\ scan.i \in Nat /\ scan.now \in Times /\ scan.sleepers \in Nat
            /\ scan' = [i |-> scan.i + 1, now |-> scan.now, sleepers |-> scan.sleepers + 1, next |-> n]
        BY <3>1, <4>2
      <4> QED  BY <4>1, <4>3
    <3>2. scan' \in [i : Nat, now : Times, sleepers : Nat, next : Times]  BY <3>a, <3>b
    <3>3. /\ pc' \in {"scan", "scanned"} /\ (pc' = "scan" => scan'.i \in Tasks)
          /\ pc' = "scanned" => scan'.i = NTasks + 1
      BY <1>1, <1>2 DEF Tasks
    <3> QED  BY <1>1, <2>1, <3>2, <3>3 DEF SleepTypes
  <2>4. Sleeping' = Sleeping  BY <2>1 DEF Sleeping
  <2>5. ScanInv'  BY <1>1, <1>2, <2>1, <2>4 DEF ScanInv
  <2>6. FoundInv'
    <3> SUFFICES ASSUME up = {}, ScannedBefore  PROVE ScannedBefore'
      BY <1>1 DEF FoundInv, Pending
    <3>1. \A u \in Sleeping : u \in Tasks /\ (u < scan'.i <=> u < t \/ u = t)  BY <1>1, <1>2 DEF Sleeping, Tasks
    <3>2. CASE state[t] # "sleeping"
      <4>1. scan'.next = scan.next /\ scan'.sleepers = scan.sleepers  BY <2>1, <3>2 DEF SleepTypes
      <4>2. t \notin Sleeping  BY <3>2 DEF Sleeping
      <4> QED  BY <1>2, <2>1, <2>4, <3>1, <4>1, <4>2 DEF ScannedBefore
    <3>3. CASE state[t] = "sleeping"
      <4> DEFINE a == scan.now
                 u == Diff(a, until[t])
                 n == Diff(a, scan.next)
      <4>1. /\ scan'.next = IF Diff(until[t], scan.next) < 0 THEN until[t] ELSE scan.next
            /\ scan'.sleepers = scan.sleepers + 1 /\ scan.sleepers \in Nat
        BY <2>1, <3>3 DEF SleepTypes
      <4>2. t \in Sleeping  BY <1>1, <3>3 DEF Sleeping
      <4>3. a \in Times /\ scan.next \in Times  BY DEF SleepTypes
      <4>4. u \in Int /\ -H <= u /\ u < 0 /\ n \in Int /\ -H < n /\ n < 0
        BY <1>4, <2>2, <3>3, <4>3, DiffRange, Half DEF ScannedBefore
      <4>5. Diff(until[t], scan.next) < 0 <=> n < u  BY <2>2, <4>3, <4>4, EarlierIs
      <4>6. Diff(a, scan'.next) = IF n < u THEN u ELSE n  BY <4>1, <4>5
      <4>7. \A x \in Sleeping : Diff(a, until[x]) \in Int  BY <4>3, DiffRange DEF Sleeping, SleepTypes
      <4>8. \A x \in Sleeping : x < t => Diff(a, until[x]) <= n  BY DEF ScannedBefore
      <4>9. scan.sleepers = 0 => n = 1 - H  BY DEF ScannedBefore
      <4>10. scan.sleepers # 0 => \E x \in Sleeping : x < t /\ n <= Diff(a, until[x]) + 1  BY DEF ScannedBefore
      <4> HIDE DEF u, n
      <4> DEFINE m == Diff(a, scan'.next)
      <4>11. -H < m /\ m < 0 /\ m \in Int  BY <4>4, <4>6, Half
      <4>12. \A x \in Sleeping : x < scan'.i => Diff(a, until[x]) <= m
        BY <3>1, <4>4, <4>6, <4>7, <4>8 DEF u
      <4>13. \E x \in Sleeping : x < scan'.i /\ m <= Diff(a, until[x]) + 1
        <5>1. CASE n < u  BY <3>1, <4>2, <4>4, <4>6, <5>1 DEF u
        <5>2. CASE ~(n < u) /\ scan.sleepers = 0  BY <3>1, <4>2, <4>4, <4>6, <4>9, <5>2, Half DEF u
        <5>3. CASE ~(n < u) /\ scan.sleepers # 0  BY <3>1, <4>6, <4>10, <5>3
        <5> QED  BY <5>1, <5>2, <5>3
      <4>14. scan'.sleepers # 0  BY <4>1
      <4> QED  BY <1>2, <2>1, <2>4, <4>11, <4>12, <4>13, <4>14 DEF ScannedBefore
    <3> QED  BY <3>2, <3>3
  <2>7. NoWakers' /\ SeenInv'  BY <1>1 DEF NoWakers, SeenInv
  <2> QED  BY <2>3, <2>5, <2>6, <2>7
<1> QED  BY <1>3, <1>4

LEMMA ScanEndKeeps ==
  ASSUME SleepInv, ScanEnd
  PROVE  SleepInv'
<1> USE DEF SleepInv
<1>1. /\ pc = "scanned" /\ pc' = "pick" /\ scan' = NoScan /\ scan.i = NTasks + 1
      /\ UNCHANGED <<now, state, until, cur, own, pending, buf, wake, up>>
      /\ Pending => UNCHANGED <<next, have>>
      /\ ~Pending => have' = (scan.sleepers > 0) /\ next' = (IF have' THEN scan.next ELSE 0)
  BY DEF ScanEnd, SleepTypes
<1>2. 0 \in Times  BY Half DEF Times
<1>3. SleepTypes'
  <2>0. scan.next \in Times /\ next \in Times /\ have \in BOOLEAN  BY DEF SleepTypes
  <2>a. next' \in {next, scan.next, 0}  BY <1>1, Zenon
  <2>b. have' \in BOOLEAN
    <3>1. scan.sleepers \in Nat  BY DEF SleepTypes
    <3>2. (scan.sleepers > 0) \in BOOLEAN  BY <3>1
    <3> QED  BY <1>1, <2>0, <3>2, Zenon
  <2>1. next' \in Times /\ have' \in BOOLEAN  BY <1>2, <2>0, <2>a, <2>b, Zenon
  <2> QED  BY <1>1, <1>2, <2>1 DEF SleepTypes, NoScan
<1>4. Sleeping' = Sleeping  BY <1>1 DEF Sleeping
<1>5. SeenInv'
  <2> SUFFICES ASSUME up = {}, ~Pending  PROVE NextBefore'
    BY <1>1 DEF SeenInv, Pending
  <2> DEFINE d == Diff(now, scan.now)
             n == Diff(scan.now, scan.next)
  <2>1. ScannedBefore /\ scan.sleepers \in Nat  BY <1>1 DEF FoundInv, SleepTypes
  <2>2. \A t \in Sleeping : t < scan.i  BY <1>1, SleepAssumption DEF Sleeping, Tasks
  <2>3. d \in 0..MaxLate /\ -H < n /\ n < 0 /\ n \in Int
    BY <1>1, <2>1, DiffRange DEF ScanInv, ScannedBefore, SleepTypes
  <2>4. Diff(now, scan.next) = d + n  BY <2>3, DiffAdds, Half DEF SleepTypes
  <2>5. \A t \in Sleeping : /\ Diff(now, until[t]) = Diff(scan.now, until[t]) + d
                            /\ Diff(scan.now, until[t]) \in Int
    BY <1>1, DiffRange DEF ScanInv, SleepTypes, Sleeping
  <2>6. \A t \in Sleeping : scan.sleepers # 0 /\ Diff(scan.now, until[t]) <= n  BY <2>1, <2>2 DEF ScannedBefore
  <2>7. scan.sleepers # 0 => \E t \in Sleeping : n <= Diff(scan.now, until[t]) + 1  BY <2>1 DEF ScannedBefore
  <2>8. have' => next' = scan.next  BY <1>1
  <2>9. have' <=> scan.sleepers # 0
    <3>1. scan.sleepers > 0 <=> scan.sleepers # 0  BY <2>1
    <3> QED  BY <1>1, <3>1, Zenon
  <2> HIDE DEF d, n
  <2>10. \A t \in Sleeping : have' /\ Diff(now, until[t]) <= Diff(now, scan.next)
    BY <2>3, <2>4, <2>5, <2>6, <2>9
  <2>11. have' => \E t \in Sleeping : Diff(now, scan.next) <= Diff(now, until[t]) + 1
    BY <2>3, <2>4, <2>5, <2>7, <2>9
  <2> QED  BY <1>1, <1>4, <2>8, <2>10, <2>11 DEF NextBefore
<1>6. ScanInv' /\ NoWakers' /\ FoundInv'  BY <1>1 DEF ScanInv, NoWakers, FoundInv
<1> QED  BY <1>3, <1>5, <1>6

LEMMA PickKeeps ==
  ASSUME SleepInv, NEW t \in Tasks, Pick(t)
  PROVE  SleepInv'
<1> USE DEF SleepInv
<1>1. /\ pc = "pick" /\ pc' = "task" /\ state[t] = "ready" /\ state' = [state EXCEPT ![t] = "running"] /\ cur' = t
      /\ UNCHANGED <<now, until, own, scan, pending, next, have, buf, wake, up>>
  BY DEF Pick, sched
<1>2. SleepTypes'  BY <1>1 DEF SleepTypes
<1>3. Sleeping' = Sleeping  BY <1>1 DEF Sleeping, SleepTypes
<1>4. ScanInv' /\ NoWakers' /\ FoundInv'  BY <1>1 DEF ScanInv, NoWakers, FoundInv
<1>5. SeenInv'  BY <1>1, <1>3 DEF SeenInv, NextBefore, Pending
<1> QED  BY <1>2, <1>4, <1>5

LEMMA SleepNextKeeps ==
  ASSUME SleepInv, [Next]_vars
  PROVE  SleepInv'
<1>1. CASE BootStep
  BY <1>1, SleepStepsKeep, ScanStartKeeps, ScanTaskKeeps, ScanEndKeeps, PickKeeps DEF BootStep
<1>2. CASE Tick  BY <1>2, TickKeeps
<1>3. CASE Drain  BY <1>3, DrainKeeps
<1>4. CASE WakeStep  BY <1>4, CoreStepKeeps, IrqWakeKeeps DEF WakeStep
<1>5. CASE UNCHANGED vars
  <2> USE <1>5 DEF vars, SleepInv
  <2>1. SleepTypes' /\ NoWakers'  BY DEF SleepTypes, NoWakers
  <2>2. Sleeping' = Sleeping  BY DEF Sleeping
  <2>3. ScanInv' /\ FoundInv' /\ SeenInv'
    BY <2>2 DEF ScanInv, FoundInv, ScannedBefore, SeenInv, NextBefore, Pending
  <2> QED  BY <2>1, <2>3
<1> QED  BY <1>1, <1>2, <1>3, <1>4, <1>5 DEF Next

-----------------------------------------------------------------------------
(* The theorems *)

LEMMA SleepInvariant == Spec => []SleepInv
<1>1. Init => SleepInv  BY SleepInitInv
<1>2. SleepInv /\ [Next]_vars => SleepInv'  BY SleepNextKeeps
<1> QED  BY <1>1, <1>2, PTL DEF Spec

\* While a task runs, task_should_yield sees every sleeper whose time has
\* come, at whatever moment of wake_expired's scan an interrupt woke it.
THEOREM WakesSeen == Spec => []WakeSeen
<1>1. SleepInv => WakeSeen
  <2> SUFFICES ASSUME SleepInv, pc = "task", ~buf, up = {}, NEW t \in Tasks, state[t] = "sleeping",
                      Diff(now, until[t]) >= 0, ~pending
               PROVE  have /\ Diff(now, next) >= 0
    BY DEF WakeSeen
  <2>1. NextBefore /\ t \in Sleeping  BY DEF SleepInv, SeenInv, Pending, Sleeping
  <2>2. Diff(now, until[t]) \in Int /\ Diff(now, next) \in Int  BY DiffRange DEF SleepInv, SleepTypes
  <2> QED  BY <2>1, <2>2 DEF NextBefore
<1> QED  BY <1>1, SleepInvariant, PTL

\* No sleep ends before its time unless task_wake ended it, across the wrap
\* of the clock and with other cores waking tasks, too.
THEOREM SleepsNotEarly == Spec => NotEarly
<1>1. SleepInv /\ [Next]_vars =>
        [\A t \in Tasks : state[t] = "sleeping" /\ state'[t] = "ready" => Diff(now, until[t]) >= 0]_vars
  <2> SUFFICES ASSUME SleepInv, Next, NEW t \in Tasks, state[t] = "sleeping", state'[t] = "ready"
               PROVE  Diff(now, until[t]) >= 0
    OBVIOUS
  <2> USE DEF SleepInv
  <2>1. ScanTask \/ Yield
    BY DEF Next, BootStep, SleepState, SleepNote, ScanStart, ScanEnd, Halt, SleepDeadline, Pick, Tick, Drain, WakeStep,
           CoreStep, CoreMove, CorePending, CoreWake, IrqWake, SleepTypes
  <2>2. ~Yield  BY DEF Yield, SleepTypes
  <2>3. pc = "scan" /\ t = scan.i /\ Diff(scan.now, until[t]) >= 0
    BY <2>1, <2>2 DEF ScanTask, SleepTypes
  <2>4. Diff(now, until[t]) = Diff(scan.now, until[t]) + Diff(now, scan.now) /\ Diff(now, scan.now) \in 0..MaxLate
    BY <2>3 DEF ScanInv, Sleeping
  <2>5. Diff(scan.now, until[t]) \in Int  BY DiffRange DEF SleepTypes
  <2> QED  BY <2>3, <2>4, <2>5, Half
<1> QED  BY <1>1, SleepInvariant, PTL DEF Spec, NotEarly
=============================================================================
