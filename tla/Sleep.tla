------------------------------- MODULE Sleep -------------------------------
(***************************************************************************)
(* Sleeping and waking of tasks on the boot core (kernel/task.c):          *)
(* task_sleep_ms, wake_expired's scan, task_wake from an interrupt or from *)
(* another core, and what task_should_yield can see of it.  Milliseconds   *)
(* wrap around at W, as uint32_t does.  The boot core's one store that     *)
(* matters for the order of x86, g_wake_pending = 0, may sit in its store  *)
(* buffer while the scan reads the deadlines.  A value nobody will read    *)
(* again (the deadline of a task that is awake, a local) is reset to 0.    *)
(***************************************************************************)
EXTENDS Integers, FiniteSets

CONSTANTS
    NTasks,     \* g_count
    W,          \* 2^32 in the code: where milliseconds wrap around
    MaxSleep,   \* longest sleep
    MaxLate,    \* how late, at most, the scheduler sees a deadline
    Cores,      \* other cores a machine may have
    None

ASSUME SleepAssumption ==
    /\ NTasks \in Nat \ {0} /\ W \in Nat /\ W % 2 = 0
    /\ MaxSleep \in Nat \ {0} /\ MaxLate \in Nat \ {0}
    /\ MaxSleep + MaxLate < W \div 2 - 1
    /\ None \notin 0..(NTasks + 1)

VARIABLES
    now,        \* timer_ms()
    state,      \* task_t.state
    until,      \* task_t.sleep_until_tick
    cur,        \* g_current
    pc,         \* where the boot core is
    own,        \* task_sleep_ms's local until
    scan,       \* wake_expired's locals: i, now_ms, sleepers, next
    pending, next, have,    \* g_wake_pending, g_next_wake, g_have_sleeper
    buf,        \* TRUE: the boot core's g_wake_pending = 0 is not visible yet
    wake,       \* a core's task_wake: the task, and whether its deadline is moved
    up          \* the cores in use; they wake tasks in a system call (a_wake)

vars == <<now, state, until, cur, pc, own, scan, pending, next, have, buf, wake, up>>
sched == <<own, scan, pending, next, have, buf>>

Tasks == 1..NTasks

\* (int32_t)(a - b)
Diff(a, b) == LET d == (a - b) % W IN IF d < W \div 2 THEN d ELSE d - W

NoScan == [i |-> 1, now |-> 0, sleepers |-> 0, next |-> 0]

Init ==
    /\ now = 0 /\ state = [t \in Tasks |-> IF t = 1 THEN "running" ELSE "ready"]
    /\ until = [t \in Tasks |-> 0] /\ cur = 1 /\ pc = "task" /\ own = 0
    /\ scan = NoScan
    /\ pending = FALSE /\ next = 0 /\ have = FALSE /\ buf = FALSE
    /\ wake = [c \in Cores |-> None] /\ up \in {{}, Cores}

-----------------------------------------------------------------------------
(* The clock, and task_wake *)

InterruptedHaltsOn == UNCHANGED pc

\* timer_idle returns: task_yield looks at the deadlines again
Interrupted == IF pc = "halt" THEN pc' = "yield" ELSE UNCHANGED pc

\* the timer's interrupt; the scheduler keeps up to MaxLate
Tick ==
    /\ pc = "halt" \/ \A t \in Tasks : state[t] = "sleeping" => Diff(now, until[t]) < MaxLate
    /\ pc \in {"scan", "scanned"} => Diff(now, scan.now) < MaxLate
    /\ now' = (now + 1) % W
    /\ Interrupted
    /\ UNCHANGED <<state, until, cur, sched, wake, up>>

\* task_wake in an interrupt (or from the task that runs)
IrqWake(t) ==
    /\ state[t] = "sleeping"
    /\ until' = [until EXCEPT ![t] = now]
    /\ pending' = TRUE /\ buf' = FALSE
    /\ Interrupted
    /\ UNCHANGED <<now, state, cur, own, scan, next, have, wake, up>>

\* task_wake on another core: it looks at the state ...
CoreWake(c, t) ==
    /\ c \in up /\ wake[c] = None /\ state[t] = "sleeping"
    /\ wake' = [wake EXCEPT ![c] = [task |-> t, moved |-> FALSE]]
    /\ UNCHANGED <<now, state, until, cur, pc, sched, up>>

\* ... moves the deadline (of a task about to sleep too, if it is that late) ...
CoreMove(c) ==
    /\ wake[c] # None /\ ~wake[c].moved
    /\ LET t == wake[c].task
       IN  until' = IF state[t] = "sleeping" \/ (t = cur /\ pc = "deadline")
                    THEN [until EXCEPT ![t] = now] ELSE until
    /\ wake' = [wake EXCEPT ![c].moved = TRUE]
    /\ UNCHANGED <<now, state, cur, pc, sched, up>>

\* ... and says so
CorePending(c) ==
    /\ wake[c] # None /\ wake[c].moved
    /\ pending' = TRUE
    /\ wake' = [wake EXCEPT ![c] = None]
    /\ UNCHANGED <<now, state, until, cur, pc, own, scan, next, have, buf, up>>

\* the boot core's store becomes visible
Drain ==
    /\ buf
    /\ buf' = FALSE /\ pending' = FALSE
    /\ UNCHANGED <<now, state, until, cur, pc, own, scan, next, have, wake, up>>

-----------------------------------------------------------------------------
(* task_sleep_ms and task_yield *)

\* task_sleep_ms: the deadline ...
SleepDeadline(ms) ==
    /\ pc = "task"
    /\ own' = (now + ms) % W
    /\ until' = [until EXCEPT ![cur] = own']
    /\ pc' = "deadline"
    /\ UNCHANGED <<now, state, cur, scan, pending, next, have, buf, wake, up>>

\* ... the state ...
SleepState ==
    /\ pc = "deadline"
    /\ state' = [state EXCEPT ![cur] = "sleeping"]
    /\ pc' = "asleep"
    /\ UNCHANGED <<now, until, cur, sched, wake, up>>

\* ... and, with interrupts off, the next deadline
SleepNote ==
    /\ pc = "asleep"
    /\ next' = IF ~have \/ Diff(own, next) < 0 THEN own ELSE next
    /\ have' = TRUE /\ own' = 0 /\ pc' = "yield"
    /\ UNCHANGED <<now, state, until, cur, scan, pending, buf, wake, up>>

\* task_yield of a task that goes on
Yield ==
    /\ pc = "task"
    /\ state' = [state EXCEPT ![cur] = "ready"]
    /\ pc' = "yield"
    /\ UNCHANGED <<now, until, cur, sched, wake, up>>

\* wake_expired(timer_ms())
ScanStart ==
    /\ pc = "yield"
    /\ scan' = [i |-> 1, now |-> now, sleepers |-> 0, next |-> (now + W \div 2 - 1) % W]
    /\ buf' = TRUE /\ pc' = "scan"
    /\ UNCHANGED <<now, state, until, cur, own, pending, next, have, wake, up>>

ScanTaskUnsigned ==
    LET t == scan.i
    IN  /\ pc = "scan"
        /\ pc' = IF t = NTasks THEN "scanned" ELSE "scan"
        /\ IF state[t] = "sleeping" /\ scan.now >= until[t]
           THEN /\ state' = [state EXCEPT ![t] = "ready"]
                /\ until' = [until EXCEPT ![t] = 0]
                /\ scan' = [scan EXCEPT !.i = @ + 1]
           ELSE /\ scan' = IF state[t] # "sleeping" THEN [scan EXCEPT !.i = @ + 1]
                           ELSE [scan EXCEPT !.i = @ + 1, !.sleepers = @ + 1,
                                             !.next = IF until[t] < @ THEN until[t] ELSE @]
                /\ UNCHANGED <<state, until>>
        /\ UNCHANGED <<now, cur, own, pending, next, have, buf, wake, up>>

\* its loop: one task
ScanTask ==
    LET t == scan.i
    IN  /\ pc = "scan"
        /\ pc' = IF t = NTasks THEN "scanned" ELSE "scan"
        /\ IF state[t] = "sleeping" /\ Diff(scan.now, until[t]) >= 0
           THEN /\ state' = [state EXCEPT ![t] = "ready"]
                /\ until' = [until EXCEPT ![t] = 0]
                /\ scan' = [scan EXCEPT !.i = @ + 1]
           ELSE /\ scan' = IF state[t] # "sleeping" THEN [scan EXCEPT !.i = @ + 1]
                           ELSE [scan EXCEPT !.i = @ + 1, !.sleepers = @ + 1,
                                             !.next = IF Diff(until[t], @) < 0 THEN until[t] ELSE @]
                /\ UNCHANGED <<state, until>>
        /\ UNCHANGED <<now, cur, own, pending, next, have, buf, wake, up>>

\* what the boot core reads of g_wake_pending
Pending == pending /\ ~buf

ScanEndAlways ==
    /\ pc = "scanned"
    /\ have' = (scan.sleepers > 0) /\ next' = (IF have' THEN scan.next ELSE 0) /\ pending' = FALSE
    /\ scan' = NoScan /\ pc' = "pick"
    /\ UNCHANGED <<now, state, until, cur, own, buf, wake, up>>

\* its end, with interrupts off: a task_wake() meanwhile wins
ScanEnd ==
    /\ pc = "scanned"
    /\ IF Pending THEN UNCHANGED <<next, have>>
       ELSE have' = (scan.sleepers > 0) /\ next' = (IF have' THEN scan.next ELSE 0)
    /\ scan' = NoScan /\ pc' = "pick"
    /\ UNCHANGED <<now, state, until, cur, own, pending, buf, wake, up>>

\* pick_next and switch_to (which of the READY tasks: module Sched); by then
\* the store is visible
Pick(t) ==
    /\ pc = "pick" /\ state[t] = "ready" /\ ~buf
    /\ state' = [state EXCEPT ![t] = "running"]
    /\ cur' = t /\ pc' = "task"
    /\ UNCHANGED <<now, until, sched, wake, up>>

\* timer_idle: every task is asleep
Halt ==
    /\ pc = "pick" /\ \A t \in Tasks : state[t] # "ready"
    /\ pc' = "halt"
    /\ UNCHANGED <<now, state, until, cur, sched, wake, up>>

BootStep ==
    \/ Yield \/ SleepState \/ SleepNote \/ ScanStart \/ ScanTask \/ ScanEnd \/ Halt
    \/ \E ms \in 1..MaxSleep : SleepDeadline(ms)
    \/ \E t \in Tasks : Pick(t)

CoreStep == \E c \in Cores : CoreMove(c) \/ CorePending(c) \/ \E t \in Tasks : CoreWake(c, t)

WakeStep == CoreStep \/ \E t \in Tasks : IrqWake(t)

Next == BootStep \/ Tick \/ Drain \/ WakeStep

Spec == Init /\ [][Next]_vars

\* the clock ticks, and a task that runs is switched away from in the end:
\* by the timer in app code, by its own task_yield in the kernel
\* (and the same sleeper is not woken again in every scan, after its start)
LiveSpec ==
    /\ Spec /\ WF_vars(BootStep) /\ WF_vars(Tick) /\ WF_vars(Drain)
    /\ <>[][~WakeStep]_vars

-----------------------------------------------------------------------------
(* Properties *)

\* Times stay below the wrap, and the task that runs is the current one.
TypeOK ==
    /\ {now, next, own, scan.now, scan.next} \subseteq 0..(W - 1)
    /\ until \in [Tasks -> 0..(W - 1)]
    /\ scan.i \in 1..(NTasks + 1) /\ scan.sleepers \in 0..NTasks
    /\ state \in [Tasks -> {"running", "ready", "sleeping"}]
    /\ cur \in Tasks /\ pc \in {"task", "deadline", "asleep", "yield", "scan", "scanned", "pick", "halt"}
    /\ \A t \in Tasks : state[t] = "running" => t = cur /\ pc \in {"task", "deadline"}
    /\ {pending, have, buf} \subseteq BOOLEAN /\ up \subseteq Cores

\* While a task runs, a sleeper whose time has come - its deadline passed,
\* or an interrupt's task_wake moved it, at whatever moment of wake_expired's
\* scan - is seen by task_should_yield.  (With other cores in use it is not:
\* see the README.)
WakeSeen ==
    pc = "task" /\ ~buf /\ up = {} =>
      \A t \in Tasks : state[t] = "sleeping" /\ Diff(now, until[t]) >= 0 =>
        pending \/ (have /\ Diff(now, next) >= 0)

\* A sleeper becomes READY only once its deadline has passed, or task_wake
\* has moved it: "no early-wakeup guard loop needed" in task_sleep_ms.
NotEarly ==
    [][\A t \in Tasks : state[t] = "sleeping" /\ state'[t] = "ready" => Diff(now, until[t]) >= 0]_vars

\* Every sleeper wakes up, over the wrap of the clock too.
SleepEnds == \A t \in Tasks : state[t] = "sleeping" ~> state[t] # "sleeping"
=============================================================================
