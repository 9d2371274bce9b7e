------------------------------- MODULE Sched -------------------------------
(***************************************************************************)
(* The task scheduler of kernel/task.c.  The boot core runs the kernel and *)
(* picks among READY tasks (task_yield, task_sleep_ms, task_create_stack); *)
(* a task interrupted in app code may be handed to another core            *)
(* (task_offload, the queue g_q, task_ap_loop) and comes back for a system *)
(* call, a fault, or because its turn ended (task_ap_go_home, task_ipi).   *)
(* ACPI sleep parks the other cores first (task_smp_pause).                *)
(*                                                                         *)
(* Run times (vruntime, ap_vr, slices) only choose among candidates: every *)
(* candidate is allowed.  The ring g_q is the set of its members (module   *)
(* RunQueue shows what the ring does).  A core's context switch is a step  *)
(* of its own, so the moment a task leaves its kernel stack is visible.    *)
(***************************************************************************)
EXTENDS Naturals, FiniteSets

CONSTANTS
    Tasks,      \* the slots of g_tasks
    Main,       \* g_tasks[0]: the desktop's own task, pinned, never ends
    Idle,       \* g_idle, the boot core's idle loop
    None,       \* NULL
    Aps,        \* the cores other than the boot core
    MaxPauses   \* how often ACPI sleep is tried

ASSUME SchedAssumption ==
    /\ Main \in Tasks
    /\ Idle \notin Tasks
    /\ None \notin Tasks \union {Idle}
    /\ "boot" \notin Aps /\ "none" \notin Aps
    /\ MaxPauses \in Nat

VARIABLES
    state,      \* task_t.state
    cpu,        \* task_t.cpu: "boot" (0), "none" (-1), or another core
    pinned,     \* the tasks with task_t.pinned set
    cur,        \* g_current
    prev,       \* g_prev: the task just switched away from
    stk,        \* whose kernel stack the boot core is executing on
    bpc,        \* where the boot core is
    q,          \* the members of g_q
    apc,        \* where each other core is in task_ap_loop
    held,       \* its local t, and g_ap[c].task
    reason,     \* g_ap[c].reason
    idle,       \* g_ap[c].idle, as the other cores see it
    kick,       \* a SMP_VEC_KICK interrupt is pending at c
    pause,      \* g_sleep_pause
    parked,     \* g_sleep_parked[c]
    pauses      \* calls of task_smp_pause so far

boot == <<cur, prev, stk, bpc>>
aps == <<apc, held, reason, idle, parked>>
sleep == <<pause, pauses>>
vars == <<state, cpu, pinned, boot, q, aps, kick, sleep>>

Threads == Tasks \union {Idle}
States == {"UNUSED", "READY", "RUNNING", "SLEEPING", "AWAY"}
BootPc == {"run", "sched", "help", "switch", "landed", "pausing", "paused", "resumed"}
ApPc == {"top", "park", "parkhlt", "unpark", "pop", "empty", "check", "late",
         "hlt", "got", "on", "off"}

Init ==
    /\ state = [t \in Threads |-> IF t = Main THEN "RUNNING" ELSE "UNUSED"]
    /\ cpu = [t \in Threads |-> "boot"]
    /\ pinned = {Main, Idle}
    /\ cur = Main /\ prev = None /\ stk = Main /\ bpc = "run"
    /\ q = {}
    /\ apc = [c \in Aps |-> "top"]
    /\ held = [c \in Aps |-> None]
    /\ reason = [c \in Aps |-> "HOME"]
    /\ idle = [c \in Aps |-> FALSE]
    /\ kick = [c \in Aps |-> FALSE]
    /\ pause = FALSE
    /\ parked = [c \in Aps |-> FALSE]
    /\ pauses = 0

-----------------------------------------------------------------------------
(* Helpers shared by the handlers *)

IdleCores == {c \in Aps : idle[c]}

\* pick_idle_core and the IPI to its result: K is the set of cores kicked
PickIdleCore(K) ==
    IF pause \/ IdleCores = {} THEN K = {} ELSE \E c \in IdleCores : K = {c}

Kicked(K) == [c \in Aps |-> kick[c] \/ c \in K]

QPush(t) ==
    /\ q' = q \union {t}
    /\ \E K \in SUBSET Aps : PickIdleCore(K) /\ kick' = Kicked(K)

\* the states after wake_expired made the sleepers W ready
WakeExpired(st, W) == [t \in Threads |-> IF t \in W THEN "READY" ELSE st[t]]

Sleepers(st) == {t \in Tasks : st[t] = "SLEEPING"}

\* the tasks pick_next may return: any READY one but the current, else the
\* current one if it is READY itself
PickNext(st) ==
    LET others == {t \in Tasks : st[t] = "READY" /\ t # cur}
    IN  IF others # {} THEN others ELSE {t \in Tasks : t = cur /\ st[t] = "READY"}

\* switch_to up to the call of task_switch
SwitchTo(st, c, nxt) ==
    /\ state' = [st EXCEPT ![nxt] = "RUNNING"]
    /\ cpu' = [c EXCEPT ![nxt] = "boot"]
    /\ cur' = nxt
    /\ prev' = IF nxt = cur THEN prev ELSE cur
    /\ bpc' = IF nxt = cur THEN "run" ELSE "switch"
    /\ UNCHANGED stk

-----------------------------------------------------------------------------
(* The boot core *)

\* task_yield up to its loop (task_maybe_yield and task_kpreempt call it)
TaskYield ==
    /\ bpc = "run"
    /\ state' = [state EXCEPT ![cur] = "READY"]
    /\ bpc' = "sched"
    /\ UNCHANGED <<cpu, pinned, cur, prev, stk, q, aps, kick, sleep>>

TaskSleep ==
    /\ bpc = "run" /\ cur \in Tasks
    /\ state' = [state EXCEPT ![cur] = "SLEEPING"]
    /\ bpc' = "sched"
    /\ UNCHANGED <<cpu, pinned, cur, prev, stk, q, aps, kick, sleep>>

\* a task's entry returned: the trampoline gives up its slot and yields
TaskEnd ==
    /\ bpc = "run" /\ cur \in Tasks \ {Main}
    /\ state' = [state EXCEPT ![cur] = "UNUSED"]
    /\ bpc' = "sched"
    /\ UNCHANGED <<cpu, pinned, cur, prev, stk, q, aps, kick, sleep>>

\* one turn of task_yield's loop that finds a task to switch to
YieldSwitch ==
    /\ bpc = "sched"
    /\ \E W \in SUBSET Sleepers(state) :
         LET st == WakeExpired(state, W)
         IN  \E nxt \in PickNext(st) : SwitchTo(st, cpu, nxt)
    /\ UNCHANGED <<pinned, q, aps, kick, sleep>>

\* no READY task, no idle core and app code waiting: it will be run here
YieldHelp ==
    /\ bpc = "sched"
    /\ PickNext(state) = {}
    /\ q # {} /\ IdleCores = {}
    /\ bpc' = "help"
    /\ UNCHANGED <<state, cpu, pinned, cur, prev, stk, q, aps, kick, sleep>>

\* q_pop by the boot core: another core may have emptied the queue since the
\* test (then it halts until the next interrupt and looks again)
HelpPop ==
    /\ bpc = "help"
    /\ bpc' = "sched"
    /\ IF q = {} THEN UNCHANGED <<state, cpu, q>>
       ELSE \E s \in q :
              /\ q' = q \ {s}
              /\ cpu' = [cpu EXCEPT ![s] = "boot"]
              /\ state' = [state EXCEPT ![s] = "READY"]
    /\ UNCHANGED <<pinned, cur, prev, stk, aps, kick, sleep>>

\* task_switch: from here the boot core is on the next task's stack
TaskSwitch ==
    /\ bpc = "switch"
    /\ stk' = cur
    /\ bpc' = "landed"
    /\ UNCHANGED <<state, cpu, pinned, cur, prev, q, aps, kick, sleep>>

FinishSwitchQueuesIdle ==
    /\ bpc = "landed" /\ prev' = None /\ bpc' = "run"
    /\ IF prev = Idle \/ (state[prev] = "AWAY" /\ cpu[prev] = "none")
       THEN QPush(prev) ELSE UNCHANGED <<q, kick>>
    /\ UNCHANGED <<state, cpu, pinned, cur, stk, aps, sleep>>

FinishSwitchForgets ==
    /\ bpc = "landed" /\ prev' = None /\ bpc' = "run"
    /\ UNCHANGED <<state, cpu, pinned, cur, stk, q, kick, aps, sleep>>

\* in the task switched to (after_switch, task_trampoline, ap_fault_landing)
FinishSwitch ==
    /\ bpc = "landed"
    /\ prev' = None
    /\ bpc' = "run"
    /\ IF prev \in Tasks /\ state[prev] = "AWAY" /\ cpu[prev] = "none"
       THEN QPush(prev) ELSE UNCHANGED <<q, kick>>
    /\ UNCHANGED <<state, cpu, pinned, cur, stk, aps, sleep>>

TaskCreate(t) ==
    /\ bpc = "run"
    /\ t \in Tasks \ {Main, cur} /\ state[t] = "UNUSED"
    /\ state' = [state EXCEPT ![t] = "READY"]
    /\ cpu' = [cpu EXCEPT ![t] = "boot"]
    /\ pinned' = pinned \ {t}
    /\ UNCHANGED <<boot, q, aps, kick, sleep>>

TaskPin ==
    /\ bpc = "run"
    /\ pinned' = pinned \union {cur}
    /\ UNCHANGED <<state, cpu, boot, q, aps, kick, sleep>>

TaskOffloadQueuesFirst ==
    /\ bpc = "run" /\ cur \in Tasks \ pinned
    /\ \E nxt \in PickNext(state) \union {Idle} :
         /\ nxt # cur
         /\ SwitchTo([state EXCEPT ![cur] = "AWAY"], [cpu EXCEPT ![cur] = "none"], nxt)
    /\ QPush(cur)
    /\ UNCHANGED <<pinned, aps, sleep>>

TaskOffloadUnpinned ==
    /\ bpc = "run" /\ cur \in Tasks
    /\ \E nxt \in PickNext(state) \union {Idle} :
         /\ nxt # cur
         /\ SwitchTo([state EXCEPT ![cur] = "AWAY"], [cpu EXCEPT ![cur] = "none"], nxt)
    /\ UNCHANGED <<pinned, q, aps, kick, sleep>>

\* the current task, interrupted in app code, goes to another core: a free
\* one, or (its slice over) the queue when a task waiting there had less time
TaskOffload ==
    /\ bpc = "run" /\ cur \in Tasks \ pinned
    /\ Cardinality(IdleCores) > Cardinality(q) \/ q # {}
    /\ \E W \in SUBSET Sleepers(state) :
         LET st == WakeExpired([state EXCEPT ![cur] = "AWAY"], W)
             c == [cpu EXCEPT ![cur] = "none"]
         IN  \E nxt \in (IF PickNext(st) = {} THEN {Idle} ELSE PickNext(st)) :
               SwitchTo(st, c, nxt)
    /\ UNCHANGED <<pinned, q, aps, kick, sleep>>

SmpTickTurnsOnly ==
    /\ \E L \in SUBSET {c \in Aps : apc[c] = "on"} : kick' = Kicked(L)
    /\ UNCHANGED <<state, cpu, pinned, boot, q, aps, sleep>>

\* task_smp_tick in the timer interrupt: an idle core for queued work, and
\* any cores whose task had its turn
SmpTick ==
    /\ \E K \in SUBSET Aps, L \in SUBSET {c \in Aps : apc[c] = "on"} :
         /\ IF q = {} THEN K = {} ELSE PickIdleCore(K)
         /\ kick' = Kicked(K \union L)
    /\ UNCHANGED <<state, cpu, pinned, boot, q, aps, sleep>>

-----------------------------------------------------------------------------
(* ACPI sleep, in the task that asked for it *)

SmpPause ==
    /\ bpc = "run" /\ cur \in Tasks /\ pauses < MaxPauses
    /\ pause' = TRUE
    /\ pauses' = pauses + 1
    /\ kick' = [c \in Aps |-> TRUE]
    /\ bpc' = "pausing"
    /\ UNCHANGED <<state, cpu, pinned, cur, prev, stk, q, aps>>

SmpUnpause ==
    /\ pause' = FALSE
    /\ parked' = [c \in Aps |-> FALSE]
    /\ kick' = [c \in Aps |-> TRUE]
    /\ bpc' = "run"
    /\ UNCHANGED <<state, cpu, pinned, cur, prev, stk, q, apc, held, reason, idle, pauses>>

ParkedOrIdle == \A c \in Aps : parked[c] \/ idle[c]

AllParked == \A c \in Aps : parked[c]

PauseDone ==
    /\ bpc = "pausing" /\ AllParked
    /\ bpc' = "paused"
    /\ UNCHANGED <<state, cpu, pinned, cur, prev, stk, q, aps, kick, sleep>>

PauseTimeout == bpc = "pausing" /\ ~AllParked /\ SmpUnpause

\* the machine slept: every other core starts again at the top of its loop
\* (a core that was not parked has lost the context it was running)
S3Resume ==
    /\ bpc = "paused"
    /\ apc' = [c \in Aps |-> "top"]
    /\ kick' = [c \in Aps |-> FALSE]
    /\ bpc' = "resumed"
    /\ UNCHANGED <<state, cpu, pinned, cur, prev, stk, q, held, reason, idle, parked, sleep>>

\* after the sleep, or when a later step of it failed
SleepEnd == bpc \in {"paused", "resumed"} /\ SmpUnpause

-----------------------------------------------------------------------------
(* Another core: task_ap_loop.  It runs with interrupts off except in "hlt" *)
(* and in app code.                                                         *)

Goto(c, from, to) == apc[c] = from /\ apc' = [apc EXCEPT ![c] = to]

ApTop(c) ==
    /\ IF pause THEN Goto(c, "top", "park") ELSE Goto(c, "top", "unpark")
    /\ UNCHANGED <<state, cpu, pinned, boot, q, held, reason, idle, parked, kick, sleep>>

ApPark(c) ==
    /\ Goto(c, "park", "parkhlt")
    /\ idle' = [idle EXCEPT ![c] = TRUE]
    /\ parked' = [parked EXCEPT ![c] = TRUE]
    /\ UNCHANGED <<state, cpu, pinned, boot, q, held, reason, kick, sleep>>

ApUnpark(c) ==
    /\ Goto(c, "unpark", "pop")
    /\ parked' = [parked EXCEPT ![c] = FALSE]
    /\ UNCHANGED <<state, cpu, pinned, boot, q, held, reason, idle, kick, sleep>>

ApPop(c) ==
    /\ \/ q = {} /\ Goto(c, "pop", "empty") /\ UNCHANGED <<q, held>>
       \/ \E t \in q :
            /\ Goto(c, "pop", "got")
            /\ q' = q \ {t}
            /\ held' = [held EXCEPT ![c] = t]
    /\ UNCHANGED <<state, cpu, pinned, boot, reason, idle, parked, kick, sleep>>

\* a->idle = 1, then the test of g_qlen.  No fence orders the store before
\* the load: the store may reach the other cores after the load ("late").
ApIdle(c) ==
    /\ \/ Goto(c, "empty", "check") /\ idle' = [idle EXCEPT ![c] = TRUE]
       \/ q = {} /\ Goto(c, "empty", "late") /\ UNCHANGED idle
       \/ Goto(c, "late", "hlt") /\ idle' = [idle EXCEPT ![c] = TRUE]
       \/ (IF q = {} THEN Goto(c, "check", "hlt") ELSE Goto(c, "check", "top"))
          /\ UNCHANGED idle
    /\ UNCHANGED <<state, cpu, pinned, boot, q, held, reason, parked, kick, sleep>>

\* a kick ends the halt (task_ipi finds no task and returns)
ApWake(c) ==
    /\ kick[c]
    /\ Goto(c, "hlt", "top") \/ Goto(c, "parkhlt", "top")
    /\ kick' = [kick EXCEPT ![c] = FALSE]
    /\ UNCHANGED <<state, cpu, pinned, boot, q, held, reason, idle, parked, sleep>>

\* the task's context is loaded: the core is on its stack
ApRun(c) ==
    /\ Goto(c, "got", "on")
    /\ idle' = [idle EXCEPT ![c] = FALSE]
    /\ cpu' = [cpu EXCEPT ![held[c]] = c]
    /\ UNCHANGED <<state, pinned, boot, q, held, reason, parked, kick, sleep>>

\* ap_switch_out: back on the core's own stack, the task's context saved
ApSwitchOut(c, r) ==
    /\ Goto(c, "on", "off")
    /\ reason' = [reason EXCEPT ![c] = r]
    /\ UNCHANGED <<state, cpu, pinned, boot, q, held, idle, parked, sleep>>

\* a system call or a fault in app code (task_ap_go_home, task_ap_fault)
ApGoHome(c) == ApSwitchOut(c, "HOME") /\ UNCHANGED kick

\* task_ipi with a task: asleep soon, long away, or others wait for the core
ApIpi(c) ==
    /\ apc[c] = "on" /\ kick[c]
    /\ kick' = [kick EXCEPT ![c] = FALSE]
    /\ \/ ApSwitchOut(c, "HOME")
       \/ ~pause /\ q # {} /\ ApSwitchOut(c, "REQUEUE")
       \/ ~pause /\ UNCHANGED <<state, cpu, pinned, boot, q, aps, sleep>>

\* the loop after the task stopped: back into the queue, or home
ApStopped(c) ==
    /\ Goto(c, "off", "top")
    /\ held' = [held EXCEPT ![c] = None]
    /\ IF reason[c] = "REQUEUE"
       THEN /\ cpu' = [cpu EXCEPT ![held[c]] = "none"]
            /\ QPush(held[c])
            /\ UNCHANGED state
       ELSE /\ cpu' = [cpu EXCEPT ![held[c]] = "boot"]
            /\ state' = [state EXCEPT ![held[c]] = "READY"]
            /\ UNCHANGED <<q, kick>>
    /\ UNCHANGED <<pinned, boot, reason, idle, parked, sleep>>

\* smp_tlb_shootdown uses the same interrupt: a kick for no task's sake
TlbKick(c) ==
    /\ kick' = [kick EXCEPT ![c] = TRUE]
    /\ UNCHANGED <<state, cpu, pinned, boot, q, aps, sleep>>

-----------------------------------------------------------------------------
BootNext ==
    \/ TaskYield \/ TaskSleep \/ TaskEnd \/ YieldSwitch \/ YieldHelp \/ HelpPop
    \/ TaskSwitch \/ FinishSwitch \/ TaskPin \/ TaskOffload
    \/ SmpPause \/ PauseDone \/ PauseTimeout \/ S3Resume \/ SleepEnd
    \/ \E t \in Tasks : TaskCreate(t)

\* what core c does by itself
ApStep(c) ==
    \/ ApTop(c) \/ ApPark(c) \/ ApUnpark(c) \/ ApPop(c) \/ ApIdle(c) \/ ApWake(c)
    \/ ApRun(c) \/ ApIpi(c) \/ ApStopped(c)

Next ==
    \/ BootNext
    \/ SmpTick
    \/ \E c \in Aps : ApStep(c) \/ ApGoHome(c) \/ TlbKick(c)

Spec == Init /\ [][Next]_vars

\* The boot core's kernel code and the other cores' loops go on, the timer
\* interrupts, and a sleep ends.  App code need never make a system call.
Fairness ==
    /\ WF_vars(YieldSwitch) /\ WF_vars(HelpPop) /\ WF_vars(TaskSwitch) /\ WF_vars(FinishSwitch)
    /\ WF_vars(PauseDone \/ PauseTimeout) /\ WF_vars(SleepEnd)
    /\ WF_vars(SmpTick)
    /\ \A c \in Aps : WF_vars(ApStep(c))

LiveSpec == Spec /\ Fairness

-----------------------------------------------------------------------------
(* Properties *)

\* Every variable has its type.
TypeOK ==
    /\ state \in [Threads -> States]
    /\ cpu \in [Threads -> {"boot", "none"} \union Aps]
    /\ pinned \subseteq Threads
    /\ cur \in Threads /\ prev \in Threads \union {None} /\ stk \in Threads /\ bpc \in BootPc
    /\ q \subseteq Tasks
    /\ apc \in [Aps -> ApPc]
    /\ held \in [Aps -> Tasks \union {None}]
    /\ reason \in [Aps -> {"HOME", "REQUEUE"}]
    /\ idle \in [Aps -> BOOLEAN] /\ kick \in [Aps -> BOOLEAN] /\ parked \in [Aps -> BOOLEAN]
    /\ pause \in BOOLEAN /\ pauses \in 0..MaxPauses

\* core c executes on task t's kernel stack
OnStack(c, t) == apc[c] = "on" /\ held[c] = t

\* No two cores ever execute on one task's kernel stack, and a task somebody
\* could start (queued, READY elsewhere, or a slot to be reused) has its
\* context saved: task_offload queues a task only "once off its stack", and
\* a finished slot's stack is freed because "nothing runs on it".
OneStack ==
    \A t \in Tasks :
      /\ \A c \in Aps : OnStack(c, t) => stk # t /\ t \notin q /\ state[t] = "AWAY"
      /\ \A c, d \in Aps : OnStack(c, t) /\ OnStack(d, t) => c = d
      /\ t \in q => stk # t
      /\ bpc = "run" /\ t # cur => stk # t

\* A task that is away from the boot core is in exactly one place: in the
\* queue, about to enter it, or with one core's loop.  Nobody else would ever
\* run it again.
NoTaskLost ==
    \A t \in Tasks : state[t] = "AWAY" =>
      \/ /\ t \in q /\ t # prev /\ \A c \in Aps : held[c] # t
      \/ /\ t \notin q /\ t = prev /\ bpc \in {"switch", "landed"} /\ \A c \in Aps : held[c] # t
      \/ /\ t \notin q /\ t # prev
         /\ \E c \in Aps : /\ held[c] = t /\ apc[c] \in {"got", "on", "off"}
                           /\ \A d \in Aps \ {c} : held[d] # t

\* A pinned task never leaves the boot core, although pins come and go with
\* the reuse of slots.
PinnedStay == \A t \in pinned : state[t] # "AWAY" /\ t \notin q

\* When task_smp_pause has returned 0 no other core has a task's context
\* ("Park app cores with their task contexts saved before platform suspend").
PausedMeansParked ==
    bpc = "paused" => \A c \in Aps : held[c] = None /\ apc[c] \in {"top", "park", "parkhlt"}

\* Queued work is not left waiting while every other core is halted, although
\* a kick can be missed (the store to idle passes the test of g_qlen, or the
\* kick goes to a core that is awake already).
QueueServed ==
    (q # {} /\ \A c \in Aps : apc[c] = "hlt") ~> (q = {} \/ \E c \in Aps : apc[c] # "hlt")

=============================================================================
