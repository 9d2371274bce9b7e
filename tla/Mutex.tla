------------------------------- MODULE Mutex -------------------------------
(***************************************************************************)
(* The SDK's mutexes (sdk/lib/pthread.c) over the kernel's wait and wake   *)
(* (kernel/app.c).  Threads run on cores of their own; a_wait runs on the  *)
(* boot core, one thread at a time, but a_wake runs on any core, between   *)
(* any two steps of a_wait.  The sleep inside a_wait is one step here      *)
(* (module Sleep has its own).                                             *)
(***************************************************************************)
EXTENDS Naturals

CONSTANTS
    Threads,
    Setups,     \* the mutex's kind, the free entries of g_waiters, and (a
                \* bound) each thread's lock calls: one chosen at the start
    None

Kinds == {"normal", "recursive", "errorcheck"}

MutexAssumption ==
    /\ None \notin Threads
    /\ Setups \subseteq [kind : Kinds, slots : Nat, calls : [Threads -> Nat]]

VARIABLES
    kind,       \* pthread_mutex_t.type
    state,      \* .state: 0 free, 1 taken, 2 taken and someone may wait
    owner, count,
    pc,         \* where each thread is
    timed,      \* its call has a time limit
    held,       \* how often it has the mutex
    left,       \* calls it has left
    waiters,    \* g_waiters
    slot,       \* a_wait's local: 0 if the table was full
    scan,       \* a_wake's local i
    woken       \* task_wake has ended its sleep

mutex == <<kind, state, owner, count>>
client == <<timed, held, left>>
table == <<waiters, slot, scan, woken>>
vars == <<mutex, pc, client, table>>

\* a_wait's steps between two points where it yields: nobody else runs on
\* the boot core meanwhile
OnBoot == {"look", "pid", "recheck", "clear"}

Init ==
    /\ \E s \in Setups :
         /\ kind = s.kind /\ left = s.calls
         /\ waiters = [i \in 1..s.slots |-> [used |-> FALSE, pid |-> None]]
    /\ state = 0 /\ owner = None /\ count = 0
    /\ pc = [t \in Threads |-> "app"] /\ timed = [t \in Threads |-> FALSE]
    /\ held = [t \in Threads |-> 0]
    /\ slot = [t \in Threads |-> 0] /\ scan = [t \in Threads |-> 0]
    /\ woken = [t \in Threads |-> FALSE]

Goto(t, l) == pc' = [pc EXCEPT ![t] = l]

-----------------------------------------------------------------------------
(* pthread_mutex_lock, _timedlock and _trylock *)

\* take has succeeded: lock_any writes the owner next
Taken(t) ==
    /\ held' = [held EXCEPT ![t] = 1]
    /\ Goto(t, IF kind = "normal" THEN "app" ELSE "own")

\* lock_any: the owner takes a recursive mutex again, others go on to take
Lock(t, limit) ==
    /\ pc[t] = "app" /\ left[t] > 0
    /\ left' = [left EXCEPT ![t] = @ - 1]
    /\ IF kind # "normal" /\ owner = t
       THEN /\ IF kind = "recursive"
               THEN count' = count + 1 /\ held' = [held EXCEPT ![t] = @ + 1]
               ELSE UNCHANGED <<count, held>>
            /\ UNCHANGED <<pc, timed>>
       ELSE /\ held[t] = 0              \* a normal mutex is not locked twice
            /\ timed' = [timed EXCEPT ![t] = limit]
            /\ Goto(t, "cas")
            /\ UNCHANGED <<count, held>>
    /\ UNCHANGED <<kind, state, owner, table>>

\* a mutex it has: as lock_any; EBUSY if it is taken
Trylock(t) ==
    /\ pc[t] = "app" /\ left[t] > 0
    /\ kind = "normal" \/ owner # t
    /\ left' = [left EXCEPT ![t] = @ - 1]
    /\ IF state = 0 THEN state' = 1 /\ Taken(t) ELSE UNCHANGED <<state, held, pc>>
    /\ UNCHANGED <<kind, owner, count, timed, table>>

\* take: CAS(&m->state, 0, 1)
Cas(t) ==
    /\ pc[t] = "cas"
    /\ IF state = 0 THEN state' = 1 /\ Taken(t)
       ELSE Goto(t, IF state = 1 THEN "xchg" ELSE "loop") /\ UNCHANGED <<state, held>>
    /\ UNCHANGED <<kind, owner, count, timed, left, table>>

XchgTakesOne(t) ==
    /\ pc[t] = "xchg"
    /\ state' = 2
    /\ IF state # 2 THEN Taken(t) ELSE Goto(t, "loop") /\ UNCHANGED held
    /\ UNCHANGED <<kind, owner, count, timed, left, table>>

\* c = XCHG(&m->state, 2)
Xchg(t) ==
    /\ pc[t] = "xchg"
    /\ state' = 2
    /\ IF state = 0 THEN Taken(t) ELSE Goto(t, "loop") /\ UNCHANGED held
    /\ UNCHANGED <<kind, owner, count, timed, left, table>>

\* ETIMEDOUT
GiveUp(t) ==
    /\ pc[t] = "loop" /\ timed[t]
    /\ Goto(t, "app")
    /\ UNCHANGED <<mutex, client, table>>

\* fwait: on another core the call returns at once if the word has changed
\* (LOCAL_WAIT), else it goes to the boot core
Enter(t) ==
    /\ pc[t] = "loop"
    /\ Goto(t, IF state # 2 THEN "xchg" ELSE "home")
    /\ UNCHANGED <<mutex, client, table>>

Own(t) ==
    /\ pc[t] = "own"
    /\ owner' = t /\ count' = 1
    /\ Goto(t, "app")
    /\ UNCHANGED <<kind, state, client, table>>

-----------------------------------------------------------------------------
(* pthread_mutex_unlock *)

Unlock(t) ==
    /\ pc[t] = "app" /\ held[t] > 0
    /\ IF kind # "normal" /\ count > 1
       THEN /\ count' = count - 1 /\ held' = [held EXCEPT ![t] = @ - 1]
            /\ UNCHANGED <<owner, pc>>
       ELSE /\ IF kind = "normal" THEN UNCHANGED <<owner, count>>
               ELSE owner' = None /\ count' = 0
            /\ Goto(t, "dec")
            /\ UNCHANGED held
    /\ UNCHANGED <<kind, state, timed, left, table>>

\* XADD(&m->state, -1)
Dec(t) ==
    /\ pc[t] = "dec"
    /\ state' = state - 1
    /\ held' = [held EXCEPT ![t] = 0]
    /\ Goto(t, IF state # 1 THEN "zero" ELSE "app")
    /\ UNCHANGED <<kind, owner, count, timed, left, table>>

\* m->state = 0, then fwake(&m->state, 1)
Zero(t) ==
    /\ pc[t] = "zero"
    /\ state' = 0
    /\ scan' = [scan EXCEPT ![t] = 1]
    /\ Goto(t, "wake")
    /\ UNCHANGED <<kind, owner, count, client, waiters, slot, woken>>

-----------------------------------------------------------------------------
(* a_wait and a_wake *)

Boot(t) == \A u \in Threads \ {t} : pc[u] \notin OnBoot

\* the loop's first look; then breathe may let others run
Look(t) ==
    /\ pc[t] \in {"home", "look"} /\ Boot(t)
    /\ \/ state # 2 /\ Goto(t, "xchg")
       \/ state = 2 /\ timed[t] /\ Goto(t, "xchg")
       \/ state = 2 /\ Goto(t, "check")
    /\ UNCHANGED <<mutex, client, table>>

\* back from breathe: a signal waits, or the word has changed ...
Return(t) ==
    /\ pc[t] = "check" /\ Boot(t)
    /\ Goto(t, "xchg")
    /\ UNCHANGED <<mutex, client, table>>

Free == {i \in DOMAIN waiters : ~waiters[i].used}

\* ... or waiter_add: the first free entry's address, if there is one ...
WaiterAdd(t) ==
    /\ pc[t] = "check" /\ Boot(t) /\ state = 2
    /\ IF Free = {} THEN Goto(t, "recheck") /\ UNCHANGED <<waiters, slot>>
       ELSE \E i \in Free :
              /\ \A j \in Free : i <= j
              /\ waiters' = [waiters EXCEPT ![i].used = TRUE]
              /\ slot' = [slot EXCEPT ![t] = i]
              /\ Goto(t, "pid")
    /\ UNCHANGED <<mutex, client, scan, woken>>

\* ... and its task
WaiterPid(t) ==
    /\ pc[t] = "pid"
    /\ waiters' = [waiters EXCEPT ![slot[t]].pid = t]
    /\ Goto(t, "recheck")
    /\ UNCHANGED <<mutex, client, slot, scan, woken>>

\* task_sleep_ms, if the word still has not changed
Sleep(t) ==
    /\ pc[t] = "recheck"
    /\ Goto(t, IF state = 2 THEN "asleep" ELSE "clear")
    /\ UNCHANGED <<mutex, client, table>>

\* task_wake has ended the sleep
Woken(t) ==
    /\ pc[t] = "asleep" /\ woken[t] /\ Boot(t)
    /\ woken' = [woken EXCEPT ![t] = FALSE]
    /\ Goto(t, "clear")
    /\ UNCHANGED <<mutex, client, waiters, slot, scan>>

NapEndsNever(t) == FALSE /\ UNCHANGED vars

\* the nap's 10 ms (1 ms without an entry, or what is left) are over
NapEnds(t) ==
    /\ pc[t] = "asleep" /\ ~woken[t] /\ Boot(t)
    /\ Goto(t, "clear")
    /\ UNCHANGED <<mutex, client, table>>

\* g_waiters[slot].addr = NULL; the pid stays
Clear(t) ==
    /\ pc[t] = "clear"
    /\ IF slot[t] = 0 THEN UNCHANGED <<waiters, slot>>
       ELSE /\ waiters' = [waiters EXCEPT ![slot[t]].used = FALSE]
            /\ slot' = [slot EXCEPT ![t] = 0]
    /\ Goto(t, "look")
    /\ UNCHANGED <<mutex, client, scan, woken>>

\* a_wake(&m->state, 1), one entry: task_wake moves the deadline only of a
\* task that is asleep by now
WakeScan(t) ==
    LET i == scan[t]
        hit == i \in DOMAIN waiters /\ waiters[i].used
        p == waiters[i].pid
    IN  /\ pc[t] = "wake"
        /\ IF hit /\ p \in Threads /\ pc[p] = "asleep"
           THEN woken' = [woken EXCEPT ![p] = TRUE] ELSE UNCHANGED woken
        /\ IF hit \/ i \notin DOMAIN waiters
           THEN scan' = [scan EXCEPT ![t] = 0] /\ Goto(t, "app")
           ELSE scan' = [scan EXCEPT ![t] = i + 1] /\ UNCHANGED pc
        /\ UNCHANGED <<mutex, client, waiters, slot>>

-----------------------------------------------------------------------------

Step(t) ==
    \/ \E limit \in BOOLEAN : Lock(t, limit)
    \/ Trylock(t) \/ Cas(t) \/ Xchg(t) \/ GiveUp(t) \/ Enter(t) \/ Own(t)
    \/ Unlock(t) \/ Dec(t) \/ Zero(t) \/ WakeScan(t)
    \/ Look(t) \/ Return(t) \/ WaiterAdd(t) \/ WaiterPid(t) \/ Sleep(t) \/ Clear(t)
    \/ Woken(t) \/ NapEnds(t)

Next == \E t \in Threads : Step(t)

Spec == Init /\ [][Next]_vars

\* every thread's turn comes: on its own core always, on the boot core by
\* the scheduler's queue (module Sched: QueueServed)
LiveSpec == Spec /\ \A t \in Threads : WF_vars(Step(t))

-----------------------------------------------------------------------------
(* Properties *)

\* The thread that has the mutex, for Lock.
Holder == IF \E t \in Threads : held[t] > 0 THEN CHOOSE t \in Threads : held[t] > 0 ELSE None
Depth == IF Holder = None THEN 0 ELSE held[Holder]

L == INSTANCE Lock WITH holder <- Holder, depth <- Depth

\* The lock word, the owner and the count make a mutex: at every moment one
\* holder at most, whichever of lock, timedlock, trylock and unlock meet.
IsLock == L!Spec

\* Every lock call comes back - taken, or timed out - though a wake may find
\* the table full, the entry without its task or the task not yet asleep.
LockEnds == \A t \in Threads : pc[t] # "app" ~> pc[t] = "app"
=============================================================================
