-------------------------------- MODULE Sync --------------------------------
(***************************************************************************)
(* What the SDK builds on a mutex and on wait / wake (sdk/lib/pthread.c):  *)
(* condition variables, read-write locks, barriers, semaphores and once.   *)
(* The mutex is the one Mutex implements, so what a call does between      *)
(* locking and unlocking it is one step; a_wait is its promise: it returns *)
(* once the word has changed, or for a signal, or after its time.  A wake  *)
(* only shortens the kernel's nap, and is left out.                        *)
(***************************************************************************)
EXTENDS Integers, FiniteSets

CONSTANTS
    Callers,
    Objects,    \* the objects looked at, one per behaviour
    Calls,      \* bound: calls of a thread
    Posters     \* threads that post, where others wait

SyncAssumption ==
    /\ IsFiniteSet(Callers) /\ Posters \subseteq Callers
    /\ Objects \subseteq {"cond", "rwlock", "barrier", "sem", "once"}
    /\ Calls \in Nat

VARIABLES
    obj,
    spc,         \* where each thread is
    sleft,       \* calls it has left
    seq,        \* pthread_cond_t.seq
    want,       \* the value its a_wait expects
    ready,      \* cond: what the program's waiters wait for
    readers, writer, waiting_writers,   \* pthread_rwlock_t
    waiting, round, my,                 \* pthread_barrier_t, and barrier_wait's local round
    arrived, passed,                    \* barrier calls made, and returned from
    value, taken, posted,               \* sem_t.value, and the calls that changed it
    once, ran                           \* pthread_once_t, and how often fn ended

rwlock == <<readers, writer, waiting_writers>>
barrier == <<waiting, round, my, arrived, passed>>
sem == <<value, taken, posted>>
onceVars == <<once, ran>>
syncVars == <<obj, spc, sleft, seq, want, ready, rwlock, barrier, sem, onceVars>>

SyncInit ==
    /\ obj \in Objects
    /\ spc = [t \in Callers |-> "app"]
    /\ sleft = [t \in Callers |-> IF obj \in {"cond", "sem"} /\ t \in Posters
                                 THEN Calls * Cardinality(Callers \ Posters) ELSE Calls]
    /\ seq = 0 /\ want = [t \in Callers |-> 0] /\ ready = 0
    /\ readers = 0 /\ writer = FALSE /\ waiting_writers = 0
    /\ waiting = 0 /\ round = 0 /\ my = [t \in Callers |-> 0]
    /\ arrived = [t \in Callers |-> 0] /\ passed = [t \in Callers |-> 0]
    /\ value = 0 /\ taken = 0 /\ posted = 0
    /\ once = 0 /\ ran = 0

SyncGoto(t, l) == spc' = [spc EXCEPT ![t] = l]

\* a call of the program
Call(t) == spc[t] = "app" /\ sleft[t] > 0 /\ sleft' = [sleft EXCEPT ![t] = @ - 1]

\* a call, or back in it from cond_wait
In(t, l) == \/ Call(t)
            \/ spc[t] = l /\ UNCHANGED sleft

-----------------------------------------------------------------------------
(* Condition variables *)

Backs == {"cond", "rd", "wr", "barrier"}
WaitOf(l) == CASE l = "cond" -> "condwait" [] l = "rd" -> "rdwait" [] l = "wr" -> "wrwait" [] l = "barrier" -> "barrierwait"
Waits(t, l) == spc[t] = WaitOf(l)

\* cond_wait up to its a_wait: seq is read before the mutex is let go of;
\* it comes back at l
CondWait(t, l) ==
    /\ want' = [want EXCEPT ![t] = seq]
    /\ SyncGoto(t, WaitOf(l))

\* a_wait returns: seq has changed
CondBack(t) ==
    /\ \E l \in Backs : Waits(t, l) /\ SyncGoto(t, l)
    /\ seq # want[t]
    /\ UNCHANGED <<obj, sleft, seq, want, ready, rwlock, barrier, sem, onceVars>>

\* ... or a signal is there for the thread
Signal(t) ==
    /\ \E l \in Backs : Waits(t, l) /\ SyncGoto(t, l)
    /\ seq = want[t]
    /\ UNCHANGED <<obj, sleft, seq, want, ready, rwlock, barrier, sem, onceVars>>

\* a program's use: wait until there is something, and take it
Take(t) ==
    /\ obj = "cond" /\ t \notin Posters /\ In(t, "cond")
    /\ IF ready > 0 THEN ready' = ready - 1 /\ SyncGoto(t, "app") /\ UNCHANGED want
       ELSE CondWait(t, "cond") /\ UNCHANGED ready
    /\ UNCHANGED <<obj, seq, rwlock, barrier, sem, onceVars>>

\* pthread_cond_timedwait: its time is over
TimedOut(t) ==
    /\ Waits(t, "cond")
    /\ SyncGoto(t, "app")
    /\ UNCHANGED <<obj, sleft, seq, want, ready, rwlock, barrier, sem, onceVars>>

\* ... and put something there; then, the mutex let go of,
Put(t) ==
    /\ obj = "cond" /\ t \in Posters /\ Call(t)
    /\ ready' = ready + 1 /\ SyncGoto(t, "notify")
    /\ UNCHANGED <<obj, seq, want, rwlock, barrier, sem, onceVars>>

\* pthread_cond_signal or _broadcast
Notify(t) ==
    /\ spc[t] = "notify"
    /\ seq' = seq + 1 /\ SyncGoto(t, "app")
    /\ UNCHANGED <<obj, sleft, want, ready, rwlock, barrier, sem, onceVars>>

-----------------------------------------------------------------------------
(* Read-write locks *)

RdLockAnyway(t) ==
    /\ obj = "rwlock" /\ In(t, "rd")
    /\ IF writer /\ spc[t] = "app" THEN CondWait(t, "rd") /\ UNCHANGED readers
       ELSE readers' = readers + 1 /\ SyncGoto(t, "reading") /\ UNCHANGED want
    /\ UNCHANGED <<obj, seq, ready, writer, waiting_writers, barrier, sem, onceVars>>

\* pthread_rwlock_rdlock
RdLock(t) ==
    /\ obj = "rwlock" /\ In(t, "rd")
    /\ IF writer \/ waiting_writers > 0 THEN CondWait(t, "rd") /\ UNCHANGED readers
       ELSE readers' = readers + 1 /\ SyncGoto(t, "reading") /\ UNCHANGED want
    /\ UNCHANGED <<obj, seq, ready, writer, waiting_writers, barrier, sem, onceVars>>

\* pthread_rwlock_tryrdlock
TryRdLock(t) ==
    /\ obj = "rwlock" /\ Call(t)
    /\ IF writer \/ waiting_writers > 0 THEN UNCHANGED <<readers, spc>>
       ELSE readers' = readers + 1 /\ SyncGoto(t, "reading")
    /\ UNCHANGED <<obj, seq, want, ready, writer, waiting_writers, barrier, sem, onceVars>>

\* pthread_rwlock_wrlock: it counts as waiting from its first look on
WrLock(t) ==
    /\ obj = "rwlock" /\ In(t, "wr")
    /\ LET n == IF spc[t] = "app" THEN waiting_writers + 1 ELSE waiting_writers
       IN  IF writer \/ readers > 0
           THEN waiting_writers' = n /\ CondWait(t, "wr") /\ UNCHANGED writer
           ELSE /\ waiting_writers' = n - 1
                /\ writer' = TRUE
                /\ SyncGoto(t, "writing") /\ UNCHANGED want
    /\ UNCHANGED <<obj, seq, ready, readers, barrier, sem, onceVars>>

\* pthread_rwlock_trywrlock
TryWrLock(t) ==
    /\ obj = "rwlock" /\ Call(t)
    /\ IF writer \/ readers > 0 THEN UNCHANGED <<writer, spc>>
       ELSE writer' = TRUE /\ SyncGoto(t, "writing")
    /\ UNCHANGED <<obj, seq, want, ready, readers, waiting_writers, barrier, sem, onceVars>>

\* pthread_rwlock_unlock, with its pthread_cond_broadcast
RwUnlock(t) ==
    /\ spc[t] \in {"reading", "writing"}
    /\ IF writer THEN writer' = FALSE /\ UNCHANGED readers
       ELSE /\ readers' = IF readers > 0 THEN readers - 1 ELSE 0
            /\ UNCHANGED writer
    /\ seq' = seq + 1
    /\ SyncGoto(t, "app")
    /\ UNCHANGED <<obj, sleft, want, ready, waiting_writers, barrier, sem, onceVars>>

-----------------------------------------------------------------------------
(* Barriers *)

\* pthread_barrier_wait: the last to arrive opens the next round ...
BarrierWait(t) ==
    /\ obj = "barrier" /\ Call(t)
    /\ arrived' = [arrived EXCEPT ![t] = @ + 1]
    /\ IF waiting + 1 = Cardinality(Callers)
       THEN /\ waiting' = 0 /\ round' = round + 1 /\ seq' = seq + 1
            /\ passed' = [passed EXCEPT ![t] = @ + 1]
            /\ UNCHANGED <<spc, want, my>>
       ELSE /\ waiting' = waiting + 1
            /\ my' = [my EXCEPT ![t] = round]
            /\ CondWait(t, "barrier")
            /\ UNCHANGED <<round, seq, passed>>
    /\ UNCHANGED <<obj, ready, rwlock, sem, onceVars>>

BarrierAgainOnce(t) ==
    /\ spc[t] = "barrier"
    /\ passed' = [passed EXCEPT ![t] = @ + 1] /\ SyncGoto(t, "app")
    /\ UNCHANGED <<obj, sleft, want, seq, ready, rwlock, waiting, round, my, arrived, sem, onceVars>>

\* ... and the others wait for it
BarrierAgain(t) ==
    /\ spc[t] = "barrier"
    /\ IF my[t] = round THEN CondWait(t, "barrier") /\ UNCHANGED passed
       ELSE passed' = [passed EXCEPT ![t] = @ + 1] /\ SyncGoto(t, "app") /\ UNCHANGED want
    /\ UNCHANGED <<obj, sleft, seq, ready, rwlock, waiting, round, my, arrived, sem, onceVars>>

-----------------------------------------------------------------------------
(* Semaphores *)

\* sem_take: v = s->value (then its compare-and-swap, or its wait), by a
\* sem_wait, a sem_timedwait ...
SemRead(t) ==
    /\ obj = "sem" /\ t \notin Posters /\ In(t, "semread")
    /\ want' = [want EXCEPT ![t] = value]
    /\ SyncGoto(t, IF value > 0 THEN "semcas" ELSE "semwait")
    /\ UNCHANGED <<obj, seq, ready, rwlock, barrier, sem, onceVars>>

SemCasBlind(t) ==
    /\ spc[t] = "semcas"
    /\ value' = want[t] - 1 /\ taken' = taken + 1 /\ SyncGoto(t, "app")
    /\ UNCHANGED <<obj, sleft, seq, want, ready, rwlock, barrier, posted, onceVars>>

SemCas(t) ==
    /\ spc[t] = "semcas"
    /\ IF value = want[t] THEN value' = value - 1 /\ taken' = taken + 1 /\ SyncGoto(t, "app")
       ELSE SyncGoto(t, "semread") /\ UNCHANGED <<value, taken>>
    /\ UNCHANGED <<obj, sleft, seq, want, ready, rwlock, barrier, posted, onceVars>>

\* fwait(&s->value, v, ms)
SemBack(t) ==
    /\ spc[t] = "semwait" /\ value # want[t]
    /\ SyncGoto(t, "semread")
    /\ UNCHANGED <<obj, sleft, seq, want, ready, rwlock, barrier, sem, onceVars>>

\* ... or a sem_trywait, or one whose time is over: EAGAIN, ETIMEDOUT
SemFails(t) ==
    /\ spc[t] = "semwait"
    /\ SyncGoto(t, "app")
    /\ UNCHANGED <<obj, sleft, seq, want, ready, rwlock, barrier, sem, onceVars>>

SemPost(t) ==
    /\ obj = "sem" /\ t \in Posters /\ Call(t)
    /\ value' = value + 1 /\ posted' = posted + 1
    /\ UNCHANGED <<obj, spc, seq, want, ready, rwlock, barrier, taken, onceVars>>

-----------------------------------------------------------------------------
(* pthread_once *)

OnceCall(t) ==
    /\ obj = "once" /\ Call(t)
    /\ SyncGoto(t, CASE once = 0 -> "fn" [] once = 1 -> "oncewait" [] OTHER -> "oncedone")
    /\ once' = IF once = 0 THEN 1 ELSE once
    /\ UNCHANGED <<obj, seq, want, ready, rwlock, barrier, sem, ran>>

\* fn(), and *o = 2
OnceEnd(t) ==
    /\ spc[t] = "fn"
    /\ once' = 2 /\ ran' = ran + 1 /\ SyncGoto(t, "oncedone")
    /\ UNCHANGED <<obj, sleft, seq, want, ready, rwlock, barrier, sem>>

\* while (*o == 1) fwait(o, 1, -1)
OnceBack(t) ==
    /\ spc[t] = "oncewait" /\ once # 1
    /\ SyncGoto(t, "oncedone")
    /\ UNCHANGED <<obj, sleft, seq, want, ready, rwlock, barrier, sem, onceVars>>

-----------------------------------------------------------------------------

\* what goes on within a call, and the calls that end another's wait
Goes(t) ==
    \/ CondBack(t) \/ RwUnlock(t) \/ BarrierAgain(t) \/ BarrierWait(t) \/ Put(t) \/ Notify(t)
    \/ spc[t] # "app" /\ (Take(t) \/ RdLock(t) \/ WrLock(t) \/ SemRead(t))
    \/ SemCas(t) \/ SemBack(t) \/ SemPost(t) \/ OnceEnd(t) \/ OnceBack(t)

Begins(t) ==
    \/ spc[t] = "app" /\ (Take(t) \/ RdLock(t) \/ WrLock(t) \/ SemRead(t))
    \/ TryRdLock(t) \/ TryWrLock(t) \/ OnceCall(t)

SyncNext == \E t \in Callers : Goes(t) \/ Begins(t) \/ Signal(t) \/ TimedOut(t) \/ SemFails(t)

SyncSpec == SyncInit /\ [][SyncNext]_syncVars

\* a thread in a call goes on, a holder lets go, the posters post; nobody
\* needs a signal or a time limit
SyncLiveSpec == SyncSpec /\ \A t \in Callers : WF_syncVars(Goes(t))

-----------------------------------------------------------------------------
(* Properties *)

At(S) == {t \in Callers : spc[t] \in S}

\* A writer of a read-write lock is alone, the lock counts its readers and
\* its waiting writers exactly, over try calls, signals and broadcasts.
RwExclusive ==
    /\ readers = Cardinality(At({"reading"}))
    /\ Cardinality(At({"writing"})) = IF writer THEN 1 ELSE 0
    /\ writer => readers = 0
    /\ waiting_writers = Cardinality(At({"wr", "wrwait"}))

\* No thread leaves its n-th pthread_barrier_wait before every thread has
\* come to its own n-th, though a signal may end a wait and a fast thread
\* come round again before a slow one has left.
BarrierTogether == \A t, u \in Callers : passed[t] <= arrived[u]

\* A semaphore gives out what was posted and no more, and pthread_once
\* returns to nobody before its function has run, once.
CountedOnce ==
    /\ value = posted - taken /\ value >= 0
    /\ ran <= 1 /\ \A t \in Callers : spc[t] = "oncedone" => ran = 1

\* Every call returns: no reader, writer, barrier, semaphore or once waits
\* for a change it has missed.
CallsEnd == \A t \in Callers : spc[t] # "app" ~> spc[t] \in {"app", "oncedone"}
=============================================================================
