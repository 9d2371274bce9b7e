----------------------------- MODULE SyncProofs -----------------------------
(***************************************************************************)
(* What the objects of the C library promise for every finite number of    *)
(* threads and of calls: read-write locks, barriers, semaphores and once.  *)
(***************************************************************************)
EXTENDS Sync, FiniteSetTheorems, TLAPS

\* Every thread is somewhere.
PcType == DOMAIN spc = Callers

\* A thread that moves leaves one place and comes to another: what the sizes
\* of the sets of threads at some places become.
LEMMA AtMoves ==
  ASSUME IsFiniteSet(Callers), PcType, NEW t \in Callers, NEW l, SyncGoto(t, l), NEW S
  PROVE  /\ Cardinality(At(S)) \in Nat
         /\ spc[t] \in S => Cardinality(At(S)) > 0
         /\ Cardinality(At(S)') =
              IF l \in S /\ spc[t] \notin S THEN Cardinality(At(S)) + 1
              ELSE IF l \notin S /\ spc[t] \in S THEN Cardinality(At(S)) - 1
              ELSE Cardinality(At(S))
<1> DEFINE A == At(S)
<1>1. A \in SUBSET Callers  BY DEF At
<1>2. IsFiniteSet(A) /\ Cardinality(A) \in Nat  BY <1>1, FS_Subset, FS_CardinalityType
<1>3. At(S)' = IF l \in S THEN A \union {t} ELSE A \ {t}
  BY DEF At, SyncGoto, PcType
<1>4. t \in A <=> spc[t] \in S  BY DEF At
<1>5. Cardinality(A) = 0 => A = {}  BY <1>2, FS_EmptySet
<1>6. spc[t] \in S => Cardinality(A) > 0  BY <1>2, <1>4, <1>5
<1>7. Cardinality(A \union {t}) = IF t \in A THEN Cardinality(A) ELSE Cardinality(A) + 1
  BY <1>2, FS_AddElement
<1>8. Cardinality(A \ {t}) = IF t \in A THEN Cardinality(A) - 1 ELSE Cardinality(A)
  BY <1>2, FS_RemoveElement
<1> QED  BY <1>2, <1>3, <1>4, <1>6, <1>7, <1>8

-----------------------------------------------------------------------------
(* Read-write locks *)

RwInv == PcType /\ writer \in BOOLEAN /\ RwExclusive

\* What a step may do to a read-write lock: leave it alone, take it for
\* reading, begin to wait for writing, take it for writing, or let go of it.
RwAlone(t) ==
    /\ UNCHANGED rwlock
    /\ \/ UNCHANGED spc
       \/ \E l : /\ SyncGoto(t, l)
                 /\ spc[t] \notin {"reading", "writing"} /\ l \notin {"reading", "writing"}
                 /\ spc[t] \in {"wr", "wrwait"} <=> l \in {"wr", "wrwait"}

RwReads(t) ==
    /\ ~writer /\ readers' = readers + 1 /\ UNCHANGED <<writer, waiting_writers>>
    /\ spc[t] \notin {"reading", "writing", "wr", "wrwait"} /\ SyncGoto(t, "reading")

RwQueues(t) ==
    /\ UNCHANGED <<readers, writer>> /\ waiting_writers' = waiting_writers + 1
    /\ spc[t] = "app" /\ SyncGoto(t, "wrwait")

RwWrites(t) ==
    /\ ~writer /\ ~(readers > 0) /\ writer' = TRUE /\ UNCHANGED readers
    /\ SyncGoto(t, "writing")
    /\ \/ spc[t] = "app" /\ UNCHANGED waiting_writers
       \/ spc[t] = "wr" /\ waiting_writers' = waiting_writers - 1

RwStep(t) == RwAlone(t) \/ RwReads(t) \/ RwQueues(t) \/ RwWrites(t) \/ RwUnlock(t)

\* Every step does one of these.
LEMMA StepsOfRw ==
  ASSUME waiting_writers \in Nat, writer \in BOOLEAN, NEW t \in Callers,
         Goes(t) \/ Begins(t) \/ Signal(t) \/ TimedOut(t) \/ SemFails(t)
  PROVE  RwStep(t)
<1> USE DEF RwStep, RwAlone, RwReads, RwQueues, RwWrites, SyncGoto, In, Call, Waits, WaitOf, CondWait, rwlock
<1>1. CASE CondBack(t) \/ Signal(t)  BY <1>1 DEF CondBack, Signal, Backs
<1>2. CASE Take(t) \/ TimedOut(t) \/ Put(t) \/ Notify(t)
  BY <1>2 DEF Take, TimedOut, Put, Notify
<1>3. CASE RdLock(t)  BY <1>3 DEF RdLock
<1>4. CASE TryRdLock(t)  BY <1>4 DEF TryRdLock
<1>5. CASE WrLock(t)
  <2>1. spc[t] \in {"app", "wr"}  BY <1>5 DEF WrLock
  <2>2. CASE writer \/ readers > 0  BY <1>5, <2>1, <2>2 DEF WrLock
  <2>3. CASE ~(writer \/ readers > 0)
    <3>1. ~writer /\ ~(readers > 0) /\ writer' = TRUE /\ readers' = readers /\ SyncGoto(t, "writing")
      BY <1>5, <2>3 DEF WrLock
    <3>2. waiting_writers' = IF spc[t] = "app" THEN waiting_writers ELSE waiting_writers - 1
      BY <1>5, <2>3 DEF WrLock
    <3> QED  BY <2>1, <3>1, <3>2
  <2> QED  BY <2>2, <2>3
<1>6. CASE TryWrLock(t)  BY <1>6 DEF TryWrLock
<1>7. CASE BarrierWait(t) \/ BarrierAgain(t)  BY <1>7 DEF BarrierWait, BarrierAgain
<1>8. CASE SemRead(t) \/ SemCas(t) \/ SemBack(t) \/ SemFails(t) \/ SemPost(t)
  BY <1>8 DEF SemRead, SemCas, SemBack, SemFails, SemPost
<1>9. CASE OnceCall(t) \/ OnceEnd(t) \/ OnceBack(t)
  BY <1>9 DEF OnceCall, OnceEnd, OnceBack
<1> QED
  BY <1>1, <1>2, <1>3, <1>4, <1>5, <1>6, <1>7, <1>8, <1>9 DEF Goes, Begins

LEMMA RwInvariant == SyncAssumption /\ RwInv /\ [SyncNext]_syncVars => RwInv'
<1> SUFFICES ASSUME SyncAssumption, RwInv, [SyncNext]_syncVars PROVE RwInv'
  OBVIOUS
<1>0. IsFiniteSet(Callers)  BY DEF SyncAssumption
<1>1. CASE UNCHANGED syncVars
  BY <1>1 DEF syncVars, rwlock, RwInv, PcType, RwExclusive, At
<1>2. ASSUME NEW t \in Callers, Goes(t) \/ Begins(t) \/ Signal(t) \/ TimedOut(t) \/ SemFails(t)
      PROVE  RwInv'
  <2> DEFINE R == Cardinality(At({"reading"}))
             W == Cardinality(At({"writing"}))
             Q == Cardinality(At({"wr", "wrwait"}))
  <2> USE DEF RwInv
  <2>1. R \in Nat /\ W \in Nat /\ Q \in Nat
    <3>1. \A S : At(S) \in SUBSET Callers  BY DEF At
    <3> QED  BY <1>0, <3>1, FS_Subset, FS_CardinalityType
  <2>2. readers = R /\ waiting_writers = Q /\ W = (IF writer THEN 1 ELSE 0) /\ (writer => R = 0)
    BY DEF RwExclusive
  <2>3. RwStep(t)  BY <1>2, <2>1, <2>2, StepsOfRw
  <2>4. SUFFICES /\ PcType' /\ writer' \in BOOLEAN
                 /\ readers' = R' /\ waiting_writers' = Q' /\ W' = (IF writer' THEN 1 ELSE 0)
                 /\ writer' => R' = 0
    BY DEF RwExclusive
  <2>5. CASE UNCHANGED <<rwlock, spc>>
    BY <2>2, <2>5 DEF rwlock, PcType, At
  <2>6. ASSUME NEW l, SyncGoto(t, l)
        PROVE  /\ PcType'
               /\ R' = IF l = "reading" /\ spc[t] # "reading" THEN R + 1
                       ELSE IF l # "reading" /\ spc[t] = "reading" THEN R - 1 ELSE R
               /\ W' = IF l = "writing" /\ spc[t] # "writing" THEN W + 1
                       ELSE IF l # "writing" /\ spc[t] = "writing" THEN W - 1 ELSE W
               /\ Q' = IF l \in {"wr", "wrwait"} /\ spc[t] \notin {"wr", "wrwait"} THEN Q + 1
                       ELSE IF l \notin {"wr", "wrwait"} /\ spc[t] \in {"wr", "wrwait"} THEN Q - 1 ELSE Q
               /\ spc[t] = "reading" => R > 0
               /\ spc[t] = "writing" => W > 0
    <3>1. PcType'  BY <2>6 DEF PcType, SyncGoto
    <3> QED  BY <1>0, <2>6, <3>1, AtMoves
  <2> HIDE DEF R, W, Q
  <2>8. CASE RwUnlock(t)
    <3>1. SyncGoto(t, "app") /\ UNCHANGED waiting_writers /\ spc[t] \in {"reading", "writing"}
      BY <2>8 DEF RwUnlock
    <3>2. /\ PcType' /\ Q' = Q
          /\ R' = (IF spc[t] = "reading" THEN R - 1 ELSE R)
          /\ W' = (IF spc[t] = "writing" THEN W - 1 ELSE W)
          /\ spc[t] = "reading" => R > 0
          /\ spc[t] = "writing" => W > 0
      BY <2>6, <3>1
    <3>3. CASE writer
      <4>1. spc[t] = "writing" /\ R = 0 /\ W = 1  BY <2>1, <2>2, <3>1, <3>2, <3>3
      <4>2. writer' = FALSE /\ readers' = readers  BY <2>8, <3>3 DEF RwUnlock
      <4>3. writer' \in BOOLEAN /\ ~writer'  BY <4>2
      <4>4. R' = readers' /\ W' = 0 /\ Q' = waiting_writers'  BY <2>1, <2>2, <3>1, <3>2, <4>1, <4>2
      <4> QED  BY <3>2, <4>3, <4>4
    <3>4. CASE ~writer
      <4>1. spc[t] = "reading" /\ W = 0 /\ R > 0  BY <2>1, <2>2, <3>1, <3>2, <3>4
      <4>2. writer' = writer /\ readers' = readers - 1  BY <2>2, <2>8, <3>4, <4>1 DEF RwUnlock
      <4> QED  BY <2>1, <2>2, <3>1, <3>2, <3>4, <4>1, <4>2
    <3> QED  BY <3>3, <3>4
  <2>9. CASE RwReads(t)
    BY <2>1, <2>2, <2>6, <2>9 DEF RwReads
  <2>10. CASE RwQueues(t)
    BY <2>1, <2>2, <2>6, <2>10 DEF RwQueues
  <2>11. CASE RwWrites(t)
    <3>1. PcType' /\ R' = R /\ W' = W + 1 /\ waiting_writers' = Q'
      BY <2>1, <2>2, <2>6, <2>11 DEF RwWrites
    <3>2. R = 0 /\ W = 0 /\ writer' = TRUE /\ readers' = readers
      BY <2>1, <2>2, <2>11 DEF RwWrites
    <3> QED  BY <2>2, <3>1, <3>2
  <2>12. CASE RwAlone(t)
    BY <2>2, <2>5, <2>6, <2>12 DEF RwAlone, rwlock
  <2> QED  BY <2>3, <2>8, <2>9, <2>10, <2>11, <2>12 DEF RwStep
<1> QED  BY <1>1, <1>2 DEF SyncNext

\* A writer of a read-write lock is alone, and the counts are exact, for any
\* number of threads that lock, try, are signalled and unlock.
THEOREM RwLocksExclude == SyncAssumption => (SyncSpec => []RwExclusive)
<1> SUFFICES ASSUME SyncAssumption PROVE SyncSpec => []RwExclusive
  OBVIOUS
<1>1. SyncInit => RwInv
  <2> SUFFICES ASSUME SyncInit PROVE RwInv
    OBVIOUS
  <2>1. At({"reading"}) = {} /\ At({"writing"}) = {} /\ At({"wr", "wrwait"}) = {}
    BY DEF SyncInit, At
  <2> QED  BY <2>1, FS_EmptySet DEF SyncInit, RwInv, PcType, RwExclusive
<1>2. RwInv /\ [SyncNext]_syncVars => RwInv'  BY RwInvariant
<1>3. RwInv => RwExclusive  BY DEF RwInv
<1> QED  BY <1>1, <1>2, <1>3, PTL DEF SyncSpec

-----------------------------------------------------------------------------
(* Barriers *)

InBarrier == {"barrier", "barrierwait"}

\* The threads that wait for the end of this round.
Waiters == {t \in Callers : spc[t] \in InBarrier /\ my[t] = round}

\* A waiter has made one call more than there were rounds and returned from
\* as many as there were; the others have made as many, and those still on
\* their way out of the last round have one to return from.
BarrierInv ==
    /\ PcType /\ round \in Nat /\ DOMAIN my = Callers
    /\ arrived \in [Callers -> Nat] /\ passed \in [Callers -> Nat]
    /\ waiting = Cardinality(Waiters)
    /\ \A t \in Callers :
         /\ t \in Waiters => arrived[t] = round + 1 /\ passed[t] = round
         /\ t \notin Waiters => arrived[t] = round
         /\ t \notin Waiters /\ spc[t] \in InBarrier => passed[t] + 1 = round
         /\ spc[t] \notin InBarrier => passed[t] = round

\* What a step may do to a barrier: leave it alone, arrive, or leave it.
BarrierAlone(t) ==
    /\ UNCHANGED barrier
    /\ \/ UNCHANGED spc
       \/ \E l : SyncGoto(t, l) /\ (spc[t] \in InBarrier <=> l \in InBarrier)

BarrierLeaves(t) ==
    /\ spc[t] \in InBarrier /\ my[t] # round
    /\ passed' = [passed EXCEPT ![t] = @ + 1] /\ SyncGoto(t, "app")
    /\ UNCHANGED <<waiting, round, my, arrived>>

\* Every step does one of these.
LEMMA StepsOfBarrier ==
  ASSUME NEW t \in Callers, Goes(t) \/ Begins(t) \/ Signal(t) \/ TimedOut(t) \/ SemFails(t)
  PROVE  BarrierAlone(t) \/ BarrierWait(t) \/ BarrierLeaves(t)
<1> USE DEF BarrierAlone, BarrierLeaves, SyncGoto, In, Call, Waits, WaitOf, CondWait, barrier, InBarrier
<1>1. CASE CondBack(t) \/ Signal(t)  BY <1>1 DEF CondBack, Signal, Backs
<1>2. CASE Take(t) \/ TimedOut(t) \/ Put(t) \/ Notify(t)
  BY <1>2 DEF Take, TimedOut, Put, Notify
<1>3. CASE RdLock(t) \/ TryRdLock(t)  BY <1>3 DEF RdLock, TryRdLock
<1>4. CASE WrLock(t) \/ TryWrLock(t)  BY <1>4 DEF WrLock, TryWrLock
<1>5. CASE RwUnlock(t)
  <2>1. spc[t] \in {"reading", "writing"} /\ SyncGoto(t, "app") /\ UNCHANGED barrier
    BY <1>5, Zenon DEF RwUnlock
  <2> HIDE DEF SyncGoto
  <2> QED  BY <2>1
<1>6. CASE BarrierAgain(t)  BY <1>6 DEF BarrierAgain
<1>7. CASE SemRead(t) \/ SemCas(t) \/ SemBack(t) \/ SemFails(t) \/ SemPost(t)
  BY <1>7 DEF SemRead, SemCas, SemBack, SemFails, SemPost
<1>8. CASE OnceCall(t) \/ OnceEnd(t) \/ OnceBack(t)
  BY <1>8 DEF OnceCall, OnceEnd, OnceBack
<1> QED
  BY <1>1, <1>2, <1>3, <1>4, <1>5, <1>6, <1>7, <1>8 DEF Goes, Begins

LEMMA BarrierInvariant == SyncAssumption /\ BarrierInv /\ [SyncNext]_syncVars => BarrierInv'
<1> SUFFICES ASSUME SyncAssumption, BarrierInv, [SyncNext]_syncVars PROVE BarrierInv'
  OBVIOUS
<1>0. IsFiniteSet(Callers)  BY DEF SyncAssumption
<1>1. CASE UNCHANGED syncVars
  BY <1>1 DEF syncVars, barrier, BarrierInv, PcType, Waiters
<1>2. ASSUME NEW t \in Callers, Goes(t) \/ Begins(t) \/ Signal(t) \/ TimedOut(t) \/ SemFails(t)
      PROVE  BarrierInv'
  <2> USE DEF BarrierInv, PcType
  <2>1. Waiters \in SUBSET Callers  BY DEF Waiters
  <2>2. IsFiniteSet(Waiters) /\ Cardinality(Waiters) \in Nat /\ Cardinality(Callers) \in Nat
    BY <1>0, <2>1, FS_Subset, FS_CardinalityType
  <2>3. CASE BarrierAlone(t)
    <3>1. Waiters' = Waiters  BY <2>3 DEF BarrierAlone, SyncGoto, barrier, Waiters
    <3>2. \A u \in Callers : spc'[u] \in InBarrier <=> spc[u] \in InBarrier
      BY <2>3 DEF BarrierAlone, SyncGoto
    <3> QED  BY <2>3, <3>1, <3>2 DEF BarrierAlone, SyncGoto, barrier
  <2>4. CASE BarrierLeaves(t)
    <3>1. Waiters' = Waiters /\ t \notin Waiters
      BY <2>4 DEF BarrierLeaves, SyncGoto, Waiters, InBarrier
    <3>2. \A u \in Callers \ {t} : spc'[u] = spc[u] /\ passed'[u] = passed[u]
      BY <2>4 DEF BarrierLeaves, SyncGoto
    <3>3. spc'[t] \notin InBarrier /\ passed'[t] = passed[t] + 1 /\ spc[t] \in InBarrier
      BY <2>4 DEF BarrierLeaves, SyncGoto, InBarrier
    <3> QED  BY <2>4, <3>1, <3>2, <3>3 DEF BarrierLeaves, SyncGoto
  <2>5. CASE BarrierWait(t) /\ waiting + 1 # Cardinality(Callers)
    <3>1. spc[t] \notin InBarrier /\ t \notin Waiters
      BY <2>5 DEF BarrierWait, Call, InBarrier, Waiters
    <3>2. /\ spc' = [spc EXCEPT ![t] = "barrierwait"] /\ my' = [my EXCEPT ![t] = round]
          /\ arrived' = [arrived EXCEPT ![t] = @ + 1] /\ waiting' = waiting + 1
          /\ UNCHANGED <<round, passed>>
      BY <2>5 DEF BarrierWait, CondWait, SyncGoto, WaitOf
    <3>3. Waiters' = Waiters \union {t}  BY <3>2 DEF Waiters, InBarrier
    <3>4. waiting' = Cardinality(Waiters')  BY <2>2, <3>1, <3>2, <3>3, FS_AddElement
    <3>5. spc'[t] \in InBarrier  BY <3>2 DEF InBarrier
    <3> QED  BY <3>1, <3>2, <3>3, <3>4, <3>5
  <2>6. CASE BarrierWait(t) /\ waiting + 1 = Cardinality(Callers)
    <3>1. spc[t] \notin InBarrier /\ t \notin Waiters
      BY <2>6 DEF BarrierWait, Call, InBarrier, Waiters
    <3>2. /\ waiting' = 0 /\ round' = round + 1
          /\ arrived' = [arrived EXCEPT ![t] = @ + 1] /\ passed' = [passed EXCEPT ![t] = @ + 1]
          /\ UNCHANGED <<spc, my>>
      BY <2>6 DEF BarrierWait
    <3>3. Waiters \union {t} = Callers
      <4>1. Cardinality(Waiters \union {t}) = Cardinality(Callers)
        BY <2>2, <2>6, <3>1, FS_AddElement
      <4> HIDE DEF BarrierInv
      <4>2. (Waiters \union {t}) \in SUBSET Callers  BY <2>1
      <4> QED  BY <1>0, <4>1, <4>2, FS_Subset
    <3>4. Waiters' = {}
      BY <3>1, <3>2, <3>3 DEF Waiters
    <3>5. waiting' = Cardinality(Waiters')  BY <3>2, <3>4, FS_EmptySet
    <3>6. \A u \in Callers \ {t} : u \in Waiters /\ spc[u] \in InBarrier  BY <3>3 DEF Waiters
    <3> QED  BY <3>1, <3>2, <3>4, <3>5, <3>6
  <2> QED  BY <1>2, <2>3, <2>4, <2>5, <2>6, StepsOfBarrier
<1> QED  BY <1>1, <1>2 DEF SyncNext

\* Nobody leaves a barrier before all have come to it, however many threads
\* meet there and however often, and whatever ends their waits.
THEOREM BarriersHold == SyncAssumption => (SyncSpec => []BarrierTogether)
<1> SUFFICES ASSUME SyncAssumption PROVE SyncSpec => []BarrierTogether
  OBVIOUS
<1>1. SyncInit => BarrierInv
  <2> SUFFICES ASSUME SyncInit PROVE BarrierInv
    OBVIOUS
  <2>1. Waiters = {}  BY DEF SyncInit, Waiters, InBarrier
  <2> QED  BY <2>1, FS_EmptySet DEF SyncInit, BarrierInv, PcType, InBarrier
<1>2. BarrierInv /\ [SyncNext]_syncVars => BarrierInv'  BY BarrierInvariant
<1>3. BarrierInv => BarrierTogether
  <2> SUFFICES ASSUME BarrierInv, NEW t \in Callers, NEW u \in Callers
      PROVE  passed[t] <= arrived[u]
    BY DEF BarrierTogether
  <2>1. passed[t] <= round /\ round <= arrived[u]  BY DEF BarrierInv
  <2> QED  BY <2>1 DEF BarrierInv
<1> QED  BY <1>1, <1>2, <1>3, PTL DEF SyncSpec

-----------------------------------------------------------------------------
(* Semaphores and once *)

\* A semaphore's value is what was posted and not taken, and a thread about
\* to take has seen more than 0; the function is run by one thread, before
\* the word is 2.
CountInv ==
    /\ PcType /\ DOMAIN want = Callers
    /\ value \in Nat /\ taken \in Nat /\ posted \in Nat /\ value = posted - taken
    /\ \A t \in Callers : spc[t] = "semcas" => want[t] \in Nat \ {0}
    /\ once \in 0..2 /\ ran = IF once = 2 THEN 1 ELSE 0
    /\ \A t \in Callers :
         /\ spc[t] = "fn" => once = 1 /\ \A u \in Callers : spc[u] = "fn" => u = t
         /\ spc[t] = "oncewait" => once # 0
         /\ spc[t] = "oncedone" => once = 2

\* What a step may do to a semaphore and a once word.
CountAlone(t) ==
    /\ UNCHANGED <<sem, onceVars>>
    /\ DOMAIN want' = DOMAIN want /\ \A u \in Callers \ {t} : want'[u] = want[u]
    /\ \/ UNCHANGED <<spc, want>>
       \/ \E l : SyncGoto(t, l) /\ l \notin {"semcas", "fn", "oncewait", "oncedone"}

\* Every other step leaves both alone.
LEMMA StepsOfCount ==
  ASSUME DOMAIN want = Callers, NEW t \in Callers,
         Goes(t) \/ Begins(t) \/ Signal(t) \/ TimedOut(t) \/ SemFails(t)
  PROVE  \/ CountAlone(t)
         \/ SemRead(t) \/ SemCas(t) \/ SemPost(t) \/ OnceCall(t) \/ OnceEnd(t) \/ OnceBack(t)
<1> USE DEF CountAlone, SyncGoto, In, Call, Waits, WaitOf, CondWait, sem, onceVars
<1>1. CASE CondBack(t) \/ Signal(t)  BY <1>1 DEF CondBack, Signal, Backs
<1>2. CASE Take(t) \/ TimedOut(t) \/ Put(t) \/ Notify(t)
  BY <1>2 DEF Take, TimedOut, Put, Notify
<1>3. CASE RdLock(t) \/ TryRdLock(t)  BY <1>3 DEF RdLock, TryRdLock
<1>4. CASE WrLock(t) \/ TryWrLock(t)  BY <1>4 DEF WrLock, TryWrLock
<1>5. CASE RwUnlock(t)
  <2>1. SyncGoto(t, "app") /\ UNCHANGED <<want, sem, onceVars>>
    BY <1>5, Zenon DEF RwUnlock
  <2> HIDE DEF SyncGoto
  <2> QED  BY <2>1
<1>6. CASE BarrierWait(t) \/ BarrierAgain(t)  BY <1>6 DEF BarrierWait, BarrierAgain
<1>7. CASE SemBack(t) \/ SemFails(t)  BY <1>7 DEF SemBack, SemFails
<1> QED
  BY <1>1, <1>2, <1>3, <1>4, <1>5, <1>6, <1>7 DEF Goes, Begins

LEMMA CountInvariant == CountInv /\ [SyncNext]_syncVars => CountInv'
<1> SUFFICES ASSUME CountInv, [SyncNext]_syncVars PROVE CountInv'
  OBVIOUS
<1> USE DEF CountInv, PcType
<1>1. CASE UNCHANGED syncVars  BY <1>1 DEF syncVars, sem, onceVars
<1>2. ASSUME NEW t \in Callers, Goes(t) \/ Begins(t) \/ Signal(t) \/ TimedOut(t) \/ SemFails(t)
      PROVE  CountInv'
  <2> USE DEF SyncGoto, sem, onceVars
  <2>1. CASE CountAlone(t)  BY <2>1 DEF CountAlone
  <2>2. CASE SemRead(t)  BY <2>2 DEF SemRead
  <2>3. CASE SemCas(t)  BY <2>3 DEF SemCas
  <2>4. CASE SemPost(t)  BY <2>4 DEF SemPost
  <2>5. CASE OnceCall(t)  BY <2>5 DEF OnceCall
  <2>6. CASE OnceEnd(t)  BY <2>6 DEF OnceEnd
  <2>7. CASE OnceBack(t)  BY <2>7 DEF OnceBack
  <2> QED  BY <1>2, <2>1, <2>2, <2>3, <2>4, <2>5, <2>6, <2>7, StepsOfCount
<1> QED  BY <1>1, <1>2 DEF SyncNext

\* No semaphore gives out what was not posted, and a once function is run
\* once, before anyone returns, for any number of threads.
THEOREM CountsHold == SyncSpec => []CountedOnce
<1>1. SyncInit => CountInv  BY DEF SyncInit, CountInv, PcType
<1>2. CountInv /\ [SyncNext]_syncVars => CountInv'  BY CountInvariant
<1>3. CountInv => CountedOnce  BY DEF CountInv, CountedOnce
<1> QED  BY <1>1, <1>2, <1>3, PTL DEF SyncSpec
=============================================================================
