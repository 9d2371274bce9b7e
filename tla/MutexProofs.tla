---------------------------- MODULE MutexProofs ----------------------------
(***************************************************************************)
(* The C library's mutex is a lock, for every number of threads, of table  *)
(* entries and of calls: Mutex implements Lock.  Waiting plays no part in  *)
(* it: the argument is about the lock word, the owner and the count.       *)
(***************************************************************************)
EXTENDS Mutex, TLAPS

\* A thread has the mutex, or has let go of it with the word still to clear.
Busy(t) == held[t] > 0 \/ pc[t] = "zero"

MutexTypes ==
    /\ state \in 0..2 /\ count \in Nat
    /\ held \in [Threads -> Nat]
    /\ DOMAIN pc = Threads

\* The word is 0 only if nobody is busy, and no two are.
WordInv ==
    /\ state = 0 => \A t \in Threads : ~Busy(t)
    /\ \A t, u \in Threads : Busy(t) /\ Busy(u) => t = u

\* Where a thread is decides how often it can have the mutex.
PlaceInv ==
    \A t \in Threads :
      /\ held[t] > 0 => pc[t] \in {"app", "own", "dec"}
      /\ pc[t] \in {"own", "dec"} => held[t] = 1
      /\ kind = "normal" => held[t] <= 1 /\ pc[t] # "own"

\* The owner of a recursive or checking mutex has it as often as count says;
\* owner and count are not written yet in "own", and cleared by "dec".
OwnerInv ==
    /\ \A t \in Threads : kind # "normal" /\ pc[t] = "app" /\ held[t] > 0 => owner = t /\ count = held[t]
    /\ owner \in Threads => kind # "normal" /\ held[owner] > 0 /\ pc[owner] = "app"

LockInv == MutexTypes /\ WordInv /\ PlaceInv /\ OwnerInv

\* The steps that change neither the mutex nor who has it: they only move
\* a thread that has not got it.
Moves(t) ==
    /\ UNCHANGED <<kind, state, owner, count, held>>
    /\ held[t] = 0 /\ pc[t] # "zero"
    /\ \E l \in {"app", "cas", "xchg", "loop", "home", "look", "check", "pid", "recheck", "asleep", "clear", "wake"} :
         pc' = [pc EXCEPT ![t] = l]

-----------------------------------------------------------------------------

\* The initial state satisfies the inductive invariant.
LEMMA InitLockInv == MutexAssumption /\ Init => LockInv
<1> SUFFICES ASSUME MutexAssumption, Init PROVE LockInv
  OBVIOUS
<1> QED
  BY DEF MutexAssumption, Init, LockInv, MutexTypes, WordInv, PlaceInv, OwnerInv, Busy

\* What waits, looks, scans or wakes only moves a thread.
LEMMA WaitingMoves ==
  ASSUME LockInv, NEW t \in Threads,
         GiveUp(t) \/ Enter(t) \/ Look(t) \/ Return(t) \/ WaiterAdd(t) \/ WaiterPid(t)
           \/ Sleep(t) \/ Clear(t) \/ Woken(t) \/ NapEnds(t) \/ (WakeScan(t) /\ pc' # pc)
  PROVE  Moves(t)
<1>0. held[t] = 0 \/ pc[t] \in {"app", "own", "dec"}
  BY DEF LockInv, MutexTypes, PlaceInv
<1> USE DEF Moves, Goto, mutex, client, table
<1>1. CASE GiveUp(t)  BY <1>0, <1>1 DEF GiveUp
<1>2. CASE Enter(t)  BY <1>0, <1>2 DEF Enter
<1>3. CASE Look(t)  BY <1>0, <1>3 DEF Look
<1>4. CASE Return(t)  BY <1>0, <1>4 DEF Return
<1>5. CASE WaiterAdd(t)  BY <1>0, <1>5 DEF WaiterAdd
<1>6. CASE WaiterPid(t)  BY <1>0, <1>6 DEF WaiterPid
<1>7. CASE Sleep(t)  BY <1>0, <1>7 DEF Sleep
<1>8. CASE Clear(t)  BY <1>0, <1>8 DEF Clear
<1>9. CASE Woken(t)  BY <1>0, <1>9 DEF Woken
<1>10. CASE NapEnds(t)  BY <1>0, <1>10 DEF NapEnds
<1>11. CASE WakeScan(t) /\ pc' # pc  BY <1>0, <1>11 DEF WakeScan
<1> QED
  BY <1>1, <1>2, <1>3, <1>4, <1>5, <1>6, <1>7, <1>8, <1>9, <1>10, <1>11

\* Taking the word when it is 0.
LEMMA TakenKeeps ==
  ASSUME LockInv, NEW t \in Threads, state = 0, state' \in {1, 2}, held[t] = 0,
         Taken(t), UNCHANGED <<kind, owner, count>>
  PROVE  LockInv'
<1> USE DEF LockInv, Taken, Goto
<1>1. MutexTypes'  BY DEF MutexTypes
<1>2. WordInv'  BY DEF MutexTypes, WordInv, Busy
<1>3. PlaceInv'  BY DEF MutexTypes, PlaceInv
<1>4. OwnerInv'  BY DEF MutexTypes, WordInv, OwnerInv, PlaceInv, Busy
<1> QED  BY <1>1, <1>2, <1>3, <1>4

\* Moving a thread that has not got the mutex.
LEMMA MovesKeeps ==
  ASSUME LockInv, NEW t \in Threads, Moves(t)
  PROVE  LockInv'
<1> USE DEF LockInv, Moves
<1>1. MutexTypes'  BY DEF MutexTypes
<1>2. WordInv'  BY DEF MutexTypes, WordInv, Busy
<1>3. PlaceInv'  BY DEF MutexTypes, PlaceInv
<1>4. OwnerInv'  BY DEF MutexTypes, OwnerInv
<1> QED  BY <1>1, <1>2, <1>3, <1>4

\* Every step keeps the invariant.
LEMMA NextLockInv == MutexAssumption /\ LockInv /\ [Next]_vars => LockInv'
<1> SUFFICES ASSUME MutexAssumption, LockInv, [Next]_vars PROVE LockInv'
  OBVIOUS
<1>1. CASE UNCHANGED vars
  BY <1>1 DEF vars, mutex, client, LockInv, MutexTypes, WordInv, PlaceInv, OwnerInv, Busy
<1>2. ASSUME NEW t \in Threads, Step(t) PROVE LockInv'
  <2>0. (pc[t] # "zero" /\ held[t] = 0) \/ pc[t] \in {"app", "own", "dec", "zero"}
    BY DEF LockInv, MutexTypes, PlaceInv
  <2>1. ASSUME NEW limit \in BOOLEAN, Lock(t, limit) PROVE LockInv'
    <3>1. CASE kind # "normal" /\ owner = t
      BY <2>1, <3>1 DEF Lock, LockInv, MutexTypes, WordInv, PlaceInv, OwnerInv, Busy
    <3>2. CASE ~(kind # "normal" /\ owner = t)
      <4>1. Moves(t)  BY <2>1, <3>2 DEF Lock, Goto, Moves
      <4> QED  BY <4>1, MovesKeeps
    <3> QED  BY <3>1, <3>2
  <2>2. CASE Trylock(t)
    <3>1. CASE state = 0
      <4>1. held[t] = 0  BY <3>1 DEF LockInv, MutexTypes, WordInv, Busy
      <4> QED  BY <2>2, <3>1, <4>1, TakenKeeps DEF Trylock
    <3>2. CASE state # 0
      BY <2>2, <3>2 DEF Trylock, LockInv, MutexTypes, WordInv, PlaceInv, OwnerInv, Busy
    <3> QED  BY <3>1, <3>2
  <2>3. CASE Cas(t)
    <3>1. held[t] = 0  BY <2>0, <2>3 DEF Cas
    <3>2. CASE state = 0  BY <2>3, <3>1, <3>2, TakenKeeps DEF Cas
    <3>3. CASE state # 0
      <4>1. Moves(t)  BY <2>3, <3>1, <3>3 DEF Cas, Goto, Moves
      <4> QED  BY <4>1, MovesKeeps
    <3> QED  BY <3>2, <3>3
  <2>4. CASE Xchg(t)
    <3>1. held[t] = 0  BY <2>0, <2>4 DEF Xchg
    <3>2. CASE state = 0  BY <2>4, <3>1, <3>2, TakenKeeps DEF Xchg
    <3>3. CASE state # 0
      BY <2>4, <3>1, <3>3 DEF Xchg, Goto, LockInv, MutexTypes, WordInv, PlaceInv, OwnerInv, Busy
    <3> QED  BY <3>2, <3>3
  <2>5. CASE Own(t)
    <3> USE <2>5 DEF Own, Goto, client, LockInv
    <3>1. held[t] = 1  BY DEF PlaceInv
    <3>2. MutexTypes' /\ WordInv' /\ PlaceInv'
      BY <3>1 DEF MutexTypes, WordInv, PlaceInv, Busy
    <3>3. OwnerInv'
      BY <3>1 DEF MutexTypes, WordInv, PlaceInv, OwnerInv, Busy
    <3> QED  BY <3>2, <3>3
  <2>6. CASE Unlock(t)
    <3> USE <2>6 DEF Unlock, Goto, LockInv
    <3>1. kind # "normal" => owner = t /\ count = held[t]  BY DEF OwnerInv
    <3>2. CASE kind # "normal" /\ count > 1
      BY <3>1, <3>2 DEF MutexTypes, WordInv, PlaceInv, OwnerInv, Busy
    <3>3. CASE ~(kind # "normal" /\ count > 1)
      <4>1. held[t] = 1  BY <3>1, <3>3 DEF MutexTypes, PlaceInv
      <4>2. MutexTypes' /\ WordInv' /\ PlaceInv'
        BY <3>3, <4>1 DEF MutexTypes, WordInv, PlaceInv, Busy
      <4>3. OwnerInv'
        BY <3>1, <3>3, <4>1 DEF MutexTypes, WordInv, OwnerInv, Busy, MutexAssumption
      <4> QED  BY <4>2, <4>3
    <3> QED  BY <3>2, <3>3
  <2>7. CASE Dec(t)
    <3> USE <2>7 DEF Dec, Goto, LockInv
    <3>1. held[t] = 1 /\ state \in 1..2  BY DEF MutexTypes, WordInv, PlaceInv, Busy
    <3>2. MutexTypes' /\ WordInv' /\ PlaceInv'
      BY <3>1 DEF MutexTypes, WordInv, PlaceInv, Busy
    <3>3. OwnerInv'  BY <3>1 DEF MutexTypes, WordInv, OwnerInv, Busy
    <3> QED  BY <3>2, <3>3
  <2>8. CASE Zero(t)
    <3> USE <2>8 DEF Zero, Goto, client, LockInv
    <3>1. MutexTypes' /\ WordInv' /\ PlaceInv'
      BY DEF MutexTypes, WordInv, PlaceInv, Busy
    <3>2. OwnerInv'  BY DEF MutexTypes, OwnerInv
    <3> QED  BY <3>1, <3>2
  <2>9. CASE WakeScan(t) /\ pc' = pc
    BY <2>9 DEF WakeScan, mutex, client, LockInv, MutexTypes, WordInv, PlaceInv, OwnerInv, Busy
  <2> QED
    BY <1>2, <2>1, <2>2, <2>3, <2>4, <2>5, <2>6, <2>7, <2>8, <2>9, WaitingMoves, MovesKeeps DEF Step
<1> QED  BY <1>1, <1>2 DEF Next

-----------------------------------------------------------------------------

\* Lock's holder is the thread that has the mutex, and its depth how often.
LEMMA HolderIs ==
  ASSUME LockInv, NEW t \in Threads, held[t] > 0
  PROVE  Holder = t /\ (MutexAssumption => Depth = held[t])
<1>1. \A u \in Threads : held[u] > 0 => u = t  BY DEF LockInv, WordInv, Busy
<1>2. Holder = t  BY <1>1 DEF Holder
<1> QED  BY <1>2 DEF Depth, MutexAssumption

\* Nobody has it.
LEMMA NoHolder ==
  ASSUME LockInv, \A t \in Threads : held[t] = 0
  PROVE  Holder = None /\ Depth = 0
<1>1. Holder = None  BY DEF Holder
<1> QED  BY <1>1 DEF Depth

\* The same of the next state.
LEMMA HolderIsNext ==
  ASSUME LockInv', NEW t \in Threads, held'[t] > 0
  PROVE  Holder' = t /\ (MutexAssumption => Depth' = held'[t])
<1>1. \A u \in Threads : held'[u] > 0 => u = t  BY DEF LockInv, WordInv, Busy
<1>2. Holder' = t  BY <1>1 DEF Holder
<1> QED  BY <1>2 DEF Depth, MutexAssumption

LEMMA NoHolderNext ==
  ASSUME LockInv', \A t \in Threads : held'[t] = 0
  PROVE  Holder' = None /\ Depth' = 0
<1>1. Holder' = None  BY DEF Holder
<1> QED  BY <1>1 DEF Depth

\* Every step of Mutex is one of Lock's or leaves the lock alone.
LEMMA StepRefines ==
  ASSUME MutexAssumption, LockInv, LockInv', [Next]_vars
  PROVE  [L!Next]_(L!vars)
<1>1. CASE held' = held
  <2>1. Holder' = Holder /\ Depth' = Depth  BY <1>1 DEF Holder, Depth
  <2> QED  BY <2>1 DEF L!vars
<1>2. ASSUME NEW t \in Threads, Step(t), held' # held PROVE L!Next
  <2>1. CASE held[t] = 0 /\ held' = [held EXCEPT ![t] = 1] /\ state = 0
    <3>1. \A u \in Threads : held[u] = 0
      BY <2>1 DEF LockInv, MutexTypes, WordInv, Busy
    <3>2. Holder = None /\ Depth = 0  BY <3>1, NoHolder
    <3>3. held'[t] = 1  BY <2>1 DEF LockInv, MutexTypes
    <3>4. Holder' = t /\ Depth' = 1  BY <3>3, HolderIsNext
    <3>5. L!Acquire(t)  BY <3>2, <3>4 DEF L!Acquire
    <3> QED  BY <3>5 DEF L!Next
  <2>2. CASE held[t] > 0 /\ held' = [held EXCEPT ![t] = @ + 1]
    <3>1. Holder = t /\ Depth = held[t]  BY <2>2, HolderIs
    <3>2. held[t] \in Nat /\ held'[t] = held[t] + 1  BY <2>2 DEF LockInv, MutexTypes
    <3>3. Holder' = t /\ Depth' = held[t] + 1  BY <2>2, <3>2, HolderIsNext
    <3>4. L!Acquire(t)  BY <3>1, <3>3 DEF L!Acquire
    <3> QED  BY <3>4 DEF L!Next
  <2>3. CASE held[t] > 1 /\ held' = [held EXCEPT ![t] = @ - 1]
    <3>0. held[t] \in Nat /\ held'[t] = held[t] - 1 /\ held[t] > 1
      BY <2>3 DEF LockInv, MutexTypes
    <3>1. Holder = t /\ Depth = held[t]  BY <3>0, HolderIs
    <3>2. Holder' = t /\ Depth' = held[t] - 1  BY <3>0, HolderIsNext
    <3>3. L!LetGo(t)  BY <3>0, <3>1, <3>2 DEF L!LetGo
    <3> QED  BY <3>3 DEF L!Next
  <2>4. CASE held[t] = 1 /\ held' = [held EXCEPT ![t] = 0]
    <3>1. Holder = t /\ Depth = 1  BY <2>4, HolderIs
    <3>2. \A u \in Threads : held'[u] = 0
      BY <2>4 DEF LockInv, MutexTypes, WordInv, Busy
    <3>3. Holder' = None /\ Depth' = 0  BY <3>2, NoHolderNext
    <3>4. L!LetGo(t)  BY <3>1, <3>3 DEF L!LetGo
    <3> QED  BY <3>4 DEF L!Next
  <2>5. \/ held[t] = 0 /\ held' = [held EXCEPT ![t] = 1] /\ state = 0
        \/ held[t] > 0 /\ held' = [held EXCEPT ![t] = @ + 1]
        \/ held[t] > 1 /\ held' = [held EXCEPT ![t] = @ - 1]
        \/ held[t] = 1 /\ held' = [held EXCEPT ![t] = 0]
    <3>0. held[t] = 0 \/ pc[t] \in {"app", "own", "dec"}
      BY DEF LockInv, MutexTypes, PlaceInv
    <3>1. ASSUME NEW limit \in BOOLEAN, Lock(t, limit) PROVE <2>5!2
      BY <1>2, <3>1 DEF Lock, LockInv, OwnerInv
    <3>2. CASE Trylock(t)
      BY <1>2, <3>2 DEF Trylock, Taken, LockInv, MutexTypes, WordInv, Busy
    <3>3. CASE Cas(t)  BY <1>2, <3>0, <3>3 DEF Cas, Taken
    <3>4. CASE Xchg(t)  BY <1>2, <3>0, <3>4 DEF Xchg, Taken
    <3>5. CASE Unlock(t)
      BY <1>2, <3>5 DEF Unlock, LockInv, MutexTypes, OwnerInv
    <3>6. CASE Dec(t)  BY <3>6 DEF Dec, LockInv, PlaceInv
    <3>7. ~Own(t) /\ ~Zero(t) /\ ~WakeScan(t)
      BY <1>2 DEF Own, Zero, WakeScan, client
    <3> QED
      BY <1>2, <3>1, <3>2, <3>3, <3>4, <3>5, <3>6, <3>7, WaitingMoves DEF Step, Moves
  <2> QED  BY <2>1, <2>2, <2>3, <2>4, <2>5
<1>3. CASE UNCHANGED vars  BY <1>1, <1>3 DEF vars, client
<1> QED  BY <1>1, <1>2, <1>3 DEF Next

\* pthread_mutex_lock, _timedlock, _trylock and _unlock make a lock: one
\* thread at most has the mutex, whatever the number of threads, and whatever
\* is lost, late or too many in a_wait and a_wake.
THEOREM MutexIsLock == MutexAssumption => (Spec => IsLock)
<1> SUFFICES ASSUME MutexAssumption PROVE Spec => IsLock
  OBVIOUS
<1>1. Init => LockInv  BY InitLockInv
<1>2. LockInv /\ [Next]_vars => LockInv'  BY NextLockInv
<1>3. Init => L!Init
  <2> SUFFICES ASSUME Init PROVE L!Init
    OBVIOUS
  <2>1. \A t \in Threads : held[t] = 0  BY DEF Init
  <2> QED  BY <1>1, <2>1, NoHolder DEF L!Init
<1>4. LockInv /\ LockInv' /\ [Next]_vars => [L!Next]_(L!vars)  BY StepRefines
<1> QED  BY <1>1, <1>2, <1>3, <1>4, PTL DEF Spec, IsLock, L!Spec
=============================================================================
