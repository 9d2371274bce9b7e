------------------------------ MODULE RunQueue ------------------------------
(***************************************************************************)
(* The queue of app code waiting for a core (kernel/task.c: g_q, q_push,   *)
(* q_pop): a ring from which the task with the least weighted run time is  *)
(* taken out of the middle.  Run times are 32-bit microseconds that wrap   *)
(* around at W; true and tmin are the same times without a wrap, and seq   *)
(* is the queue without the ring.                                          *)
(***************************************************************************)
EXTENDS Integers, FiniteSets, Sequences

CONSTANTS
    Tasks, None,
    W,          \* 2^32
    Credit,     \* 40000: what a task that was away may be behind
    Turn,       \* the most a turn on a core adds
    Horizon     \* bound: run time a task may reach

RunQueueAssumption ==
    /\ IsFiniteSet(Tasks) /\ None \notin Tasks
    /\ W \in Nat /\ W % 2 = 0 /\ {Credit, Turn, Horizon} \subseteq Nat \ {0}
    /\ Credit + Turn < W \div 2

VARIABLES
    ring, head, len,    \* g_q, g_qhead, g_qlen
    vr, minvr,          \* task_t.ap_vr, g_ap_min_vr
    true, tmin, seq

vars == <<ring, head, len, vr, minvr, true, tmin, seq>>

MAX == Cardinality(Tasks)       \* TASK_MAX: every task is in the ring once at most

Diff(a, b) == LET d == (a - b) % W IN IF d < W \div 2 THEN d ELSE d - W

At(k) == ring[(head + k) % MAX]

Queued(t) == \E k \in 0..(len - 1) : At(k) = t

Init ==
    /\ ring = [i \in 0..(MAX - 1) |-> None] /\ head = 0 /\ len = 0
    /\ vr = [t \in Tasks |-> 0] /\ minvr = 0
    /\ true = [t \in Tasks |-> 0] /\ tmin = 0 /\ seq = <<>>

\* processor time is charged (account, task_ap_loop)
Run(t, d) ==
    /\ ~Queued(t) /\ true[t] + d <= Horizon
    /\ vr' = [vr EXCEPT ![t] = (@ + d) % W]
    /\ true' = [true EXCEPT ![t] = @ + d]
    /\ UNCHANGED <<ring, head, len, minvr, tmin, seq>>

\* task_create_stack: a new task in the slot
Create(t) ==
    /\ ~Queued(t)
    /\ vr' = [vr EXCEPT ![t] = 0]
    /\ true' = [true EXCEPT ![t] = 0]
    /\ UNCHANGED <<ring, head, len, minvr, tmin, seq>>

Enter(t) ==
    /\ ~Queued(t)
    /\ ring' = [ring EXCEPT ![(head + len) % MAX] = t]
    /\ len' = len + 1
    /\ true' = [true EXCEPT ![t] = IF tmin - Credit > @ THEN tmin - Credit ELSE @]
    /\ seq' = Append(seq, t)
    /\ UNCHANGED <<head, minvr, tmin>>

\* q_push: one that was away a long time starts just behind the others
Push(t) ==
    /\ Enter(t)
    /\ vr' = [vr EXCEPT ![t] = IF Diff(minvr - Credit, @) > 0 THEN (minvr - Credit) % W ELSE @]

\* q_pop's search: the first of the least so far, from the head on
Best ==
    LET From[k \in 1..MAX, best \in 0..(MAX - 1)] ==
          IF k >= len THEN best
          ELSE From[k + 1, IF Diff(vr[At(k)], vr[At(best)]) < 0 THEN k ELSE best]
    IN  From[1, 0]

Leave(t) ==
    /\ minvr' = IF Diff(vr[t], minvr) > 0 THEN vr[t] ELSE minvr
    /\ tmin' = IF true[t] > tmin THEN true[t] ELSE tmin
    /\ UNCHANGED <<vr, true>>

Without(s, k) == SubSeq(s, 1, k - 1) \o SubSeq(s, k + 1, Len(s))

PopFirst ==
    /\ len > 0
    /\ head' = (head + 1) % MAX /\ len' = len - 1
    /\ Leave(At(0))
    /\ seq' = Without(seq, 1)
    /\ UNCHANGED ring

PopLeavesGap ==
    /\ len > 0
    /\ head' = (head + 1) % MAX /\ len' = len - 1
    /\ Leave(At(Best))
    /\ seq' = Without(seq, Best + 1)
    /\ UNCHANGED ring

\* q_pop: taken out, the ones before it move up
Pop ==
    /\ len > 0
    /\ ring' = [i \in 0..(MAX - 1) |->
                 LET k == (i - head) % MAX IN IF k \in 1..Best THEN At(k - 1) ELSE ring[i]]
    /\ head' = (head + 1) % MAX /\ len' = len - 1
    /\ Leave(At(Best))
    /\ seq' = Without(seq, Best + 1)

Next ==
    \/ Pop
    \/ \E t \in Tasks : Push(t) \/ Create(t) \/ \E d \in 1..Turn : Run(t, d)

Spec == Init /\ [][Next]_vars

-----------------------------------------------------------------------------
(* Properties *)

\* Indices stay in the ring and run times in 32 bits.
TypeOK ==
    /\ ring \in [0..(MAX - 1) -> Tasks \union {None}]
    /\ head \in 0..(MAX - 1) /\ len \in 0..MAX
    /\ vr \in [Tasks -> 0..(W - 1)] /\ minvr \in 0..(W - 1)

\* The ring holds the queue: nobody is lost, doubled or overtaken when one
\* is taken out of the middle, wherever the ring wraps around.
RingIsQueue == Len(seq) = len /\ \A k \in 1..len : At(k - 1) = seq[k]

\* q_pop takes the waiting task that has had the least time, the one that
\* waits longest among equals.
LeastFirst ==
    [][Pop => LET k == CHOOSE i \in 1..Len(seq) : seq' = Without(seq, i)
              IN  /\ \A i \in 1..Len(seq) : true[seq[k]] <= true[seq[i]]
                  /\ \A i \in 1..(k - 1) : true[seq[k]] < true[seq[i]]]_vars

\* The 32-bit times of the waiting tasks are the true ones, as long as no
\* two are half a wrap apart (Horizon).
WrapExact ==
    /\ minvr = tmin % W
    /\ \A t \in Tasks : Queued(t) => vr[t] = true[t] % W
=============================================================================
