-------------------------------- MODULE Lock --------------------------------
(***************************************************************************)
(* What a mutex promises: one holder at a time, who lets go as often as it *)
(* took (more than once for a recursive mutex).                            *)
(***************************************************************************)
EXTENDS Naturals

CONSTANTS Threads, None

VARIABLES
    holder,     \* the thread that has the mutex
    depth       \* how often it has taken it

vars == <<holder, depth>>

Init == holder = None /\ depth = 0

Acquire(t) ==
    /\ holder \in {None, t}
    /\ holder' = t /\ depth' = depth + 1

LetGo(t) ==
    /\ holder = t
    /\ depth' = depth - 1
    /\ holder' = IF depth' = 0 THEN None ELSE t

Next == \E t \in Threads : Acquire(t) \/ LetGo(t)

Spec == Init /\ [][Next]_vars
=============================================================================
