----------------------------- MODULE MCTables -----------------------------
(***************************************************************************)
(* Four tables the kernel keeps, each against what it stands for: an app's *)
(* ranges (Vma), the sectors of the swap area (SwapArea), the queue of app *)
(* code (RunQueue) and the frames of apps' blocks (Umem).  They share no   *)
(* state, so a behaviour is one of them: which.                            *)
(***************************************************************************)
EXTENDS Integers, FiniteSets, SequencesExt, TLC

CONSTANTS N, Prots, DevProts, VmaLimit, VmLimit, Threads, None,
    Total, Byte, MaxN,
    Tasks, W, Credit, Turn, Horizon,
    Apps, High, Heap, Limit, PoolLimit

VARIABLES which,
    vma, map, fix, limited,
    bits, used, hint, slots,
    ring, head, len, vr, minvr, true, tmin, seq,
    phase, chunks, dir, free, rows, limit, reserved, charged, pool

V == INSTANCE Vma
S == INSTANCE SwapArea
R == INSTANCE RunQueue
U == INSTANCE Umem

vmaVars == <<vma, map, fix, limited>>
swapVars == <<bits, used, hint, slots>>
queueVars == <<ring, head, len, vr, minvr, true, tmin, seq>>
umemVars == <<phase, chunks, dir, free, rows, limit, reserved, charged, pool>>
vars == <<which, vmaVars, swapVars, queueVars, umemVars>>

\* no access, read, and read with write; device pages
Rights == {{}, {"r"}, {"r", "w"}}
DevRights == {{"r", "w", "dev"}}
\* frame 1 is above 4 GiB, 3 to 5 are of the kernel heap
HighFrames == {1}
HeapFrames == 3..5

Init ==
    /\ which \in {"vma", "swaparea", "runqueue", "umem"}
    /\ V!Init /\ S!Init /\ R!Init /\ U!Init
    /\ which # "vma" => ~limited

Next ==
    \/ which = "vma" /\ V!Next /\ UNCHANGED <<which, swapVars, queueVars, umemVars>>
    \/ which = "swaparea" /\ S!Next /\ UNCHANGED <<which, vmaVars, queueVars, umemVars>>
    \/ which = "runqueue" /\ R!Next /\ UNCHANGED <<which, vmaVars, swapVars, umemVars>>
    \/ which = "umem" /\ U!Next /\ UNCHANGED <<which, vmaVars, swapVars, queueVars>>

Spec == Init /\ [][Next]_vars

Symm == Permutations(Apps) \union Permutations(Tasks)

-----------------------------------------------------------------------------
(* Properties *)

\* vma_cut and vma_add leave ranges that are apart and in order, and the
\* search by halves sees in them the page's last protection, as do the
\* checks of uvm_owns and uvm_protect over whole ranges.
RangesAreMap == which = "vma" => V!Apart /\ V!ListIsMap /\ V!CoversExact

\* vm_find gives out free addresses, the hint if that is free, and finds
\* some whenever there are enough in a row.
FindExact == which = "vma" => V!FindExact

\* slot_get and slot_put: no two compressed pages share a sector, none is
\* beyond the area's end, and the map has exactly their bits.
SectorsExact == which = "swaparea" => S!SlotsApart /\ S!MapExact

\* slot_get fails only if there are no free sectors in a row.
FindsIfAny == which = "swaparea" => S!FindsIfAny

\* q_push and q_pop: the ring holds the queue, with the times the tasks have
\* truly had, over the wrap of the ring and of the times.
RingIsQueue == which = "runqueue" => R!RingIsQueue /\ R!WrapExact

\* q_pop takes the waiting task that has had the least time.
LeastFirst == R!LeastFirst

\* new_chunk, split_big and umem_destroy: a frame is one block's, and g_dir
\* names exactly the apps that hold one.
FramesHeldOnce == which = "umem" => U!FramesHeldOnce /\ U!DirTrue

\* A restricted process's budget counts its blocks and mmap pages exactly,
\* within its limit, and the pool covers what restricted processes hold.
BudgetsExact == which = "umem" => U!WithinLimits /\ U!ReservedExact /\ U!PoolCovers
=============================================================================
