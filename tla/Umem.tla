-------------------------------- MODULE Umem --------------------------------
(***************************************************************************)
(* The blocks of apps' memory (kernel/umem.c): 2 MiB frames taken from RAM *)
(* above 4 GiB or, as a row, from the kernel heap; g_dir, which says whose *)
(* a frame is; a freed big allocation whose blocks become ordinary ones;   *)
(* and the budget and the pool of restricted processes, which their mmap   *)
(* pages (umem_vm_charge) share.  Sizes are in blocks.  The pages and      *)
(* slabs inside a block do not change any of this and are left out.        *)
(***************************************************************************)
EXTENDS Integers, FiniteSets, SequencesExt

CONSTANTS
    Apps, None,
    High,       \* frames above 4 GiB (kernel/hmem.c)
    Heap,       \* frames of the kernel heap
    MaxN,       \* most blocks of one allocation
    Limit,      \* a restricted process's budget
    PoolLimit   \* g_pool_limit

UmemAssumption ==
    /\ High \union Heap \subseteq Nat /\ High \intersect Heap = {}
    /\ MaxN \in Nat \ {0} /\ {Limit, PoolLimit} \subseteq Nat \ {0}
    /\ None \notin Apps

VARIABLES
    phase,      \* of an app: "none", "live", or where umem_destroy is
    chunks,     \* umem_t.chunks: [base, n, alloc, high, pooled, broken]
    dir,        \* g_dir: the app a frame's block belongs to
    free,       \* the frames nobody has
    rows,       \* the kernel heap's allocations: first frame -> frames
    limit, reserved,    \* umem_t
    charged,    \* uspace_t.vm_charged
    pool        \* g_pool_used

vars == <<phase, chunks, dir, free, rows, limit, reserved, charged, pool>>

Frames == High \union Heap
Row(base, n) == base..(base + n - 1)
Covered(c) == Row(c.base, c.n)

Init ==
    /\ phase = [m \in Apps |-> "none"] /\ chunks = [m \in Apps |-> <<>>]
    /\ dir = [f \in Frames |-> None] /\ free = Frames /\ rows = [f \in {} |-> 0]
    /\ limit = [m \in Apps |-> 0] /\ reserved = [m \in Apps |-> 0]
    /\ charged = [m \in Apps |-> 0] /\ pool = 0

\* umem_create
Create(m) ==
    /\ phase[m] = "none"
    /\ phase' = [phase EXCEPT ![m] = "live"]
    /\ UNCHANGED <<chunks, dir, free, rows, limit, reserved, charged, pool>>

\* umem_limit: what the loader took is charged too
SetLimit(m) ==
    /\ phase[m] = "live" /\ limit[m] = 0
    /\ reserved[m] <= Limit /\ reserved[m] <= PoolLimit - pool
    /\ pool' = pool + reserved[m]
    /\ limit' = [limit EXCEPT ![m] = Limit]
    /\ chunks' = [chunks EXCEPT ![m] = [i \in 1..Len(@) |-> [@[i] EXCEPT !.pooled = TRUE]]]
    /\ UNCHANGED <<phase, dir, free, rows, reserved, charged>>

May(m, n) == limit[m] = 0 \/ (reserved[m] + n <= limit[m] /\ n <= PoolLimit - pool)
Takes(m, n) == IF limit[m] = 0 THEN 0 ELSE n

\* new_chunk, for pages_alloc (n = 1) and for a big allocation; a failure
\* before the block is linked gives back all it took
Grow(m, n, base, broken) ==
    LET high == \E b \in Frames : Row(b, n) \subseteq free \intersect High
        c == [base |-> base, n |-> n, alloc |-> ~high, high |-> IF high THEN n ELSE 0,
              pooled |-> limit[m] # 0, broken |-> broken]
    IN  /\ phase[m] = "live" /\ May(m, n)
        /\ Row(base, n) \subseteq free \intersect (IF high THEN High ELSE Heap)
        /\ pool' = pool + Takes(m, n)
        /\ free' = free \ Row(base, n)
        /\ rows' = IF high THEN rows ELSE [f \in DOMAIN rows \union {base} |-> IF f = base THEN n ELSE rows[f]]
        /\ dir' = [f \in Frames |-> IF f \in Row(base, n) THEN m ELSE dir[f]]
        /\ chunks' = [chunks EXCEPT ![m] = <<c>> \o @]
        /\ reserved' = [reserved EXCEPT ![m] = @ + n]
        /\ UNCHANGED <<phase, limit, charged>>

SplitKeepsPlace(big, got) ==
    LET one(k) == [big EXCEPT !.base = @ + k, !.n = 1, !.alloc = k = 0 /\ @,
                              !.high = IF @ # 0 THEN 1 ELSE 0, !.pooled = FALSE]
        rest == [big EXCEPT !.base = @ + got, !.n = @ - got, !.alloc = got = 0 /\ @,
                            !.high = IF @ # 0 THEN big.n - got ELSE 0]
    IN  [i \in 1..got |-> one(i - 1)] \o (IF got < big.n THEN <<rest>> ELSE <<>>)

\* split_big: its blocks, each linked before the last, the first with the
\* allocation of the row; got: for how many there was memory to describe them
Split(big, got) ==
    LET one(k) == [big EXCEPT !.base = @ + k, !.n = 1, !.alloc = k = 0 /\ @,
                              !.high = IF @ # 0 THEN 1 ELSE 0, !.pooled = FALSE]
        rest == [big EXCEPT !.base = @ + got, !.n = @ - got, !.alloc = got = 0 /\ @,
                            !.high = IF @ # 0 THEN big.n - got ELSE 0]
    IN  (IF got < big.n THEN <<rest>> ELSE <<>>) \o [i \in 1..got |-> one(got - i)]

\* free_l of a big allocation
FreeBig(m, i, got) ==
    LET c == chunks[m][i]
    IN  /\ phase[m] = "live" /\ c.n > 1 /\ ~c.broken /\ got <= c.n
        /\ chunks' = [chunks EXCEPT ![m] = Split(c, got) \o RemoveAt(@, i)]
        /\ UNCHANGED <<phase, dir, free, rows, limit, reserved, charged, pool>>

\* umem_vm_charge, for a page uvm_fault gives out
Charge(m) ==
    /\ phase[m] = "live" /\ limit[m] # 0 /\ May(m, 1)
    /\ pool' = pool + 1
    /\ reserved' = [reserved EXCEPT ![m] = @ + 1]
    /\ charged' = [charged EXCEPT ![m] = @ + 1]
    /\ UNCHANGED <<phase, chunks, dir, free, rows, limit>>

UnchargeOf(m, n) ==
    /\ pool' = pool - n
    /\ reserved' = [reserved EXCEPT ![m] = @ - n]
    /\ charged' = [charged EXCEPT ![m] = @ - n]

UnchargePoolOnly(m) ==
    /\ phase[m] = "live" /\ charged[m] > 0
    /\ pool' = pool - 1
    /\ charged' = [charged EXCEPT ![m] = @ - 1]
    /\ UNCHANGED <<phase, chunks, dir, free, rows, limit, reserved>>

\* umem_vm_uncharge, for a page vm_release takes back
Uncharge(m) ==
    /\ phase[m] = "live" /\ charged[m] > 0
    /\ UnchargeOf(m, 1)
    /\ UNCHANGED <<phase, chunks, dir, free, rows, limit>>

\* the app ends: uspace_destroy gives its charge back, then umem_destroy ...
End(m) ==
    /\ phase[m] = "live"
    /\ phase' = [phase EXCEPT ![m] = "unlink"]
    /\ UnchargeOf(m, charged[m])
    /\ UNCHANGED <<chunks, dir, free, rows, limit>>

\* ... takes each block out of g_dir ...
Unlink(m) ==
    /\ phase[m] = "unlink" /\ chunks[m] # <<>>
    /\ dir' = [f \in Frames |-> IF f \in Covered(Head(chunks[m])) THEN None ELSE dir[f]]
    /\ phase' = [phase EXCEPT ![m] = "release"]
    /\ UNCHANGED <<chunks, free, rows, limit, reserved, charged, pool>>

\* ... and gives its memory back: chunk_release
Release(m) ==
    LET c == Head(chunks[m])
    IN  /\ phase[m] = "release"
        /\ pool' = IF c.pooled THEN pool - c.n ELSE pool
        /\ free' = free \union (IF c.alloc THEN Row(c.base, rows[c.base]) ELSE {}) \union Row(c.base, c.high)
        /\ rows' = [f \in DOMAIN rows \ (IF c.alloc THEN {c.base} ELSE {}) |-> rows[f]]
        /\ chunks' = [chunks EXCEPT ![m] = Tail(@)]
        /\ phase' = [phase EXCEPT ![m] = "unlink"]
        /\ UNCHANGED <<dir, limit, reserved, charged>>

\* kfree(m)
Gone(m) ==
    /\ phase[m] = "unlink" /\ chunks[m] = <<>>
    /\ phase' = [phase EXCEPT ![m] = "none"]
    /\ limit' = [limit EXCEPT ![m] = 0] /\ reserved' = [reserved EXCEPT ![m] = 0]
    /\ UNCHANGED <<chunks, dir, free, rows, charged, pool>>

Next ==
    \E m \in Apps :
      \/ Create(m) \/ SetLimit(m) \/ Charge(m) \/ Uncharge(m) \/ End(m) \/ Unlink(m) \/ Release(m) \/ Gone(m)
      \/ \E n \in 1..MaxN, base \in Frames, broken \in BOOLEAN : Grow(m, n, base, broken)
      \/ \E i \in 1..Len(chunks[m]), got \in 0..MaxN : FreeBig(m, i, got)

Spec == Init /\ [][Next]_vars

-----------------------------------------------------------------------------
(* Properties *)

Held(m) == FoldSeq(LAMBDA c, n : n + c.n, 0, chunks[m])

\* Budget and pool stay within their limits.
WithinLimits ==
    /\ pool \in 0..PoolLimit
    /\ \A m \in Apps : limit[m] \in {0, Limit} /\ (limit[m] # 0 => reserved[m] \in 0..Limit)
    /\ \A m \in Apps : charged[m] \in 0..Limit
    /\ free \subseteq Frames /\ dir \in [Frames -> Apps \union {None}]

\* A frame some block describes is that block's alone and is not free - in
\* particular a row of the kernel heap goes back only when the blocks a big
\* allocation was split into are all gone, so that no other app can be
\* given a frame umem_destroy still has to take out of g_dir.
FramesHeldOnce ==
    \A m \in Apps : \A i \in 1..Len(chunks[m]) :
      LET c == chunks[m][i]
      IN  /\ Covered(c) \intersect free = {}
          /\ (phase[m] = "release" /\ i = 1) \/ \A f \in Covered(c) : dir[f] = m
          /\ \A l \in Apps : \A j \in 1..Len(chunks[l]) :
               <<l, j>> # <<m, i>> => Covered(c) \intersect Covered(chunks[l][j]) = {}

\* umem_owns says "yes" for nobody's frame: g_dir names only live apps, and
\* only for frames they hold.
DirTrue == \A f \in Frames : dir[f] # None =>
             f \notin free /\ \E i \in 1..Len(chunks[dir[f]]) : f \in Covered(chunks[dir[f]][i])

\* A process's budget counts its blocks and its mmap pages, exactly.
ReservedExact == \A m \in Apps : phase[m] = "live" => reserved[m] = Held(m) + charged[m]

\* What restricted processes hold is in the pool's count.
PoolCovers ==
    pool >= FoldSet(LAMBDA m, n : n + charged[m] + Held(m), 0, {m \in Apps : limit[m] # 0 /\ phase[m] = "live"})
=============================================================================
