-------------------------------- MODULE Vma --------------------------------
(***************************************************************************)
(* The ranges of an app's mmap region (kernel/uspace.c): a list kept in    *)
(* order, cut, joined and searched by halves, against the plain map from   *)
(* pages to protections it stands for.  Addresses are page numbers.        *)
(***************************************************************************)
EXTENDS Integers, FiniteSets, SequencesExt

CONSTANTS
    N,          \* pages in the region
    Prots,      \* protections, as sets of rights
    DevProts,   \* those of device pages, which hold "dev" (UVM_DEV) too
    VmaLimit, VmLimit,  \* most ranges and most pages of a restricted app
    Threads, None

VmaAssumption ==
    /\ {N, VmaLimit, VmLimit} \subseteq Nat \ {0}
    /\ None \notin 0..N /\ None \notin Prots \union DevProts
    /\ \A prot \in Prots : "dev" \notin prot
    /\ \A prot \in DevProts : "dev" \in prot

VARIABLES
    vma,    \* us->vma: a sequence of [s, e, prot]
    map,    \* the protection each page has, None: not mapped
    fix,    \* the range a thread's fixed mapping is about to put back, or None
    limited \* us->vma_limit and us->vm_limit are set (else 0: no limit)

vars == <<vma, map, fix, limited>>

Ranges == {r \in [s : 0..N, e : 0..N, prot : Prots \union DevProts] : r.s < r.e}

-----------------------------------------------------------------------------
(* The list *)

\* vma_at, by halves: the range page a is in, 0: none
At(list, a) ==
    LET Look[lo \in 1..(N + 2), hi \in 0..(N + 1)] ==
          LET mid == (lo + hi) \div 2
          IN  IF lo > hi THEN 0
              ELSE IF a < list[mid].s THEN Look[lo, mid - 1]
              ELSE IF a >= list[mid].e THEN Look[mid + 1, hi]
              ELSE mid
    IN  Look[1, Len(list)]

Room(list) == limited => Len(list) + 1 <= VmaLimit

CutSplitKeepsEnd(list, s, e) ==
    FlattenSeq([i \in 1..Len(list) |->
      LET v == list[i]
      IN  IF v.e <= s \/ v.s >= e THEN <<v>>
          ELSE IF v.s < s /\ v.e > e THEN <<v, [v EXCEPT !.s = e]>>
          ELSE IF v.s < s THEN <<[v EXCEPT !.e = s]>>
          ELSE IF v.e > e THEN <<[v EXCEPT !.s = e]>> ELSE <<>>])

\* vma_cut: what is outside [s, e) of every range, up to one that is split
Cut(list, s, e) ==
    LET Piece(v) == IF v.e <= s \/ v.s >= e THEN <<v>>
                    ELSE (IF v.s < s THEN <<[v EXCEPT !.e = s]>> ELSE <<>>)
                      \o (IF v.e > e THEN <<[v EXCEPT !.s = e]>> ELSE <<>>)
        Step(acc, v) == IF acc.split THEN [acc EXCEPT !.list = Append(@, v)]
                        ELSE [list |-> acc.list \o Piece(v), split |-> v.s < s /\ v.e > e]
    IN  FoldLeft(Step, [list |-> <<>>, split |-> FALSE], list).list

Pages(list) == FoldLeft(LAMBDA n, v : n + v.e - v.s, 0, list)

\* vma_add may not: too much mapped, or too many ranges
Refused(list, s, e) ==
    \/ limited /\ (Pages(list) + e - s > VmLimit \/ Len(list) >= VmaLimit)
    \/ ~Room(list)

\* vma_add: joined to its neighbours of the same protection
Add(list, s, e, prot) ==
    LET k == Len(SelectSeq(list, LAMBDA v : v.s < s)) + 1
        prev == k > 1 /\ list[k - 1].e = s /\ list[k - 1].prot = prot
        nxt == k <= Len(list) /\ list[k].s = e /\ list[k].prot = prot
    IN  IF prev /\ nxt THEN RemoveAt([list EXCEPT ![k - 1].e = list[k].e], k)
        ELSE IF prev THEN [list EXCEPT ![k - 1].e = e]
        ELSE IF nxt THEN [list EXCEPT ![k].s = s]
        ELSE InsertAt(list, k, [s |-> s, e |-> e, prot |-> prot])

Overlaps(list, s, e) == \E i \in 1..Len(list) : list[i].s < e /\ list[i].e > s

\* vma_covers: from range to range
Covers(list, s, e, need) ==
    LET From[a \in 0..N] ==
          IF a >= e THEN TRUE
          ELSE LET i == At(list, a)
               IN  i # 0 /\ need \subseteq list[i].prot /\ From[list[i].e]
    IN  From[s]

FindSkips(list, len, hint) ==
    IF hint # None /\ hint + len <= N /\ ~Overlaps(list, hint, hint + len) THEN hint
    ELSE LET Step(acc, v) == IF acc.found THEN acc
                             ELSE IF v.s >= acc.a /\ v.s - acc.a > len THEN [acc EXCEPT !.found = TRUE]
                             ELSE IF v.e > acc.a THEN [acc EXCEPT !.a = v.e] ELSE acc
             a == FoldLeft(Step, [a |-> 0, found |-> FALSE], list).a
         IN  IF a + len <= N THEN a ELSE None

\* vm_find: the hint if it is free, else the first gap
Find(list, len, hint) ==
    IF hint # None /\ hint + len <= N /\ ~Overlaps(list, hint, hint + len) THEN hint
    ELSE LET Step(acc, v) == IF acc.found THEN acc
                             ELSE IF v.s >= acc.a /\ v.s - acc.a >= len THEN [acc EXCEPT !.found = TRUE]
                             ELSE IF v.e > acc.a THEN [acc EXCEPT !.a = v.e] ELSE acc
             a == FoldLeft(Step, [a |-> 0, found |-> FALSE], list).a
         IN  IF a + len <= N THEN a ELSE None

-----------------------------------------------------------------------------
(* The calls *)

Init ==
    /\ vma = <<>> /\ map = [p \in 0..(N - 1) |-> None] /\ fix = [t \in Threads |-> None]
    /\ limited \in BOOLEAN

Paint(s, e, prot) == [p \in 0..(N - 1) |-> IF p \in s..(e - 1) THEN prot ELSE map[p]]

\* uvm_map without UVM_FIXED
Map(t, len, hint, prot) ==
    /\ fix[t] = None
    /\ LET a == Find(vma, len, hint)
       IN  /\ a # None /\ ~Refused(vma, a, a + len)
           /\ vma' = Add(vma, a, a + len, prot)
           /\ map' = Paint(a, a + len, prot)
    /\ UNCHANGED <<fix, limited>>

\* uvm_map_frames: device pages, anywhere; undone if a page table has no memory
MapFrames(t, len, prot) == prot \in DevProts /\ Map(t, len, None, prot)

\* uvm_map with UVM_FIXED: what is there is cut out and released ...
FixedCut(t, s, e, prot) ==
    /\ fix[t] = None /\ Room(vma)
    /\ vma' = Cut(vma, s, e)
    /\ map' = Paint(s, e, None)
    /\ fix' = [fix EXCEPT ![t] = [s |-> s, e |-> e, prot |-> prot]]
    /\ UNCHANGED limited

\* ... then the range is put there, if it may
FixedAdd(t) ==
    /\ fix[t] # None
    /\ LET r == fix[t]
       IN  IF Refused(vma, r.s, r.e)
           THEN UNCHANGED <<vma, map>>
           ELSE vma' = Add(vma, r.s, r.e, r.prot) /\ map' = Paint(r.s, r.e, r.prot)
    /\ fix' = [fix EXCEPT ![t] = None]
    /\ UNCHANGED limited

\* uvm_unmap, and uvm_unmap_frames where frame0 is still there
Unmap(t, s, e) ==
    /\ fix[t] = None /\ Room(vma)
    /\ vma' = Cut(vma, s, e)
    /\ map' = Paint(s, e, None)
    /\ UNCHANGED <<fix, limited>>

\* a range of device pages met on the way from s to e
Device(list, s, e) ==
    LET From[a \in 0..N] ==
          IF a >= e \/ At(list, a) = 0 THEN FALSE
          ELSE LET v == list[At(list, a)] IN "dev" \in v.prot \/ From[v.e]
    IN  From[s]

\* uvm_protect: cut, and put back with the new protection - if it may
Protect(t, s, e, prot) ==
    /\ fix[t] = None /\ Room(vma)
    /\ ~Device(vma, s, e) /\ Covers(vma, s, e, {})
    /\ LET rest == Cut(vma, s, e)
       IN  IF Refused(rest, s, e)
           THEN vma' = rest /\ map' = Paint(s, e, None)
           ELSE vma' = Add(rest, s, e, prot) /\ map' = Paint(s, e, prot)
    /\ UNCHANGED <<fix, limited>>

Next ==
    \E t \in Threads :
      \/ FixedAdd(t)
      \/ \E s \in 0..(N - 1) : \E e \in (s + 1)..N :
           \/ Unmap(t, s, e)
           \/ \E prot \in Prots : FixedCut(t, s, e, prot) \/ Protect(t, s, e, prot)
      \/ \E len \in 1..N, prot \in DevProts : MapFrames(t, len, prot)
      \/ \E len \in 1..N, hint \in 0..(N - 1) \union {None}, prot \in Prots : Map(t, len, hint, prot)

Spec == Init /\ [][Next]_vars

-----------------------------------------------------------------------------
(* Properties *)

\* Ranges are not empty, inside the region, and no more than a restricted
\* app may have.
TypeOK ==
    /\ vma \in Seq(Ranges)
    /\ map \in [0..(N - 1) -> Prots \union DevProts \union {None}]
    /\ fix \in [Threads -> Ranges \union {None}]
    /\ limited => Len(vma) <= VmaLimit

\* The ranges are in order and apart, as the search by halves and vma_add
\* ("a range where nothing is") need.
Apart == \A i \in 1..(Len(vma) - 1) : vma[i].e <= vma[i + 1].s

\* The search by halves finds the range of every page, with the protection
\* the page was last given, however the ranges were cut and joined.
ListIsMap ==
    \A p \in 0..(N - 1) : map[p] = LET i == At(vma, p) IN IF i = 0 THEN None ELSE vma[i].prot

\* uvm_owns and uvm_protect's checks see what the map says: a range is
\* covered if each of its pages is mapped with the rights needed.
CoversExact ==
    \A s \in 0..(N - 1) : \A e \in (s + 1)..N : \A need \in Prots :
      Covers(vma, s, e, need) <=> \A p \in s..(e - 1) : map[p] # None /\ need \subseteq map[p]

\* vm_find gives out addresses nothing is mapped at, the hint if that is
\* free, and finds some whenever there are enough in a row.
FindExact ==
    \A len \in 1..N, hint \in 0..(N - 1) \union {None} :
      LET Gap(a) == a + len <= N /\ \A p \in a..(a + len - 1) : map[p] = None
          a == Find(vma, len, hint)
      IN  /\ a # None => Gap(a)
          /\ a = None => ~\E b \in 0..(N - 1) : Gap(b)
          /\ hint # None /\ Gap(hint) => a = hint
=============================================================================
