------------------------------- MODULE Pager -------------------------------
(***************************************************************************)
(* The pages of an app's mmap region (kernel/uspace.c) and where they go   *)
(* when memory runs low: compressed into the kernel heap, and from there   *)
(* to the swap area on the disk (kernel/zswap.c).                          *)
(*                                                                         *)
(* One app, whose threads run on any core, touch, map and unmap pages; the *)
(* zswap task takes pages out (page_out) and writes the oldest ones to the *)
(* disk (zswap_writeback), one at a time each.  A page that does compress  *)
(* needs one sector; a zero page needs none.  Every action is what is done *)
(* under vm_lock or g_zlock in one go.                                     *)
(***************************************************************************)
EXTENDS Integers, FiniteSets

CONSTANTS
    Pages, Frames, Ents, Sectors, Threads,
    Vals, Zero,     \* what a page can hold; all zeros
    None, Unmapped,
    Racing          \* uvm_map may give out a range still being unmapped

ASSUME PagerAssumption ==
    /\ Zero \in Vals /\ Racing \in BOOLEAN /\ IsFiniteSet(Pages) /\ IsFiniteSet(Ents)
    /\ None \notin Frames \union Ents \union Sectors \union Vals \union Pages
    /\ Unmapped \notin Vals /\ Frames \intersect Ents = {}

VARIABLES
    vma,        \* the pages in the app's ranges
    pte,        \* a page's entry: a frame, a compressed page's number, or nothing
    tlb,        \* what the cores running the app still remember of it
    free, fdata,    \* upage.c: the free frames; what is in each
    ent,        \* the entries
    lru,        \* the list from g_lru_head, of STORED ones with data: for each, those before it
    used, disk, \* g_slot_map; what the sectors hold
    count,      \* vm_pages, vm_zpages, g_st.pages, g_st.disk_pages
    out,        \* page_out's page: [pc, p, e, val, keep, slot]
    wb,         \* zswap_writeback's entry: [e, slot, val]
    th          \* the app's threads: [pc, p, e, hand]

mm == <<vma, pte, tlb>>
phys == <<free, fdata>>
zs == <<ent, lru, used, disk>>
vars == <<mm, phys, zs, count, out, wb, th>>

NoList == [e \in {} |-> {}]

FreeEnt == [st |-> "FREE", frame |-> None, data |-> None, slot |-> None]
OutIdle == [pc |-> "idle", p |-> None, e |-> None, val |-> None, keep |-> FALSE, slot |-> None]
WbIdle == [e |-> None, slot |-> None, val |-> None]
Idle == [pc |-> "idle", p |-> None, e |-> None, hand |-> None]

Init ==
    /\ vma = {}
    /\ pte = [p \in Pages |-> None] /\ tlb = [p \in Pages |-> None]
    /\ free = Frames /\ fdata = [f \in Frames |-> Zero]
    /\ ent = [e \in Ents |-> FreeEnt] /\ lru = NoList
    /\ used = {} /\ disk = [s \in Sectors |-> Zero]
    /\ count = [vm |-> 0, vmz |-> 0, pages |-> 0, disk |-> 0]
    /\ out = OutIdle /\ wb = WbIdle
    /\ th = [t \in Threads |-> Idle]

\* The boot core alone compresses, drives the disk and waits for it; a thread
\* whose page came in tries its fault again before the core does anything else.
BootFree(t) == \A u \in Threads \ {t} : th[u].pc # "retry"

Count(vm, vmz, pages, dsk) ==
    count' = [vm |-> count.vm + vm, vmz |-> count.vmz + vmz,
              pages |-> count.pages + pages, disk |-> count.disk + dsk]

Become(e, st) == [ent EXCEPT ![e].st = st]

\* lru_add: at the end; lru_del of those in S; the oldest ones: g_lru_head
LruAdd(e) == lru' = [x \in DOMAIN lru \union {e} |-> IF x = e THEN DOMAIN lru ELSE lru[x]]
LruDel(S) == lru' = [x \in DOMAIN lru \ S |-> lru[x] \ S]
LruHead == {e \in DOMAIN lru : lru[e] = {}}

-----------------------------------------------------------------------------
(* The app's threads touch pages *)

\* a core's TLB remembers a page that is there
Touch(p) ==
    /\ pte[p] \in Frames
    /\ tlb' = [tlb EXCEPT ![p] = pte[p]]
    /\ UNCHANGED <<vma, pte, phys, zs, count, out, wb, th>>

Write(p, v) ==
    /\ tlb[p] # None
    /\ fdata' = [fdata EXCEPT ![tlb[p]] = v]
    /\ UNCHANGED <<mm, free, zs, count, out, wb, th>>

\* thread t leaves the fault: on with the access, or it ends
Done(t) == th' = [th EXCEPT ![t] = Idle]
Wait(t, pc, p, e) == th' = [th EXCEPT ![t] = [pc |-> pc, p |-> p, e |-> e, hand |-> None]]

\* the page f goes into the tables at p
Put(p, f) == pte' = [pte EXCEPT ![p] = f]

\* never touched: a page of zeros
FaultZero(t, p) ==
    /\ pte[p] = None
    /\ \E f \in free :
         /\ free' = free \ {f}
         /\ fdata' = [fdata EXCEPT ![f] = Zero]
         /\ Put(p, f)
    /\ Count(1, 0, 0, 0)
    /\ Done(t)
    /\ UNCHANGED <<vma, tlb, zs, out, wb>>

\* still being compressed: put back
FaultPending(t, p) ==
    /\ pte[p] \in Ents /\ ent[pte[p]].st = "PENDING"
    /\ Put(p, ent[pte[p]].frame)
    /\ ent' = Become(pte[p], "CANCELLED")
    /\ Count(1, 0, 0, 0)
    /\ Done(t)
    /\ UNCHANGED <<vma, tlb, phys, lru, used, disk, out, wb>>

FaultTakeBlank(t, p) ==
    /\ pte[p] \in Ents /\ ent[pte[p]].st \in {"STORED", "WRITING"}
    /\ LET e == pte[p]
       IN  /\ \E f \in free :
                /\ free' = free \ {f}
                /\ fdata' = IF ent[e].st = "STORED" THEN [fdata EXCEPT ![f] = ent[e].data] ELSE fdata
                /\ Put(p, f)
           /\ IF ent[e].st = "STORED"
              THEN ent' = [ent EXCEPT ![e] = FreeEnt] /\ LruDel({e})
              ELSE ent' = Become(e, "TAKEN") /\ UNCHANGED lru
    /\ Count(1, -1, -1, 0)
    /\ Done(t)
    /\ UNCHANGED <<vma, tlb, used, disk, out, wb>>

\* zswap_take of a compressed page; the writer frees an entry it has
FaultTake(t, p) ==
    /\ pte[p] \in Ents /\ ent[pte[p]].st \in {"STORED", "WRITING"}
    /\ LET e == pte[p]
       IN  /\ \E f \in free :
                /\ free' = free \ {f}
                /\ fdata' = [fdata EXCEPT ![f] = ent[e].data]
                /\ Put(p, f)
           /\ IF ent[e].st = "STORED"
              THEN ent' = [ent EXCEPT ![e] = FreeEnt] /\ LruDel({e})
              ELSE ent' = Become(e, "TAKEN") /\ UNCHANGED lru
    /\ Count(1, -1, -1, 0)
    /\ Done(t)
    /\ UNCHANGED <<vma, tlb, used, disk, out, wb>>

\* on the disk: read in first, on the boot core
FaultDisk(t, p) ==
    /\ pte[p] \in Ents /\ ent[pte[p]].st \in {"DISK", "READING"} /\ free # {}
    /\ Wait(t, "disk", p, pte[p])
    /\ UNCHANGED <<mm, phys, zs, count, out, wb>>

\* no memory for it: zswap_reclaim, then again
FaultNoMemory(t, p) ==
    /\ free = {} /\ (pte[p] = None \/ (pte[p] \in Ents /\ ent[pte[p]].st # "PENDING"))
    /\ Wait(t, "nomem", p, None)
    /\ UNCHANGED <<mm, phys, zs, count, out, wb>>

\* another thread put it there first, or unmapped it
FaultOver(t, p) ==
    /\ th[t].pc = "retry"
    /\ p \notin vma \/ pte[p] \in Frames
    /\ Done(t)
    /\ UNCHANGED <<mm, phys, zs, count, out, wb>>

\* uvm_fault
Fault(t, p) ==
    /\ th[t].pc = "idle" \/ (th[t].pc = "retry" /\ th[t].p = p)
    /\ \/ FaultOver(t, p)
       \/ /\ p \in vma
          /\ \/ FaultZero(t, p) \/ FaultPending(t, p) \/ FaultTake(t, p)
             \/ FaultDisk(t, p) \/ FaultNoMemory(t, p)

Reclaimed(t) ==
    /\ th[t].pc = "nomem" /\ BootFree(t)
    /\ Wait(t, "retry", th[t].p, None)
    /\ UNCHANGED <<mm, phys, zs, count, out, wb>>

-----------------------------------------------------------------------------
(* zswap_disk_in *)

DiskInWaits(t) ==
    /\ th[t].pc = "disk" /\ BootFree(t)
    /\ ent[th[t].e].st = "DISK"
    /\ ent' = Become(th[t].e, "READING")
    /\ Wait(t, "reading", th[t].p, th[t].e)
    /\ UNCHANGED <<mm, phys, lru, used, disk, count, out, wb>>

DiskIn(t) ==
    /\ th[t].pc = "disk" /\ BootFree(t)
    /\ LET e == th[t].e
       IN  IF ent[e].st = "DISK"
           THEN ent' = Become(e, "READING") /\ Wait(t, "reading", th[t].p, e)
           ELSE /\ ent[e].st # "READING"                \* (another thread reads it: waited for)
                /\ Wait(t, "retry", th[t].p, None) /\ UNCHANGED ent
    /\ UNCHANGED <<mm, phys, lru, used, disk, count, out, wb>>

\* unmapped meanwhile: the reader frees it
FreeDead(e) ==
    /\ used' = used \ {ent[e].slot}
    /\ ent' = [ent EXCEPT ![e] = FreeEnt]

ReadOk(t) ==
    /\ th[t].pc = "reading" /\ BootFree(t)
    /\ LET e == th[t].e
       IN  IF ent[e].st = "READING"
           THEN /\ ent' = [ent EXCEPT ![e] = [@ EXCEPT !.st = "STORED", !.slot = None, !.data = disk[ent[e].slot]]]
                /\ used' = used \ {ent[e].slot}
                /\ LruAdd(e)
                /\ Count(0, 0, 1, -1)
           ELSE FreeDead(e) /\ UNCHANGED <<lru, count>>
    /\ Wait(t, "retry", th[t].p, None)
    /\ UNCHANGED <<mm, phys, disk, out, wb>>

\* no memory to read it into (make some, then again), or the disk failed
ReadFail(t) ==
    /\ th[t].pc = "reading" /\ BootFree(t)
    /\ LET e == th[t].e
       IN  IF ent[e].st = "READING"
           THEN ent' = Become(e, "DISK") /\ UNCHANGED used /\ (Wait(t, "nomem", th[t].p, None) \/ Done(t))
           ELSE FreeDead(e) /\ Wait(t, "retry", th[t].p, None)
    /\ UNCHANGED <<mm, phys, lru, disk, count, out, wb>>

-----------------------------------------------------------------------------
(* Ranges mapped and unmapped, on any core *)

\* uvm_map: addresses no range has, nothing else
Map(t, p) ==
    /\ th[t].pc = "idle" /\ p \notin vma
    /\ Racing \/ \A u \in Threads : th[u].pc \in {"cut", "shoot"} => th[u].p # p
    /\ vma' = vma \union {p}
    /\ UNCHANGED <<pte, tlb, phys, zs, count, out, wb, th>>

\* uvm_unmap: first out of the ranges ...
Unmap(t, p) ==
    /\ th[t].pc = "idle" /\ p \in vma
    /\ vma' = vma \ {p}
    /\ Wait(t, "cut", p, None)
    /\ UNCHANGED <<pte, tlb, phys, zs, count, out, wb>>

\* zswap_release: the entry goes, or whoever has it frees it
ZswapReleaseKeepsCount(e) ==
    LET st == ent[e].st
    IN  /\ ent' = IF st \in {"WRITING", "READING"} THEN Become(e, "DEAD") ELSE [ent EXCEPT ![e] = FreeEnt]
        /\ LruDel({e})
        /\ used' = IF st = "DISK" THEN used \ {ent[e].slot} ELSE used
        /\ IF st \in {"STORED", "WRITING"} THEN Count(0, -1, -1, 0) ELSE Count(0, -1, 0, 0)

ZswapRelease(e) ==
    LET st == ent[e].st
    IN  /\ ent' = IF st \in {"WRITING", "READING"} THEN Become(e, "DEAD") ELSE [ent EXCEPT ![e] = FreeEnt]
        /\ LruDel({e})
        /\ used' = IF st = "DISK" THEN used \ {ent[e].slot} ELSE used
        /\ IF st \in {"STORED", "WRITING"} THEN Count(0, -1, -1, 0) ELSE Count(0, -1, 0, -1)

\* ... then, vm_release, out of the tables, a page being compressed too ...
Release(t) ==
    /\ th[t].pc = "cut"
    /\ LET p == th[t].p
           x == pte[p]
           pending == x \in Ents /\ ent[x].st = "PENDING"
       IN  /\ Put(p, None)
           /\ IF x \in Frames \/ pending
              THEN /\ th' = [th EXCEPT ![t] = [@ EXCEPT !.pc = "shoot", !.hand = IF pending THEN ent[x].frame ELSE x]]
                   /\ Count(IF pending THEN 0 ELSE -1, 0, 0, 0)
                   /\ ent' = IF pending THEN Become(x, "CANCELLED") ELSE ent
                   /\ UNCHANGED <<lru, used>>
              ELSE /\ Done(t)
                   /\ IF x = None THEN UNCHANGED <<ent, lru, used, count>> ELSE ZswapRelease(x)
    /\ UNCHANGED <<vma, tlb, phys, disk, out, wb>>

\* ... and back to the system once the cores forgot it
Free(t) ==
    /\ th[t].pc = "shoot"
    /\ tlb' = [tlb EXCEPT ![th[t].p] = None]
    /\ free' = free \union {th[t].hand}
    /\ Done(t)
    /\ UNCHANGED <<vma, pte, fdata, zs, count, out, wb>>

\* uspace_destroy, once no thread runs and the compressor let go of it
Destroy ==
    /\ \A t \in Threads : th[t].pc = "idle"
    /\ out.pc = "idle"
    /\ vma' = {} /\ pte' = [p \in Pages |-> None] /\ tlb' = [p \in Pages |-> None]
    /\ free' = free \union {pte[p] : p \in {q \in Pages : pte[q] \in Frames}}
    /\ LET gone == {pte[p] : p \in Pages} \intersect Ents
       IN  /\ ent' = [e \in Ents |-> IF e \notin gone THEN ent[e]
                                     ELSE IF ent[e].st = "WRITING" THEN [ent[e] EXCEPT !.st = "DEAD"]
                                     ELSE FreeEnt]
           /\ LruDel(gone)
           /\ used' = used \ {ent[e].slot : e \in {x \in gone : ent[x].st = "DISK"}}
           /\ count' = [vm |-> 0, vmz |-> 0,
                        pages |-> count.pages - Cardinality({e \in gone : ent[e].st \in {"STORED", "WRITING"}}),
                        disk |-> count.disk - Cardinality({e \in gone : ent[e].st = "DISK"})]
    /\ UNCHANGED <<fdata, disk, out, wb, th>>

-----------------------------------------------------------------------------
(* page_out: a page is taken out of the tables ... *)

OutTake(p) ==
    /\ out.pc = "idle" /\ BootFree(None)
    /\ pte[p] \in Frames
    /\ \E e \in Ents :
         /\ ent[e].st = "FREE"
         /\ ent' = [ent EXCEPT ![e] = [FreeEnt EXCEPT !.st = "PENDING", !.frame = pte[p]]]
         /\ Put(p, e)
         /\ out' = [OutIdle EXCEPT !.pc = "taken", !.p = p, !.e = e]
    /\ Count(-1, 0, 0, 0)
    /\ UNCHANGED <<vma, tlb, phys, lru, used, disk, wb, th>>

OutShootSkipped ==
    /\ out.pc = "taken" /\ BootFree(None)
    /\ out' = [out EXCEPT !.pc = "shot"]
    /\ UNCHANGED <<mm, phys, zs, count, wb, th>>

\* ... the cores forget it ...
OutShoot ==
    /\ out.pc = "taken" /\ BootFree(None)
    /\ tlb' = [tlb EXCEPT ![out.p] = None]
    /\ out' = [out EXCEPT !.pc = "shot"]
    /\ UNCHANGED <<vma, pte, phys, zs, count, wb, th>>

\* ... it is compressed, or with no heap for that written to the disk, or
\* neither ...
OutPack ==
    /\ out.pc = "shot" /\ BootFree(None)
    /\ LET v == fdata[ent[out.e].frame]
       IN  \/ /\ out' = [out EXCEPT !.pc = "packed", !.val = v, !.keep = TRUE]
              /\ UNCHANGED <<used, disk>>
           \/ /\ v # Zero
              /\ out' = [out EXCEPT !.pc = "packed"]
              /\ UNCHANGED <<used, disk>>
           \/ /\ v # Zero
              /\ \E s \in Sectors \ used :
                   /\ used' = used \union {s}
                   /\ disk' = [disk EXCEPT ![s] = v]
                   /\ out' = [out EXCEPT !.pc = "packed", !.slot = s]
    /\ UNCHANGED <<mm, phys, ent, lru, count, wb, th>>

OutStored ==
    /\ ent' = [ent EXCEPT ![out.e] = [FreeEnt EXCEPT !.st = "STORED", !.data = out.val]]
    /\ IF out.val = Zero THEN UNCHANGED lru ELSE LruAdd(out.e)
    /\ free' = free \union {ent[out.e].frame}
    /\ Count(0, 1, 1, 0)
    /\ UNCHANGED <<pte, used>>

OutToDisk ==
    /\ ent' = [ent EXCEPT ![out.e] = [FreeEnt EXCEPT !.st = "DISK", !.slot = out.slot]]
    /\ free' = free \union {ent[out.e].frame}
    /\ Count(0, 1, 0, 1)
    /\ UNCHANGED <<pte, lru, used>>

OutStaysForgets ==
    /\ ent' = [ent EXCEPT ![out.e] = FreeEnt]
    /\ Count(1, 0, 0, 0)
    /\ UNCHANGED <<pte, free, lru, used>>

OutStays ==
    /\ Put(out.p, ent[out.e].frame)
    /\ ent' = [ent EXCEPT ![out.e] = FreeEnt]
    /\ Count(1, 0, 0, 0)
    /\ UNCHANGED <<free, lru, used>>

OutGone ==
    /\ ent' = [ent EXCEPT ![out.e] = FreeEnt]
    /\ used' = used \ {out.slot}
    /\ UNCHANGED <<pte, free, lru, count>>

\* ... and what became of it is looked at again: touched or unmapped, it is
\* not the compressor's any more
OutStore ==
    /\ out.pc = "packed" /\ BootFree(None)
    /\ IF ent[out.e].st = "PENDING" /\ pte[out.p] = out.e
       THEN IF out.keep THEN OutStored ELSE IF out.slot # None THEN OutToDisk ELSE OutStays
       ELSE OutGone
    /\ out' = OutIdle
    /\ UNCHANGED <<vma, tlb, fdata, disk, wb, th>>

-----------------------------------------------------------------------------
(* zswap_writeback: the oldest compressed page to the disk *)

WbStart ==
    /\ wb.e = None /\ BootFree(None)
    /\ \E e \in LruHead, s \in Sectors \ used :
         /\ used' = used \union {s}
         /\ ent' = [ent EXCEPT ![e] = [@ EXCEPT !.st = "WRITING", !.slot = s]]
         /\ wb' = [e |-> e, slot |-> s, val |-> ent[e].data]
         /\ LruDel({e})
    /\ UNCHANGED <<mm, phys, disk, count, out, th>>

WbDoneKeepsSlot(ok) ==
    /\ wb.e # None /\ BootFree(None)
    /\ disk' = IF ok THEN [disk EXCEPT ![wb.slot] = wb.val] ELSE disk
    /\ CASE ent[wb.e].st = "WRITING" /\ ok ->
              /\ ent' = [ent EXCEPT ![wb.e] = [@ EXCEPT !.st = "DISK", !.data = None]]
              /\ Count(0, 0, -1, 1) /\ UNCHANGED <<used, lru>>
         [] ent[wb.e].st = "WRITING" /\ ~ok ->
              /\ ent' = [ent EXCEPT ![wb.e] = [@ EXCEPT !.st = "STORED", !.slot = None]]
              /\ used' = used \ {wb.slot} /\ LruAdd(wb.e) /\ UNCHANGED count
         [] OTHER -> ent' = [ent EXCEPT ![wb.e] = FreeEnt] /\ UNCHANGED <<used, lru, count>>
    /\ wb' = WbIdle
    /\ UNCHANGED <<mm, phys, out, th>>

\* written, or not; or touched (TAKEN) or unmapped (DEAD) meanwhile
WbDone(ok) ==
    /\ wb.e # None /\ BootFree(None)
    /\ disk' = IF ok THEN [disk EXCEPT ![wb.slot] = wb.val] ELSE disk
    /\ CASE ent[wb.e].st = "WRITING" /\ ok ->
              /\ ent' = [ent EXCEPT ![wb.e] = [@ EXCEPT !.st = "DISK", !.data = None]]
              /\ Count(0, 0, -1, 1) /\ UNCHANGED <<used, lru>>
         [] ent[wb.e].st = "WRITING" /\ ~ok ->
              /\ ent' = [ent EXCEPT ![wb.e] = [@ EXCEPT !.st = "STORED", !.slot = None]]
              /\ used' = used \ {wb.slot} /\ LruAdd(wb.e) /\ UNCHANGED count
         [] OTHER -> FreeDead(wb.e) /\ UNCHANGED <<lru, count>>
    /\ wb' = WbIdle
    /\ UNCHANGED <<mm, phys, out, th>>

-----------------------------------------------------------------------------
ThreadStep(t) ==
    \/ Reclaimed(t) \/ DiskIn(t) \/ ReadOk(t) \/ Release(t) \/ Free(t)
    \/ (th[t].pc = "retry" /\ Fault(t, th[t].p))

ZswapStep == OutShoot \/ OutPack \/ OutStore \/ \E ok \in BOOLEAN : WbDone(ok)

Next ==
    \/ \E t \in Threads :
         \/ ThreadStep(t) \/ ReadFail(t)
         \/ \E p \in Pages : Fault(t, p) \/ Map(t, p) \/ Unmap(t, p)
    \/ \E p \in Pages : Touch(p) \/ OutTake(p) \/ \E v \in Vals : Write(p, v)
    \/ ZswapStep \/ WbStart \/ Destroy

Spec == Init /\ [][Next]_vars

\* What was begun goes on (the boot core's tasks take turns), the disk
\* answers, and memory to read a page into is found when it is looked for
\* again and again.
Fairness ==
    /\ WF_vars(ZswapStep)
    /\ \A t \in Threads : SF_vars(ThreadStep(t)) /\ SF_vars(ReadOk(t))

LiveSpec == Spec /\ Fairness

-----------------------------------------------------------------------------
(* Properties *)

States == {"FREE", "PENDING", "STORED", "CANCELLED", "WRITING", "DISK", "READING", "DEAD", "TAKEN"}

MmType ==
    /\ vma \subseteq Pages /\ free \subseteq Frames
    /\ pte \in [Pages -> Frames \union Ents \union {None}]
    /\ tlb \in [Pages -> Frames \union {None}]
EntSet == [st : States, frame : Frames \union {None}, data : Vals \union {None}, slot : Sectors \union {None}]
ZsType ==
    /\ ent \in [Ents -> EntSet]
    /\ DOMAIN lru \subseteq Ents /\ used \subseteq Sectors
DataType == fdata \in [Frames -> Vals] /\ disk \in [Sectors -> Vals]
OutType ==
    out \in [pc : {"idle", "taken", "shot", "packed"}, p : Pages \union {None}, e : Ents \union {None},
             val : Vals \union {None}, keep : BOOLEAN, slot : Sectors \union {None}]
WbType == wb \in [e : Ents \union {None}, slot : Sectors \union {None}, val : Vals \union {None}]
ThSet == [pc : {"idle", "nomem", "disk", "reading", "retry", "cut", "shoot"},
          p : Pages \union {None}, e : Ents \union {None}, hand : Frames \union {None}]
ThType == th \in [Threads -> ThSet]

\* Every variable has its type; the counters never go below zero.
TypeOK ==
    /\ MmType /\ ZsType /\ DataType /\ OutType /\ WbType /\ ThType
    /\ count \in [vm : Nat, vmz : Nat, pages : Nat, disk : Nat]

\* Where an entry, a frame and a sector are held.
EntHolders(e) ==
    {<<"pte", p>> : p \in {q \in Pages : pte[q] = e}}
      \union {<<"out", x>> : x \in IF out.e = e /\ ent[e].st = "CANCELLED" THEN {out.p} ELSE {}}
      \union {<<"wb", x>> : x \in IF wb.e = e /\ ent[e].st \in {"TAKEN", "DEAD"} THEN {wb.slot} ELSE {}}
      \union {<<"read", t>> : t \in {u \in Threads : th[u].pc = "reading" /\ th[u].e = e /\ ent[e].st = "DEAD"}}

FrameHolders(f) ==
    {<<"free", x>> : x \in free \intersect {f}}
      \union {<<"pte", p>> : p \in {q \in Pages : pte[q] = f}}
      \union {<<"ent", e>> : e \in {x \in Ents : ent[x].st = "PENDING" /\ ent[x].frame = f}}
      \union {<<"hand", t>> : t \in {u \in Threads : th[u].hand = f}}

SectorHolders(s) ==
    {<<"ent", e>> : e \in {x \in Ents : ent[x].slot = s}}
      \union {<<"out", x>> : x \in {out.slot} \intersect {s}}

\* Nothing is leaked and nothing is given out twice: a frame is free or has
\* one holder, an entry not on the free list has one holder, a sector marked
\* in the map has one, however faults, unmaps, the compressor, the writer
\* and a reader of the same page fall together.
HeldOnce ==
    /\ \A f \in Frames : Cardinality(FrameHolders(f)) = 1
    /\ \A e \in Ents : Cardinality(EntHolders(e)) = IF ent[e].st = "FREE" THEN 0 ELSE 1
    /\ \A s \in Sectors : Cardinality(SectorHolders(s)) = IF s \in used THEN 1 ELSE 0

\* A page table entry that names a compressed page names one a fault can
\* bring back: a touch of a mapped page is never refused (uvm_fault gives 0
\* for a free, cancelled, taken or dead entry and the app is ended).
NeverRefused ==
    \A p \in Pages :
      pte[p] \in Ents => ent[pte[p]].st \in {"PENDING", "STORED", "WRITING", "DISK", "READING"}

\* What the app's page p holds, wherever it is.
Content(p) ==
    LET x == pte[p]
    IN  CASE p \notin vma -> Unmapped
          [] p \in vma /\ x = None -> Zero
          [] p \in vma /\ x \in Frames -> fdata[x]
          [] OTHER -> CASE ent[x].st = "PENDING" -> fdata[ent[x].frame]
                        [] ent[x].st \in {"DISK", "READING"} -> disk[ent[x].slot]
                        [] OTHER -> ent[x].data

\* A core that still remembers where a mapped page was reads what is in the
\* page now: a page is compressed, or given to someone else, only after the
\* cores forgot it.
ReadsCurrent == \A p \in vma : tlb[p] # None => fdata[tlb[p]] = Content(p)

\* Of any two in the list one comes before the other, and nothing before
\* itself.
IsOrder ==
    /\ \A x \in DOMAIN lru : lru[x] \subseteq DOMAIN lru \ {x}
    /\ \A x, y \in DOMAIN lru : x # y => (x \in lru[y]) # (y \in lru[x])
    /\ \A x, y \in DOMAIN lru : x \in lru[y] => lru[x] \subseteq lru[y]

\* vm_pages and vm_zpages (what the app is charged for), g_st.pages and
\* g_st.disk_pages (what the zswap task decides by) are exact, and the list
\* the writer takes the oldest page from has the compressed pages with data.
CountsExact ==
    LET In(states) == Cardinality({e \in Ents : ent[e].st \in states})
    IN  /\ count.vm = Cardinality({p \in Pages : pte[p] \in Frames})
        /\ count.vmz = In({"STORED", "WRITING", "DISK", "READING"})
        /\ count.pages = In({"STORED", "WRITING"})
        /\ count.disk = In({"DISK", "READING"})
        /\ DOMAIN lru = {e \in Ents : ent[e].st = "STORED" /\ ent[e].data # Zero}
        /\ IsOrder

Mem == [p \in Pages |-> Content(p)]
M == INSTANCE Memory WITH mem <- Mem

\* The app's memory is a plain memory: it starts unmapped, every write, map,
\* unmap and the end of the app do there what they do to a plain memory (a
\* write where nothing is mapped any more does nothing), and nothing the
\* kernel does in between changes what a page holds.
MemoryStep ==
    /\ \A p \in Pages, v \in Vals : Write(p, v) => IF p \in vma THEN M!Write(p, v) ELSE Mem' = Mem
    /\ \A t \in Threads, p \in Pages : (Map(t, p) => M!Map(p)) /\ (Unmap(t, p) => M!Unmap(p))
    /\ Destroy => M!End
    /\ \/ Mem' = Mem
       \/ \E p \in Pages, v \in Vals : Write(p, v)
       \/ \E t \in Threads, p \in Pages : Map(t, p) \/ Unmap(t, p)
       \/ Destroy

IsMemory == M!Init /\ [][MemoryStep]_vars

\* A thread that waits for a page from the disk goes on in the end.
ReadEnds == \A t \in Threads : th[t].pc = "disk" ~> th[t].pc = "idle"
=============================================================================
