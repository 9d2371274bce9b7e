-------------------------------- MODULE Tlb --------------------------------
(***************************************************************************)
(* What the processor cores' TLBs remember (kernel/tlb.c), and the         *)
(* shootdown that makes them forget (kernel/smp.c, kernel/uspace.c).       *)
(*                                                                         *)
(* Each core keeps the translations of several address spaces, one PCID    *)
(* per space, and trusts them when it loads a space again at the           *)
(* generation it last loaded it at.  A page taken out of a space's tables  *)
(* is given back only after the cores running the space forgot it.         *)
(* Every space has one user page.  Interrupts are off inside a load and,   *)
(* on the cores other than the boot core, in a system call.                *)
(***************************************************************************)
EXTENDS Integers, FiniteSets

CONSTANTS
    Cores, Boot,    \* the processor cores; the boot core
    Spaces, K,      \* address spaces (by their CR3); the kernel's own tables
    Frames, NoPage,   \* physical pages; no page
    NSLOT,          \* PCIDs a core gives to spaces
    Machines        \* the machines looked at, and how far: records of
                    \*   pcid      tlb_has_pcid()
                    \*   spaces    the spaces in use
                    \*   gens      bound: changes of one space's tables
                    \*   reuses    bound: spaces made where an old one was
                    \*   kchanges  bound: changes of the kernel's tables
                    \*   timeouts  bound: shootdowns that time out

\* assumed by the modules that give the constants their values
TlbAssumption ==
    /\ Boot \in Cores
    /\ IsFiniteSet(Spaces) /\ K \notin Spaces /\ NoPage \notin Frames
    /\ NSLOT \in Nat \ {0}
    /\ \A m \in Machines : m.pcid \in BOOLEAN /\ m.spaces \subseteq Spaces

VARIABLES
    mach,       \* the machine
    pt,         \* the frame each space's page is mapped to
    own,        \* the ids of the spaces a frame belongs to, none: free
    id, gen,    \* tlb_tag_t of each space
    nextId,     \* g_next_id
    smp_cur_cr3,        \* smp_cur_cr3: the tables each core says it runs on
    cr3,        \* CR3 of each core: [sp, pcid]
    tlb,        \* what each core remembers of the page, by PCID
    slot, next, \* core_t.slot, core_t.next
    last,       \* core_t.id and core_t.gen (without PCIDs)
    kver, kgen, \* the kernel tables' version in memory; g_kgen
    ck, ktlb,   \* core_t.kgen; the version a core remembers (global pages)
    pc,         \* what each core is doing
    tgt, lgen,  \* in load(): the space, the generation read
    hand, us,   \* in vm_release: the frame taken out, its space
    todo, want, \* in smp_tlb_shootdown: cores not looked at yet, counts awaited
    req, done,  \* g_tlb_req, g_tlb_done
    svc,        \* in smp_tlb_service: the count read, -1: not in it
    timeouts

space == <<pt, own, id, gen, nextId>>
core == <<smp_cur_cr3, cr3, tlb, slot, next, last>>
kern == <<kver, kgen, ck, ktlb>>
shoot == <<hand, us, todo, want, req, done, timeouts>>
tlbVars == <<mach, space, core, kern, pc, tgt, lgen, shoot, svc>>

Pcids == 0..NSLOT
Forgot == [p \in Pcids |-> NoPage]

TlbInit ==
    /\ mach \in Machines
    /\ pt = [s \in Spaces |-> NoPage]
    /\ own = [f \in Frames |-> {}]
    /\ id = CHOOSE i \in [Spaces -> 1..Cardinality(Spaces)] : \A s, r \in Spaces : i[s] = i[r] => s = r
    /\ gen = [s \in Spaces |-> 0]
    /\ nextId = Cardinality(Spaces) + 1
    /\ smp_cur_cr3 = [c \in Cores |-> K]
    /\ cr3 = [c \in Cores |-> [sp |-> K, pcid |-> 0]]
    /\ tlb = [c \in Cores |-> Forgot]
    /\ slot = [c \in Cores |-> [i \in 1..NSLOT |-> [id |-> 0, gen |-> 0]]]
    /\ next = [c \in Cores |-> 1]
    /\ last = [c \in Cores |-> [id |-> -1, gen |-> 0]]
    /\ kver = 0 /\ kgen = 0
    /\ ck = [c \in Cores |-> 0]
    /\ ktlb = [c \in Cores |-> 0]
    /\ pc = [c \in Cores |-> "run"]
    /\ tgt = [c \in Cores |-> K] /\ lgen = [c \in Cores |-> 0]
    /\ hand = [c \in Cores |-> NoPage] /\ us = [c \in Cores |-> K]
    /\ todo = [c \in Cores |-> {}] /\ want = [c \in Cores |-> [d \in Cores |-> 0]]
    /\ req = [c \in Cores |-> 0] /\ done = [c \in Cores |-> 0]
    /\ svc = [c \in Cores |-> -1]
    /\ timeouts = 0

\* core c is at p and not inside an interrupt
At(c, p) == pc[c] = p /\ svc[c] = -1
TlbGoto(c, p) == pc' = [pc EXCEPT ![c] = p]

-----------------------------------------------------------------------------
(* The hardware: translations of the tables in CR3 are remembered under its *)
(* PCID whenever the processor likes.                                       *)

Fill(c) ==
    /\ cr3[c].sp # K /\ pt[cr3[c].sp] # NoPage
    /\ tlb' = [tlb EXCEPT ![c][cr3[c].pcid] = pt[cr3[c].sp]]
    /\ UNCHANGED <<mach, space, smp_cur_cr3, cr3, slot, next, last, kern, pc, tgt, lgen, shoot, svc>>

KernelFill(c) ==
    /\ ktlb' = [ktlb EXCEPT ![c] = kver]
    /\ UNCHANGED <<mach, space, core, kver, kgen, ck, pc, tgt, lgen, shoot, svc>>

-----------------------------------------------------------------------------
(* tlb_load, interrupts off *)

\* the core says which tables it will be on, then (mfence) goes on
LoadAnnounce(c, s) ==
    /\ At(c, "run")
    /\ smp_cur_cr3' = [smp_cur_cr3 EXCEPT ![c] = s]
    /\ tgt' = [tgt EXCEPT ![c] = s]
    /\ TlbGoto(c, "load")
    /\ UNCHANGED <<mach, space, cr3, tlb, slot, next, last, kern, lgen, shoot, svc>>

GenOf(s) == IF s = K THEN 0 ELSE gen[s]
IdOf(s) == IF s = K THEN 0 ELSE id[s]

LoadReadGenNoFlush(c) ==
    /\ At(c, "load")
    /\ ck' = [ck EXCEPT ![c] = kgen]
    /\ lgen' = [lgen EXCEPT ![c] = GenOf(tgt[c])]
    /\ TlbGoto(c, "set")
    /\ UNCHANGED <<mach, space, core, kver, kgen, ktlb, tgt, shoot, svc>>

\* the kernel's tables changed since: everything goes; the generation is read
LoadReadGen(c) ==
    /\ At(c, "load")
    /\ ck' = [ck EXCEPT ![c] = kgen]
    /\ IF ck[c] # kgen
       THEN /\ tlb' = [tlb EXCEPT ![c] = Forgot]
            /\ ktlb' = [ktlb EXCEPT ![c] = kver]
       ELSE UNCHANGED <<tlb, ktlb>>
    /\ lgen' = [lgen EXCEPT ![c] = GenOf(tgt[c])]
    /\ TlbGoto(c, "set")
    /\ UNCHANGED <<mach, space, smp_cur_cr3, cr3, slot, next, last, kver, kgen, tgt, shoot, svc>>

\* back from load(): its locals are dead
LoadReturn(c) ==
    /\ tgt' = [tgt EXCEPT ![c] = K]
    /\ lgen' = [lgen EXCEPT ![c] = 0]
    /\ TlbGoto(c, "run")

\* without PCIDs: CR3 is loaded (all is forgotten) only for another space,
\* or one that changed
LoadPlain(c) ==
    /\ At(c, "set") /\ ~mach.pcid
    /\ LET tag == [id |-> IdOf(tgt[c]), gen |-> lgen[c]]
       IN  /\ last' = [last EXCEPT ![c] = tag]
           /\ IF cr3[c].sp = tgt[c] /\ last[c] = tag
              THEN UNCHANGED <<cr3, tlb>>
              ELSE /\ cr3' = [cr3 EXCEPT ![c] = [sp |-> tgt[c], pcid |-> 0]]
                   /\ tlb' = [tlb EXCEPT ![c] = Forgot]
    /\ LoadReturn(c)
    /\ UNCHANGED <<mach, space, smp_cur_cr3, slot, next, kern, shoot, svc>>

\* the kernel's tables: PCID 0, which holds no user page
LoadKernel(c) ==
    /\ At(c, "set") /\ mach.pcid /\ tgt[c] = K
    /\ cr3' = [cr3 EXCEPT ![c] = [sp |-> K, pcid |-> 0]]
    /\ LoadReturn(c)
    /\ UNCHANGED <<mach, space, smp_cur_cr3, tlb, slot, next, last, kern, shoot, svc>>

\* the PCID of a space: the one it has on this core, else the oldest one's
SlotOf(c, s) == {i \in 1..NSLOT : slot[c][i].id = id[s]}

LoadPcid(c) ==
    /\ At(c, "set") /\ mach.pcid /\ tgt[c] # K
    /\ LET s == tgt[c]
           known == SlotOf(c, s)
           i == IF known = {} THEN next[c] ELSE CHOOSE j \in known : TRUE
           fresh == known # {} /\ slot[c][i].gen = lgen[c]
       IN  /\ slot' = [slot EXCEPT ![c][i] = [id |-> id[s], gen |-> lgen[c]]]
           /\ next' = [next EXCEPT ![c] = IF known = {} THEN (@ % NSLOT) + 1 ELSE @]
           /\ cr3' = [cr3 EXCEPT ![c] = [sp |-> s, pcid |-> i]]
           /\ tlb' = IF fresh THEN tlb ELSE [tlb EXCEPT ![c][i] = NoPage]
    /\ LoadReturn(c)
    /\ UNCHANGED <<mach, space, smp_cur_cr3, last, kern, shoot, svc>>

-----------------------------------------------------------------------------
(* A space's tables *)

\* upage_free: a space gives up its reference to a frame
Dropped(f, s) == [g \in Frames |-> IF g = f THEN own[g] \ {id[s]} ELSE own[g]]

\* a page fault of a core running the space gives it a page
Map(c, f) ==
    /\ At(c, "run") /\ cr3[c].sp # K
    /\ LET s == cr3[c].sp
       IN  /\ pt[s] = NoPage /\ own[f] = {}
           /\ pt' = [pt EXCEPT ![s] = f]
           /\ own' = [own EXCEPT ![f] = {id[s]}]
    /\ UNCHANGED <<mach, id, gen, nextId, core, kern, pc, tgt, lgen, shoot, svc>>

\* vm_release or page_out takes the page out of the tables: a core running
\* the space, or the boot core for any space
Unmap(c, s) ==
    /\ At(c, "run") /\ pt[s] # NoPage /\ gen[s] < mach.gens
    /\ c = Boot \/ cr3[c].sp = s
    /\ pt' = [pt EXCEPT ![s] = NoPage]
    /\ hand' = [hand EXCEPT ![c] = pt[s]]
    /\ us' = [us EXCEPT ![c] = s]
    /\ TlbGoto(c, "bump")
    /\ UNCHANGED <<mach, own, id, gen, nextId, core, kern, tgt, lgen, todo, want, req, done, timeouts, svc>>

ReloadCr3(c) == [tlb EXCEPT ![c][cr3[c].pcid] = NoPage]

\* shootdown(): tlb_space_changed, and this core's own TLB
ShootdownBump(c) ==
    /\ At(c, "bump")
    /\ gen' = [gen EXCEPT ![us[c]] = @ + 1]
    /\ tlb' = IF cr3[c].sp = us[c] THEN ReloadCr3(c) ELSE tlb
    /\ todo' = [todo EXCEPT ![c] = Cores \ {c}]
    /\ want' = [want EXCEPT ![c] = [d \in Cores |-> 0]]
    /\ TlbGoto(c, "ask")
    /\ UNCHANGED <<mach, pt, own, id, nextId, smp_cur_cr3, cr3, slot, next, last, kern, tgt, lgen, hand, us,
                   req, done, timeouts, svc>>

\* smp_tlb_shootdown asks core d if it says it is on the space
ShootdownAsk(c, d) ==
    /\ At(c, "ask") /\ d \in todo[c]
    /\ todo' = [todo EXCEPT ![c] = @ \ {d}]
    /\ IF smp_cur_cr3[d] = us[c]
       THEN /\ req' = [req EXCEPT ![d] = @ + 1]
            /\ want' = [want EXCEPT ![c][d] = req[d] + 1]
       ELSE UNCHANGED <<req, want>>
    /\ IF todo[c] = {d} THEN TlbGoto(c, "wait") ELSE UNCHANGED pc
    /\ UNCHANGED <<mach, space, core, kern, tgt, lgen, hand, us, done, timeouts, svc>>

Acknowledged(c) == \A d \in Cores : done[d] >= want[c][d]

\* every core asked has forgotten: the page is free (upage_free)
ShootdownDone(c) ==
    /\ At(c, "wait") /\ Acknowledged(c)
    /\ own' = Dropped(hand[c], us[c])
    /\ hand' = [hand EXCEPT ![c] = NoPage]
    /\ us' = [us EXCEPT ![c] = K]
    /\ want' = [want EXCEPT ![c] = [d \in Cores |-> 0]]
    /\ TlbGoto(c, "run")
    /\ UNCHANGED <<mach, pt, id, gen, nextId, core, kern, tgt, lgen, todo, req, done, timeouts, svc>>

\* 200 ms passed: uspace.c asks again, the page is still not given away
ShootdownTimeout(c) ==
    /\ At(c, "wait") /\ ~Acknowledged(c) /\ timeouts < mach.timeouts
    /\ timeouts' = timeouts + 1
    /\ todo' = [todo EXCEPT ![c] = Cores \ {c}]
    /\ want' = [want EXCEPT ![c] = [d \in Cores |-> 0]]
    /\ TlbGoto(c, "ask")
    /\ UNCHANGED <<mach, space, core, kern, tgt, lgen, hand, us, req, done, svc>>

\* smp_tlb_service, in the KICK interrupt (interrupts on) and in the waiting
\* loop of smp_tlb_shootdown: the count asked for is read, CR3 reloaded ...
ServiceRunOnly(c) ==
    /\ At(c, "run")
    /\ done[c] # req[c]
    /\ svc' = [svc EXCEPT ![c] = req[c]]
    /\ tlb' = ReloadCr3(c)
    /\ UNCHANGED <<mach, space, smp_cur_cr3, cr3, slot, next, last, kern, pc, tgt, lgen, shoot>>

Service(c) ==
    /\ svc[c] = -1
    /\ pc[c] \in {"run", "wait"} \/ (c = Boot /\ pc[c] \in {"bump", "ask", "kernel"})
    /\ done[c] # req[c]
    /\ svc' = [svc EXCEPT ![c] = req[c]]
    /\ tlb' = ReloadCr3(c)
    /\ UNCHANGED <<mach, space, smp_cur_cr3, cr3, slot, next, last, kern, pc, tgt, lgen, shoot>>

\* ... and that count acknowledged, whatever was asked for since
ServiceEndRereads(c) ==
    /\ svc[c] # -1
    /\ done' = [done EXCEPT ![c] = req[c]]
    /\ svc' = [svc EXCEPT ![c] = -1]
    /\ UNCHANGED <<mach, space, core, kern, pc, tgt, lgen, hand, us, todo, want, req, timeouts>>

ServiceEnd(c) ==
    /\ svc[c] # -1
    /\ done' = [done EXCEPT ![c] = svc[c]]
    /\ svc' = [svc EXCEPT ![c] = -1]
    /\ UNCHANGED <<mach, space, core, kern, pc, tgt, lgen, hand, us, todo, want, req, timeouts>>

\* uspace_destroy, then uspace_create: nobody runs the space any more, its
\* pages go with no shootdown, and its tables' address may be used again
SpaceReuse(s) ==
    /\ nextId <= Cardinality(Spaces) + mach.reuses
    /\ \A c \in Cores : smp_cur_cr3[c] # s /\ cr3[c].sp # s /\ us[c] # s
    /\ own' = Dropped(pt[s], s)
    /\ pt' = [pt EXCEPT ![s] = NoPage]
    /\ id' = [id EXCEPT ![s] = nextId]
    /\ gen' = [gen EXCEPT ![s] = 0]
    /\ nextId' = nextId + 1
    /\ UNCHANGED <<mach, core, kern, pc, tgt, lgen, shoot, svc>>

-----------------------------------------------------------------------------
(* Pages a fork shares *)

\* uvm_fork: the new space r gets the page too; the old one is asked for a
\* shootdown (the page is read-only from then on) in which nothing is freed
Fork(c, r) ==
    /\ At(c, "run") /\ cr3[c].sp \notin {K, r}
    /\ LET s == cr3[c].sp
       IN  /\ pt[s] # NoPage /\ pt[r] = NoPage /\ gen[s] < mach.gens
           /\ pt' = [pt EXCEPT ![r] = pt[s]]
           /\ own' = [own EXCEPT ![pt[s]] = @ \union {id[r]}]
           /\ us' = [us EXCEPT ![c] = s]
    /\ TlbGoto(c, "bump")
    /\ UNCHANGED <<mach, id, gen, nextId, core, kern, tgt, lgen, hand, todo, want, req, done, timeouts, svc>>

\* uvm_fault, a write to a page somebody else has too: a copy takes its
\* place in the tables, and this core forgets the old one
CowCopy(c, f) ==
    /\ At(c, "run") /\ cr3[c].sp # K
    /\ LET s == cr3[c].sp
       IN  /\ pt[s] # NoPage /\ own[f] = {}
           /\ Cardinality(own[pt[s]]) > 1
           /\ pt' = [pt EXCEPT ![s] = f]
           /\ own' = [Dropped(pt[s], s) EXCEPT ![f] = {id[s]}]
    /\ tlb' = ReloadCr3(c)
    /\ UNCHANGED <<mach, id, gen, nextId, smp_cur_cr3, cr3, slot, next, last, kern, pc, tgt, lgen, shoot, svc>>

-----------------------------------------------------------------------------
(* The kernel's tables, changed on the boot core *)

\* paging_guard: the page leaves the tables, invlpg forgets it here
KernelChange ==
    /\ At(Boot, "run") /\ kver < mach.kchanges
    /\ kver' = kver + 1
    /\ ktlb' = [ktlb EXCEPT ![Boot] = kver + 1]
    /\ TlbGoto(Boot, "kernel")
    /\ UNCHANGED <<mach, space, core, kgen, ck, tgt, lgen, shoot, svc>>

\* tlb_kernel_changed: the others forget before their next task
KernelChanged ==
    /\ At(Boot, "kernel")
    /\ kgen' = kgen + 1
    /\ ck' = [ck EXCEPT ![Boot] = IF @ = kgen THEN kgen + 1 ELSE @]
    /\ \/ UNCHANGED tlb                                   \* others_only
       \/ tlb' = [tlb EXCEPT ![Boot] = Forgot]
    /\ TlbGoto(Boot, "run")
    /\ UNCHANGED <<mach, space, smp_cur_cr3, cr3, slot, next, last, kver, ktlb, tgt, lgen, shoot, svc>>

-----------------------------------------------------------------------------
CoreStep(c) ==
    \/ LoadReadGen(c) \/ LoadPlain(c) \/ LoadKernel(c) \/ LoadPcid(c)
    \/ ShootdownBump(c) \/ ShootdownDone(c) \/ (\E d \in Cores : ShootdownAsk(c, d))
    \/ Service(c) \/ ServiceEnd(c)

TlbNext ==
    \/ \E c \in Cores :
         \/ CoreStep(c) \/ ShootdownTimeout(c) \/ Fill(c) \/ KernelFill(c)
         \/ \E s \in mach.spaces \union {K} : LoadAnnounce(c, s)
         \/ \E f \in Frames : Map(c, f)
         \/ \E s \in Spaces : Unmap(c, s)
    \/ \E s \in mach.spaces : SpaceReuse(s)
    \/ KernelChange \/ KernelChanged

TlbSpec == TlbInit /\ [][TlbNext]_tlbVars

\* ... with processes that fork
NextFork ==
    \/ TlbNext
    \/ \E c \in Cores : (\E r \in Spaces : Fork(c, r)) \/ (\E f \in Frames : CowCopy(c, f))

ForkSpec == TlbInit /\ [][NextFork]_tlbVars

\* What a core has begun inside the kernel it goes on with, and a pending
\* interrupt is taken when interrupts are on again and again; whether a core
\* starts anything new is up to the apps.
TlbFairness ==
    /\ WF_tlbVars(KernelChanged)
    /\ \A c \in Cores : WF_tlbVars(CoreStep(c)) /\ SF_tlbVars(Service(c))

TlbLiveSpec == TlbSpec /\ TlbFairness

-----------------------------------------------------------------------------
(* Properties *)

SpaceType ==
    /\ pt \in [Spaces -> Frames \union {NoPage}] /\ own \in [Frames -> SUBSET Nat]
    /\ id \in [Spaces -> 1..(nextId - 1)] /\ gen \in [Spaces -> Nat] /\ nextId \in Nat \ {0}

CoreType ==
    /\ smp_cur_cr3 \in [Cores -> Spaces \union {K}]
    /\ cr3 \in [Cores -> [sp : Spaces \union {K}, pcid : Pcids]]
    /\ tlb \in [Cores -> [Pcids -> Frames \union {NoPage}]]
    /\ slot \in [Cores -> [1..NSLOT -> [id : Nat, gen : Nat]]] /\ next \in [Cores -> 1..NSLOT]
    /\ last \in [Cores -> [id : Int, gen : Nat]]

StepType ==
    /\ pc \in [Cores -> {"run", "load", "set", "bump", "ask", "wait", "kernel"}]
    /\ tgt \in [Cores -> Spaces \union {K}] /\ lgen \in [Cores -> Nat]

ShootType ==
    /\ hand \in [Cores -> Frames \union {NoPage}] /\ us \in [Cores -> Spaces \union {K}]
    /\ todo \in [Cores -> SUBSET Cores] /\ want \in [Cores -> [Cores -> Nat]]
    /\ req \in [Cores -> Nat] /\ done \in [Cores -> Nat] /\ svc \in [Cores -> Nat \union {-1}]

KernelType == kver \in Nat /\ kgen \in Nat /\ ck \in [Cores -> Nat] /\ ktlb \in [Cores -> Nat]

\* Every variable has its type.
TlbTypeOK == mach \in Machines /\ SpaceType /\ CoreType /\ StepType /\ ShootType /\ KernelType

\* The user page core c reaches through its TLB belongs to the space it runs,
\* so a page taken away is "forgotten by the other cores' TLBs before its
\* memory is used again", and no PCID given to another space, and no space
\* made at an old one's address, lets a core see somebody else's page.
NoStaleTranslation ==
    \A c \in Cores :
      LET f == tlb[c][cr3[c].pcid]
      IN  pc[c] # "load" /\ pc[c] # "set" /\ cr3[c].sp # K /\ f # NoPage => id[cr3[c].sp] \in own[f]

\* A core never remembers a kernel page from before the change of the
\* kernel's tables it says it has forgotten everything for: guard pages made
\* on the boot core hold on the other cores from their next task on.
KernelForgotten == \A c \in Cores : ktlb[c] >= ck[c]

\* A page taken out of a space's tables is given back in the end, also when
\* two cores with interrupts off ask each other to forget ("two cores asking
\* each other: both go on").
ShootdownEnds == \A c \in Cores : pc[c] = "wait" ~> pc[c] = "run"

=============================================================================
