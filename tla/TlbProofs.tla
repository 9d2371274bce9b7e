----------------------------- MODULE TlbProofs -----------------------------
(***************************************************************************)
(* What Tlb guarantees for every number of cores, spaces, frames and PCIDs *)
(* and on every machine, as long as nothing is shared by a fork: a core    *)
(* reaches only pages of the space it runs, and no kernel page from before *)
(* a change it has acknowledged.                                           *)
(***************************************************************************)
EXTENDS Tlb, FiniteSetTheorems, FunctionTheorems, TLAPS

\* Zenon takes the steps, the SMT solver those that name it: arithmetic mostly
USE ZenonT(60)

Loading(c) == pc[c] \in {"load", "set"}
Freeing(c) == pc[c] \in {"bump", "ask", "wait"}

\* Where a core is decides which space it says it is on, and whether it
\* has a frame in its hand.
Place(c) ==
    /\ smp_cur_cr3[c] = IF Loading(c) THEN tgt[c] ELSE cr3[c].sp
    /\ Freeing(c) <=> hand[c] # NoPage
    /\ Freeing(c) => us[c] \in Spaces
    /\ c \notin todo[c] /\ want[c][c] = 0 /\ (pc[c] = "wait" => todo[c] = {})
    /\ svc[c] <= req[c] /\ done[c] <= req[c]
    /\ svc[c] # -1 => ~Loading(c)

CoreInv == \A c \in Cores : Place(c)

\* A frame in use is one space's, in its tables or in one core's hand.
OwnInv ==
    /\ \A s, r \in Spaces : id[s] = id[r] => s = r
    /\ \A s \in Spaces : pt[s] # NoPage => own[pt[s]] = {id[s]}
    /\ \A c \in Cores : hand[c] # NoPage =>
         /\ own[hand[c]] = {id[us[c]]}
         /\ \A s \in Spaces : pt[s] # hand[c]
         /\ \A d \in Cores : hand[d] = hand[c] => d = c

\* What a PCID (or, without them, the core) was last loaded for.
TagPcids == IF mach.pcid THEN 1..NSLOT ELSE {0}
Tag(c, p) == IF mach.pcid THEN slot[c][p] ELSE last[c]

Tagged(c) ==
    /\ cr3[c].sp # K => cr3[c].pcid \in TagPcids /\ Tag(c, cr3[c].pcid).id = id[cr3[c].sp]
    /\ \A p \in TagPcids :
         /\ Tag(c, p).id < nextId
         /\ \A s \in Spaces : Tag(c, p).id = id[s] => Tag(c, p).gen <= gen[s]
    /\ pc[c] = "set" /\ tgt[c] # K => lgen[c] <= gen[tgt[c]]

TagInv == \A c \in Cores : Tagged(c)

\* Core e's shootdown has still to hear from core c.
Pending(e, c) == c \in todo[e] \/ (want[e][c] > done[c] /\ want[e][c] > svc[c])

\* What core c remembers under p is the page of s, or a page that is being
\* taken from it: by a core that has not bumped the generation yet, or has,
\* so that it is not g any more, and waits for c.
Fresh(c, p, s, g) ==
    \/ tlb[c][p] = NoPage
    \/ tlb[c][p] = pt[s]
    \/ \E e \in Cores :
         /\ hand[e] = tlb[c][p] /\ us[e] = s
         /\ pc[e] = "bump" \/ (Pending(e, c) /\ g # gen[s])

\* Core c may trust what it remembers under p, loaded for s at generation
\* g: it is in use now, or at the end of the load under way, or in a load
\* that finds the generation unchanged.
Trusts(c, p, s, g) ==
    /\ p \in TagPcids /\ Tag(c, p).id = id[s] /\ Tag(c, p).gen = g
    /\ \/ ~Loading(c) /\ cr3[c].sp = s /\ cr3[c].pcid = p
       \/ pc[c] = "set" /\ tgt[c] = s /\ lgen[c] = g
       \/ gen[s] = g

FreshInv == \A c \in Cores, p \in Pcids, s \in Spaces, g \in Nat : Trusts(c, p, s, g) => Fresh(c, p, s, g)

IInv == TlbTypeOK /\ CoreInv /\ OwnInv /\ TagInv /\ FreshInv

-----------------------------------------------------------------------------
(* Types *)

\* The disjuncts of Next, one core's at a time.
CoreNext(c) ==
    \/ CoreStep(c) \/ ShootdownTimeout(c) \/ Fill(c) \/ KernelFill(c)
    \/ \E s \in mach.spaces \union {K} : LoadAnnounce(c, s)
    \/ \E f \in Frames : Map(c, f)
    \/ \E s \in Spaces : Unmap(c, s)

LEMMA PcidFacts ==
  ASSUME TlbAssumption
  PROVE  0 \in Pcids /\ 1..NSLOT \subseteq Pcids /\ Forgot \in [Pcids -> Frames \union {NoPage}]
BY SMT DEF TlbAssumption, Pcids, Forgot

LEMMA CoreTypeKept ==
  ASSUME TlbAssumption, TlbTypeOK, NEW c \in Cores, CoreNext(c)
  PROVE  CoreType'
<1> DEFINE Memory == [Pcids -> Frames \union {NoPage}]
<1>0. mach.spaces \subseteq Spaces /\ NSLOT \in Nat \ {0}  BY DEF TlbAssumption, TlbTypeOK
<1>a. CASE UNCHANGED core  BY <1>a DEF core, TlbTypeOK, CoreType
<1>b. ASSUME NEW m \in Memory, tlb' = [tlb EXCEPT ![c] = m]  PROVE tlb' \in [Cores -> Memory]
  BY <1>b DEF TlbTypeOK, CoreType
<1>c. ASSUME NEW p \in Pcids, NEW f \in Frames \union {NoPage}, tlb' = [tlb EXCEPT ![c][p] = f]
      PROVE  tlb' \in [Cores -> Memory]
  <2>1. [tlb[c] EXCEPT ![p] = f] \in Memory  BY DEF TlbTypeOK, CoreType
  <2> QED  BY <1>b, <1>c, <2>1 
<1>d. cr3[c].pcid \in Pcids /\ cr3[c].sp \in Spaces \union {K}  BY DEF TlbTypeOK, CoreType
<1>e. ReloadCr3(c) = [tlb EXCEPT ![c][cr3[c].pcid] = NoPage]  BY DEF ReloadCr3
<1>f. tlb \in [Cores -> Memory]  BY DEF TlbTypeOK, CoreType
<1>g. tgt[c] \in Spaces \union {K} /\ lgen[c] \in Nat  BY DEF TlbTypeOK, StepType
<1> HIDE DEF Memory
<1>1. CASE LoadReadGen(c)
  <2>1. tlb' \in [Cores -> Memory]
    BY <1>1, <1>b, <1>f, PcidFacts DEF LoadReadGen, Memory
  <2> QED  BY <1>1, <2>1 DEF LoadReadGen, TlbTypeOK, CoreType, Memory
<1>2. CASE LoadPlain(c)
  <2> DEFINE tag == [id |-> IdOf(tgt[c]), gen |-> lgen[c]]
  <2>0. IdOf(tgt[c]) \in Int
    <3>1. tgt[c] # K => id[tgt[c]] \in 1..(nextId - 1)  BY <1>g DEF TlbTypeOK, SpaceType
    <3> QED  BY <3>1, SMT DEF IdOf
  <2>1. tag \in [id : Int, gen : Nat]  BY <1>g, <2>0
  <2>2. tlb' \in [Cores -> Memory]
    BY <1>2, <1>b, <1>f, PcidFacts DEF LoadPlain, Memory
  <2>3. cr3' \in [Cores -> [sp : Spaces \union {K}, pcid : Pcids]]
    <3>1. cr3' = cr3 \/ cr3' = [cr3 EXCEPT ![c] = [sp |-> tgt[c], pcid |-> 0]]
      BY <1>2 DEF LoadPlain
    <3>2. cr3 \in [Cores -> [sp : Spaces \union {K}, pcid : Pcids]]  BY DEF TlbTypeOK, CoreType
    <3> QED  BY SMT, <1>g, <3>1, <3>2, PcidFacts
  <2>4. last' = [last EXCEPT ![c] = tag] /\ UNCHANGED <<smp_cur_cr3, slot, next>>  BY <1>2 DEF LoadPlain
  <2> HIDE DEF tag
  <2> QED  BY <2>1, <2>2, <2>3, <2>4 DEF TlbTypeOK, CoreType, Memory
<1>3. CASE LoadKernel(c)  BY <1>3, PcidFacts DEF LoadKernel, TlbTypeOK, CoreType
<1>4. CASE LoadPcid(c)
  <2> DEFINE i == IF SlotOf(c, tgt[c]) = {} THEN next[c] ELSE CHOOSE j \in SlotOf(c, tgt[c]) : TRUE
  <2> DEFINE tag == [id |-> id[tgt[c]], gen |-> lgen[c]]
  <2>1. i \in 1..NSLOT  BY DEF SlotOf, TlbTypeOK, CoreType
  <2>2. tgt[c] \in Spaces  BY <1>4, <1>g DEF LoadPcid
  <2>2a. id[tgt[c]] \in Nat  BY <2>2, SMT DEF TlbTypeOK, SpaceType
  <2>2b. tag \in [id : Nat, gen : Nat]  BY <1>g, <2>2a
  <2>3. /\ slot' = [slot EXCEPT ![c][i] = tag]
        /\ next' = [next EXCEPT ![c] = IF SlotOf(c, tgt[c]) = {} THEN (@ % NSLOT) + 1 ELSE @]
        /\ cr3' = [cr3 EXCEPT ![c] = [sp |-> tgt[c], pcid |-> i]]
        /\ tlb' = tlb \/ tlb' = [tlb EXCEPT ![c][i] = NoPage]
        /\ UNCHANGED <<smp_cur_cr3, last>>
    BY <1>4 DEF LoadPcid
  <2> HIDE DEF i, tag
  <2>4. next' \in [Cores -> 1..NSLOT]
    <3>1. next[c] \in 1..NSLOT /\ next \in [Cores -> 1..NSLOT]  BY DEF TlbTypeOK, CoreType
    <3>2. (next[c] % NSLOT) + 1 \in 1..NSLOT  BY SMT, <1>0, <3>1
    <3> QED  BY <2>3, <3>1, <3>2
  <2>5. slot' \in [Cores -> [1..NSLOT -> [id : Nat, gen : Nat]]]
    <3>1. slot[c] \in [1..NSLOT -> [id : Nat, gen : Nat]]  BY DEF TlbTypeOK, CoreType
    <3>2. [slot[c] EXCEPT ![i] = tag] \in [1..NSLOT -> [id : Nat, gen : Nat]]  BY <2>1, <2>2b, <3>1
    <3>3. slot' = [slot EXCEPT ![c] = [slot[c] EXCEPT ![i] = tag]]  BY <2>3
    <3> QED  BY <3>2, <3>3 DEF TlbTypeOK, CoreType
  <2>6. tlb' \in [Cores -> Memory]  BY <1>c, <1>f, <2>1, <2>3, PcidFacts
  <2>7. cr3' \in [Cores -> [sp : Spaces \union {K}, pcid : Pcids]]
    BY <2>1, <2>2, <2>3, PcidFacts DEF TlbTypeOK, CoreType
  <2> QED  BY <2>3, <2>4, <2>5, <2>6, <2>7 DEF TlbTypeOK, CoreType, Memory
<1>5. CASE ShootdownBump(c)
  <2>1. tlb' \in [Cores -> Memory]  BY <1>5, <1>c, <1>d, <1>e, <1>f DEF ShootdownBump
  <2> QED  BY <1>5, <2>1 DEF ShootdownBump, TlbTypeOK, CoreType, Memory
<1>6. CASE Service(c)
  <2>1. tlb' \in [Cores -> Memory]  BY <1>6, <1>c, <1>d, <1>e, <1>f DEF Service
  <2> QED  BY <1>6, <2>1 DEF Service, TlbTypeOK, CoreType, Memory
<1>7. CASE Fill(c)
  <2>0. pt[cr3[c].sp] \in Frames \union {NoPage}  BY <1>7, <1>d DEF Fill, TlbTypeOK, SpaceType
  <2>1. tlb' \in [Cores -> Memory]  BY <1>7, <1>c, <1>d, <2>0 DEF Fill
  <2> QED  BY <1>7, <2>1 DEF Fill, TlbTypeOK, CoreType, Memory
<1>8. ASSUME NEW s \in mach.spaces \union {K}, LoadAnnounce(c, s) PROVE CoreType'
  BY <1>0, <1>8 DEF LoadAnnounce, TlbTypeOK, CoreType
<1>9. ASSUME ~(UNCHANGED core)
      PROVE  \/ LoadReadGen(c) \/ LoadPlain(c) \/ LoadKernel(c) \/ LoadPcid(c) \/ ShootdownBump(c)
             \/ Service(c) \/ Fill(c) \/ \E s \in mach.spaces \union {K} : LoadAnnounce(c, s)
  BY <1>9 DEF CoreNext, CoreStep, ShootdownDone, ShootdownAsk, ServiceEnd, ShootdownTimeout, KernelFill, Map, Unmap
<1> QED  BY <1>a, <1>1, <1>2, <1>3, <1>4, <1>5, <1>6, <1>7, <1>8, <1>9

LEMMA SpaceTypeKept ==
  ASSUME TlbAssumption, TlbTypeOK, NEW c \in Cores, CoreNext(c)
  PROVE  SpaceType'
<1>0. hand[c] \in Frames \union {NoPage} /\ us[c] \in Spaces \union {K} /\ cr3[c].sp \in Spaces \union {K}
  BY DEF TlbTypeOK, ShootType, CoreType
<1>a. CASE UNCHANGED space  BY <1>a DEF space, TlbTypeOK, SpaceType
<1>1. CASE ShootdownBump(c)
  <2>1. gen' \in [Spaces -> Nat]
    <3>1. gen \in [Spaces -> Nat] /\ gen' = [gen EXCEPT ![us[c]] = @ + 1]
      BY <1>1 DEF ShootdownBump, TlbTypeOK, SpaceType
    <3>2. \A s \in Spaces : gen'[s] \in Nat  BY SMT, <3>1
    <3> QED  BY <3>1, <3>2
  <2> QED  BY <1>1, <2>1 DEF ShootdownBump, TlbTypeOK, SpaceType
<1>2. CASE ShootdownDone(c)
  <2>1. own' \in [Frames -> SUBSET Nat]  BY <1>2 DEF ShootdownDone, Dropped, TlbTypeOK, SpaceType
  <2> QED  BY <1>2, <2>1 DEF ShootdownDone, TlbTypeOK, SpaceType
<1>3. ASSUME NEW f \in Frames, Map(c, f) PROVE SpaceType'
  <2>1. cr3[c].sp \in Spaces  BY <1>0, <1>3 DEF Map
  <2>2. id[cr3[c].sp] \in Nat  BY <2>1, SMT DEF TlbTypeOK, SpaceType
  <2> QED  BY <1>3, <2>1, <2>2 DEF Map, TlbTypeOK, SpaceType
<1>4. ASSUME NEW s \in Spaces, Unmap(c, s) PROVE SpaceType'
  BY <1>4 DEF Unmap, TlbTypeOK, SpaceType
<1>9. ASSUME ~(UNCHANGED space)
      PROVE  \/ ShootdownBump(c) \/ ShootdownDone(c)
             \/ \E f \in Frames : Map(c, f)
             \/ \E s \in Spaces : Unmap(c, s)
  BY <1>9 DEF CoreNext, CoreStep, LoadReadGen, LoadPlain, LoadKernel, LoadPcid, ShootdownAsk, Service,
      ServiceEnd, ShootdownTimeout, KernelFill, Fill, LoadAnnounce
<1> QED  BY <1>a, <1>1, <1>2, <1>3, <1>4, <1>9

LEMMA StepTypeKept ==
  ASSUME TlbAssumption, TlbTypeOK, NEW c \in Cores, CoreNext(c)
  PROVE  StepType'
<1>0. mach.spaces \subseteq Spaces  BY DEF TlbAssumption, TlbTypeOK
<1>a. CASE UNCHANGED <<pc, tgt, lgen>>  BY <1>a DEF TlbTypeOK, StepType
<1>b. CASE LoadReturn(c)  BY <1>b DEF LoadReturn, TlbGoto, TlbTypeOK, StepType
<1>c. ASSUME NEW p \in {"run", "load", "set", "bump", "ask", "wait", "kernel"}, TlbGoto(c, p), UNCHANGED <<tgt, lgen>>
      PROVE  StepType'
  BY <1>c DEF TlbGoto, TlbTypeOK, StepType
<1>1. CASE LoadReadGen(c)
  <2>1. tgt[c] \in Spaces \union {K}  BY DEF TlbTypeOK, StepType
  <2>2. GenOf(tgt[c]) \in Nat  BY <2>1 DEF GenOf, TlbTypeOK, SpaceType
  <2> QED  BY <1>1, <2>2 DEF LoadReadGen, TlbGoto, TlbTypeOK, StepType
<1>2. CASE LoadPlain(c)  BY <1>2, <1>b DEF LoadPlain
<1>3. CASE LoadKernel(c)  BY <1>3, <1>b DEF LoadKernel
<1>4. CASE LoadPcid(c)  BY <1>4, <1>b DEF LoadPcid
<1>5. CASE ShootdownBump(c)  BY <1>5, <1>c DEF ShootdownBump
<1>6. CASE ShootdownDone(c)  BY <1>6, <1>c DEF ShootdownDone
<1>7. ASSUME NEW d \in Cores, ShootdownAsk(c, d) PROVE StepType'  BY <1>7, <1>a, <1>c DEF ShootdownAsk
<1>8. CASE ShootdownTimeout(c)  BY <1>8, <1>c DEF ShootdownTimeout
<1>9. ASSUME NEW s \in mach.spaces \union {K}, LoadAnnounce(c, s) PROVE StepType'
  BY <1>0, <1>9 DEF LoadAnnounce, TlbGoto, TlbTypeOK, StepType
<1>10. ASSUME NEW s \in Spaces, Unmap(c, s) PROVE StepType'  BY <1>10, <1>c DEF Unmap
<1>11. CASE Service(c)  BY <1>11, <1>a DEF Service
<1>12. CASE ServiceEnd(c)  BY <1>12, <1>a DEF ServiceEnd
<1>13. CASE Fill(c) \/ KernelFill(c)  BY <1>13, <1>a DEF Fill, KernelFill
<1>14. ASSUME NEW f \in Frames, Map(c, f) PROVE StepType'  BY <1>14, <1>a DEF Map
<1> QED  BY <1>1, <1>2, <1>3, <1>4, <1>5, <1>6, <1>7, <1>8, <1>9, <1>10, <1>11, <1>12, <1>13, <1>14
         DEF CoreNext, CoreStep

LEMMA ShootTypeKept ==
  ASSUME TlbAssumption, TlbTypeOK, NEW c \in Cores, CoreNext(c)
  PROVE  ShootType'
<1> DEFINE Unasked == [d \in Cores |-> 0]
<1>a. CASE UNCHANGED <<shoot, svc>>  BY <1>a DEF shoot, TlbTypeOK, ShootType
<1>b. Unasked \in [Cores -> Nat]  OBVIOUS
<1> HIDE DEF Unasked
<1>c. ASSUME want' = [want EXCEPT ![c] = Unasked] PROVE want' \in [Cores -> [Cores -> Nat]]
  BY <1>b, <1>c DEF TlbTypeOK, ShootType
<1>1. CASE ShootdownBump(c) \/ ShootdownTimeout(c)
  <2>1. want' \in [Cores -> [Cores -> Nat]]
    BY <1>1, <1>c DEF ShootdownBump, ShootdownTimeout, Unasked
  <2>2. todo' = [todo EXCEPT ![c] = Cores \ {c}] /\ UNCHANGED <<hand, us, req, done, svc>>
    BY <1>1 DEF ShootdownBump, ShootdownTimeout
  <2> QED  BY <2>1, <2>2 DEF TlbTypeOK, ShootType
<1>2. CASE ShootdownDone(c)
  <2>1. want' \in [Cores -> [Cores -> Nat]]  BY <1>2, <1>c DEF ShootdownDone, Unasked
  <2> QED  BY <1>2, <2>1 DEF ShootdownDone, TlbTypeOK, ShootType
<1>3. ASSUME NEW d \in Cores, ShootdownAsk(c, d) PROVE ShootType'
  <2>1. req[d] + 1 \in Nat  BY SMT DEF TlbTypeOK, ShootType
  <2>2. [want[c] EXCEPT ![d] = req[d] + 1] \in [Cores -> Nat]  BY <2>1 DEF TlbTypeOK, ShootType
  <2>3. want' = want \/ want' = [want EXCEPT ![c] = [want[c] EXCEPT ![d] = req[d] + 1]]
    BY <1>3 DEF ShootdownAsk
  <2>4. want' \in [Cores -> [Cores -> Nat]]  BY <2>2, <2>3 DEF TlbTypeOK, ShootType
  <2>5. req' \in [Cores -> Nat]  BY <1>3, <2>1 DEF ShootdownAsk, TlbTypeOK, ShootType
  <2>6. todo' = [todo EXCEPT ![c] = @ \ {d}] /\ UNCHANGED <<hand, us, done, svc>>  BY <1>3 DEF ShootdownAsk
  <2> QED  BY <2>4, <2>5, <2>6 DEF TlbTypeOK, ShootType
<1>4. ASSUME NEW s \in Spaces, Unmap(c, s) PROVE ShootType'
  <2>1. pt[s] \in Frames \union {NoPage}  BY DEF TlbTypeOK, SpaceType
  <2> QED  BY <1>4, <2>1 DEF Unmap, TlbTypeOK, ShootType
<1>5. CASE Service(c)  BY <1>5 DEF Service, shoot, TlbTypeOK, ShootType
<1>6. CASE ServiceEnd(c)
  <2>1. svc[c] \in Nat  BY <1>6 DEF ServiceEnd, TlbTypeOK, ShootType
  <2> QED  BY <1>6, <2>1 DEF ServiceEnd, TlbTypeOK, ShootType
<1>9. ASSUME ~(UNCHANGED <<shoot, svc>>)
      PROVE  \/ ShootdownBump(c) \/ ShootdownTimeout(c) \/ ShootdownDone(c)
             \/ Service(c) \/ ServiceEnd(c)
             \/ \E d \in Cores : ShootdownAsk(c, d)
             \/ \E s \in Spaces : Unmap(c, s)
  BY <1>9 DEF CoreNext, CoreStep, LoadReadGen, LoadPlain, LoadKernel, LoadPcid, KernelFill, Fill, LoadAnnounce, Map
<1> QED  BY <1>a, <1>1, <1>2, <1>3, <1>4, <1>5, <1>6, <1>9

LEMMA KernelTypeKept ==
  ASSUME TlbTypeOK, NEW c \in Cores, CoreNext(c)
  PROVE  KernelType'
<1>a. CASE UNCHANGED kern  BY <1>a DEF kern, TlbTypeOK, KernelType
<1>1. CASE LoadReadGen(c)  BY <1>1 DEF LoadReadGen, TlbTypeOK, KernelType
<1>2. CASE KernelFill(c)  BY <1>2 DEF KernelFill, TlbTypeOK, KernelType
<1>9. ASSUME ~(UNCHANGED kern) PROVE LoadReadGen(c) \/ KernelFill(c)
  BY <1>9 DEF CoreNext, CoreStep, LoadPlain, LoadKernel, LoadPcid, ShootdownBump, ShootdownDone,
      ShootdownAsk, Service, ServiceEnd, ShootdownTimeout, Fill, LoadAnnounce, Map, Unmap
<1> QED  BY <1>a, <1>1, <1>2, <1>9

LEMMA TypeKept ==
  ASSUME TlbAssumption, TlbTypeOK, [TlbNext]_tlbVars
  PROVE  TlbTypeOK'
<1>a. ASSUME NEW c \in Cores, CoreNext(c) PROVE TlbTypeOK'
  <2>1. mach' = mach
    BY <1>a DEF CoreNext, CoreStep, LoadReadGen, LoadPlain, LoadKernel, LoadPcid, ShootdownBump, ShootdownDone,
        ShootdownAsk, Service, ServiceEnd, ShootdownTimeout, Fill, KernelFill, LoadAnnounce, Map, Unmap
  <2> QED  BY <1>a, <2>1, CoreTypeKept, SpaceTypeKept, StepTypeKept, ShootTypeKept, KernelTypeKept DEF TlbTypeOK
<1>b. ASSUME NEW s \in mach.spaces, SpaceReuse(s) PROVE TlbTypeOK'
  <2>0. s \in Spaces  BY <1>b DEF TlbAssumption, TlbTypeOK
  <2>1. UNCHANGED <<mach, core, kern, pc, tgt, lgen, shoot, svc>>  BY <1>b DEF SpaceReuse
  <2>2. own' \in [Frames -> SUBSET Nat]  BY <1>b DEF SpaceReuse, Dropped, TlbTypeOK, SpaceType
  <2>3. id' \in [Spaces -> 1..(nextId' - 1)] /\ nextId' \in Nat \ {0}
    <3>1. id' = [id EXCEPT ![s] = nextId] /\ nextId' = nextId + 1  BY <1>b DEF SpaceReuse
    <3>2. nextId \in Nat /\ id \in [Spaces -> 1..(nextId - 1)]  BY DEF TlbTypeOK, SpaceType
    <3>3. 1 <= nextId
      <4>1. id[s] \in 1..(nextId - 1)  BY <2>0, <3>2
      <4> QED  BY SMT, <3>2, <4>1
    <3>4. \A r \in Spaces : id'[r] \in 1..nextId
      <4>1. \A r \in Spaces : id[r] \in 1..nextId  BY SMT, <3>2
      <4> QED  BY SMT, <3>1, <3>2, <3>3, <4>1
    <3>5. nextId' - 1 = nextId /\ nextId' \in Nat \ {0}  BY SMT, <3>1, <3>2
    <3>6. id' \in [Spaces -> 1..nextId]  BY <3>1, <3>2, <3>4
    <3> QED  BY <3>5, <3>6
  <2>4. pt' \in [Spaces -> Frames \union {NoPage}] /\ gen' \in [Spaces -> Nat]
    BY <1>b DEF SpaceReuse, TlbTypeOK, SpaceType
  <2> QED  BY <2>1, <2>2, <2>3, <2>4
      DEF core, kern, shoot, TlbTypeOK, SpaceType, CoreType, StepType, ShootType, KernelType
<1>c. CASE KernelChange
  <2>1. StepType'  BY <1>c DEF KernelChange, TlbGoto, TlbTypeOK, StepType
  <2>2. KernelType'
    <3>1. /\ kver' = kver + 1 /\ ktlb' = [ktlb EXCEPT ![Boot] = kver + 1]
          /\ UNCHANGED <<kgen, ck>> /\ KernelType
      BY <1>c DEF KernelChange, TlbTypeOK
    <3>2. kver + 1 \in Nat  BY <3>1, SMT DEF KernelType
    <3> QED  BY <3>1, <3>2 DEF KernelType
  <2>3. UNCHANGED <<mach, space, core, shoot, svc>>  BY <1>c DEF KernelChange
  <2> QED  BY <2>1, <2>2, <2>3 DEF space, core, shoot, TlbTypeOK, SpaceType, CoreType, ShootType
<1>d. CASE KernelChanged
  <2>1. StepType'  BY <1>d DEF KernelChanged, TlbGoto, TlbTypeOK, StepType
  <2>2. KernelType'
    <3>1. /\ kgen' = kgen + 1 /\ UNCHANGED <<kver, ktlb>> /\ KernelType
          /\ ck' = [ck EXCEPT ![Boot] = IF @ = kgen THEN kgen + 1 ELSE @]
      BY <1>d DEF KernelChanged, TlbTypeOK
    <3>2. kgen + 1 \in Nat  BY <3>1, SMT DEF KernelType
    <3>3. \A c \in Cores : ck'[c] \in Nat  BY <3>1, <3>2 DEF KernelType
    <3> QED  BY <3>1, <3>2, <3>3 DEF KernelType
  <2>3. UNCHANGED <<mach, space, smp_cur_cr3, cr3, slot, next, last, shoot, svc>>  BY <1>d DEF KernelChanged
  <2>4. tlb' \in [Cores -> [Pcids -> Frames \union {NoPage}]]
    <3>1. tlb' = tlb \/ tlb' = [tlb EXCEPT ![Boot] = Forgot]  BY <1>d DEF KernelChanged
    <3> QED  BY <3>1, PcidFacts DEF TlbTypeOK, CoreType
  <2> QED  BY <2>1, <2>2, <2>3, <2>4 DEF space, shoot, TlbTypeOK, SpaceType, CoreType, ShootType
<1>e. CASE UNCHANGED tlbVars
  BY <1>e DEF tlbVars, space, core, kern, shoot, TlbTypeOK, SpaceType, CoreType, StepType, ShootType, KernelType
<1> QED  BY <1>a, <1>b, <1>c, <1>d, <1>e DEF TlbNext, CoreNext

-----------------------------------------------------------------------------
(* The kernel's tables *)

\* A core has not acknowledged more than it remembers, nobody remembers more
\* than there is, and only the boot core, between the change and
\* tlb_kernel_changed, is ahead of g_kgen.
KernelInv ==
    /\ \A c \in Cores : ck[c] <= kgen /\ ck[c] <= ktlb[c]
    /\ IF pc[Boot] = "kernel" THEN kver = kgen + 1 /\ ktlb[Boot] = kver ELSE kver = kgen

LEMMA KernelPlace ==
  ASSUME TlbTypeOK, Boot \in Cores, NEW c \in Cores, CoreNext(c)
  PROVE  pc'[Boot] = "kernel" <=> pc[Boot] = "kernel"
<1>a. CASE UNCHANGED pc  BY <1>a
<1>b. ASSUME NEW p, p # "kernel", pc[c] # "kernel", TlbGoto(c, p) PROVE pc'[Boot] = "kernel" <=> pc[Boot] = "kernel"
  BY <1>b DEF TlbGoto, TlbTypeOK, StepType
<1>1. CASE LoadReadGen(c)  BY <1>1, <1>b DEF LoadReadGen, At
<1>2. CASE LoadPlain(c)  BY <1>2, <1>b DEF LoadPlain, LoadReturn, At
<1>3. CASE LoadKernel(c)  BY <1>3, <1>b DEF LoadKernel, LoadReturn, At
<1>4. CASE LoadPcid(c)  BY <1>4, <1>b DEF LoadPcid, LoadReturn, At
<1>5. CASE ShootdownBump(c)  BY <1>5, <1>b DEF ShootdownBump, At
<1>6. CASE ShootdownDone(c)  BY <1>6, <1>b DEF ShootdownDone, At
<1>7. ASSUME NEW d \in Cores, ShootdownAsk(c, d) PROVE pc'[Boot] = "kernel" <=> pc[Boot] = "kernel"
  BY <1>7, <1>a, <1>b DEF ShootdownAsk, At
<1>8. CASE ShootdownTimeout(c)  BY <1>8, <1>b DEF ShootdownTimeout, At
<1>9. ASSUME NEW s, LoadAnnounce(c, s) PROVE pc'[Boot] = "kernel" <=> pc[Boot] = "kernel"
  BY <1>9, <1>b DEF LoadAnnounce, At
<1>10. ASSUME NEW s, Unmap(c, s) PROVE pc'[Boot] = "kernel" <=> pc[Boot] = "kernel"
  BY <1>10, <1>b DEF Unmap, At
<1>11. CASE Service(c) \/ ServiceEnd(c) \/ Fill(c) \/ KernelFill(c)
  BY <1>11, <1>a DEF Service, ServiceEnd, Fill, KernelFill
<1>12. ASSUME NEW f, Map(c, f) PROVE pc'[Boot] = "kernel" <=> pc[Boot] = "kernel"
  BY <1>12, <1>a DEF Map
<1> QED  BY <1>1, <1>2, <1>3, <1>4, <1>5, <1>6, <1>7, <1>8, <1>9, <1>10, <1>11, <1>12 DEF CoreNext, CoreStep

LEMMA KernelInvKept ==
  ASSUME TlbAssumption, TlbTypeOK, KernelInv, [TlbNext]_tlbVars
  PROVE  KernelInv'
<1>0. Boot \in Cores  BY DEF TlbAssumption
<1>1. /\ kver \in Nat /\ kgen \in Nat /\ ck \in [Cores -> Nat] /\ ktlb \in [Cores -> Nat]
      /\ pc \in [Cores -> {"run", "load", "set", "bump", "ask", "wait", "kernel"}]
  BY DEF TlbTypeOK, KernelType, StepType
<1>a. ASSUME NEW c \in Cores, CoreNext(c) PROVE KernelInv'
  <2>0. pc'[Boot] = "kernel" <=> pc[Boot] = "kernel"  BY <1>0, <1>a, KernelPlace
  <2>1. CASE LoadReadGen(c)
    <3>1. /\ ck' = [ck EXCEPT ![c] = kgen] /\ UNCHANGED <<kver, kgen>>
          /\ \/ ck[c] # kgen /\ ktlb' = [ktlb EXCEPT ![c] = kver]
             \/ ck[c] = kgen /\ ktlb' = ktlb
      BY <2>1 DEF LoadReadGen
    <3> QED  BY <1>0, <1>1, <2>0, <3>1, SMT DEF KernelInv
  <2>2. CASE KernelFill(c)
    <3>1. ktlb' = [ktlb EXCEPT ![c] = kver] /\ UNCHANGED <<kver, kgen, ck>>  BY <2>2 DEF KernelFill
    <3> QED  BY <1>0, <1>1, <2>0, <3>1, SMT DEF KernelInv
  <2>3. CASE UNCHANGED kern  BY <2>0, <2>3 DEF kern, KernelInv
  <2>4. ASSUME ~(UNCHANGED kern) PROVE LoadReadGen(c) \/ KernelFill(c)
    BY <1>a, <2>4 DEF CoreNext, CoreStep, LoadPlain, LoadKernel, LoadPcid, ShootdownBump, ShootdownDone,
        ShootdownAsk, Service, ServiceEnd, ShootdownTimeout, Fill, LoadAnnounce, Map, Unmap
  <2> QED  BY <2>1, <2>2, <2>3, <2>4
<1>b. ASSUME NEW s \in mach.spaces, SpaceReuse(s) PROVE KernelInv'
  BY <1>b DEF SpaceReuse, kern, KernelInv
<1>c. CASE KernelChange
  <2>1. /\ pc[Boot] = "run" /\ pc' = [pc EXCEPT ![Boot] = "kernel"] /\ kver' = kver + 1
        /\ ktlb' = [ktlb EXCEPT ![Boot] = kver + 1] /\ UNCHANGED <<kgen, ck>>
    BY <1>c DEF KernelChange, At, TlbGoto
  <2> QED  BY <1>0, <1>1, <2>1, SMT DEF KernelInv
<1>d. CASE KernelChanged
  <2>1. /\ pc[Boot] = "kernel" /\ pc' = [pc EXCEPT ![Boot] = "run"] /\ kgen' = kgen + 1
        /\ ck' = [ck EXCEPT ![Boot] = IF @ = kgen THEN kgen + 1 ELSE @] /\ UNCHANGED <<kver, ktlb>>
    BY <1>d DEF KernelChanged, At, TlbGoto
  <2> QED  BY <1>0, <1>1, <2>1, SMT DEF KernelInv
<1>e. CASE UNCHANGED tlbVars  BY <1>e DEF tlbVars, kern, KernelInv
<1> QED  BY <1>a, <1>b, <1>c, <1>d, <1>e DEF TlbNext, CoreNext

-----------------------------------------------------------------------------
(* Which core is where *)

\* What a step leaves alone of what Place says of core d, when at most a
\* count asked of it grows.
Still(d) ==
    /\ smp_cur_cr3'[d] = smp_cur_cr3[d] /\ cr3'[d] = cr3[d] /\ pc'[d] = pc[d] /\ tgt'[d] = tgt[d]
    /\ hand'[d] = hand[d] /\ us'[d] = us[d] /\ todo'[d] = todo[d] /\ want'[d] = want[d]
    /\ done'[d] = done[d] /\ svc'[d] = svc[d] /\ req'[d] \in {req[d], req[d] + 1}

\* Such a step keeps what Place says of the core.
LEMMA PlaceStill ==
  ASSUME TlbTypeOK, NEW d \in Cores, Place(d), Still(d)
  PROVE  Place(d)'
<1>1. req[d] \in Nat /\ done[d] \in Nat /\ svc[d] \in Nat \union {-1}  BY DEF TlbTypeOK, ShootType
<1>2. svc'[d] <= req'[d] /\ done'[d] <= req'[d]  BY <1>1, SMT DEF Place, Still
<1>3. (Loading(d)' <=> Loading(d)) /\ (Freeing(d)' <=> Freeing(d))  BY DEF Still, Loading, Freeing
<1>4. smp_cur_cr3'[d] = IF Loading(d)' THEN tgt'[d] ELSE cr3'[d].sp  BY <1>3 DEF Still, Place
<1>5. Freeing(d)' <=> hand'[d] # NoPage  BY <1>3 DEF Still, Place
<1>6. Freeing(d)' => us'[d] \in Spaces  BY <1>3 DEF Still, Place
<1>7. d \notin todo'[d] /\ want'[d][d] = 0 /\ (pc'[d] = "wait" => todo'[d] = {})  BY DEF Still, Place
<1>8. svc'[d] # -1 => ~Loading(d)'  BY <1>3 DEF Still, Place
<1> QED  BY <1>2, <1>4, <1>5, <1>6, <1>7, <1>8 DEF Place

\* A core's step leaves what the others are doing alone.
LEMMA OthersStill ==
  ASSUME TlbTypeOK, NEW c \in Cores, CoreNext(c), NEW d \in Cores, d # c
  PROVE  Still(d)
<1>t. /\ DOMAIN smp_cur_cr3 = Cores /\ DOMAIN cr3 = Cores /\ DOMAIN pc = Cores /\ DOMAIN tgt = Cores
      /\ DOMAIN hand = Cores /\ DOMAIN us = Cores /\ DOMAIN todo = Cores /\ DOMAIN want = Cores
      /\ DOMAIN done = Cores /\ DOMAIN svc = Cores /\ DOMAIN req = Cores
  BY DEF TlbTypeOK, CoreType, StepType, ShootType
<1> USE <1>t DEF Still, TlbGoto, core, shoot
<1>3. CASE LoadReadGen(c)  BY <1>3 DEF LoadReadGen
<1>4. CASE LoadPlain(c)  BY <1>4 DEF LoadPlain, LoadReturn
<1>5. CASE LoadKernel(c)  BY <1>5 DEF LoadKernel, LoadReturn
<1>6. CASE LoadPcid(c)  BY <1>6 DEF LoadPcid, LoadReturn
<1>7. CASE ShootdownBump(c)  BY <1>7 DEF ShootdownBump
<1>8. CASE ShootdownDone(c)  BY <1>8 DEF ShootdownDone
<1>9. CASE ShootdownTimeout(c)  BY <1>9 DEF ShootdownTimeout
<1>10. CASE Service(c)  BY <1>10 DEF Service
<1>11. CASE ServiceEnd(c)  BY <1>11 DEF ServiceEnd
<1>12. CASE Fill(c)  BY <1>12 DEF Fill
<1>13. CASE KernelFill(c)  BY <1>13 DEF KernelFill
<1>14. ASSUME NEW e \in Cores, ShootdownAsk(c, e) PROVE Still(d)  BY <1>14 DEF ShootdownAsk
<1>15. ASSUME NEW s \in mach.spaces \union {K}, LoadAnnounce(c, s) PROVE Still(d)  BY <1>15 DEF LoadAnnounce
<1>16. ASSUME NEW f \in Frames, Map(c, f) PROVE Still(d)  BY <1>16 DEF Map
<1>17. ASSUME NEW s \in Spaces, Unmap(c, s) PROVE Still(d)  BY <1>17 DEF Unmap
<1> HIDE <1>t DEF Still, TlbGoto, core, shoot
<1> QED  BY <1>3, <1>4, <1>5, <1>6, <1>7, <1>8, <1>9, <1>10, <1>11, <1>12, <1>13, <1>14, <1>15, <1>16, <1>17
         DEF CoreNext, CoreStep

LEMMA PlaceKept ==
  ASSUME TlbAssumption, TlbTypeOK, CoreInv, NEW c \in Cores, CoreNext(c), NEW d \in Cores
  PROVE  Place(d)'
<1>1. CASE d # c
  <2>1. Place(d) /\ Still(d)  BY <1>1, OthersStill DEF CoreInv
  <2> QED  BY <2>1, PlaceStill
<1>2. SUFFICES ASSUME d = c PROVE Place(c)'  BY <1>1, <1>2
<1>0. Place(c)  BY DEF CoreInv
<1>k. K \notin Spaces /\ NoPage \notin Frames  BY DEF TlbAssumption
<1>t. /\ DOMAIN smp_cur_cr3 = Cores /\ DOMAIN cr3 = Cores /\ DOMAIN pc = Cores /\ DOMAIN tgt = Cores
      /\ DOMAIN hand = Cores /\ DOMAIN us = Cores /\ DOMAIN todo = Cores /\ DOMAIN want = Cores
      /\ DOMAIN done = Cores /\ DOMAIN svc = Cores /\ DOMAIN req = Cores
      /\ DOMAIN want[c] = Cores
  BY DEF TlbTypeOK, CoreType, StepType, ShootType
<1>n. req[c] \in Nat /\ done[c] \in Nat /\ svc[c] \in Nat \union {-1}  BY DEF TlbTypeOK, ShootType
<1>o. c \notin todo[c]  BY <1>0 DEF Place
<1>p. svc[c] <= req[c] /\ done[c] <= req[c]  BY <1>0 DEF Place
<1>q. Still(c) => Place(c)'  BY <1>0, PlaceStill
<1>3. CASE LoadReadGen(c)
  <2>1. /\ pc[c] = "load" /\ pc'[c] = "set"
        /\ smp_cur_cr3'[c] = smp_cur_cr3[c] /\ tgt'[c] = tgt[c] /\ svc'[c] = -1 /\ svc[c] = -1
        /\ UNCHANGED shoot
    BY <1>3, <1>t DEF LoadReadGen, At, TlbGoto, core
  <2> QED  BY <2>1, <1>0, <1>p DEF Place, Loading, Freeing, shoot
<1>e. ASSUME At(c, "set"), smp_cur_cr3' = smp_cur_cr3, cr3'[c].sp = tgt[c], pc'[c] = "run", svc' = svc, UNCHANGED shoot
      PROVE  Place(c)'
  BY <1>e, <1>0, <1>p DEF At, Place, Loading, Freeing, shoot
<1>4. CASE LoadPlain(c)
  <2>1. cr3'[c].sp = tgt[c]
    <3>1. \/ cr3' = cr3 /\ cr3[c].sp = tgt[c]
          \/ cr3' = [cr3 EXCEPT ![c] = [sp |-> tgt[c], pcid |-> 0]]
      BY <1>4 DEF LoadPlain
    <3> QED  BY SMT, <3>1, <1>t
  <2>2. At(c, "set") /\ smp_cur_cr3' = smp_cur_cr3 /\ pc'[c] = "run" /\ svc' = svc /\ UNCHANGED shoot
    BY <1>4, <1>t DEF LoadPlain, LoadReturn, TlbGoto
  <2> QED  BY <2>1, <2>2, <1>e
<1>5. CASE LoadKernel(c)
  <2>1. cr3'[c].sp = tgt[c]  BY <1>5, <1>t DEF LoadKernel
  <2>2. At(c, "set") /\ smp_cur_cr3' = smp_cur_cr3 /\ pc'[c] = "run" /\ svc' = svc /\ UNCHANGED shoot
    BY <1>5, <1>t DEF LoadKernel, LoadReturn, TlbGoto
  <2> QED  BY <2>1, <2>2, <1>e
<1>6. CASE LoadPcid(c)
  <2>1. cr3'[c].sp = tgt[c]  BY <1>6, <1>t DEF LoadPcid
  <2>2. At(c, "set") /\ smp_cur_cr3' = smp_cur_cr3 /\ pc'[c] = "run" /\ svc' = svc /\ UNCHANGED shoot
    BY <1>6, <1>t DEF LoadPcid, LoadReturn, TlbGoto
  <2> QED  BY <2>1, <2>2, <1>e
<1>f. ASSUME Freeing(c), svc[c] = -1, UNCHANGED <<smp_cur_cr3, cr3, tgt, hand, us, svc, req, done>>,
             pc'[c] = "ask", todo'[c] = Cores \ {c}, want'[c][c] = 0
      PROVE  Place(c)'
  <2>1. Freeing(c)' /\ ~Loading(c)' /\ ~Loading(c) /\ c \notin todo'[c]  BY <1>f DEF Freeing, Loading
  <2> QED  BY <1>f, <2>1, <1>0 DEF Place
<1>7. CASE ShootdownBump(c)
  <2>1. /\ Freeing(c) /\ svc[c] = -1 /\ UNCHANGED <<smp_cur_cr3, cr3, tgt, hand, us, svc, req, done>>
        /\ pc'[c] = "ask" /\ todo'[c] = Cores \ {c} /\ want'[c][c] = 0
    BY <1>7, <1>t DEF ShootdownBump, At, TlbGoto, Freeing
  <2> QED  BY <1>f, <2>1
<1>8. CASE ShootdownDone(c)
  <2>1. /\ pc[c] = "wait" /\ pc'[c] = "run" /\ UNCHANGED <<smp_cur_cr3, cr3, tgt, todo, svc, req, done>>
        /\ hand'[c] = NoPage /\ want'[c][c] = 0
    BY <1>8, <1>t DEF ShootdownDone, At, TlbGoto, core
  <2> QED  BY <2>1, <1>0 DEF Place, Loading, Freeing
<1>9. CASE ShootdownTimeout(c)
  <2>1. /\ Freeing(c) /\ svc[c] = -1 /\ UNCHANGED <<smp_cur_cr3, cr3, tgt, hand, us, svc, req, done>>
        /\ pc'[c] = "ask" /\ todo'[c] = Cores \ {c} /\ want'[c][c] = 0
    BY <1>9, <1>t DEF ShootdownTimeout, At, TlbGoto, core, Freeing
  <2> QED  BY <1>f, <2>1
<1>10. CASE Service(c)
  <2>1. svc'[c] = req[c] /\ UNCHANGED <<smp_cur_cr3, cr3, pc, tgt, shoot>> /\ ~Loading(c)
    BY <1>10, <1>t DEF Service, Loading
  <2>2. svc'[c] <= req[c]  BY SMT, <2>1, <1>n
  <2> QED  BY <2>1, <2>2, <1>0 DEF Place, Loading, Freeing, shoot
<1>11. CASE ServiceEnd(c)
  <2>1. /\ svc[c] # -1 /\ svc'[c] = -1 /\ done'[c] = svc[c]
        /\ UNCHANGED <<smp_cur_cr3, cr3, pc, tgt, hand, us, todo, want, req>>
    BY <1>11, <1>t DEF ServiceEnd, core
  <2>2. svc'[c] <= req[c] /\ done'[c] <= req[c]  BY SMT, <2>1, <1>n, <1>p
  <2> QED  BY <2>1, <2>2, <1>0 DEF Place, Loading, Freeing
<1>12. CASE Fill(c)
  <2>1. Still(c)  BY <1>12 DEF Fill, Still, shoot
  <2> QED  BY <2>1, <1>q
<1>13. CASE KernelFill(c)
  <2>1. Still(c)  BY <1>13 DEF KernelFill, Still, core, shoot
  <2> QED  BY <2>1, <1>q
<1>14. ASSUME NEW e \in Cores, ShootdownAsk(c, e) PROVE Place(c)'
  <2>1. /\ pc[c] = "ask" /\ e \in todo[c] /\ todo'[c] = todo[c] \ {e}
        /\ UNCHANGED <<smp_cur_cr3, cr3, tgt, hand, us, done, svc>>
    BY <1>14, <1>t DEF ShootdownAsk, At, core
  <2>2. pc'[c] = "ask" \/ (pc'[c] = "wait" /\ todo[c] = {e})
    BY <1>14, <1>t DEF ShootdownAsk, TlbGoto, At
  <2>3. req'[c] = req[c] /\ want'[c][c] = want[c][c]
    <3>1. e # c  BY <2>1, <1>o
    <3> QED  BY <1>14, <1>t, <3>1 DEF ShootdownAsk
  <2>4. Freeing(c) /\ Freeing(c)' /\ ~Loading(c) /\ ~Loading(c)'  BY <2>1, <2>2 DEF Freeing, Loading
  <2>5. c \notin todo'[c] /\ (pc'[c] = "wait" => todo'[c] = {})  BY <2>1, <2>2, <1>o
  <2> QED  BY <2>1, <2>3, <2>4, <2>5, <1>0 DEF Place
<1>15. ASSUME NEW s \in mach.spaces \union {K}, LoadAnnounce(c, s) PROVE Place(c)'
  <2>1. /\ pc[c] = "run" /\ svc[c] = -1 /\ pc'[c] = "load" /\ smp_cur_cr3'[c] = s /\ tgt'[c] = s
        /\ UNCHANGED <<shoot, svc>>
    BY <1>15, <1>t DEF LoadAnnounce, At, TlbGoto
  <2> QED  BY <2>1, <1>0 DEF Place, Loading, Freeing, shoot
<1>16. ASSUME NEW f \in Frames, Map(c, f) PROVE Place(c)'
  <2>1. Still(c)  BY <1>16 DEF Map, Still, core, shoot
  <2> QED  BY <2>1, <1>q
<1>17. ASSUME NEW s \in Spaces, Unmap(c, s) PROVE Place(c)'
  <2>1. /\ pc[c] = "run" /\ pc'[c] = "bump" /\ hand'[c] = pt[s] /\ pt[s] # NoPage /\ us'[c] = s
        /\ UNCHANGED <<smp_cur_cr3, cr3, tgt, todo, want, req, done, svc>>
    BY <1>17, <1>t DEF Unmap, At, TlbGoto, core
  <2> QED  BY <2>1, <1>0 DEF Place, Loading, Freeing
<1> QED  BY <1>3, <1>4, <1>5, <1>6, <1>7, <1>8, <1>9, <1>10, <1>11, <1>12, <1>13, <1>14, <1>15, <1>16, <1>17
         DEF CoreNext, CoreStep

LEMMA CoreInvKept ==
  ASSUME TlbAssumption, TlbTypeOK, CoreInv, [TlbNext]_tlbVars
  PROVE  CoreInv'
<1>a. ASSUME NEW c \in Cores, CoreNext(c) PROVE CoreInv'  BY <1>a, PlaceKept DEF CoreInv
<1>b. ASSUME NEW s \in mach.spaces, SpaceReuse(s) PROVE CoreInv'
  BY <1>b DEF SpaceReuse, core, shoot, CoreInv, Place, Loading, Freeing
<1>c. CASE KernelChange
  <2>1. pc[Boot] = "run" /\ pc' = [pc EXCEPT ![Boot] = "kernel"] /\ UNCHANGED <<core, tgt, shoot, svc>>
    BY <1>c DEF KernelChange, At, TlbGoto
  <2> QED  BY <2>1 DEF core, shoot, CoreInv, Place, Loading, Freeing, TlbTypeOK, StepType
<1>d. CASE KernelChanged
  <2>1. pc[Boot] = "kernel" /\ pc' = [pc EXCEPT ![Boot] = "run"] /\ UNCHANGED <<smp_cur_cr3, cr3, tgt, shoot, svc>>
    BY <1>d DEF KernelChanged, At, TlbGoto
  <2> QED  BY <2>1 DEF core, shoot, CoreInv, Place, Loading, Freeing, TlbTypeOK, StepType
<1>e. CASE UNCHANGED tlbVars  BY <1>e DEF tlbVars, core, shoot, CoreInv, Place, Loading, Freeing
<1> QED  BY <1>a, <1>b, <1>c, <1>d, <1>e DEF TlbNext, CoreNext

-----------------------------------------------------------------------------
(* Whose the frames are *)

LEMMA OwnInvKept ==
  ASSUME TlbAssumption, TlbTypeOK, CoreInv, OwnInv, [TlbNext]_tlbVars
  PROVE  OwnInv'
<1>0. NoPage \notin Frames /\ mach.spaces \subseteq Spaces /\ K \notin Spaces  BY DEF TlbAssumption, TlbTypeOK
<1>1. /\ pt \in [Spaces -> Frames \union {NoPage}] /\ own \in [Frames -> SUBSET Nat]
      /\ hand \in [Cores -> Frames \union {NoPage}] /\ us \in [Cores -> Spaces \union {K}]
      /\ cr3 \in [Cores -> [sp : Spaces \union {K}, pcid : Pcids]]
      /\ nextId \in Nat /\ id \in [Spaces -> 1..(nextId - 1)]
  BY DEF TlbTypeOK, SpaceType, ShootType, CoreType
<1>2. \A c \in Cores : hand[c] # NoPage => us[c] \in Spaces /\ Freeing(c)  BY DEF CoreInv, Place
<1>a. CASE UNCHANGED <<pt, own, id, hand, us>>  BY <1>a DEF OwnInv
<1>b. ASSUME NEW c \in Cores, ShootdownDone(c) PROVE OwnInv'
  <2>1. /\ own' = [g \in Frames |-> IF g = hand[c] THEN own[g] \ {id[us[c]]} ELSE own[g]]
        /\ hand' = [hand EXCEPT ![c] = NoPage] /\ us' = [us EXCEPT ![c] = K] /\ UNCHANGED <<pt, id>>
        /\ pc[c] = "wait"
    BY <1>b DEF ShootdownDone, Dropped, At
  <2>2. hand[c] # NoPage  BY <2>1 DEF CoreInv, Place, Freeing
  <2>3. \A s \in Spaces : pt[s] # NoPage => pt[s] # hand[c] /\ own'[pt[s]] = own[pt[s]]
    BY <1>1, <2>1, <2>2 DEF OwnInv
  <2>4. \A d \in Cores : hand'[d] # NoPage =>
          d # c /\ hand'[d] = hand[d] /\ us'[d] = us[d] /\ own'[hand[d]] = own[hand[d]]
    BY <1>1, <2>1, <2>2 DEF OwnInv
  <2>5. UNCHANGED <<pt, id>>  BY <2>1
  <2>6. \A d \in Cores : hand'[d] # NoPage =>
          /\ own'[hand'[d]] = {id[us'[d]]} /\ \A s \in Spaces : pt[s] # hand'[d]
          /\ \A e \in Cores : hand'[e] = hand'[d] => e = d
    BY <2>4, SMT DEF OwnInv
  <2>7. \A s \in Spaces : pt[s] # NoPage => own'[pt[s]] = {id[s]}  BY <2>3 DEF OwnInv
  <2> QED  BY <2>5, <2>6, <2>7 DEF OwnInv
<1>c. ASSUME NEW c \in Cores, NEW f \in Frames, Map(c, f) PROVE OwnInv'
  <2> DEFINE s == cr3[c].sp
  <2>1. /\ s \in Spaces /\ own[f] = {} /\ pt' = [pt EXCEPT ![s] = f] /\ own' = [own EXCEPT ![f] = {id[s]}]
        /\ UNCHANGED <<id, hand, us>>
    BY <1>c, <1>1 DEF Map, shoot
  <2> HIDE DEF s
  <2>2. (\A r \in Spaces : pt[r] # f) /\ (\A d \in Cores : hand[d] # f)
    BY <1>0, <2>1, SMT DEF OwnInv
  <2>3. \A r \in Spaces : pt'[r] # NoPage => own'[pt'[r]] = {id[r]}  BY <1>1, <2>1, <2>2, SMT DEF OwnInv
  <2>4. \A d \in Cores : hand[d] # NoPage => own'[hand[d]] = own[hand[d]] /\ \A r \in Spaces : pt'[r] # hand[d]
    BY <1>1, <2>1, <2>2 DEF OwnInv
  <2>5. UNCHANGED <<id, hand, us>>  BY <2>1
  <2> QED  BY <2>3, <2>4, <2>5 DEF OwnInv
<1>d. ASSUME NEW c \in Cores, NEW s \in Spaces, Unmap(c, s) PROVE OwnInv'
  <2>1. /\ pt[s] # NoPage /\ pt' = [pt EXCEPT ![s] = NoPage] /\ hand' = [hand EXCEPT ![c] = pt[s]]
        /\ us' = [us EXCEPT ![c] = s] /\ UNCHANGED <<own, id>>
    BY <1>d DEF Unmap
  <2>2. \A r \in Spaces : r # s /\ pt[r] # NoPage => pt[r] # pt[s]
    <3>1. SUFFICES ASSUME NEW r \in Spaces, r # s, pt[r] # NoPage, pt[r] = pt[s] PROVE FALSE  OBVIOUS
    <3>2. own[pt[s]] = {id[s]} /\ own[pt[s]] = {id[r]}  BY <2>1, <3>1 DEF OwnInv
    <3>3. id[s] = id[r]  BY <3>2
    <3> QED  BY <3>1, <3>3 DEF OwnInv
  <2>3. \A d \in Cores : d # c => hand'[d] = hand[d] /\ us'[d] = us[d] /\ hand[d] # pt[s]
    BY <1>1, <2>1 DEF OwnInv
  <2>4. hand'[c] = pt[s] /\ us'[c] = s  BY <1>1, <2>1
  <2>5. \A r \in Spaces : pt'[r] # pt[s] /\ (pt'[r] # NoPage => pt'[r] = pt[r])  BY <1>1, <2>1, <2>2
  <2>6. \A r \in Spaces : pt'[r] # NoPage => own'[pt'[r]] = {id'[r]}  BY <2>1, <2>5 DEF OwnInv
  <2>7. ASSUME NEW d \in Cores, hand'[d] # NoPage
        PROVE  /\ own'[hand'[d]] = {id'[us'[d]]} /\ \A r \in Spaces : pt'[r] # hand'[d]
               /\ \A e \in Cores : hand'[e] = hand'[d] => e = d
    <3>1. CASE d = c  BY <2>1, <2>3, <2>4, <2>5, <3>1, SMT DEF OwnInv
    <3>2. CASE d # c  BY <2>1, <2>3, <2>4, <2>5, <2>7, <3>2, SMT DEF OwnInv
    <3> QED  BY <3>1, <3>2
  <2> QED  BY <2>1, <2>6, <2>7 DEF OwnInv
<1>e. ASSUME NEW s \in mach.spaces, SpaceReuse(s) PROVE OwnInv'
  <2>1. /\ \A c \in Cores : us[c] # s
        /\ own' = [g \in Frames |-> IF g = pt[s] THEN own[g] \ {id[s]} ELSE own[g]]
        /\ pt' = [pt EXCEPT ![s] = NoPage] /\ id' = [id EXCEPT ![s] = nextId] /\ UNCHANGED <<hand, us>>
    BY <1>e DEF SpaceReuse, Dropped, shoot
  <2>2. s \in Spaces  BY <1>0
  <2>3. \A r \in Spaces : id[r] # nextId
    <3>1. \A r \in Spaces : id[r] \in 1..(nextId - 1)  BY <1>1
    <3> QED  BY SMT, <1>1, <3>1
  <2>4. \A r, q \in Spaces : id'[r] = id'[q] => r = q
    <3>1. \A r \in Spaces : id'[r] = IF r = s THEN nextId ELSE id[r]  BY <1>1, <2>1
    <3> QED  BY <2>3, <3>1 DEF OwnInv
  <2>5. \A r \in Spaces : r # s /\ pt[r] # NoPage => pt[r] # pt[s]
    <3>1. SUFFICES ASSUME NEW r \in Spaces, r # s, pt[r] # NoPage, pt[r] = pt[s] PROVE FALSE  OBVIOUS
    <3>2. own[pt[s]] = {id[s]} /\ own[pt[s]] = {id[r]}  BY <2>2, <3>1 DEF OwnInv
    <3>3. id[s] = id[r]  BY <3>2
    <3> QED  BY <2>2, <3>1, <3>3 DEF OwnInv
  <2>6. \A r \in Spaces : pt'[r] # NoPage => r # s /\ pt'[r] = pt[r] /\ id'[r] = id[r] /\ own'[pt[r]] = own[pt[r]]
    BY <1>1, <2>1, <2>2, <2>5
  <2>7. ASSUME NEW c \in Cores, hand[c] # NoPage
        PROVE  own'[hand[c]] = own[hand[c]] /\ id'[us[c]] = id[us[c]] /\ \A r \in Spaces : pt'[r] # hand[c]
    <3>1. us[c] \in Spaces /\ us[c] # s /\ hand[c] \in Frames /\ pt[s] # hand[c]
      BY <1>1, <1>2, <2>1, <2>2, <2>7, SMT DEF OwnInv
    <3>2. \A r \in Spaces : pt[r] # hand[c]  BY <2>7 DEF OwnInv
    <3> QED  BY <1>1, <2>1, <2>7, <3>1, <3>2
  <2>8. \A r \in Spaces : pt'[r] # NoPage => own'[pt'[r]] = {id'[r]}  BY <2>6 DEF OwnInv
  <2>9. UNCHANGED <<hand, us>>  BY <2>1
  <2> QED  BY <2>4, <2>7, <2>8, <2>9 DEF OwnInv
<1>f. ASSUME NEW c \in Cores, CoreNext(c) PROVE OwnInv'
  <2>1. ASSUME ~(UNCHANGED <<pt, own, id, hand, us>>)
        PROVE  \/ ShootdownDone(c)
               \/ \E f \in Frames : Map(c, f)
               \/ \E s \in Spaces : Unmap(c, s)
    BY <1>f, <2>1 DEF CoreNext, CoreStep, LoadReadGen, LoadPlain, LoadKernel, LoadPcid, ShootdownBump,
        ShootdownAsk, Service, ServiceEnd, ShootdownTimeout, Fill, KernelFill, LoadAnnounce, space, shoot
  <2> QED  BY <1>a, <1>b, <1>c, <1>d, <2>1
<1>g. CASE KernelChange \/ KernelChanged \/ UNCHANGED tlbVars
  BY <1>a, <1>g DEF KernelChange, KernelChanged, tlbVars, space, shoot
<1> QED  BY <1>e, <1>f, <1>g DEF TlbNext, CoreNext

-----------------------------------------------------------------------------
(* What the PCIDs are for *)

\* Nothing Tagged(d) is about changes, but perhaps a core gets out of, or
\* has never been in, the end of load().
LEMMA TaggedSame ==
  ASSUME TagInv, NEW d \in Cores, UNCHANGED <<mach, id, gen, nextId>>,
         cr3'[d] = cr3[d], slot'[d] = slot[d], last'[d] = last[d],
         pc'[d] = "set" => pc[d] = "set" /\ tgt'[d] = tgt[d] /\ lgen'[d] = lgen[d]
  PROVE  Tagged(d)'
BY DEF TagInv, Tagged, Tag, TagPcids

LEMMA TagTypes ==
  ASSUME TlbAssumption, TlbTypeOK, NEW c \in Cores, NEW p \in TagPcids
  PROVE  Tag(c, p).id \in Int /\ Tag(c, p).gen \in Nat /\ p \in Pcids
<1>1. mach.pcid \in BOOLEAN /\ NSLOT \in Nat  BY DEF TlbAssumption, TlbTypeOK
<1>2. CASE mach.pcid
  <2>1. p \in 1..NSLOT /\ Tag(c, p) = slot[c][p]  BY <1>2 DEF TagPcids, Tag
  <2>2. slot[c] \in [1..NSLOT -> [id : Nat, gen : Nat]]  BY DEF TlbTypeOK, CoreType
  <2>3. slot[c][p] \in [id : Nat, gen : Nat]  BY <2>1, <2>2
  <2> QED  BY SMT, <2>1, <2>3, PcidFacts
<1>3. CASE ~mach.pcid
  <2>1. p = 0 /\ Tag(c, p) = last[c]  BY <1>3 DEF TagPcids, Tag
  <2>2. last[c] \in [id : Int, gen : Nat]  BY DEF TlbTypeOK, CoreType
  <2> QED  BY <2>1, <2>2, PcidFacts
<1> QED  BY <1>1, <1>2, <1>3

\* A load that gives PCID i its space and generation, and leaves the others.
LEMMA TaggedLoaded ==
  ASSUME TlbAssumption, TlbTypeOK, OwnInv, TagInv, NEW c \in Cores, pc[c] = "set", pc'[c] # "set",
         tgt[c] \in Spaces, UNCHANGED <<mach, id, gen, nextId>>, NEW i \in TagPcids,
         cr3'[c].sp = tgt[c], cr3'[c].pcid = i,
         Tag(c, i)'.id = id[tgt[c]], Tag(c, i)'.gen = lgen[c],
         \A p \in TagPcids : p # i => Tag(c, p)' = Tag(c, p)
  PROVE  Tagged(c)'
<1>1. TagPcids' = TagPcids  BY DEF TagPcids
<1>2. lgen[c] <= gen[tgt[c]] /\ id[tgt[c]] < nextId
  <2>1. id[tgt[c]] \in 1..(nextId - 1) /\ nextId \in Nat  BY DEF TlbTypeOK, SpaceType
  <2>2. tgt[c] # K  BY DEF TlbAssumption
  <2> QED  BY <2>1, <2>2, SMT DEF TagInv, Tagged
<1>3. ASSUME NEW p \in TagPcids
      PROVE  Tag(c, p)'.id < nextId /\ \A s \in Spaces : Tag(c, p)'.id = id[s] => Tag(c, p)'.gen <= gen[s]
  <2>1. CASE p = i  BY <1>2, <2>1, SMT DEF OwnInv
  <2>2. CASE p # i  BY <2>2 DEF TagInv, Tagged
  <2> QED  BY <2>1, <2>2
<1>4. cr3'[c].sp # K => cr3'[c].pcid \in TagPcids /\ Tag(c, i)'.id = id[cr3'[c].sp]  OBVIOUS
<1>5. Tag(c, cr3[c].pcid)' = Tag(c, i)'  BY DEF Tag
<1> QED  BY <1>1, <1>3, <1>4, <1>5 DEF Tagged

LEMMA TaggedKept ==
  ASSUME TlbAssumption, TlbTypeOK, CoreInv, OwnInv, TagInv, NEW c \in Cores, CoreNext(c), NEW d \in Cores
  PROVE  Tagged(d)'
<1>0. mach.pcid \in BOOLEAN /\ mach.spaces \subseteq Spaces /\ NSLOT \in Nat \ {0} /\ K \notin Spaces
  BY DEF TlbAssumption, TlbTypeOK
<1>t. /\ cr3 \in [Cores -> [sp : Spaces \union {K}, pcid : Pcids]]
      /\ slot \in [Cores -> [1..NSLOT -> [id : Nat, gen : Nat]]] /\ next \in [Cores -> 1..NSLOT]
      /\ last \in [Cores -> [id : Int, gen : Nat]]
      /\ pc \in [Cores -> {"run", "load", "set", "bump", "ask", "wait", "kernel"}]
      /\ tgt \in [Cores -> Spaces \union {K}] /\ lgen \in [Cores -> Nat]
  BY DEF TlbTypeOK, CoreType, StepType
<1>a. ASSUME UNCHANGED <<mach, id, gen, nextId, cr3, slot, last, tgt, lgen>>,
             UNCHANGED pc \/ \E x \in {"run", "load", "bump", "ask", "wait", "kernel"} : TlbGoto(c, x)
      PROVE  Tagged(d)'
  <2>1. pc'[d] = "set" => pc[d] = "set"  BY <1>a, <1>t DEF TlbGoto
  <2> QED  BY <1>a, <2>1, TaggedSame
<1>1. ASSUME NEW s, LoadAnnounce(c, s) PROVE Tagged(d)'
  <2>1. /\ UNCHANGED <<mach, id, gen, nextId, cr3, slot, last, lgen>>
        /\ tgt' = [tgt EXCEPT ![c] = s] /\ pc' = [pc EXCEPT ![c] = "load"]
    BY <1>1 DEF LoadAnnounce, space, TlbGoto
  <2>2. pc'[d] = "set" => pc[d] = "set" /\ tgt'[d] = tgt[d]  BY <1>t, <2>1
  <2> QED  BY <2>1, <2>2, TaggedSame
<1>2. CASE LoadReadGen(c)
  <2>1. /\ UNCHANGED <<mach, id, gen, nextId, cr3, slot, last, tgt>>
        /\ lgen' = [lgen EXCEPT ![c] = GenOf(tgt[c])] /\ pc' = [pc EXCEPT ![c] = "set"]
    BY <1>2 DEF LoadReadGen, space, TlbGoto
  <2>2. CASE d # c
    <3>1. pc'[d] = "set" => pc[d] = "set" /\ lgen'[d] = lgen[d]  BY <1>t, <2>1, <2>2
    <3> QED  BY <2>1, <3>1, TaggedSame
  <2>3. CASE d = c
    <3>1. tgt[c] # K => lgen'[c] = gen[tgt[c]] /\ gen[tgt[c]] \in Nat
      BY <1>t, <2>1 DEF GenOf, TlbTypeOK, SpaceType
    <3>2. tgt'[c] # K => lgen'[c] <= gen'[tgt'[c]]  BY SMT, <2>1, <3>1
    <3> QED  BY <2>1, <2>3, <3>2 DEF TagInv, Tagged, Tag, TagPcids
  <2> QED  BY <2>2, <2>3
<1>3. CASE LoadPlain(c)
  <2> DEFINE tag == [id |-> IdOf(tgt[c]), gen |-> lgen[c]]
  <2>1. /\ UNCHANGED <<mach, id, gen, nextId, slot>> /\ ~mach.pcid /\ pc[c] = "set"
        /\ tgt' = [tgt EXCEPT ![c] = K] /\ lgen' = [lgen EXCEPT ![c] = 0] /\ pc' = [pc EXCEPT ![c] = "run"]
        /\ last' = [last EXCEPT ![c] = tag]
    BY <1>3 DEF LoadPlain, LoadReturn, space, TlbGoto, At
  <2>2. \/ cr3' = cr3 /\ cr3[c].sp = tgt[c]
        \/ cr3' = [cr3 EXCEPT ![c] = [sp |-> tgt[c], pcid |-> 0]]
    BY <1>3 DEF LoadPlain
  <2>3. CASE d # c
    <3>1. /\ cr3'[d] = cr3[d] /\ last'[d] = last[d]
          /\ pc'[d] = "set" => pc[d] = "set" /\ tgt'[d] = tgt[d] /\ lgen'[d] = lgen[d]
      BY <1>t, <2>1, <2>2, <2>3
    <3> QED  BY <2>1, <3>1, TaggedSame
  <2>4. CASE d = c
    <3>1. TagPcids = {0} /\ TagPcids' = {0} /\ pc'[c] = "run" /\ cr3'[c].sp = tgt[c] /\ last'[c] = tag
          /\ Tag(c, 0)' = tag /\ tag.id = IdOf(tgt[c]) /\ tag.gen = lgen[c]
      <4>1. DOMAIN last = Cores /\ DOMAIN pc = Cores /\ DOMAIN cr3 = Cores  BY <1>t
      <4>2. TagPcids = {0} /\ TagPcids' = {0}  BY <2>1 DEF TagPcids
      <4>3. pc'[c] = "run" /\ last'[c] = tag  BY <4>1, <2>1
      <4>4. Tag(c, 0)' = tag  BY <4>3, <2>1 DEF Tag
      <4>5. cr3'[c].sp = tgt[c]  BY SMT, <4>1, <2>2
      <4>6. tag.id = IdOf(tgt[c]) /\ tag.gen = lgen[c]  BY SMT
      <4> QED  BY <4>2, <4>3, <4>4, <4>5, <4>6
    <3>2. CASE tgt[c] = K
      <4>1. 0 < nextId'
        <5>1. nextId \in Nat \ {0}  BY DEF TlbTypeOK, SpaceType
        <5> QED  BY SMT, <2>1, <5>1
      <4>2. \A s \in Spaces : id[s] # 0
        <5>1. \A s \in Spaces : id[s] \in 1..(nextId - 1)  BY DEF TlbTypeOK, SpaceType
        <5> QED  BY <5>1, SMT DEF TlbTypeOK, SpaceType
      <4>3. IdOf(tgt[c]) = 0  BY <3>2 DEF IdOf
      <4> QED  BY <2>1, <2>4, <3>1, <3>2, <4>1, <4>2, <4>3, SMT DEF Tagged
    <3>3. CASE tgt[c] # K
      <4>1. tgt[c] \in Spaces /\ IdOf(tgt[c]) = id[tgt[c]]  BY <1>t, <3>3 DEF IdOf
      <4>2. cr3'[c].pcid = 0
        <5>1. cr3[c].sp = tgt[c] => cr3[c].pcid = 0  BY <3>1, <3>3 DEF TagInv, Tagged
        <5>2. DOMAIN cr3 = Cores  BY <1>t
        <5> QED  BY SMT, <2>2, <5>1, <5>2
      <4> QED  BY <2>1, <2>4, <3>1, <4>1, <4>2, TaggedLoaded
    <3> QED  BY <3>2, <3>3
  <2> QED  BY <2>3, <2>4
<1>4. CASE LoadKernel(c)
  <2>1. /\ UNCHANGED <<mach, id, gen, nextId, slot, last>>
        /\ tgt' = [tgt EXCEPT ![c] = K] /\ lgen' = [lgen EXCEPT ![c] = 0] /\ pc' = [pc EXCEPT ![c] = "run"]
        /\ cr3' = [cr3 EXCEPT ![c] = [sp |-> K, pcid |-> 0]]
    BY <1>4 DEF LoadKernel, LoadReturn, space, TlbGoto
  <2>2. CASE d # c
    <3>1. /\ cr3'[d] = cr3[d]
          /\ pc'[d] = "set" => pc[d] = "set" /\ tgt'[d] = tgt[d] /\ lgen'[d] = lgen[d]
      BY <1>t, <2>1, <2>2
    <3> QED  BY <2>1, <3>1, TaggedSame
  <2>3. CASE d = c
    <3>1. cr3'[c].sp = K /\ pc'[c] = "run"  BY <1>t, <2>1
    <3> QED  BY <2>1, <2>3, <3>1 DEF TagInv, Tagged, Tag, TagPcids
  <2> QED  BY <2>2, <2>3
<1>5. CASE LoadPcid(c)
  <2> DEFINE tag == [id |-> id[tgt[c]], gen |-> lgen[c]]
  <2>1. PICK i \in 1..NSLOT :
          slot' = [slot EXCEPT ![c][i] = tag] /\ cr3' = [cr3 EXCEPT ![c] = [sp |-> tgt[c], pcid |-> i]]
    BY <1>5, <1>t DEF LoadPcid, SlotOf
  <2>2. /\ UNCHANGED <<mach, id, gen, nextId, last>> /\ mach.pcid /\ pc[c] = "set" /\ tgt[c] # K
        /\ tgt' = [tgt EXCEPT ![c] = K] /\ lgen' = [lgen EXCEPT ![c] = 0] /\ pc' = [pc EXCEPT ![c] = "run"]
    BY <1>5 DEF LoadPcid, LoadReturn, space, TlbGoto, At
  <2>3. CASE d # c
    <3>1. /\ cr3'[d] = cr3[d] /\ slot'[d] = slot[d]
          /\ pc'[d] = "set" => pc[d] = "set" /\ tgt'[d] = tgt[d] /\ lgen'[d] = lgen[d]
      BY <1>t, <2>1, <2>2, <2>3
    <3> QED  BY <2>2, <3>1, TaggedSame
  <2>4. CASE d = c
    <3>1. TagPcids = 1..NSLOT /\ mach'.pcid  BY <2>2 DEF TagPcids
    <3>2. slot'[c][i] = tag /\ \A p \in 1..NSLOT : p # i => slot'[c][p] = slot[c][p]  BY <1>t, <2>1
    <3>3. /\ Tag(c, i)'.id = id[tgt[c]] /\ Tag(c, i)'.gen = lgen[c]
          /\ \A p \in TagPcids : p # i => Tag(c, p)' = Tag(c, p)
      BY <2>2, <3>1, <3>2, SMT DEF Tag
    <3>4. cr3'[c].sp = tgt[c] /\ cr3'[c].pcid = i /\ pc'[c] = "run" /\ tgt[c] \in Spaces  BY <1>t, <2>1, <2>2
    <3> HIDE DEF tag
    <3> QED  BY <2>2, <2>4, <3>1, <3>3, <3>4, TaggedLoaded
  <2> QED  BY <2>3, <2>4
<1>6. CASE ShootdownBump(c)
  <2>1. /\ UNCHANGED <<mach, id, nextId, cr3, slot, last, tgt, lgen>>
        /\ gen' = [gen EXCEPT ![us[c]] = @ + 1] /\ pc' = [pc EXCEPT ![c] = "ask"]
    BY <1>6 DEF ShootdownBump, TlbGoto
  <2>2. \A s \in Spaces : gen[s] \in Nat /\ gen'[s] \in Nat /\ gen[s] <= gen'[s]
    BY <2>1, SMT DEF TlbTypeOK, SpaceType
  <2>3. pc'[d] = "set" => pc[d] = "set"  BY <1>t, <2>1
  <2>4. \A p \in TagPcids : Tag(d, p).gen \in Nat  BY TagTypes
  <2>5. Tagged(d)  BY DEF TagInv
  <2>6. \A p \in TagPcids, s \in Spaces : Tag(d, p).id = id[s] => Tag(d, p).gen <= gen'[s]
    BY <2>2, <2>4, <2>5, SMT DEF Tagged
  <2>7. pc[d] = "set" /\ tgt[d] # K => lgen[d] <= gen'[tgt[d]]
    <3>1. SUFFICES ASSUME pc[d] = "set", tgt[d] # K PROVE lgen[d] <= gen'[tgt[d]]  OBVIOUS
    <3>2. lgen[d] <= gen[tgt[d]] /\ tgt[d] \in Spaces /\ lgen[d] \in Nat  BY <1>t, <2>5, <3>1 DEF Tagged
    <3> QED  BY SMT, <2>2, <3>2
  <2>8. TagPcids' = TagPcids /\ \A p : Tag(d, p)' = Tag(d, p)  BY <2>1 DEF TagPcids, Tag
  <2> QED  BY <2>1, <2>3, <2>5, <2>6, <2>7, <2>8 DEF Tagged
<1>7. CASE ShootdownDone(c)  BY <1>7, <1>a DEF ShootdownDone, core
<1>8. ASSUME NEW e \in Cores, ShootdownAsk(c, e) PROVE Tagged(d)'
  BY <1>8, <1>a DEF ShootdownAsk, space, core
<1>9. CASE ShootdownTimeout(c)  BY <1>9, <1>a DEF ShootdownTimeout, space, core
<1>10. CASE Service(c)  BY <1>10, <1>a DEF Service, space
<1>11. CASE ServiceEnd(c)  BY <1>11, <1>a DEF ServiceEnd, space, core
<1>12. CASE Fill(c) \/ KernelFill(c)  BY <1>12, <1>a DEF Fill, KernelFill, space, core
<1>13. ASSUME NEW f, Map(c, f) PROVE Tagged(d)'  BY <1>13, <1>a DEF Map, core
<1>14. ASSUME NEW s, Unmap(c, s) PROVE Tagged(d)'  BY <1>14, <1>a DEF Unmap, core
<1> QED  BY <1>1, <1>2, <1>3, <1>4, <1>5, <1>6, <1>7, <1>8, <1>9, <1>10, <1>11, <1>12, <1>13, <1>14
         DEF CoreNext, CoreStep

LEMMA TagInvKept ==
  ASSUME TlbAssumption, TlbTypeOK, CoreInv, OwnInv, TagInv, [TlbNext]_tlbVars
  PROVE  TagInv'
<1>t. pc \in [Cores -> {"run", "load", "set", "bump", "ask", "wait", "kernel"}]  BY DEF TlbTypeOK, StepType
<1>a. ASSUME NEW c \in Cores, CoreNext(c) PROVE TagInv'  BY <1>a, TaggedKept DEF TagInv
<1>b. ASSUME NEW s \in mach.spaces, SpaceReuse(s), NEW d \in Cores PROVE Tagged(d)'
  <2>1. /\ smp_cur_cr3[d] # s /\ cr3[d].sp # s /\ id' = [id EXCEPT ![s] = nextId] /\ gen' = [gen EXCEPT ![s] = 0]
        /\ nextId' = nextId + 1 /\ UNCHANGED <<mach, cr3, slot, last, pc, tgt, lgen>>
    BY <1>b DEF SpaceReuse, core
  <2>2. s \in Spaces /\ K \notin Spaces  BY DEF TlbAssumption, TlbTypeOK
  <2>3. \A r \in Spaces : r # s => id'[r] = id[r] /\ gen'[r] = gen[r]  BY <2>1 DEF TlbTypeOK, SpaceType
  <2>4. id'[s] = nextId /\ nextId \in Nat  BY <2>1, <2>2 DEF TlbTypeOK, SpaceType
  <2>5. Tagged(d)  BY DEF TagInv
  <2>6. pc[d] = "set" => tgt[d] # s  BY <2>1 DEF CoreInv, Place, Loading
  <2>7. tgt[d] \in Spaces \union {K} /\ cr3[d].sp \in Spaces \union {K}  BY DEF TlbTypeOK, StepType, CoreType
  <2>8. ASSUME NEW p \in TagPcids
        PROVE  Tag(d, p).id < nextId' /\ \A r \in Spaces : Tag(d, p).id = id'[r] => Tag(d, p).gen <= gen'[r]
    <3>1. Tag(d, p).id < nextId /\ Tag(d, p).id \in Int  BY <2>5, TagTypes DEF Tagged
    <3>2. Tag(d, p).id < nextId' /\ Tag(d, p).id # nextId  BY SMT, <2>1, <2>4, <3>1
    <3> QED  BY <2>3, <2>4, <2>5, <3>2 DEF Tagged
  <2>9. TagPcids' = TagPcids /\ \A p : Tag(d, p)' = Tag(d, p)  BY <2>1 DEF TagPcids, Tag
  <2>10. pc[d] = "set" /\ tgt[d] # K => lgen[d] <= gen'[tgt[d]]  BY <2>3, <2>5, <2>6, <2>7 DEF Tagged
  <2>11. cr3[d].sp # K => cr3[d].pcid \in TagPcids /\ Tag(d, cr3[d].pcid).id = id'[cr3[d].sp]
    BY <2>1, <2>3, <2>5, <2>7 DEF Tagged
  <2>12. UNCHANGED <<cr3, pc, tgt, lgen>>  BY <2>1
  <2> QED  BY <2>8, <2>9, <2>10, <2>11, <2>12 DEF Tagged
<1>c. ASSUME KernelChange \/ KernelChanged, NEW d \in Cores PROVE Tagged(d)'
  <2>1. UNCHANGED <<mach, id, gen, nextId, cr3, slot, last, tgt, lgen>>
    BY <1>c DEF KernelChange, KernelChanged, space, core
  <2>2. pc' = [pc EXCEPT ![Boot] = "kernel"] \/ pc' = [pc EXCEPT ![Boot] = "run"]
    BY <1>c DEF KernelChange, KernelChanged, TlbGoto
  <2>3. pc'[d] = "set" => pc[d] = "set"  BY <1>t, <2>2
  <2> QED  BY <2>1, <2>3, TaggedSame
<1>d. ASSUME UNCHANGED tlbVars, NEW d \in Cores PROVE Tagged(d)'
  <2>1. UNCHANGED <<mach, id, gen, nextId, cr3, slot, last, pc, tgt, lgen>>  BY <1>d DEF tlbVars, space, core
  <2> QED  BY <2>1, TaggedSame
<1> QED  BY <1>a, <1>b, <1>c, <1>d DEF TlbNext, CoreNext, TagInv

-----------------------------------------------------------------------------
(* What the cores remember *)

LEMMA FreshSame ==
  ASSUME NEW d \in Cores, NEW p, NEW s, NEW g, Fresh(d, p, s, g),
         tlb'[d][p] = tlb[d][p] \/ tlb'[d][p] = NoPage, pt'[s] = pt[s], gen'[s] = gen[s],
         \A e \in Cores :
           /\ hand'[e] = hand[e] /\ us'[e] = us[e] /\ (pc[e] = "bump" => pc'[e] = "bump")
           /\ Pending(e, d) => Pending(e, d)'
  PROVE  Fresh(d, p, s, g)'
BY DEF Fresh

LEMMA PendingSame ==
  ASSUME NEW d \in Cores, UNCHANGED <<todo, want, done, svc>>
  PROVE  \A e \in Cores : Pending(e, d) => Pending(e, d)'
BY DEF Pending

LEMMA TrustsSame ==
  ASSUME NEW d \in Cores, NEW p, NEW s, NEW g, Trusts(d, p, s, g)',
         UNCHANGED <<mach, id, gen>>, cr3'[d] = cr3[d], slot'[d] = slot[d], last'[d] = last[d],
         Loading(d) => Loading(d)',
         pc'[d] = "set" => pc[d] = "set" /\ tgt'[d] = tgt[d] /\ lgen'[d] = lgen[d]
  PROVE  Trusts(d, p, s, g)
BY DEF Trusts, Tag, TagPcids

\* Nothing but what core c does at the end of a load is later than g.
LEMMA TrustsOld ==
  ASSUME TagInv, NEW d \in Cores, NEW p \in Pcids, NEW s \in Spaces, NEW g \in Nat,
         p \in TagPcids, Tag(d, p).id = id[s], Tag(d, p).gen = g
  PROVE  g <= gen[s]
BY DEF TagInv, Tagged

\* Steps that leave the tables and the shootdowns alone: loads, KernelFill.
LEMMA FreshLoad ==
  ASSUME TlbAssumption, TlbTypeOK, CoreInv, OwnInv, TagInv, FreshInv, NEW c \in Cores,
         \/ LoadReadGen(c) \/ LoadPlain(c) \/ LoadKernel(c) \/ LoadPcid(c) \/ KernelFill(c)
         \/ \E s \in mach.spaces \union {K} : LoadAnnounce(c, s),
         NEW d \in Cores, NEW p \in Pcids, NEW s \in Spaces, NEW g \in Nat, Trusts(d, p, s, g)'
  PROVE  Fresh(d, p, s, g)'
<1>0. mach.pcid \in BOOLEAN /\ K \notin Spaces /\ NSLOT \in Nat \ {0}  BY DEF TlbAssumption, TlbTypeOK
<1>t. /\ cr3 \in [Cores -> [sp : Spaces \union {K}, pcid : Pcids]]
      /\ tlb \in [Cores -> [Pcids -> Frames \union {NoPage}]]
      /\ slot \in [Cores -> [1..NSLOT -> [id : Nat, gen : Nat]]] /\ next \in [Cores -> 1..NSLOT]
      /\ last \in [Cores -> [id : Int, gen : Nat]]
      /\ pc \in [Cores -> {"run", "load", "set", "bump", "ask", "wait", "kernel"}]
      /\ tgt \in [Cores -> Spaces \union {K}] /\ lgen \in [Cores -> Nat]
  BY DEF TlbTypeOK, CoreType, StepType
<1>u. Forgot[p] = NoPage /\ Forgot \in [Pcids -> Frames \union {NoPage}]  BY PcidFacts DEF Forgot
<1>1. UNCHANGED <<mach, pt, id, gen, hand, us, todo, want, done, svc>>
  BY DEF LoadReadGen, LoadPlain, LoadKernel, LoadPcid, KernelFill, LoadAnnounce, space, shoot
<1>2. \A e \in Cores : pc[e] = "bump" => pc'[e] = "bump"
  <2>1. \/ pc' = pc
        \/ /\ pc[c] \in {"run", "load", "set"}
           /\ \E x \in {"run", "load", "set"} : pc' = [pc EXCEPT ![c] = x]
    BY DEF LoadReadGen, LoadPlain, LoadKernel, LoadPcid, KernelFill, LoadAnnounce, LoadReturn, At, TlbGoto
  <2> QED  BY <1>t, <2>1
<1>3. ASSUME tlb'[d][p] = tlb[d][p] \/ tlb'[d][p] = NoPage, Fresh(d, p, s, g) PROVE Fresh(d, p, s, g)'
  <2>1. \A e \in Cores : Pending(e, d) => Pending(e, d)'  BY <1>1, PendingSame
  <2> QED  BY <1>1, <1>2, <1>3, <2>1, FreshSame
<1>4. Trusts(d, p, s, g) => Fresh(d, p, s, g)  BY DEF FreshInv
<1>5. ASSUME d # c \/ KernelFill(c) PROVE Fresh(d, p, s, g)'
  <2>1. /\ cr3'[d] = cr3[d] /\ slot'[d] = slot[d] /\ last'[d] = last[d] /\ tlb'[d] = tlb[d]
        /\ pc'[d] = pc[d] /\ tgt'[d] = tgt[d] /\ lgen'[d] = lgen[d]
    <3>1. CASE KernelFill(c)  BY <3>1 DEF KernelFill, core
    <3>2. CASE d # c /\ LoadReadGen(c)  BY <1>t, <3>2 DEF LoadReadGen, TlbGoto
    <3>3. CASE d # c /\ LoadPlain(c)  BY <1>t, <3>3 DEF LoadPlain, LoadReturn, TlbGoto
    <3>4. CASE d # c /\ LoadKernel(c)  BY <1>t, <3>4 DEF LoadKernel, LoadReturn, TlbGoto
    <3>5. CASE d # c /\ LoadPcid(c)  BY <1>t, <3>5 DEF LoadPcid, LoadReturn, TlbGoto
    <3>6. CASE d # c /\ \E r \in mach.spaces \union {K} : LoadAnnounce(c, r)
      BY <1>t, <3>6 DEF LoadAnnounce, TlbGoto
    <3> QED  BY <1>5, <3>1, <3>2, <3>3, <3>4, <3>5, <3>6
  <2>2. Loading(d) => Loading(d)'  BY <2>1 DEF Loading
  <2>3. Trusts(d, p, s, g)  BY <1>1, <2>1, <2>2, TrustsSame
  <2> QED  BY <1>3, <1>4, <2>1, <2>3
<1>6. CASE d = c /\ \E r \in mach.spaces \union {K} : LoadAnnounce(c, r)
  <2>1. UNCHANGED <<cr3, slot, last, tlb>> /\ pc'[c] = "load"  BY <1>t, <1>6 DEF LoadAnnounce, TlbGoto
  <2>2. Trusts(c, p, s, g)  BY <1>1, <1>6, <2>1 DEF Trusts, Tag, TagPcids, Loading
  <2> QED  BY <1>3, <1>4, <1>6, <2>1, <2>2
<1>7. CASE d = c /\ LoadReadGen(c)
  <2>1. /\ UNCHANGED <<cr3, slot, last, tgt>> /\ pc'[c] = "set" /\ lgen'[c] = GenOf(tgt[c])
    BY <1>t, <1>7 DEF LoadReadGen, TlbGoto
  <2>2. Trusts(c, p, s, g)  BY <1>0, <1>1, <1>7, <2>1 DEF Trusts, Tag, TagPcids, Loading, GenOf
  <2>3. tlb' = tlb \/ tlb' = [tlb EXCEPT ![c] = Forgot]  BY <1>7 DEF LoadReadGen
  <2>4. tlb'[c][p] = tlb[c][p] \/ tlb'[c][p] = NoPage  BY <1>t, <1>u, <2>3
  <2> QED  BY <1>3, <1>4, <1>7, <2>2, <2>4
<1>8. CASE d = c /\ LoadKernel(c)
  <2>1. UNCHANGED <<slot, last, tlb>> /\ pc'[c] = "run" /\ cr3'[c].sp = K
    BY <1>t, <1>8 DEF LoadKernel, LoadReturn, TlbGoto
  <2>2. Trusts(c, p, s, g)  BY <1>0, <1>1, <1>8, <2>1 DEF Trusts, Tag, TagPcids, Loading
  <2> QED  BY <1>3, <1>4, <1>8, <2>1, <2>2
<1>9. CASE d = c /\ LoadPlain(c)
  <2> DEFINE tag == [id |-> IdOf(tgt[c]), gen |-> lgen[c]]
  <2>1. ~mach.pcid /\ pc[c] = "set" /\ pc'[c] = "run"  BY <1>t, <1>9 DEF LoadPlain, LoadReturn, At, TlbGoto
  <2>2. \/ tlb' = [tlb EXCEPT ![c] = Forgot]
        \/ /\ UNCHANGED <<cr3, tlb>> /\ cr3[c].sp = tgt[c]
           /\ last[c] = tag /\ last' = [last EXCEPT ![c] = tag]
    BY <1>9 DEF LoadPlain
  <2>3. CASE tlb' = [tlb EXCEPT ![c] = Forgot]
    <3>1. tlb'[d][p] = NoPage  BY <1>t, <1>u, <1>9, <2>3
    <3> QED  BY <3>1 DEF Fresh
  <2>4. CASE UNCHANGED <<cr3, tlb>> /\ cr3[c].sp = tgt[c] /\ last[c] = tag /\ last' = [last EXCEPT ![c] = tag]
    <3>1. last'[c] = last[c] /\ last[c].gen = lgen[c]  BY SMT, <1>t, <2>4
    <3>2. Trusts(c, p, s, g)  BY <1>1, <1>9, <2>1, <2>4, <3>1 DEF Trusts, Tag, TagPcids, Loading
    <3> QED  BY <1>3, <1>4, <1>9, <2>4, <3>2
  <2> QED  BY <2>2, <2>3, <2>4
<1>10. CASE d = c /\ LoadPcid(c)
  <2> DEFINE tag == [id |-> id[tgt[c]], gen |-> lgen[c]]
  <2>1. mach.pcid /\ pc[c] = "set" /\ pc'[c] = "run" /\ tgt[c] \in Spaces
    BY <1>t, <1>10 DEF LoadPcid, LoadReturn, At, TlbGoto
  <2>2. PICK i \in 1..NSLOT :
          /\ slot' = [slot EXCEPT ![c][i] = tag] /\ cr3' = [cr3 EXCEPT ![c] = [sp |-> tgt[c], pcid |-> i]]
          /\ \/ tlb' = [tlb EXCEPT ![c][i] = NoPage]
             \/ tlb' = tlb /\ slot[c][i].id = id[tgt[c]] /\ slot[c][i].gen = lgen[c]
    BY <1>10, <1>t DEF LoadPcid, SlotOf
  <2>3. cr3'[c].sp = tgt[c] /\ cr3'[c].pcid = i  BY <1>t, <2>2
  <2>4. slot'[c][i].id = id[tgt[c]] /\ slot'[c][i].gen = lgen[c] /\ \A q \in 1..NSLOT : q # i => slot'[c][q] = slot[c][q]
    BY <1>t, <2>2
  <2>5. p \in 1..NSLOT /\ Tag(c, p) = slot[c][p] /\ Tag(c, p)' = slot'[c][p] /\ p \in TagPcids
    BY <1>1, <1>10, <2>1 DEF Trusts, Tag, TagPcids
  <2>6. CASE p # i
    <3>0. tlb' = tlb \/ tlb' = [tlb EXCEPT ![c][i] = NoPage]  BY <2>2
    <3>a. tlb'[c][p] = tlb[c][p]
      <4>1. DOMAIN tlb = Cores /\ DOMAIN tlb[c] = Pcids  BY <1>t
      <4>2. tlb'[c] = tlb[c] \/ tlb'[c] = [tlb[c] EXCEPT ![i] = NoPage]  BY <4>1, <3>0
      <4> QED  BY <4>1, <4>2, <2>6
    <3>1. Tag(c, p)' = Tag(c, p) /\ tlb'[c][p] = tlb[c][p]  BY <2>4, <2>5, <2>6, <3>a
    <3>2. Trusts(c, p, s, g)  BY <1>1, <1>10, <2>1, <2>3, <2>5, <2>6, <3>1 DEF Trusts, Loading
    <3> QED  BY <1>3, <1>4, <1>10, <3>1, <3>2
  <2>7. CASE p = i /\ tlb' = [tlb EXCEPT ![c][i] = NoPage]
    <3>1. tlb'[d][p] = NoPage  BY <1>t, <1>10, <2>7
    <3> QED  BY <3>1 DEF Fresh
  <2>8. CASE p = i /\ tlb' = tlb /\ slot[c][i].id = id[tgt[c]] /\ slot[c][i].gen = lgen[c]
    <3>1. Tag(c, p).id = Tag(c, p)'.id /\ Tag(c, p).gen = Tag(c, p)'.gen /\ Tag(c, p).gen = lgen[c]
      BY <2>4, <2>5, <2>8
    <3>2. Trusts(c, p, s, g)  BY <1>1, <1>10, <2>1, <2>3, <2>5, <3>1 DEF Trusts, Loading
    <3> QED  BY <1>3, <1>4, <1>10, <2>8, <3>2
  <2> QED  BY <2>2, <2>6, <2>7, <2>8
<1> QED  BY <1>5, <1>6, <1>7, <1>8, <1>9, <1>10

\* Fill, and the two halves of smp_tlb_service.
LEMMA FreshService ==
  ASSUME TlbAssumption, TlbTypeOK, CoreInv, OwnInv, TagInv, FreshInv, NEW c \in Cores,
         Fill(c) \/ Service(c) \/ ServiceEnd(c),
         NEW d \in Cores, NEW p \in Pcids, NEW s \in Spaces, NEW g \in Nat, Trusts(d, p, s, g)'
  PROVE  Fresh(d, p, s, g)'
<1>t. /\ cr3 \in [Cores -> [sp : Spaces \union {K}, pcid : Pcids]]
      /\ tlb \in [Cores -> [Pcids -> Frames \union {NoPage}]]
      /\ done \in [Cores -> Nat] /\ svc \in [Cores -> Nat \union {-1}] /\ want \in [Cores -> [Cores -> Nat]]
  BY DEF TlbTypeOK, CoreType, ShootType
<1>1. UNCHANGED <<mach, pt, id, gen, cr3, slot, last, pc, tgt, lgen, hand, us, todo, want>>
  BY DEF Fill, Service, ServiceEnd, space, core, shoot
<1>2. Trusts(d, p, s, g) /\ Fresh(d, p, s, g)
  <2>1. Loading(d) => Loading(d)'  BY <1>1 DEF Loading
  <2>2. Trusts(d, p, s, g)  BY <1>1, <2>1, TrustsSame
  <2> QED  BY <2>2 DEF FreshInv
<1>3. ASSUME tlb'[d][p] = tlb[d][p] \/ tlb'[d][p] = NoPage,
             \A e \in Cores : Pending(e, d) => Pending(e, d)'
      PROVE  Fresh(d, p, s, g)'
  BY <1>1, <1>2, <1>3, FreshSame
<1>4. CASE Fill(c)
  <2>1. UNCHANGED <<done, svc>> /\ cr3[c].sp # K /\ tlb' = [tlb EXCEPT ![c][cr3[c].pcid] = pt[cr3[c].sp]]
    BY <1>4 DEF Fill, shoot
  <2>2. \A e \in Cores : Pending(e, d) => Pending(e, d)'  BY <1>1, <2>1, PendingSame
  <2>3. CASE d # c \/ p # cr3[c].pcid
    <3>1. tlb'[d][p] = tlb[d][p]  BY <1>t, <2>1, <2>3
    <3> QED  BY <1>3, <2>2, <3>1
  <2>4. CASE d = c /\ p = cr3[c].pcid
    <3>1. id[cr3[c].sp] = id[s] /\ cr3[c].sp \in Spaces
      BY <1>t, <1>2, <2>1, <2>4 DEF Trusts, TagInv, Tagged
    <3>2. cr3[c].sp = s  BY <3>1 DEF OwnInv
    <3>3. tlb'[d][p] = pt'[s]  BY <1>1, <1>t, <2>1, <2>4, <3>2
    <3> QED  BY <3>3 DEF Fresh
  <2> QED  BY <2>3, <2>4
<1>5. CASE Service(c)
  <2>1. /\ UNCHANGED done /\ svc' = [svc EXCEPT ![c] = req[c]] /\ ~Loading(c)
        /\ tlb' = [tlb EXCEPT ![c][cr3[c].pcid] = NoPage]
    BY <1>5 DEF Service, shoot, ReloadCr3, Loading
  <2>2. CASE d # c
    <3>1. tlb'[d] = tlb[d] /\ svc'[d] = svc[d]  BY <1>t, <2>1, <2>2
    <3>2. \A e \in Cores : Pending(e, d) => Pending(e, d)'  BY <1>1, <2>1, <3>1 DEF Pending
    <3> QED  BY <1>3, <3>1, <3>2
  <2>3. CASE d = c /\ cr3[c].pcid = p
    <3>1. tlb'[d][p] = NoPage  BY <1>t, <2>1, <2>3
    <3> QED  BY <3>1 DEF Fresh
  <2>4. CASE d = c /\ cr3[c].pcid # p
    <3>1. gen[s] = g  BY <1>2, <2>1, <2>4 DEF Trusts, Loading
    <3>2. tlb'[d][p] = tlb[d][p]  BY <1>t, <2>1, <2>4
    <3> QED  BY <1>1, <1>2, <3>1, <3>2 DEF Fresh
  <2> QED  BY <2>2, <2>3, <2>4
<1>6. CASE ServiceEnd(c)
  <2>1. /\ UNCHANGED tlb /\ svc[c] # -1 /\ svc' = [svc EXCEPT ![c] = -1] /\ done' = [done EXCEPT ![c] = svc[c]]
    BY <1>6 DEF ServiceEnd, core
  <2>2. ASSUME NEW e \in Cores, Pending(e, d) PROVE Pending(e, d)'
    <3>1. want[e][d] \in Nat /\ done[d] \in Int /\ svc[d] \in Int  BY SMT, <1>t
    <3>2. CASE d # c
      <4>1. svc'[d] = svc[d] /\ done'[d] = done[d]  BY <1>t, <2>1, <3>2
      <4> QED  BY <1>1, <2>2, <4>1 DEF Pending
    <3>3. CASE d = c
      <4>1. svc'[d] = -1 /\ done'[d] = svc[d]  BY <1>t, <2>1, <3>3
      <4>2. want[e][d] > svc'[d]  BY SMT, <3>1, <4>1
      <4> QED  BY <1>1, <2>2, <4>1, <4>2 DEF Pending
    <3> QED  BY <3>2, <3>3
  <2> QED  BY <1>3, <2>1, <2>2
<1> QED  BY <1>4, <1>5, <1>6

\* The generation goes up: who had the page at the old one is on core c's list.
LEMMA FreshBump ==
  ASSUME TlbAssumption, TlbTypeOK, CoreInv, OwnInv, TagInv, FreshInv, NEW c \in Cores, ShootdownBump(c),
         NEW d \in Cores, NEW p \in Pcids, NEW s \in Spaces, NEW g \in Nat, Trusts(d, p, s, g)'
  PROVE  Fresh(d, p, s, g)'
<1>t. /\ cr3 \in [Cores -> [sp : Spaces \union {K}, pcid : Pcids]]
      /\ tlb \in [Cores -> [Pcids -> Frames \union {NoPage}]] /\ gen \in [Spaces -> Nat]
      /\ pc \in [Cores -> {"run", "load", "set", "bump", "ask", "wait", "kernel"}]
      /\ todo \in [Cores -> SUBSET Cores] /\ want \in [Cores -> [Cores -> Nat]]
  BY DEF TlbTypeOK, CoreType, ShootType, StepType, SpaceType
<1>1. /\ UNCHANGED <<mach, pt, id, cr3, slot, last, tgt, lgen, hand, us, done, svc>> /\ pc[c] = "bump"
      /\ gen' = [gen EXCEPT ![us[c]] = @ + 1] /\ pc' = [pc EXCEPT ![c] = "ask"]
      /\ todo' = [todo EXCEPT ![c] = Cores \ {c}] /\ want' = [want EXCEPT ![c] = [e \in Cores |-> 0]]
  BY DEF ShootdownBump, At, TlbGoto
<1>2. \/ tlb' = [tlb EXCEPT ![c][cr3[c].pcid] = NoPage]
      \/ tlb' = tlb /\ cr3[c].sp # us[c]
  BY DEF ShootdownBump, ReloadCr3
<1>3. us[c] \in Spaces  BY <1>1 DEF CoreInv, Place, Freeing
<1>4. gen'[s] = IF s = us[c] THEN gen[s] + 1 ELSE gen[s]  BY <1>t, <1>1, <1>3
<1>5. p \in TagPcids /\ Tag(d, p).id = id[s] /\ Tag(d, p).gen = g  BY <1>1 DEF Trusts, Tag, TagPcids
<1>6. g <= gen[s] /\ gen[s] \in Nat  BY <1>t, <1>5, TrustsOld
<1>7. gen'[s] = g => s # us[c]  BY SMT, <1>4, <1>6
<1>8. Loading(d)' <=> Loading(d)  BY <1>1, <1>t DEF Loading
<1>9. pc'[d] = "set" => pc[d] = "set"  BY <1>1, <1>t
<1>10. Trusts(d, p, s, g)  BY <1>1, <1>4, <1>5, <1>7, <1>8, <1>9 DEF Trusts
<1>11. Fresh(d, p, s, g)  BY <1>10 DEF FreshInv
<1>12. tlb'[d][p] = tlb[d][p] \/ tlb'[d][p] = NoPage
  <2>1. PICK q \in Pcids : tlb' = tlb \/ tlb' = [tlb EXCEPT ![c][q] = NoPage]  BY <1>t, <1>2
  <2>2. tlb \in [Cores -> [Pcids -> Frames \union {NoPage}]]  BY <1>t
  <2> QED  BY <2>1, <2>2
<1>13. CASE tlb[d][p] = NoPage \/ tlb[d][p] = pt[s] \/ tlb'[d][p] = NoPage
  BY <1>1, <1>12, <1>13 DEF Fresh
<1>14. ASSUME tlb'[d][p] = tlb[d][p], tlb'[d][p] # NoPage, NEW e \in Cores, hand[e] = tlb[d][p], us[e] = s,
              pc[e] = "bump" \/ (Pending(e, d) /\ g # gen[s])
       PROVE  Fresh(d, p, s, g)'
  <2>1. CASE e # c
    <3>1. pc'[e] = pc[e] /\ todo'[e] = todo[e] /\ want'[e] = want[e]
      <4>1. pc'[e] = pc[e]  BY <1>t, <1>1, <2>1
      <4>2. todo'[e] = todo[e]  BY <1>t, <1>1, <2>1
      <4>3. want'[e] = want[e]  BY <1>t, <1>1, <2>1
      <4> QED  BY <4>1, <4>2, <4>3
    <3>2. Pending(e, d) => Pending(e, d)'  BY <1>1, <3>1 DEF Pending
    <3>3. g # gen[s] => g # gen'[s]  BY SMT, <1>4, <1>6
    <3> QED  BY <1>1, <1>14, <3>1, <3>2, <3>3 DEF Fresh
  <2>2. CASE e = c /\ d # c
    <3>1. d \in todo'[c]  BY <1>t, <1>1, <2>2
    <3>a. Pending(c, d)'  BY <3>1 DEF Pending
    <3>2. g # gen'[s]  BY SMT, <1>4, <1>6, <1>14, <2>2
    <3> QED  BY <1>1, <1>14, <2>2, <3>a, <3>2 DEF Fresh
  <2>3. CASE e = c /\ d = c
    <3>1. s = us[c] /\ gen'[s] # g  BY <1>7, <1>14, <2>3
    <3>2. cr3[c].sp = s /\ cr3[c].pcid = p
      BY <1>1, <2>3, <3>1, SMT DEF Trusts
    <3>3. tlb'[d][p] = NoPage  BY SMT, <1>t, <1>2, <2>3, <3>1, <3>2
    <3> QED  BY <1>14, <3>3
  <2> QED  BY <2>1, <2>2, <2>3
<1> QED  BY <1>11, <1>12, <1>13, <1>14 DEF Fresh

\* A core is left out of the shootdown only when it is not on the space;
\* at the end of it nobody has the page any more.
LEMMA FreshAsk ==
  ASSUME TlbAssumption, TlbTypeOK, CoreInv, OwnInv, TagInv, FreshInv, NEW c \in Cores,
         ShootdownDone(c) \/ ShootdownTimeout(c) \/ \E x \in Cores : ShootdownAsk(c, x),
         NEW d \in Cores, NEW p \in Pcids, NEW s \in Spaces, NEW g \in Nat, Trusts(d, p, s, g)'
  PROVE  Fresh(d, p, s, g)'
<1>t. /\ pc \in [Cores -> {"run", "load", "set", "bump", "ask", "wait", "kernel"}]
      /\ hand \in [Cores -> Frames \union {NoPage}] /\ us \in [Cores -> Spaces \union {K}]
      /\ todo \in [Cores -> SUBSET Cores] /\ want \in [Cores -> [Cores -> Nat]]
      /\ req \in [Cores -> Nat] /\ done \in [Cores -> Nat] /\ svc \in [Cores -> Nat \union {-1}]
  BY DEF TlbTypeOK, ShootType, StepType
<1>1. UNCHANGED <<mach, pt, id, gen, smp_cur_cr3, cr3, slot, last, tlb, tgt, lgen, done, svc>> /\ pc[c] \in {"ask", "wait"}
  BY DEF ShootdownDone, ShootdownTimeout, ShootdownAsk, At, space, core
<1>2. /\ pc'[c] \in {"ask", "wait", "run"}
      /\ \A e \in Cores : e # c => pc'[e] = pc[e] /\ todo'[e] = todo[e] /\ want'[e] = want[e]
                                  /\ hand'[e] = hand[e] /\ us'[e] = us[e]
  <2>1. CASE ShootdownDone(c)  BY <1>t, <2>1 DEF ShootdownDone, TlbGoto
  <2>2. CASE ShootdownTimeout(c)  BY <1>t, <2>2 DEF ShootdownTimeout, TlbGoto
  <2>3. ASSUME NEW x \in Cores, ShootdownAsk(c, x)
        PROVE  /\ pc'[c] \in {"ask", "wait", "run"}
               /\ \A e \in Cores : e # c => pc'[e] = pc[e] /\ todo'[e] = todo[e] /\ want'[e] = want[e]
                                           /\ hand'[e] = hand[e] /\ us'[e] = us[e]
    BY <1>t, <1>1, <2>3, SMT DEF ShootdownAsk, TlbGoto, At
  <2> QED  BY <2>1, <2>2, <2>3
<1>3. Trusts(d, p, s, g) /\ Fresh(d, p, s, g)
  <2>1. (Loading(d) => Loading(d)') /\ (pc'[d] = "set" => pc[d] = "set")  BY <1>1, <1>2 DEF Loading
  <2>2. Trusts(d, p, s, g)  BY <1>1, <2>1, TrustsSame
  <2> QED  BY <2>2 DEF FreshInv
<1>4. CASE tlb[d][p] = NoPage \/ tlb[d][p] = pt[s]  BY <1>1, <1>4 DEF Fresh
<1>5. ASSUME NEW e \in Cores, hand[e] = tlb[d][p], us[e] = s, pc[e] = "bump" \/ (Pending(e, d) /\ g # gen[s])
      PROVE  Fresh(d, p, s, g)'
  <2>1. CASE e # c
    <3>1. pc'[e] = pc[e] /\ hand'[e] = hand[e] /\ us'[e] = us[e]  BY <1>2, <2>1
    <3>2. Pending(e, d) => Pending(e, d)'  BY <1>1, <1>2, <2>1 DEF Pending
    <3> QED  BY <1>1, <1>5, <3>1, <3>2 DEF Fresh
  <2>2. CASE e = c
    <3>1. Pending(c, d) /\ g # gen[s]  BY <1>1, <1>5, <2>2
    <3>2. want[c][d] \in Nat /\ done[d] \in Nat /\ svc[d] \in Int /\ req[d] \in Nat  BY SMT, <1>t
    <3>3. SUFFICES UNCHANGED <<hand, us>> /\ Pending(c, d)'
      BY <1>1, <1>5, <2>2, <3>1 DEF Fresh
    <3>4. CASE ShootdownDone(c)
      <4>1. pc[c] = "wait" /\ done[d] >= want[c][d]  BY <3>4 DEF ShootdownDone, At, Acknowledged
      <4>2. todo[c] = {}  BY <4>1 DEF CoreInv, Place
      <4>3. want[c][d] > done[d]  BY <3>1, <4>2 DEF Pending
      <4> QED  BY SMT, <3>2, <4>1, <4>3
    <3>5. CASE ShootdownTimeout(c)
      <4>1. UNCHANGED <<hand, us>> /\ todo' = [todo EXCEPT ![c] = Cores \ {c}]  BY <3>5 DEF ShootdownTimeout
      <4>2. d # c
        <5>1. c \notin todo[c] /\ want[c][c] = 0  BY DEF CoreInv, Place
        <5> QED  BY <3>1, <3>2, <5>1, SMT DEF Pending
      <4> QED  BY <1>t, <4>1, <4>2 DEF Pending
    <3>6. ASSUME NEW x \in Cores, ShootdownAsk(c, x) PROVE UNCHANGED <<hand, us>> /\ Pending(c, d)'
      <4>1. UNCHANGED <<hand, us>> /\ todo' = [todo EXCEPT ![c] = @ \ {x}]  BY <3>6 DEF ShootdownAsk
      <4>2. \/ smp_cur_cr3[x] # us[c] /\ want' = want
            \/ want' = [want EXCEPT ![c][x] = req[x] + 1]
        BY <3>6 DEF ShootdownAsk
      <4>3. CASE x # d
        <5>1. want'[c][d] = want[c][d] /\ (d \in todo[c] => d \in todo'[c])  BY SMT, <1>t, <4>1, <4>2, <4>3
        <5> QED  BY <1>1, <3>1, <4>1, <5>1 DEF Pending
      <4>4. CASE x = d
        <5>1. smp_cur_cr3[d] = us[c]
          <6>1. g # gen[s] /\ Place(d)  BY <3>1 DEF CoreInv
          <6> QED  BY <1>3, <1>5, <2>2, <6>1 DEF Trusts, Place, Loading
        <5>2. want'[c][d] = req[d] + 1  BY SMT, <1>t, <4>2, <4>4, <5>1
        <5>3. done[d] <= req[d] /\ svc[d] <= req[d]  BY DEF CoreInv, Place
        <5>4. want'[c][d] > done[d] /\ want'[c][d] > svc[d]  BY SMT, <3>2, <5>2, <5>3
        <5> QED  BY <1>1, <4>1, <5>4 DEF Pending
      <4> QED  BY <4>3, <4>4
    <3> QED  BY <3>4, <3>5, <3>6
  <2> QED  BY <2>1, <2>2
<1> QED  BY <1>3, <1>4, <1>5 DEF Fresh

\* Pages come and go in the tables, spaces come and go, and the kernel's
\* tables change.
LEMMA FreshTables ==
  ASSUME TlbAssumption, TlbTypeOK, CoreInv, OwnInv, TagInv, FreshInv,
         \/ \E c \in Cores : (\E f \in Frames : Map(c, f)) \/ (\E r \in Spaces : Unmap(c, r))
         \/ \E r \in mach.spaces : SpaceReuse(r)
         \/ KernelChange \/ KernelChanged \/ UNCHANGED tlbVars,
         NEW d \in Cores, NEW p \in Pcids, NEW s \in Spaces, NEW g \in Nat, Trusts(d, p, s, g)'
  PROVE  Fresh(d, p, s, g)'
<1>t. /\ pc \in [Cores -> {"run", "load", "set", "bump", "ask", "wait", "kernel"}]
      /\ cr3 \in [Cores -> [sp : Spaces \union {K}, pcid : Pcids]]
      /\ tlb \in [Cores -> [Pcids -> Frames \union {NoPage}]]
      /\ pt \in [Spaces -> Frames \union {NoPage}] /\ gen \in [Spaces -> Nat] /\ nextId \in Nat
      /\ hand \in [Cores -> Frames \union {NoPage}] /\ us \in [Cores -> Spaces \union {K}]
      /\ id \in [Spaces -> 1..(nextId - 1)]
  BY DEF TlbTypeOK, CoreType, ShootType, StepType, SpaceType
<1>1. UNCHANGED <<mach, smp_cur_cr3, cr3, slot, last, tgt, lgen, todo, want, done, svc>>
  BY DEF Map, Unmap, SpaceReuse, KernelChange, KernelChanged, tlbVars, core, shoot
<1>2. \A e \in Cores : Pending(e, d) => Pending(e, d)'  BY <1>1, PendingSame
<1>3. p \in TagPcids /\ Tag(d, p).id = id'[s] /\ Tag(d, p).gen = g  BY <1>1 DEF Trusts, Tag, TagPcids
<1>a. ASSUME UNCHANGED <<id, gen>>, (Loading(d) => Loading(d)') /\ (pc'[d] = "set" => pc[d] = "set")
      PROVE  Fresh(d, p, s, g)
  <2>1. Trusts(d, p, s, g)  BY <1>1, <1>a, TrustsSame
  <2> QED  BY <2>1 DEF FreshInv
<1>4. ASSUME NEW c \in Cores, NEW f \in Frames, Map(c, f) PROVE Fresh(d, p, s, g)'
  <2>1. /\ UNCHANGED <<id, gen, tlb, pc, hand, us>> /\ pt[cr3[c].sp] = NoPage /\ pt' = [pt EXCEPT ![cr3[c].sp] = f]
    BY <1>4 DEF Map, core, shoot
  <2>2. Fresh(d, p, s, g)  BY <1>a, <2>1 DEF Loading
  <2>3. pt'[s] = pt[s] \/ pt[s] = NoPage  BY <1>t, <2>1
  <2> QED  BY <1>2, <2>1, <2>2, <2>3 DEF Fresh
<1>5. ASSUME NEW c \in Cores, NEW r \in Spaces, Unmap(c, r) PROVE Fresh(d, p, s, g)'
  <2>1. /\ UNCHANGED <<id, gen, tlb>> /\ pc[c] = "run" /\ pt' = [pt EXCEPT ![r] = NoPage]
        /\ hand' = [hand EXCEPT ![c] = pt[r]] /\ us' = [us EXCEPT ![c] = r] /\ pc' = [pc EXCEPT ![c] = "bump"]
    BY <1>5 DEF Unmap, core, At, TlbGoto
  <2>2. (Loading(d) => Loading(d)') /\ (pc'[d] = "set" => pc[d] = "set")  BY <1>t, <2>1 DEF Loading
  <2>3. Fresh(d, p, s, g)  BY <1>a, <2>1, <2>2
  <2>4. CASE tlb[d][p] = NoPage  BY <2>1, <2>4 DEF Fresh
  <2>5. CASE tlb[d][p] = pt[s] /\ s # r
    <3>1. pt'[s] = pt[s]  BY <1>t, <2>1, <2>5
    <3> QED  BY <2>1, <2>5, <3>1 DEF Fresh
  <2>6. CASE tlb[d][p] = pt[s] /\ s = r
    <3>1. hand'[c] = tlb[d][p] /\ us'[c] = s /\ pc'[c] = "bump"  BY <1>t, <2>1, <2>6
    <3> QED  BY <2>1, <3>1 DEF Fresh
  <2>7. ASSUME tlb[d][p] # NoPage, NEW e \in Cores, hand[e] = tlb[d][p], us[e] = s,
               pc[e] = "bump" \/ (Pending(e, d) /\ g # gen[s])
        PROVE  Fresh(d, p, s, g)'
    <3>1. e # c  BY <2>1, <2>7 DEF CoreInv, Place, Freeing
    <3>2. hand'[e] = hand[e] /\ us'[e] = us[e] /\ pc'[e] = pc[e]  BY <1>t, <2>1, <3>1
    <3> QED  BY <1>2, <2>1, <2>7, <3>2 DEF Fresh
  <2> QED  BY <2>3, <2>4, <2>5, <2>6, <2>7 DEF Fresh
<1>6. ASSUME NEW r \in mach.spaces, SpaceReuse(r) PROVE Fresh(d, p, s, g)'
  <2>1. /\ \A c \in Cores : smp_cur_cr3[c] # r /\ cr3[c].sp # r
        /\ id' = [id EXCEPT ![r] = nextId] /\ gen' = [gen EXCEPT ![r] = 0] /\ pt' = [pt EXCEPT ![r] = NoPage]
        /\ UNCHANGED <<tlb, pc, hand, us>>
    BY <1>6 DEF SpaceReuse, core, shoot
  <2>2. s # r
    <3>1. Tag(d, p).id < nextId /\ Tag(d, p).id \in Int  BY <1>3, TagTypes DEF TagInv, Tagged
    <3>2. s = r => id'[s] = nextId  BY <1>t, <2>1
    <3> QED  BY SMT, <1>t, <1>3, <3>1, <3>2
  <2>3. id'[s] = id[s] /\ gen'[s] = gen[s] /\ pt'[s] = pt[s]  BY <1>t, <2>1, <2>2
  <2>4. Trusts(d, p, s, g)  BY <1>1, <1>3, <2>1, <2>3 DEF Trusts, Loading
  <2>5. Fresh(d, p, s, g)  BY <2>4 DEF FreshInv
  <2> QED  BY <1>2, <2>1, <2>3, <2>5, FreshSame
<1>7. CASE KernelChange \/ KernelChanged \/ UNCHANGED tlbVars
  <2>1. UNCHANGED <<id, gen, pt, hand, us>>  BY <1>7 DEF KernelChange, KernelChanged, tlbVars, space, shoot
  <2>2. \/ UNCHANGED pc
        \/ pc[Boot] = "run" /\ pc' = [pc EXCEPT ![Boot] = "kernel"]
        \/ pc[Boot] = "kernel" /\ pc' = [pc EXCEPT ![Boot] = "run"]
    BY <1>7 DEF KernelChange, KernelChanged, tlbVars, TlbGoto, At
  <2>3. tlb' = tlb \/ tlb' = [tlb EXCEPT ![Boot] = Forgot]
    BY <1>7 DEF KernelChange, KernelChanged, tlbVars, core
  <2>4. (Loading(d) => Loading(d)') /\ (pc'[d] = "set" => pc[d] = "set")  BY <1>t, <2>2 DEF Loading
  <2>5. \A e \in Cores : pc[e] = "bump" => pc'[e] = "bump"  BY <1>t, <2>2
  <2>6. tlb'[d][p] = tlb[d][p] \/ tlb'[d][p] = NoPage
    <3>1. Forgot[p] = NoPage  BY DEF Forgot
    <3> QED  BY <1>t, <2>3, <3>1
  <2>7. Fresh(d, p, s, g)  BY <1>a, <2>1, <2>4
  <2> QED  BY <1>2, <2>1, <2>5, <2>6, <2>7, FreshSame
<1> QED  BY <1>4, <1>5, <1>6, <1>7

LEMMA FreshInvKept ==
  ASSUME TlbAssumption, TlbTypeOK, CoreInv, OwnInv, TagInv, FreshInv, [TlbNext]_tlbVars
  PROVE  FreshInv'
<1>1. ASSUME NEW d \in Cores, NEW p \in Pcids, NEW s \in Spaces, NEW g \in Nat, Trusts(d, p, s, g)'
      PROVE  Fresh(d, p, s, g)'
  <2>1. ASSUME NEW c \in Cores,
               \/ LoadReadGen(c) \/ LoadPlain(c) \/ LoadKernel(c) \/ LoadPcid(c) \/ KernelFill(c)
               \/ \E r \in mach.spaces \union {K} : LoadAnnounce(c, r)
        PROVE  Fresh(d, p, s, g)'
    BY <1>1, <2>1, FreshLoad
  <2>2. ASSUME NEW c \in Cores, Fill(c) \/ Service(c) \/ ServiceEnd(c) PROVE Fresh(d, p, s, g)'
    BY <1>1, <2>2, FreshService
  <2>3. ASSUME NEW c \in Cores, ShootdownBump(c) PROVE Fresh(d, p, s, g)'
    BY <1>1, <2>3, FreshBump
  <2>4. ASSUME NEW c \in Cores, ShootdownDone(c) \/ ShootdownTimeout(c) \/ \E x \in Cores : ShootdownAsk(c, x)
        PROVE  Fresh(d, p, s, g)'
    BY <1>1, <2>4, FreshAsk
  <2>5. ASSUME \/ \E c \in Cores : (\E f \in Frames : Map(c, f)) \/ (\E r \in Spaces : Unmap(c, r))
               \/ \E r \in mach.spaces : SpaceReuse(r)
               \/ KernelChange \/ KernelChanged \/ UNCHANGED tlbVars
        PROVE  Fresh(d, p, s, g)'
    BY <1>1, <2>5, FreshTables
  <2> QED  BY <2>1, <2>2, <2>3, <2>4, <2>5 DEF TlbNext, CoreStep
<1> QED  BY <1>1 DEF FreshInv, Pcids

-----------------------------------------------------------------------------
(* The initial states, and the theorems *)


\* Different spaces have different ids from the start.
LEMMA InitialIds ==
  ASSUME TlbAssumption, TlbInit
  PROVE  /\ Cardinality(Spaces) \in Nat
         /\ id \in [Spaces -> 1..Cardinality(Spaces)] /\ \A s, r \in Spaces : id[s] = id[r] => s = r
<1>1. Cardinality(Spaces) \in Nat /\ ExistsBijection(1..Cardinality(Spaces), Spaces)
  BY FS_CardinalityType DEF TlbAssumption
<1>2. ExistsBijection(Spaces, 1..Cardinality(Spaces))  BY <1>1, Fun_ExistsBijSymmetric
<1>3. \E i \in [Spaces -> 1..Cardinality(Spaces)] : \A s, r \in Spaces : i[s] = i[r] => s = r
  BY <1>2 DEF ExistsBijection, Bijection, Injection, IsInjective
<1> QED  BY <1>1, <1>3 DEF TlbInit

LEMMA InitialInv ==
  ASSUME TlbAssumption, TlbInit
  PROVE  IInv /\ KernelInv
<1>0. NSLOT \in Nat \ {0} /\ K \notin Spaces /\ Boot \in Cores  BY DEF TlbAssumption
<1>1. SpaceType
  <2>1. nextId = Cardinality(Spaces) + 1 /\ pt = [s \in Spaces |-> NoPage] /\ own = [f \in Frames |-> {}]
        /\ gen = [s \in Spaces |-> 0]
    BY DEF TlbInit
  <2>2. nextId \in Nat \ {0} /\ nextId - 1 = Cardinality(Spaces)  BY SMT, <2>1, InitialIds
  <2> QED  BY <2>1, <2>2, InitialIds DEF SpaceType
<1>2. CoreType  BY <1>0, PcidFacts, SMT DEF TlbInit, CoreType
<1>3. StepType  BY DEF TlbInit, StepType
<1>4. ShootType  BY DEF TlbInit, ShootType
<1>5. KernelType  BY DEF TlbInit, KernelType
<1>6. TlbTypeOK  BY <1>1, <1>2, <1>3, <1>4, <1>5 DEF TlbInit, TlbTypeOK
<1>7. CoreInv  BY <1>0, SMT DEF TlbInit, CoreInv, Place, Loading, Freeing
<1>8. OwnInv  BY InitialIds DEF TlbInit, OwnInv
<1>9. TagInv
  <2>1. SUFFICES ASSUME NEW c \in Cores PROVE Tagged(c)  BY DEF TagInv
  <2>2. cr3[c].sp = K /\ pc[c] = "run" /\ nextId \in Nat \ {0}  BY <1>1 DEF TlbInit, SpaceType
  <2>3. ASSUME NEW p \in TagPcids PROVE Tag(c, p).id \in {-1, 0}
    BY DEF TlbInit, TagPcids, Tag
  <2>4. \A s \in Spaces : id[s] \in Nat \ {0}
    <3>1. \A s \in Spaces : id[s] \in 1..(nextId - 1)  BY <1>1 DEF SpaceType
    <3> QED  BY SMT, <2>2, <3>1
  <2>5. ASSUME NEW p \in TagPcids PROVE Tag(c, p).id < nextId /\ \A s \in Spaces : Tag(c, p).id # id[s]
    BY SMT, <2>2, <2>3, <2>4
  <2> QED  BY <2>2, <2>5 DEF Tagged
<1>10. FreshInv
  <2>1. \A c \in Cores, p \in Pcids : tlb[c][p] = NoPage  BY DEF TlbInit, Forgot
  <2> QED  BY <2>1 DEF FreshInv, Fresh
<1>11. KernelInv  BY <1>0, SMT DEF TlbInit, KernelInv
<1> QED  BY <1>6, <1>7, <1>8, <1>9, <1>10, <1>11 DEF IInv

LEMMA InvKept ==
  ASSUME TlbAssumption, IInv, KernelInv, [TlbNext]_tlbVars
  PROVE  IInv' /\ KernelInv'
BY TypeKept, CoreInvKept, OwnInvKept, TagInvKept, FreshInvKept, KernelInvKept DEF IInv

LEMMA FreshIsOwned ==
  ASSUME TlbAssumption, IInv
  PROVE  NoStaleTranslation
<1>1. SUFFICES ASSUME NEW c \in Cores, pc[c] # "load", pc[c] # "set", cr3[c].sp # K, tlb[c][cr3[c].pcid] # NoPage
               PROVE  id[cr3[c].sp] \in own[tlb[c][cr3[c].pcid]]
  BY DEF NoStaleTranslation
<1> DEFINE p == cr3[c].pcid
           s == cr3[c].sp
           g == Tag(c, p).gen
<1>2. p \in Pcids /\ s \in Spaces  BY <1>1 DEF IInv, TlbTypeOK, CoreType
<1>3. p \in TagPcids /\ Tag(c, p).id = id[s]  BY <1>1 DEF IInv, TagInv, Tagged
<1>4. g \in Nat  BY <1>3, TagTypes DEF IInv
<1>5. Trusts(c, p, s, g)  BY <1>1, <1>3 DEF Trusts, Loading
<1>6. Fresh(c, p, s, g)  BY <1>2, <1>4, <1>5 DEF IInv, FreshInv
<1>7. CASE tlb[c][p] = pt[s]  BY <1>1, <1>2, <1>7 DEF IInv, OwnInv
<1>8. ASSUME NEW e \in Cores, hand[e] = tlb[c][p], us[e] = s PROVE id[s] \in own[tlb[c][p]]
  BY <1>1, <1>8 DEF IInv, OwnInv
<1> QED  BY <1>1, <1>6, <1>7, <1>8 DEF Fresh

\* On any number of cores, with any number of PCIDs and without them, no core
\* reaches through what it remembers a page that is not its space's: what
\* vm_release and page_out free after the shootdown, what a space made where
\* an old one was has, and what a PCID held before are all forgotten.
THEOREM PagesForgotten == TlbAssumption => (TlbSpec => []NoStaleTranslation)
<1>1. SUFFICES ASSUME TlbAssumption PROVE TlbSpec => []NoStaleTranslation  OBVIOUS
<1>2. TlbInit => IInv /\ KernelInv  BY <1>1, InitialInv
<1>3. IInv /\ KernelInv /\ [TlbNext]_tlbVars => IInv' /\ KernelInv'  BY <1>1, InvKept
<1>4. IInv => NoStaleTranslation  BY <1>1, FreshIsOwned
<1> QED  BY <1>2, <1>3, <1>4, PTL DEF TlbSpec

\* On any number of cores, one that says it has forgotten the kernel's tables
\* of before a change (core_t.kgen) remembers none of their pages.
THEOREM KernelPagesForgotten == TlbAssumption => (TlbSpec => []KernelForgotten)
<1>1. SUFFICES ASSUME TlbAssumption PROVE TlbSpec => []KernelForgotten  OBVIOUS
<1>2. TlbInit => IInv /\ KernelInv  BY <1>1, InitialInv
<1>3. IInv /\ KernelInv /\ [TlbNext]_tlbVars => IInv' /\ KernelInv'  BY <1>1, InvKept
<1>4. IInv /\ KernelInv => KernelForgotten
  BY DEF KernelInv, KernelForgotten, IInv, TlbTypeOK, KernelType
<1> QED  BY <1>2, <1>3, <1>4, PTL DEF TlbSpec
=============================================================================
