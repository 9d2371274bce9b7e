----------------------------- MODULE DiskProofs -----------------------------
(***************************************************************************)
(* What io_lock, io_wait and the three drivers promise for every number of *)
(* tasks, of commands and of commands given up, and every depth of NVMe's  *)
(* queue.                                                                  *)
(***************************************************************************)
EXTENDS Disk, TLAPS

DiskTypes ==
    /\ drv \in {"nvme", "ahci", "virtio"} /\ busy \in BOOLEAN
    /\ DOMAIN dpc = Tasks /\ DOMAIN cmd = Tasks /\ DOMAIN answer = Tasks
    /\ last \in Nat /\ late \in Nat /\ used \in Nat
    /\ head \in 0..(QDEPTH - 1) /\ DOMAIN cq = 0..(QDEPTH - 1)

\* The command of whoever has the device is the latest.
Latest == \A t \in Tasks : dpc[t] # "app" => cmd[t] = last

\* NVMe: an entry of the completion queue, of any lap, says the truth.
NvmeInv == \A i \in 0..(QDEPTH - 1) : cq[i].ok => cq[i].cid \in done

\* AHCI: the device has the latest command at most, and its bit goes down
\* only when it has been executed; between commands the port has none.
AhciInv ==
    drv = "ahci" =>
      IF busy THEN flying \subseteq {last} /\ (~ci => flying = {} /\ last \in done)
      ELSE flying = {}

\* virtio, as long as none was given up: the used index is one ahead when the
\* latest request was answered, and the status is then its own.
VirtioInv ==
    drv = "virtio" /\ late = 0 =>
      IF busy THEN \/ flying = {last} /\ used = last_used
                   \/ flying = {} /\ used # last_used /\ (status = "ok" => last \in done)
      ELSE flying = {} /\ used = last_used

DiskInv ==
    DiskTypes /\ OneAtATime /\ Latest /\ NvmeInv /\ AhciInv /\ VirtioInv /\ AnswerIsOwn

LEMMA DiskInitInv ==
  ASSUME DiskAssumption, DiskInit
  PROVE  DiskInv
<1>1. DiskTypes
  <2>1. 0 \in 0..(QDEPTH - 1) /\ 0 \in Nat  BY DEF DiskAssumption
  <2>2. drv \in {"nvme", "ahci", "virtio"}  BY Zenon DEF DiskAssumption, DiskInit
  <2>3. busy \in BOOLEAN /\ last \in Nat /\ late \in Nat /\ used \in Nat /\ head \in 0..(QDEPTH - 1)
    BY <2>1, Zenon DEF DiskInit
  <2>4. DOMAIN dpc = Tasks /\ DOMAIN cmd = Tasks /\ DOMAIN answer = Tasks /\ DOMAIN cq = 0..(QDEPTH - 1)
    BY Zenon DEF DiskInit
  <2> QED  BY <2>2, <2>3, <2>4 DEF DiskTypes
<1>2. OneAtATime /\ Latest  BY DEF DiskInit, OneAtATime, Latest
<1>3. NvmeInv /\ AhciInv /\ VirtioInv  BY DEF DiskInit, NvmeInv, AhciInv, VirtioInv
<1>4. AnswerIsOwn  BY DEF DiskAssumption, DiskInit, AnswerIsOwn, Executed
<1> QED  BY <1>1, <1>2, <1>3, <1>4 DEF DiskInv

-----------------------------------------------------------------------------
(* The device *)

LEMMA AnswerKeeps ==
  ASSUME DiskAssumption, DiskInv, NEW c \in flying, NEW ok \in BOOLEAN, Answer(c, ok)
  PROVE  DiskInv'
<1> USE DEF DiskInv
<1>1. /\ flying' = flying \ {c} /\ done \subseteq done' /\ (ok => c \in done')
      /\ UNCHANGED <<drv, busy, dpc, cmd, last, late, answer, head, last_used>>
  BY DEF Answer, DiskTypes, lock, nvme, ahci, virtio
<1>2. /\ drv = "nvme" => cq' = [cq EXCEPT ![tail % QDEPTH] = [cid |-> c, ok |-> ok, phase |-> Lap]]
      /\ drv # "nvme" => UNCHANGED cq
      /\ drv = "ahci" => UNCHANGED ci \/ (ok /\ ci' = FALSE)
      /\ drv = "virtio" => used' = used + 1 /\ status' = IF ok THEN "ok" ELSE "error"
      /\ drv # "virtio" => UNCHANGED used
  BY DEF Answer, DiskTypes, nvme, ahci, virtio
<1>3. DiskTypes'  BY <1>1, <1>2 DEF DiskTypes
<1>4. OneAtATime' /\ Latest'  BY <1>1 DEF OneAtATime, Latest
<1>5. NvmeInv'
  <2> SUFFICES ASSUME NEW i \in 0..(QDEPTH - 1), cq'[i].ok  PROVE cq'[i].cid \in done'
    BY DEF NvmeInv
  <2>1. CASE cq'[i] = cq[i]  BY <1>1, <2>1 DEF NvmeInv
  <2>2. CASE cq'[i] = [cid |-> c, ok |-> ok, phase |-> Lap]  BY <1>1, <2>2
  <2> QED  BY <1>2, <2>1, <2>2 DEF DiskTypes
<1>6. AhciInv'  BY <1>1, <1>2 DEF AhciInv
<1>7. VirtioInv'  BY <1>1, <1>2 DEF VirtioInv, DiskTypes
<1>8. AnswerIsOwn'  BY <1>1 DEF AnswerIsOwn, Executed
<1> QED  BY <1>3, <1>4, <1>5, <1>6, <1>7, <1>8

\* A step that touches neither answers nor what says that there is one.
LEMMA OthersKeep ==
  ASSUME DiskInv, UNCHANGED <<drv, busy, cmd, last, late, flying, done, cq, head, ci, virtio, answer>>,
         \/ UNCHANGED dpc
         \/ \E t \in Tasks : \E l : dpc[t] # "app" /\ l # "app" /\ DiskGoto(t, l)
  PROVE  DiskInv'
<1> USE DEF DiskInv
<1>1. DiskTypes'  BY DEF DiskTypes, DiskGoto, virtio
<1>2. DOMAIN dpc' = Tasks /\ \A t \in Tasks : dpc'[t] = "app" <=> dpc[t] = "app"  BY DEF DiskTypes, DiskGoto
<1>3. OneAtATime' /\ Latest'  BY <1>2 DEF OneAtATime, Latest
<1>4. NvmeInv' /\ AhciInv' /\ VirtioInv'  BY DEF NvmeInv, AhciInv, VirtioInv, virtio
<1>5. AnswerIsOwn'  BY DEF AnswerIsOwn, Executed
<1> QED  BY <1>1, <1>3, <1>4, <1>5

-----------------------------------------------------------------------------
(* The drivers *)

LEMMA StartKeeps ==
  ASSUME DiskAssumption, DiskInv, NEW t \in Tasks, Start(t)
  PROVE  DiskInv'
<1> USE DEF DiskInv
<1>1. /\ ~busy /\ busy' = TRUE /\ last' = last + 1 /\ dpc[t] = "app"
      /\ dpc' = [dpc EXCEPT ![t] = "wait"] /\ cmd' = [cmd EXCEPT ![t] = last']
      /\ answer' = [answer EXCEPT ![t] = Nil] /\ flying' = flying \union {last'}
      /\ UNCHANGED <<drv, late, done, cq, head>>
  BY DEF Start, Ring, DiskGoto, nvme
<1>2. /\ drv = "ahci" => ci' = TRUE
      /\ UNCHANGED <<used, last_used>>
  BY DEF Start, Ring, DiskTypes, virtio
<1>3. \A u \in Tasks : dpc[u] = "app"  BY <1>1 DEF OneAtATime
<1>4. DiskTypes'  BY <1>1, <1>2 DEF DiskTypes
<1>5. OneAtATime' /\ Latest'  BY <1>1, <1>3 DEF OneAtATime, Latest, DiskTypes
<1>6. NvmeInv'  BY <1>1 DEF NvmeInv
<1>7. AhciInv' /\ VirtioInv'  BY <1>1, <1>2 DEF AhciInv, VirtioInv, DiskTypes
<1>8. AnswerIsOwn'  BY <1>1 DEF AnswerIsOwn, Executed, DiskAssumption, DiskTypes
<1> QED  BY <1>4, <1>5, <1>6, <1>7, <1>8

\* The task that has the device gives it back with an answer that is true.
LEMMA ReturnKeeps ==
  ASSUME DiskAssumption, DiskInv, NEW t \in Tasks, dpc[t] = "wait", NEW a, DiskReturn(t, a),
         drv # "virtio" \/ late' = 0 => (a = "ok" => last \in done),
         head' \in 0..(QDEPTH - 1), late' \in Nat, late' = 0 => late = 0,
         UNCHANGED <<drv, cmd, last, done, cq, used>>,
         drv = "ahci" => flying' = {},
         drv = "virtio" /\ late' = 0 => flying' = {} /\ last_used' = used
  PROVE  DiskInv'
<1> USE DEF DiskInv
<1>1. /\ busy' = FALSE /\ dpc' = [dpc EXCEPT ![t] = "app"] /\ answer' = [answer EXCEPT ![t] = a]
  BY DEF DiskReturn, DiskGoto
<1>2. \A u \in Tasks : dpc'[u] = "app"  BY <1>1 DEF OneAtATime, DiskTypes
<1>3. DiskTypes'  BY <1>1 DEF DiskTypes
<1>4. OneAtATime' /\ Latest'  BY <1>1, <1>2 DEF OneAtATime, Latest
<1>5. NvmeInv' /\ AhciInv' /\ VirtioInv'  BY <1>1 DEF NvmeInv, AhciInv, VirtioInv
<1>6. cmd[t] = last  BY DEF Latest
<1>7. AnswerIsOwn'  BY <1>1, <1>6 DEF AnswerIsOwn, Executed, DiskTypes
<1> QED  BY <1>3, <1>4, <1>5, <1>7

LEMMA TakeAnswerKeeps ==
  ASSUME DiskAssumption, DiskInv, NEW t \in Tasks, TakeAnswer(t)
  PROVE  DiskInv'
<1> USE DEF DiskInv
<1>1. /\ dpc[t] = "wait" /\ Ready /\ UNCHANGED <<drv, cmd, last, late, done>>
  BY DEF TakeAnswer
<1>2. busy /\ cmd[t] = last  BY <1>1 DEF OneAtATime, Latest
<1>3. CASE drv = "nvme"
  <2>1. /\ head' = (head + 1) % QDEPTH /\ UNCHANGED <<cq, flying, ahci, virtio>>
        /\ IF cq[head].cid = cmd[t] THEN DiskReturn(t, IF cq[head].ok THEN "ok" ELSE "error")
           ELSE UNCHANGED <<busy, dpc, answer>>
    BY <1>3 DEF TakeAnswer
  <2>2. head' \in 0..(QDEPTH - 1)  BY <2>1 DEF DiskTypes, DiskAssumption
  <2>3. CASE cq[head].cid = cmd[t]
    <3>1. cq[head].ok => last \in done  BY <1>2, <2>3 DEF NvmeInv, DiskTypes
    <3> QED  BY <1>1, <1>3, <2>1, <2>2, <2>3, <3>1, ReturnKeeps DEF virtio, DiskTypes
  <2>4. CASE cq[head].cid # cmd[t]
    <3>1. DiskTypes' /\ OneAtATime' /\ Latest'
      BY <1>1, <2>1, <2>2, <2>4 DEF DiskTypes, OneAtATime, Latest, virtio
    <3>2. NvmeInv' /\ AhciInv' /\ VirtioInv'
      BY <1>1, <1>3, <2>1 DEF NvmeInv, AhciInv, VirtioInv
    <3>3. AnswerIsOwn'  BY <1>1, <2>1, <2>4 DEF AnswerIsOwn, Executed
    <3> QED  BY <3>1, <3>2, <3>3
  <2> QED  BY <2>3, <2>4
<1>4. CASE drv = "ahci"
  <2>1. /\ DiskReturn(t, IF err \/ is_seen THEN "error" ELSE "ok")
        /\ flying' = IF err \/ is_seen THEN {} ELSE flying
        /\ UNCHANGED <<nvme, virtio>>
    BY <1>4 DEF TakeAnswer
  <2>2. ~(err \/ is_seen) => ~ci  BY <1>1, <1>4 DEF Ready
  <2>3. ~(err \/ is_seen) => flying = {} /\ last \in done  BY <1>2, <1>4, <2>2 DEF AhciInv
  <2>4. flying' = {}  BY <2>1, <2>3
  <2> DEFINE a == IF err \/ is_seen THEN "error" ELSE "ok"
  <2>5. DiskReturn(t, a) /\ (a = "ok" => last \in done)  BY <2>1, <2>3
  <2> HIDE DEF a
  <2> QED  BY <1>1, <1>4, <2>1, <2>4, <2>5, ReturnKeeps DEF nvme, virtio, DiskTypes
<1>5. CASE drv = "virtio"
  <2>1. /\ last_used' = used /\ DiskReturn(t, IF status = "ok" THEN "ok" ELSE "error")
        /\ UNCHANGED <<used, flying, nvme>>
    BY <1>5 DEF TakeAnswer
  <2>2. late = 0 => flying = {} /\ (status = "ok" => last \in done)
    BY <1>1, <1>2, <1>5 DEF Ready, VirtioInv
  <2> DEFINE a == IF status = "ok" THEN "ok" ELSE "error"
  <2>3. DiskReturn(t, a) /\ (late = 0 => (a = "ok" => last \in done))  BY <2>1, <2>2
  <2> HIDE DEF a
  <2> QED  BY <1>1, <1>5, <2>1, <2>2, <2>3, ReturnKeeps DEF nvme, DiskTypes
<1> QED  BY <1>3, <1>4, <1>5 DEF DiskTypes

LEMMA AbandonKeeps ==
  ASSUME DiskAssumption, DiskInv, NEW t \in Tasks, Abandon(t)
  PROVE  DiskInv'
<1> USE DEF DiskInv
<1>1. /\ dpc[t] = "wait" /\ late' = late + 1 /\ DiskReturn(t, "error")
      /\ UNCHANGED <<drv, cmd, last, done, cq, head, used>> /\ (drv = "ahci" => flying' = {})
  BY DEF Abandon, nvme, virtio
<1>2. late' \in Nat /\ late' # 0  BY <1>1 DEF DiskTypes
<1> QED  BY <1>1, <1>2, ReturnKeeps DEF DiskTypes

LEMMA DiskStepKeeps ==
  ASSUME DiskAssumption, DiskInv, [DiskNext]_diskVars
  PROVE  DiskInv'
<1> USE DEF lock, device, nvme, ahci, virtio
<1>1. CASE Irq  BY <1>1, OthersKeep DEF Irq
<1>2. CASE \E c \in flying, ok \in BOOLEAN : Answer(c, ok)  BY <1>2, AnswerKeeps
<1>3. ASSUME NEW t \in Tasks, Start(t) \/ Expire(t) \/ Waiting(t)  PROVE DiskInv'
  <2>1. CASE Start(t)  BY <2>1, StartKeeps
  <2>2. CASE Expire(t)  BY <2>2, OthersKeep DEF Expire
  <2>3. CASE TakeAnswer(t)  BY <2>3, TakeAnswerKeeps
  <2>4. CASE Abandon(t)  BY <2>4, AbandonKeeps
  <2>5. CASE SetPid(t)  BY <2>5, OthersKeep DEF SetPid
  <2>6. CASE IoSleep(t)  BY <2>6, OthersKeep DEF IoSleep
  <2>7. CASE IoWoken(t)  BY <2>7, OthersKeep DEF IoWoken
  <2>8. CASE IoNapEnds(t)  BY <2>8, OthersKeep DEF IoNapEnds
  <2>9. CASE Again(t)  BY <2>9, OthersKeep DEF Again
  <2> QED  BY <1>3, <2>1, <2>2, <2>3, <2>4, <2>5, <2>6, <2>7, <2>8, <2>9 DEF Waiting
<1>4. CASE UNCHANGED diskVars  BY <1>4, OthersKeep DEF diskVars
<1> QED  BY <1>1, <1>2, <1>3, <1>4 DEF DiskNext

-----------------------------------------------------------------------------
(* The theorems *)

LEMMA DiskInvariant ==
  ASSUME DiskAssumption
  PROVE  DiskSpec => []DiskInv
<1>1. DiskInit => DiskInv  BY DiskInitInv
<1>2. DiskInv /\ [DiskNext]_diskVars => DiskInv'  BY DiskStepKeeps
<1> QED  BY <1>1, <1>2, PTL DEF DiskSpec

\* io_lock gives the device to one task at a time, over every sleep of
\* io_wait, whichever way the command ends.
THEOREM DeviceExclusive ==
  ASSUME DiskAssumption
  PROVE  DiskSpec => []OneAtATime
<1>1. DiskInv => OneAtATime  BY DEF DiskInv
<1> QED  BY <1>1, DiskInvariant, PTL

\* A command that returns 0 was executed, however many earlier ones were
\* given up and answered late (virtio: as long as none was).
THEOREM AnswersOwn ==
  ASSUME DiskAssumption
  PROVE  DiskSpec => []AnswerIsOwn
<1>1. DiskInv => AnswerIsOwn  BY DEF DiskInv
<1> QED  BY <1>1, DiskInvariant, PTL
=============================================================================
