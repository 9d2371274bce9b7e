-------------------------------- MODULE Disk --------------------------------
(***************************************************************************)
(* A disk command and the wait for it: io_lock, io_wait and io_wake        *)
(* (kernel/iowait.c) under the drivers for NVMe, AHCI and virtio disks     *)
(* (kernel/nvme.c, ahci.c, virtio_blk.c).  Tasks run on the boot core and  *)
(* change places only where they sleep; the device and its interrupt go on *)
(* at any moment, and a device may answer after the driver gave up.        *)
(***************************************************************************)
EXTENDS Integers

CONSTANTS
    Tasks,
    Drivers,    \* the drivers looked at, one per behaviour
    QDEPTH,     \* entries of the NVMe queues
    MaxCmds,    \* bound: commands in all
    MaxLate,    \* bound: commands given up (QDEPTH - 2 at most: an NVMe
                \* command given up keeps its place in the queue)
    Nil

DiskAssumption ==
    /\ QDEPTH \in Nat \ {0, 1} /\ MaxCmds \in Nat /\ MaxLate \in 0..(QDEPTH - 2)
    /\ Drivers \subseteq {"nvme", "ahci", "virtio"} /\ Nil \notin Tasks \union {"ok", "error"}

VARIABLES
    drv,        \* the driver
    irq,        \* the device has an interrupt line
    busy, pid,  \* iowait_t
    dpc,         \* where each task is
    cmd,        \* its command: a number, NVMe's cid
    over,       \* its time limit has passed
    dwoken,      \* task_wake has ended its sleep
    last,       \* n->cid: the commands so far
    late,       \* commands given up
    flying,     \* commands the device has not answered
    done,       \* commands it has executed
    line,       \* its interrupt is raised
    masked,     \* NVMe: the handler has masked it
    cq, tail, head, phase,  \* NVMe: the completion queue, the device's place and lap, the driver's
    ci, err, is_seen,       \* AHCI: PX_CI, PX_IS's error bit, and the one the handler saw
    used, last_used, status,  \* virtio
    answer      \* what its last command returned: None, ok or error

nvme == <<cq, tail, head, phase>>
ahci == <<ci, err, is_seen>>
virtio == <<used, last_used, status>>
device == <<flying, done, line, masked>>
lock == <<busy, pid, dwoken>>
diskVars == <<drv, irq, lock, dpc, cmd, over, last, late, device, nvme, ahci, virtio, answer>>

DiskInit ==
    /\ drv \in Drivers /\ irq \in BOOLEAN
    /\ busy = FALSE /\ pid = Nil
    /\ dpc = [t \in Tasks |-> "app"] /\ cmd = [t \in Tasks |-> 0]
    /\ over = [t \in Tasks |-> FALSE] /\ dwoken = [t \in Tasks |-> FALSE]
    /\ last = 0 /\ late = 0 /\ flying = {} /\ done = {} /\ line = FALSE /\ masked = FALSE
    /\ cq = [i \in 0..(QDEPTH - 1) |-> [cid |-> 0, ok |-> FALSE, phase |-> 0]]
    /\ tail = 0 /\ head = 0 /\ phase = 1
    /\ ci = FALSE /\ err = FALSE /\ is_seen = FALSE
    /\ used = 0 /\ last_used = 0 /\ status = "none"
    /\ answer = [t \in Tasks |-> Nil]

DiskGoto(t, l) == dpc' = [dpc EXCEPT ![t] = l]

-----------------------------------------------------------------------------
(* The device *)

\* NVMe: the lap its next entry is written in
Lap == IF (tail \div QDEPTH) % 2 = 0 THEN 1 ELSE 0

\* the device executes a command, or fails it, and says so
Answer(c, ok) ==
    /\ c \in flying
    /\ flying' = flying \ {c} /\ line' = irq
    /\ done' = IF ok THEN done \union {c} ELSE done
    /\ CASE drv = "nvme" ->
              /\ cq' = [cq EXCEPT ![tail % QDEPTH] = [cid |-> c, ok |-> ok, phase |-> Lap]]
              /\ tail' = tail + 1
              /\ UNCHANGED <<head, phase, ahci, virtio>>
         [] drv = "ahci" ->
              /\ IF ok THEN ci' = FALSE /\ UNCHANGED err ELSE err' = TRUE /\ UNCHANGED ci
              /\ UNCHANGED <<is_seen, nvme, virtio>>
         [] drv = "virtio" ->
              /\ used' = used + 1 /\ status' = IF ok THEN "ok" ELSE "error"
              /\ UNCHANGED <<last_used, nvme, ahci>>
    /\ UNCHANGED <<drv, irq, lock, dpc, cmd, over, last, late, masked, answer>>

\* nvme_irq, which masks it for the rest of the command, ahci_irq, vblk_irq;
\* the line goes down, io_wake
Irq ==
    /\ line /\ ~masked
    /\ line' = FALSE /\ masked' = (drv = "nvme")
    /\ is_seen' = (is_seen \/ err) /\ err' = FALSE
    /\ IF pid # Nil /\ dpc[pid] = "asleep" THEN dwoken' = [dwoken EXCEPT ![pid] = TRUE]
       ELSE UNCHANGED dwoken
    /\ UNCHANGED <<drv, irq, busy, pid, dpc, cmd, over, last, late, flying, done, nvme, ci, virtio, answer>>

-----------------------------------------------------------------------------
(* A command *)

\* what the driver asks the device for the next command
Ring ==
    /\ flying' = flying \union {last'} /\ masked' = FALSE
    /\ CASE drv = "nvme" -> UNCHANGED <<ahci, virtio>>
         [] drv = "ahci" -> ci' = TRUE /\ err' = FALSE /\ is_seen' = FALSE /\ UNCHANGED virtio
         [] drv = "virtio" -> status' = "none" /\ UNCHANGED <<used, last_used, ahci>>
    /\ UNCHANGED nvme

StartIfNotWhile(t) ==
    /\ dpc[t] = "app" /\ last < MaxCmds /\ (busy => \E u \in Tasks : dpc[u] = "asleep")
    /\ busy' = TRUE /\ last' = last + 1
    /\ cmd' = [cmd EXCEPT ![t] = last'] /\ answer' = [answer EXCEPT ![t] = Nil]
    /\ Ring /\ DiskGoto(t, "wait")
    /\ UNCHANGED <<drv, irq, pid, dwoken, over, late, done, line>>

\* io_lock, sleeping while another task has the device; then submit,
\* exec_locked or request up to its io_wait
Start(t) ==
    /\ dpc[t] = "app" /\ last < MaxCmds /\ ~busy
    /\ busy' = TRUE /\ last' = last + 1
    /\ cmd' = [cmd EXCEPT ![t] = last'] /\ answer' = [answer EXCEPT ![t] = Nil]
    /\ Ring /\ DiskGoto(t, "wait")
    /\ UNCHANGED <<drv, irq, pid, dwoken, over, late, done, line>>

\* cq_ready, cmd_done, req_done
Ready ==
    CASE drv = "nvme" -> cq[head].phase = phase
      [] drv = "ahci" -> ~ci \/ err \/ is_seen
      [] drv = "virtio" -> used # last_used

\* the time limit passes (5 s and more)
Expire(t) ==
    /\ dpc[t] # "app" /\ ~over[t] /\ late < MaxLate
    /\ over' = [over EXCEPT ![t] = TRUE]
    /\ UNCHANGED <<drv, irq, lock, dpc, cmd, last, late, device, nvme, ahci, virtio, answer>>

DiskReturn(t, a) ==
    /\ answer' = [answer EXCEPT ![t] = a]
    /\ over' = [over EXCEPT ![t] = FALSE]
    /\ busy' = FALSE /\ DiskGoto(t, "app")

TakeAnyCid(t) ==
    /\ dpc[t] = "wait" /\ Ready
    /\ head' = (head + 1) % QDEPTH /\ phase' = IF head' = 0 THEN 1 - phase ELSE phase
    /\ DiskReturn(t, IF cq[head].ok THEN "ok" ELSE "error")
    /\ UNCHANGED <<drv, irq, pid, dwoken, cmd, last, late, device, cq, tail, ahci, virtio>>

\* io_wait returns 0 and the driver takes the answer; NVMe goes on waiting
\* after the answer to an earlier command
TakeAnswer(t) ==
    /\ dpc[t] = "wait" /\ Ready
    /\ CASE drv = "nvme" ->
              /\ head' = (head + 1) % QDEPTH
              /\ phase' = IF head' = 0 THEN 1 - phase ELSE phase
              /\ IF cq[head].cid = cmd[t] THEN DiskReturn(t, IF cq[head].ok THEN "ok" ELSE "error")
                 ELSE over' = [over EXCEPT ![t] = FALSE] /\ UNCHANGED <<busy, dpc, answer>>
              /\ UNCHANGED <<cq, tail, flying, line, ahci, virtio>>
         [] drv = "ahci" ->
              /\ DiskReturn(t, IF err \/ is_seen THEN "error" ELSE "ok")
              /\ flying' = IF err \/ is_seen THEN {} ELSE flying
              /\ ci' = FALSE /\ err' = FALSE
              /\ UNCHANGED <<is_seen, line, nvme, virtio>>
         [] drv = "virtio" ->
              /\ last_used' = used /\ line' = FALSE
              /\ DiskReturn(t, IF status = "ok" THEN "ok" ELSE "error")
              /\ UNCHANGED <<used, status, flying, nvme, ahci>>
    /\ UNCHANGED <<drv, irq, pid, dwoken, cmd, last, late, done, masked>>

\* io_wait returns -1; AHCI stops and starts the port, which ends the command
Abandon(t) ==
    /\ dpc[t] = "wait" /\ ~Ready /\ over[t]
    /\ late' = late + 1
    /\ DiskReturn(t, "error")
    /\ IF drv = "ahci" THEN flying' = {} /\ ci' = FALSE ELSE UNCHANGED <<flying, ci>>
    /\ UNCHANGED <<drv, irq, pid, dwoken, cmd, last, done, line, masked, nvme, err, is_seen, virtio>>

\* not yet: with a line w->pid is set ...
SetPid(t) ==
    /\ dpc[t] = "wait" /\ ~Ready /\ ~over[t] /\ irq
    /\ pid' = t /\ DiskGoto(t, "pid")
    /\ UNCHANGED <<drv, irq, busy, dwoken, cmd, over, last, late, device, nvme, ahci, virtio, answer>>

\* ... and after one more look the task sleeps; without one it yields
IoSleep(t) ==
    /\ \/ dpc[t] = "pid" /\ DiskGoto(t, IF Ready THEN "awake" ELSE "asleep")
       \/ dpc[t] = "wait" /\ ~Ready /\ ~over[t] /\ ~irq /\ DiskGoto(t, "asleep")
    /\ UNCHANGED <<drv, irq, lock, cmd, over, last, late, device, nvme, ahci, virtio, answer>>

\* io_wake has ended the sleep
IoWoken(t) ==
    /\ dpc[t] = "asleep" /\ dwoken[t]
    /\ dwoken' = [dwoken EXCEPT ![t] = FALSE] /\ DiskGoto(t, "awake")
    /\ UNCHANGED <<drv, irq, busy, pid, cmd, over, last, late, device, nvme, ahci, virtio, answer>>

\* its 2 ms (or its turn to yield) are over
IoNapEnds(t) ==
    /\ dpc[t] = "asleep" /\ ~dwoken[t] /\ DiskGoto(t, "awake")
    /\ UNCHANGED <<drv, irq, lock, cmd, over, last, late, device, nvme, ahci, virtio, answer>>

\* w->pid = -1
Again(t) ==
    /\ dpc[t] = "awake"
    /\ pid' = Nil /\ DiskGoto(t, "wait")
    /\ UNCHANGED <<drv, irq, busy, dwoken, cmd, over, last, late, device, nvme, ahci, virtio, answer>>

-----------------------------------------------------------------------------

Waiting(t) == TakeAnswer(t) \/ Abandon(t) \/ SetPid(t) \/ IoSleep(t) \/ IoWoken(t) \/ IoNapEnds(t) \/ Again(t)

DiskNext ==
    \/ Irq
    \/ \E c \in flying, ok \in BOOLEAN : Answer(c, ok)
    \/ \E t \in Tasks : Start(t) \/ Expire(t) \/ Waiting(t)

DiskSpec == DiskInit /\ [][DiskNext]_diskVars

\* a time limit passes; beyond their bound the device answers
TimePasses ==
    \/ \E t \in Tasks : Expire(t)
    \/ late = MaxLate /\ \E c \in flying, ok \in BOOLEAN : Answer(c, ok)

\* a task's turn comes, and time passes
DiskLiveSpec == DiskSpec /\ (\A t \in Tasks : WF_diskVars(Waiting(t))) /\ WF_diskVars(TimePasses)

-----------------------------------------------------------------------------
(* Properties *)

\* One command at a time: a task has the device from io_lock to io_unlock,
\* over every sleep in between.
OneAtATime ==
    /\ \A t, u \in Tasks : dpc[t] # "app" /\ dpc[u] # "app" => t = u
    /\ busy = \E t \in Tasks : dpc[t] # "app"

Executed == \A t \in Tasks : answer[t] = "ok" => cmd[t] \in done

\* A command that returns 0 has been executed: the answer to an earlier one,
\* given up long ago, is not taken for its own (NVMe compares the cid, AHCI
\* starts the port anew).
AnswerIsOwn == drv # "virtio" \/ late = 0 => Executed

\* "one request: ... 0 = ok" (virtio_blk.c): of virtio's requests, too.
RequestIsOwn == Executed

\* Every command returns, though the interrupt may come between the look
\* and the sleep, or the device never answer.
CommandsEnd == \A t \in Tasks : dpc[t] # "app" ~> dpc[t] = "app"
=============================================================================
