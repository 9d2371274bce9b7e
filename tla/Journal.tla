------------------------------ MODULE Journal ------------------------------
(***************************************************************************)
(* The installed system's files (kernel/ext4.c): operations change blocks  *)
(* in the cache, a flush writes the changed data in place and the changed  *)
(* metadata through the journal, a mount replays it.  The disk has a write *)
(* cache of its own; a power cut keeps any part of what is in it.          *)
(*                                                                         *)
(* A file has at most one block; what its folder, its inode and its extent *)
(* tree say of it is one metadata block, named as the file.  Block 0 and   *)
(* the descriptors are "sb".  A number stands for every write: it is the   *)
(* file's time of change and the data's contents.                          *)
(***************************************************************************)
EXTENDS Integers, FiniteSets, SequencesExt

CONSTANTS
    Files,      \* names of files
    Blocks,     \* blocks for data
    Starts,     \* the files there may be at first, and their blocks
    Log,        \* the journal's blocks, in order
    Room,       \* jroom(): metadata blocks a transaction holds
    MaxOps,     \* bound: operations
    MaxCuts,    \* bound: power cuts
    MaxWork,    \* bound: operations and power cuts together
    Faults,     \* steps of a flush at which the disk may return an error
    None

ASSUME JournalAssumption ==
    /\ IsFiniteSet(Files) /\ IsFiniteSet(Blocks) /\ None \notin Blocks
    /\ Room \in Nat \ {0} /\ Len(Log) >= 2 + (IF Room < Cardinality(Files) + 2 THEN Room ELSE Cardinality(Files) + 2)
    /\ MaxOps \in Nat /\ MaxCuts \in Nat /\ MaxWork \in Nat

VARIABLES
    pc,         \* where the flush or the mount is: "idle" between calls
    bitmap,     \* blocks in use
    inode,      \* each file: the number it was made by, its block, its last write
    dirty,      \* changed metadata blocks
    data,       \* changed data blocks, and what they hold
    todo,       \* flush_locked's list m, what is left of it
    jseq,       \* g_jseq
    disk, pend, \* what is on the disk for good, and what its write cache has
    ops, cuts,  \* operations and cuts so far
    synced,     \* the metadata of the last flush that returned 0, or mount
    tried,      \* the metadata of the flushes since, that a cut or an error ended
    reused      \* blocks of synced's files given out again since

memory == <<bitmap, inode, dirty, data, todo, jseq>>
ghost == <<ops, cuts, synced, tried, reused>>
vars == <<pc, memory, disk, pend, ghost>>

Absent == [id |-> 0, blk |-> None, n |-> 0]
Made(i) == inode[i] # Absent

\* the metadata blocks, in the disk's order
Order == <<"sb", "bitmap">> \o SetToSeq(Files)
Meta == ToSet(Order)

Addrs == Meta \union Blocks \union {"jsb"} \union ToSet(Log)

Free(B) == Cardinality(Blocks \ B)

Nothing == [a \in {} |-> 0]

Born(f) == CHOOSE i \in DOMAIN Order : Order[i] = f
Time == Len(Order) + ops + 1

\* a disk as an earlier run left it, with files that have the blocks B
Before(B) ==
    LET I == [f \in Files |-> IF f \in DOMAIN B THEN [id |-> Born(f), blk |-> B[f], n |-> 0] ELSE Absent]
        Of(b) == {I[f].id : f \in {f \in DOMAIN B : B[f] = b}}
        used == {b \in Blocks : Of(b) # {}}
    IN  [a \in Addrs |->
           CASE a = "sb" -> [recover |-> FALSE, free |-> Free(used)]
             [] a = "bitmap" -> used
             [] a \in Files -> I[a]
             [] a = "jsb" -> [start |-> 0, seq |-> 1]
             [] a \in Blocks -> [id |-> IF a \in used THEN CHOOSE i \in Of(a) : TRUE ELSE 0, n |-> 0]
             [] OTHER -> [type |-> "none", seq |-> 0]]

Init ==
    /\ pc = "down" /\ pend = Nothing
    /\ \E B \in Starts : disk = Before(B)
    /\ synced = [bitmap |-> disk["bitmap"], inode |-> [f \in Files |-> disk[f]]]
    /\ bitmap = {} /\ inode = [f \in Files |-> Absent]
    /\ dirty = {} /\ data = Nothing /\ todo = <<>> /\ jseq = 0
    /\ ops = 0 /\ cuts = 0 /\ reused = {} /\ tried = {}

\* functions: g where it is defined, else f
Over(f, g) == [a \in DOMAIN f \union DOMAIN g |-> IF a \in DOMAIN g THEN g[a] ELSE f[a]]
Without(f, A) == [a \in DOMAIN f \ A |-> f[a]]
One(a, v) == [x \in {a} |-> v]

\* what dev_read sees
Dev == Over(disk, pend)

Now == [bitmap |-> bitmap, inode |-> inode]

-----------------------------------------------------------------------------
(* Operations *)

Op(D) ==
    /\ pc = "idle" /\ ops < MaxOps /\ ops + cuts < MaxWork
    /\ ops' = ops + 1
    /\ dirty' = dirty \union D
    /\ UNCHANGED <<pc, todo, jseq, disk, cuts, synced, tried>>

\* ext4_create
Create(f) ==
    /\ ~Made(f)
    /\ inode' = [inode EXCEPT ![f] = [id |-> Time, blk |-> None, n |-> 0]]
    /\ Op({"sb", f})
    /\ UNCHANGED <<bitmap, data, pend, reused>>

\* do_write: into the cache, or (a large one) at once to the disk
Store(b, v, direct) ==
    IF direct THEN pend' = Over(pend, One(b, v)) /\ data' = Without(data, {b})
              ELSE data' = Over(data, One(b, v)) /\ UNCHANGED pend

\* ext4_write over the file's block
Overwrite(f, direct) ==
    /\ Made(f) /\ inode[f].blk # None
    /\ inode' = [inode EXCEPT ![f].n = Time]
    /\ Op({f})
    /\ Store(inode[f].blk, [id |-> inode[f].id, n |-> Time], direct)
    /\ UNCHANGED <<bitmap, reused>>

\* ext4_write: balloc gives out a block that is free in the cached bitmap
Extend(f, b, direct) ==
    /\ Made(f) /\ inode[f].blk = None /\ b \notin bitmap
    /\ bitmap' = bitmap \union {b}
    /\ inode' = [inode EXCEPT ![f].blk = b, ![f].n = Time]
    /\ Op({"sb", "bitmap", f})
    /\ Store(b, [id |-> inode[f].id, n |-> Time], direct)
    /\ reused' = IF b \in synced.bitmap THEN reused \union {b} ELSE reused

\* bfree, with its cforget
Drop(f) ==
    /\ bitmap' = bitmap \ {inode[f].blk}
    /\ data' = Without(data, {inode[f].blk})
    /\ UNCHANGED <<pend, reused>>

Freeing(f) == IF inode[f].blk = None THEN {} ELSE {"sb", "bitmap"}

\* ext4_truncate to nothing
Truncate(f) ==
    /\ Made(f)
    /\ inode' = [inode EXCEPT ![f].blk = None, ![f].n = Time]
    /\ Op({f} \union Freeing(f)) /\ Drop(f)

\* ext4_unlink
Unlink(f) ==
    /\ Made(f)
    /\ inode' = [inode EXCEPT ![f] = Absent]
    /\ Op({"sb", f} \union Freeing(f)) /\ Drop(f)

\* ext4_rename, over a file of that name too
Rename(f, g) ==
    /\ f # g /\ Made(f)
    /\ inode' = [inode EXCEPT ![f] = Absent, ![g] = inode[f]]
    /\ Op({f, g} \union (IF Made(g) THEN {"sb"} \union Freeing(g) ELSE {}))
    /\ Drop(g)

-----------------------------------------------------------------------------
(* flush_locked and jcommit *)

Chunk == SubSeq(todo, 1, IF Len(todo) < Room THEN Len(todo) ELSE Room)

\* meta_out: block 0 as it is in memory, where needs_recovery is never set
Content(m) ==
    CASE m = "sb" -> [recover |-> FALSE, free |-> Free(bitmap)]
      [] m = "bitmap" -> bitmap
      [] OTHER -> inode[m]

Own(D, i) == i.blk # None => D[i.blk].id = i.id /\ D[i.blk].n >= i.n

\* (a file that a reused block damaged before stays so)
Damaged(D, I) == {b \in reused : \E f \in Files : I[f].blk = b /\ ~Own(D, I[f])}

Flushed == pc' = "idle" /\ synced' = Now /\ tried' = {} /\ reused' = Damaged(Dev, inode)

FlushMetadataOnly ==
    /\ pc = "idle"
    /\ todo' = SelectSeq(Order, LAMBDA m : m \in dirty)
    /\ pc' = IF dirty = {} THEN "dsync" ELSE "log"
    /\ UNCHANGED <<bitmap, inode, dirty, data, jseq, disk, pend, ghost>>

\* the changed data, in place
FlushData ==
    /\ pc = "idle"
    /\ pend' = Over(pend, data) /\ data' = Nothing
    /\ todo' = SelectSeq(Order, LAMBDA m : m \in dirty)
    /\ pc' = IF DOMAIN data # {} \/ dirty = {} THEN "dsync" ELSE "log"
    /\ UNCHANGED <<bitmap, inode, dirty, jseq, disk, ghost>>

\* (an error: some of it is written, and some of that is clean)
FlushDataFails ==
    /\ pc = "idle" /\ "data" \in Faults
    /\ \E A \in SUBSET DOMAIN data : \E B \in SUBSET A :
         /\ pend' = Over(pend, [a \in A |-> data[a]])
         /\ data' = Without(data, B)
    /\ UNCHANGED <<pc, bitmap, inode, dirty, todo, jseq, disk, ghost>>

\* the device's flush, and the step after it
Sync(at, next) ==
    /\ pc = at
    /\ disk' = Dev /\ pend' = Nothing
    /\ IF next = "idle" THEN Flushed ELSE pc' = next /\ UNCHANGED <<synced, tried, reused>>
    /\ UNCHANGED <<memory, ops, cuts>>

\* sb_recover_flag: block 0 as the disk has it, but for the flag
RecoverFlag(on) == [Dev["sb"] EXCEPT !.recover = on]

\* the blocks of the journal, of block 0 and of the transaction's descriptor
\* and copies, in the order they are written
Tagged == [type |-> "descriptor", seq |-> jseq, tags |-> Chunk]
LogWrites ==
    <<One("jsb", [start |-> 1, seq |-> jseq]), One("sb", RecoverFlag(TRUE)), One(Log[1], Tagged)>>
    \o [i \in DOMAIN Chunk |-> One(Log[i + 1], [type |-> "copy", seq |-> 0, of |-> Content(Chunk[i])])]
CommitWrite == One(Log[Len(Chunk) + 2], [type |-> "commit", seq |-> jseq])

Put(writes) == FoldLeft(Over, pend, writes)

WriteLog ==
    /\ pc = "log"
    /\ pend' = Put(LogWrites)
    /\ pc' = "lsync"
    /\ UNCHANGED <<memory, disk, ghost>>

Commit ==
    /\ pc = "commit"
    /\ pend' = Over(pend, CommitWrite)
    /\ pc' = "csync"
    /\ UNCHANGED <<memory, disk, ghost>>

PlaceUnflushed ==
    /\ pc = "place"
    /\ pend' = Over(pend, [m \in ToSet(Chunk) |-> Content(m)])
    /\ dirty' = dirty \ ToSet(Chunk)
    /\ pc' = "empty"
    /\ UNCHANGED <<bitmap, inode, data, todo, jseq, disk, ghost>>

\* write_runs: the metadata in place
Place ==
    /\ pc = "place"
    /\ pend' = Over(pend, [m \in ToSet(Chunk) |-> Content(m)])
    /\ dirty' = dirty \ ToSet(Chunk)
    /\ pc' = "psync"
    /\ UNCHANGED <<bitmap, inode, data, todo, jseq, disk, ghost>>

\* the journal empty again; the next transaction of this flush, if there is more
Empty ==
    /\ pc = "empty"
    /\ jseq' = jseq + 1
    /\ pend' = Over(pend, Over(One("jsb", [start |-> 0, seq |-> jseq']), One("sb", RecoverFlag(FALSE))))
    /\ todo' = SubSeq(todo, Len(Chunk) + 1, Len(todo))
    /\ pc' = "esync"
    /\ UNCHANGED <<bitmap, inode, dirty, data, disk, ghost>>

FlushStep ==
    \/ FlushData \/ WriteLog \/ Commit \/ Place \/ Empty
    \/ Sync("dsync", IF todo = <<>> THEN "idle" ELSE "log")
    \/ Sync("lsync", "commit") \/ Sync("csync", "place") \/ Sync("psync", "empty")
    \/ Sync("esync", IF todo = <<>> THEN "idle" ELSE "log")

\* the commit block may be on the disk
Tried == IF pc \in {"csync", "place", "psync", "empty", "esync"} THEN tried \union {Now} ELSE tried

\* an error of the disk: the first of the writes may have been done; ext4_flush
\* returns -1, what was not written stays dirty
FlushFails ==
    /\ pc \in Faults
    /\ \E n \in 0..Len(LogWrites) : (pc # "log" => n = 0) /\ pend' = Put(SubSeq(LogWrites, 1, n))
    /\ pc' = "idle" /\ todo' = <<>>
    /\ tried' = Tried
    /\ UNCHANGED <<bitmap, inode, dirty, data, jseq, disk, ops, cuts, synced, reused>>

-----------------------------------------------------------------------------
(* Power cuts, and the mount *)

\* memory is gone; of the disk's own cache any part has been written
Cut ==
    /\ cuts < MaxCuts /\ ops + cuts < MaxWork /\ pc # "down"
    /\ cuts' = cuts + 1
    /\ \E A \in SUBSET DOMAIN pend : disk' = [a \in Addrs |-> IF a \in A THEN pend[a] ELSE disk[a]]
    /\ pend' = Nothing
    /\ tried' = Tried
    /\ pc' = "down"
    /\ bitmap' = {} /\ inode' = [f \in Files |-> Absent] /\ dirty' = {} /\ data' = Nothing
    /\ todo' = <<>> /\ jseq' = 0
    /\ UNCHANGED <<ops, synced, reused>>

Rec(i) == IF i \in DOMAIN Log THEN disk[Log[i]] ELSE [type |-> "none", seq |-> 0]

\* jrecover's first pass: the journal's headers it comes by, from block i
\* with number s on
Walk ==
    LET w[i \in 1..(Len(Log) + 2), s \in 0..(MaxOps + 2 * Len(Log) + 4)] ==
          CASE Rec(i).seq = s /\ Rec(i).type = "descriptor" ->
                 <<[at |-> i, seq |-> s]>> \o w[i + Len(Rec(i).tags) + 1, s]
            [] Rec(i).seq = s /\ Rec(i).type = "commit" -> <<[at |-> i, seq |-> s]>> \o w[i + 1, s + 1]
            [] OTHER -> <<>>
    IN  w[disk["jsb"].start, disk["jsb"].seq]

EndSeq == disk["jsb"].seq + Len(SelectSeq(Walk, LAMBDA h : Rec(h.at).type = "commit"))

\* its last: what replay_one writes where, of the transactions committed
Replay ==
    LET Heads == {h \in ToSet(Walk) : Rec(h.at).type = "descriptor" /\ h.seq < EndSeq}
        Tags(h) == Rec(h.at).tags
        Latest(m) == CHOOSE h \in {h \in Heads : m \in ToSet(Tags(h))} :
                     \A g \in Heads : m \in ToSet(Tags(g)) => g.at <= h.at
        At(m) == LET h == Latest(m) IN h.at + (CHOOSE k \in DOMAIN Tags(h) : Tags(h)[k] = m)
    IN  [m \in UNION {ToSet(Tags(h)) : h \in Heads} |-> Rec(At(m)).of]

\* ext4_mount: the journal holds something
Recover ==
    /\ pc = "down" /\ disk["jsb"].start # 0
    /\ pend' = Replay
    /\ jseq' = EndSeq
    /\ pc' = "rsync"
    /\ UNCHANGED <<bitmap, inode, dirty, data, todo, disk, ghost>>

\* it does no more
RecoverEnd ==
    /\ pc = "rempty"
    /\ pend' = One("jsb", [start |-> 0, seq |-> jseq])
    /\ pc' = "resync"
    /\ UNCHANGED <<memory, disk, ghost>>

RecoverSync(at, next) ==
    /\ pc = at
    /\ disk' = Dev /\ pend' = Nothing /\ pc' = next
    /\ UNCHANGED <<memory, ghost>>

\* mounted: the superblock is counted and dated
Mount ==
    /\ pc = "loading" \/ (pc = "down" /\ disk["jsb"].start = 0)
    /\ pc' = "idle"
    /\ bitmap' = disk["bitmap"] /\ inode' = [f \in Files |-> disk[f]]
    /\ dirty' = {"sb"} /\ jseq' = disk["jsb"].seq
    /\ synced' = [bitmap |-> bitmap', inode |-> inode'] /\ tried' = {}
    /\ reused' = Damaged(disk, inode')
    /\ UNCHANGED <<data, todo, disk, pend, ops, cuts>>

MountStep ==
    Mount \/ Recover \/ RecoverEnd \/ RecoverSync("rsync", "rempty") \/ RecoverSync("resync", "loading")

-----------------------------------------------------------------------------

OpStep ==
    \E f \in Files :
      \/ Create(f) \/ Truncate(f) \/ Unlink(f)
      \/ \E g \in Files : Rename(f, g)
      \/ \E direct \in BOOLEAN : Overwrite(f, direct) \/ \E b \in Blocks : Extend(f, b, direct)

Next == OpStep \/ FlushStep \/ FlushDataFails \/ FlushFails \/ Cut \/ MountStep

Spec == Init /\ [][Next]_vars

-----------------------------------------------------------------------------
(* Properties *)

\* A mount finds the files, the bitmap and the free counts as the last flush
\* that returned 0 left them or, where the cut came after the commit block was
\* written, as that flush had them: all of it or nothing, wherever the cuts
\* come, in the mount's replay too, and whatever the disk's cache had.
AllOrNothing ==
    [][Mount => synced' \in {synced} \union tried /\ disk["sb"].free = Free(bitmap')]_vars

\* Ordered mode: a file found by a mount has its own data, as new as its
\* metadata - unless its block was freed and given out again since the last
\* flush.
DataOrdered == [][Mount => \A f \in Files : inode'[f].blk \in reused \/ Own(disk, inode'[f])]_vars

\* "Pre-commit cut must roll back ... cleanly without corruption" (crash.c):
\* a file found by a mount has its own data.
DataRolledBack == [][Mount => \A f \in Files : Own(disk, inode'[f])]_vars

\* needs_recovery is "set while a transaction is in the journal and not yet
\* in place": on the disk a cut leaves, a driver that looks at the flag finds
\* it set, or nothing that the journal would change.
FlagWhileNeeded ==
    pc = "down" /\ ~disk["sb"].recover /\ disk["jsb"].start # 0 =>
      \A m \in DOMAIN Replay : disk[m] = Replay[m]
=============================================================================
