------------------------------ MODULE DatabaseV1 ------------------------------
(***************************************************************************)
(* The v1 engine of bdr::Database (experimental/api_v86/src/database_v1.cpp): *)
(* a key-value map kept in memory, a ticketed write-ahead log (BDW3 segment *)
(* files) written by one background thread, checkpoints (BDR3 snapshots)   *)
(* that rotate the log, and recovery.  The module is about persistence: one *)
(* action per system call whose effect on the files a crash can expose.    *)
(*                                                                         *)
(* Files live in two places, the page cache and the medium.  A process     *)
(* crash (SIGKILL) loses memory and keeps the page cache; a power loss      *)
(* also loses any suffix of a file not yet fdatasync-ed and any directory   *)
(* change not yet fsync-ed.                                                *)
(***************************************************************************)
EXTENDS Integers, Sequences

CONSTANTS
    Keys, Vals,     \* the strings that occur as keys and as values
    Absent,         \* not a value: the key is not in the map / the record is a Delete
    WalBatch,       \* Options::wal_batch
    FileSyncLinks,  \* whether syncing a file also makes its directory entry durable
    MaxSeq,         \* bound: sequence numbers
    MaxSeg,         \* bound: WAL segment ids
    MaxCrash        \* bound: process crashes plus power losses

ASSUME ConstantAssumption ==
    /\ Absent \notin Vals
    /\ WalBatch \in Nat \ {0}
    /\ FileSyncLinks \in BOOLEAN
    /\ MaxSeq \in Nat /\ MaxSeg \in Nat \ {0} /\ MaxCrash \in Nat

VARIABLES
    \* The directory as the file system shows it, and what of it is durable.
    snap,       \* snapshot.bdr3 (NoSnap when there is none)
    snapMaybe,  \* the snapshots of which a power loss leaves one
    file,       \* contents of the WAL file of each segment id
    wals,       \* segment ids with an entry in the directory
    walsD,      \* segment ids with an entry on the medium
    \* Database::Impl
    index, next, durable, queue,   \* index, next_seq, durable_seq, queue
    wfd, seg,                      \* segment open as wal_fd (0: wal_fd = -1), segment_id
    w, local, batchEnd,            \* writer thread: its step, what is left of its batch, local.back().seq
    \* The thread in recover(), checkpoint_impl() or close_impl(): they exclude each other.
    pc, up,                        \* its step; whether the constructor has finished
    tmp,                           \* snapshot.tmp
    rseg, rpos, rexp,              \* replay_wal: segment, next record, `expected'
    fail,                          \* exception of the last open ("none": it succeeded)
    \* History
    hist,       \* hist[n + 1]: the map after the first n accepted operations
    base,       \* next_seq when this process finished recovery
    acked,      \* greatest sequence some caller was told is durable
    crashes

disk  == <<snap, snapMaybe, file, wals, walsD>>
mem   == <<index, next, durable, queue, wfd, seg>>
thr   == <<w, local, batchEnd>>
replay == <<rseg, rpos, rexp>>
ghost == <<hist, base, acked>>
vars  == <<disk, mem, thr, pc, up, tmp, replay, fail, ghost, crashes>>

Segs  == 1..MaxSeg
Value == Vals \cup {Absent}
Map   == [Keys -> Value]
Empty == [k \in Keys |-> Absent]

\* A WAL record and a Pending of the queue: a Delete carries Absent.
Rec == [seq : 1..MaxSeq, key : Keys, val : Value]

\* index.put / index.erase: erasing a key that is not there changes nothing.
Apply(m, r) == [m EXCEPT ![r.key] = r.val]

\* A snapshot is in the page cache, on the medium, or was damaged by a power loss.
Snap   == [seq : 0..MaxSeq, items : Map, st : {"cached", "stable", "corrupt"}]
\* Recovery without snapshot.bdr3 starts where an empty snapshot of sequence 0 would.
NoSnap == [seq |-> 0, items |-> Empty, st |-> "stable"]

\* A WAL file: its header (missing or short, in the page cache, on the medium),
\* first_sequence, the complete records, whether an incomplete one follows ("cut": not
\* any more, but the medium may still have it), and how many records are on the medium.
WalFile  == [hdr : {"empty", "written", "ok"}, first : 1..(MaxSeq + 1),
             recs : Seq(Rec), torn : {"no", "yes", "cut"}, synced : Nat]
NewFile(first) == [hdr |-> "empty", first |-> first, recs |-> <<>>,
                   torn |-> "no", synced |-> 0]

\* pwrite of one record.  Bytes put behind an incomplete record are taken for
\* its payload, never for a record.
Appended(f, r) == IF f.torn = "yes" THEN f ELSE [f EXCEPT !.recs = Append(@, r)]

\* fdatasync / fsync of an open WAL file
Synced(f) == [hdr |-> "ok", first |-> f.first, recs |-> f.recs, synced |-> Len(f.recs),
              torn |-> IF f.torn = "cut" THEN "no" ELSE f.torn]
LinksAfterSync(s) == IF FileSyncLinks THEN walsD \cup {s} ELSE walsD

\* Mutant: `expected' is the first_sequence of the header, whatever was replayed.
Second(a, b) == b

Max2(a, b) == IF a >= b THEN a ELSE b

Cut(s, n) == SubSeq(s, 1, IF n <= Len(s) THEN n ELSE Len(s))

-----------------------------------------------------------------------------
Init ==
    /\ snap = NoSnap /\ snapMaybe = {NoSnap}
    /\ file = [s \in Segs |-> NewFile(1)]
    /\ wals = {} /\ walsD = {}
    /\ index = Empty /\ next = 0 /\ durable = 0 /\ queue = <<>>
    /\ wfd = 0 /\ seg = 0
    /\ w = "wait" /\ local = <<>> /\ batchEnd = 0
    /\ pc = "down" /\ up = FALSE /\ tmp = NoSnap
    /\ rseg = 0 /\ rpos = 0 /\ rexp = 0
    /\ fail = "none"
    /\ hist = <<Empty>> /\ base = 0 /\ acked = 0
    /\ crashes = 0

\* The process is gone, or its constructor threw: everything in memory is lost.
Lost ==
    /\ pc' = "down" /\ up' = FALSE /\ tmp' = NoSnap
    /\ index' = Empty /\ next' = 0 /\ durable' = 0 /\ queue' = <<>>
    /\ wfd' = 0 /\ seg' = 0
    /\ w' = "wait" /\ local' = <<>> /\ batchEnd' = 0
    /\ rseg' = 0 /\ rpos' = 0 /\ rexp' = 0

-----------------------------------------------------------------------------
(* Recovery: the constructor takes the process lock and runs recover().     *)

\* An exception in recover() unlocks and leaves the constructor.
OpenFails(why) ==
    /\ Lost /\ fail' = why
    /\ UNCHANGED <<disk, ghost, crashes>>

\* The recovered operations are the whole history from now on.
Recovered ==
    /\ hist' = Cut(hist, next + 1)
    /\ base' = next

\* Mutant: the sequence that replay_snapshot returns is dropped.
OpenDropsSequence ==
    /\ pc = "down"
    /\ IF snap.st = "corrupt"
       THEN OpenFails("snapshot")
       ELSE /\ index' = snap.items /\ next' = 0
            /\ pc' = "replay" /\ fail' = "none"
            /\ UNCHANGED <<disk, durable, queue, wfd, seg, thr, up, tmp, replay, ghost, crashes>>

\* replay_snapshot checks the whole file before it loads it.
Open ==
    /\ pc = "down"
    /\ IF snap.st = "corrupt"
       THEN OpenFails("snapshot")
       ELSE /\ index' = snap.items /\ next' = snap.seq
            /\ pc' = "replay" /\ fail' = "none"
            /\ UNCHANGED <<disk, durable, queue, wfd, seg, thr, up, tmp, replay, ghost, crashes>>

\* The segments are replayed in the order of their names, which is that of their ids.
NextSegment(s) == /\ s \in wals /\ s > rseg
                  /\ \A t \in wals : t > rseg => s <= t
LastSegment == \A t \in wals : t <= rseg

ReplayHeader(s) ==
    /\ pc = "replay" /\ rpos = 0 /\ NextSegment(s)
    /\ IF file[s].hdr = "empty"
       THEN OpenFails("header")
       ELSE /\ rseg' = s /\ rpos' = 1 /\ rexp' = Max2(next + 1, file[s].first)
            /\ seg' = Max2(seg, s)
            /\ UNCHANGED <<disk, index, next, durable, queue, wfd, thr, pc, up, tmp, fail,
                           ghost, crashes>>

\* A record at or below `seq' is passed over.
ReplayCovered ==
    /\ pc = "replay" /\ rpos > 0 /\ rpos <= Len(file[rseg].recs)
    /\ file[rseg].recs[rpos].seq <= next
    /\ rpos' = rpos + 1
    /\ UNCHANGED <<disk, mem, thr, pc, up, tmp, rseg, rexp, fail, ghost, crashes>>

\* Another one has to be the expected one, and is applied.
ReplayRecord ==
    /\ pc = "replay" /\ rpos > 0 /\ rpos <= Len(file[rseg].recs)
    /\ file[rseg].recs[rpos].seq > next
    /\ LET r == file[rseg].recs[rpos] IN
       IF r.seq # rexp
       THEN OpenFails("gap")
       ELSE /\ index' = Apply(index, r) /\ next' = r.seq /\ rexp' = rexp + 1
            /\ rpos' = rpos + 1
            /\ UNCHANGED <<disk, durable, queue, wfd, seg, thr, pc, up, tmp, rseg, fail,
                           ghost, crashes>>

\* End of a segment: only the last one may have a torn tail.
ReplayTail ==
    /\ pc = "replay" /\ rpos > 0 /\ rpos = Len(file[rseg].recs) + 1
    /\ IF file[rseg].torn = "yes" /\ ~LastSegment
       THEN OpenFails("torn")
       ELSE /\ rpos' = 0
            /\ UNCHANGED <<disk, mem, thr, pc, up, tmp, rseg, rexp, fail, ghost, crashes>>

\* The segments are replayed and the last one is to be the active one.
Replayed == pc = "replay" /\ rpos = 0 /\ rseg # 0 /\ LastSegment

Attach ==
    /\ durable' = next /\ wfd' = rseg
    /\ pc' = "idle" /\ up' = TRUE
    /\ Recovered
    /\ UNCHANGED <<snap, snapMaybe, wals, index, next, queue, seg, thr, tmp, replay, fail,
                   acked, crashes>>

RecoverAttach ==
    /\ Replayed /\ file[rseg].torn # "yes"
    /\ Attach
    /\ UNCHANGED <<file, walsD>>

\* A torn tail is cut off first: ftruncate to last_good ...
RepairTruncate ==
    /\ Replayed /\ file[rseg].torn = "yes"
    /\ file' = [file EXCEPT ![rseg].torn = "cut"]
    /\ pc' = "repair"
    /\ UNCHANGED <<snap, snapMaybe, wals, walsD, mem, thr, up, tmp, replay, fail, ghost, crashes>>

\* ... and fdatasync.
RepairSync ==
    /\ pc = "repair"
    /\ file' = [file EXCEPT ![rseg] = Synced(@)]
    /\ walsD' = LinksAfterSync(rseg)
    /\ Attach

\* The repair, or the open of the active segment, fails.
RecoverFails == (Replayed \/ pc = "repair") /\ OpenFails("io")

\* A directory without WAL gets segment 1.
RecoverFresh ==
    /\ pc = "replay" /\ rpos = 0 /\ wals = {}
    /\ durable' = next /\ pc' = "cw_open"
    /\ UNCHANGED <<disk, index, next, queue, wfd, seg, thr, up, tmp, replay, fail, ghost,
                   crashes>>

-----------------------------------------------------------------------------
(* create_wal(segment_id+1, next_seq+1) and the fsync_dir that follows it,  *)
(* for recover() (~up) and for checkpoint_impl() (up).                      *)

\* Mutant: the segment is said to begin with the last sequence that was given out.
CwOpenLastSeq ==
    /\ pc = "cw_open"
    /\ file' = [file EXCEPT ![seg + 1] = NewFile(next)]
    /\ wals' = wals \cup {seg + 1}
    /\ pc' = "cw_header"
    /\ UNCHANGED <<snap, snapMaybe, walsD, mem, thr, up, tmp, replay, fail, ghost, crashes>>

\* open(O_CREAT|O_TRUNC)
CwOpen ==
    /\ pc = "cw_open"
    /\ file' = [file EXCEPT ![seg + 1] = NewFile(next + 1)]
    /\ wals' = wals \cup {seg + 1}
    /\ pc' = "cw_header"
    /\ UNCHANGED <<snap, snapMaybe, walsD, mem, thr, up, tmp, replay, fail, ghost, crashes>>

CwHeader ==
    /\ pc = "cw_header"
    /\ file' = [file EXCEPT ![seg + 1].hdr = "written"]
    /\ pc' = "cw_sync"
    /\ UNCHANGED <<snap, snapMaybe, wals, walsD, mem, thr, up, tmp, replay, fail, ghost,
                   crashes>>

CwSync ==
    /\ pc = "cw_sync"
    /\ file' = [file EXCEPT ![seg + 1] = Synced(@)]
    /\ walsD' = LinksAfterSync(seg + 1)
    /\ wfd' = seg + 1 /\ seg' = seg + 1
    /\ pc' = "cw_dirsync"
    /\ UNCHANGED <<snap, snapMaybe, wals, index, next, durable, queue, thr, up, tmp, replay,
                   fail, ghost, crashes>>

\* Mutant: fsync_dir does not cover the rename of the snapshot.
DirSyncWithoutRename == walsD' = wals /\ UNCHANGED snapMaybe

DirSync == walsD' = wals /\ snapMaybe' = {snap}

CwDirSync ==
    /\ pc = "cw_dirsync"
    /\ DirSync
    /\ pc' = IF up THEN "ck_remove" ELSE "idle"
    /\ up' = TRUE
    /\ IF up THEN UNCHANGED <<hist, base>> ELSE Recovered
    /\ UNCHANGED <<snap, file, wals, mem, thr, tmp, replay, fail, acked, crashes>>

-----------------------------------------------------------------------------
(* submit_impl: the record is queued, the index updated and the sequence    *)
(* taken under submit_mu, which a checkpoint holds to its end.              *)

Submit(k, v) ==
    /\ pc = "idle" /\ w # "dead" /\ next < MaxSeq
    /\ LET r == [seq |-> next + 1, key |-> k, val |-> v] IN
       /\ queue' = Append(queue, r)
       /\ index' = Apply(index, r)
       /\ hist' = Append(hist, Apply(index, r))
    /\ next' = next + 1
    /\ UNCHANGED <<disk, durable, wfd, seg, thr, pc, up, tmp, replay, fail, base, acked,
                   crashes>>

\* wait_impl, put_sync, erase_sync, and sync_impl on a ticket of this process
Wait(t) ==
    /\ up /\ base < t /\ t <= durable /\ acked < t
    /\ acked' = t
    /\ UNCHANGED <<disk, mem, thr, pc, up, tmp, replay, fail, hist, base, crashes>>

-----------------------------------------------------------------------------
(* writer_loop                                                             *)

WalMuFree == pc \notin {"cw_open", "cw_header", "cw_sync", "cw_dirsync", "ck_remove"}

WriterTake ==
    /\ up /\ w = "wait" /\ queue # <<>>
    /\ LET n == IF Len(queue) <= WalBatch THEN Len(queue) ELSE WalBatch IN
       /\ local' = SubSeq(queue, 1, n)
       /\ queue' = SubSeq(queue, n + 1, Len(queue))
       /\ batchEnd' = queue[n].seq
    /\ w' = "write"
    /\ UNCHANGED <<disk, index, next, durable, wfd, seg, pc, up, tmp, replay, fail, ghost,
                   crashes>>

\* pwrite_all, one record at a time: a crash can come between any two
WriterWrite ==
    /\ w = "write" /\ local # <<>> /\ wfd # 0 /\ WalMuFree
    /\ file' = [file EXCEPT ![wfd] = Appended(@, Head(local))]
    /\ local' = Tail(local)
    /\ UNCHANGED <<snap, snapMaybe, wals, walsD, mem, w, batchEnd, pc, up, tmp, replay, fail,
                   ghost, crashes>>

\* Mutant: the batch is published without fdatasync.
WriterSyncSkipped ==
    /\ w = "write" /\ local = <<>> /\ wfd # 0 /\ WalMuFree
    /\ w' = "publish"
    /\ UNCHANGED <<snap, snapMaybe, wals, walsD, file, mem, local, batchEnd, pc, up, tmp, replay,
                   fail, ghost, crashes>>

WriterSync ==
    /\ w = "write" /\ local = <<>> /\ wfd # 0 /\ WalMuFree
    /\ file' = [file EXCEPT ![wfd] = Synced(@)]
    /\ walsD' = LinksAfterSync(wfd)
    /\ w' = "publish"
    /\ UNCHANGED <<snap, snapMaybe, wals, mem, local, batchEnd, pc, up, tmp, replay, fail,
                   ghost, crashes>>

WriterPublish ==
    /\ w = "publish"
    /\ durable' = batchEnd /\ w' = "wait"
    /\ UNCHANGED <<disk, index, next, queue, wfd, seg, local, batchEnd, pc, up, tmp, replay,
                   fail, ghost, crashes>>

\* pwrite or fdatasync fails (always, on wal_fd = -1): writer_error, and the thread ends.
WriterFail(torn) ==
    /\ w = "write" /\ WalMuFree
    /\ torn => local # <<>> /\ wfd # 0
    /\ file' = IF torn THEN [file EXCEPT ![wfd].torn = "yes"] ELSE file
    /\ w' = "dead" /\ local' = <<>>
    /\ UNCHANGED <<snap, snapMaybe, wals, walsD, mem, batchEnd, pc, up, tmp, replay, fail,
                   ghost, crashes>>

-----------------------------------------------------------------------------
(* checkpoint_impl                                                         *)

CkBegin ==
    /\ pc = "idle" /\ seg < MaxSeg
    /\ pc' = "ck_wait"
    /\ UNCHANGED <<disk, mem, thr, up, tmp, replay, fail, ghost, crashes>>

\* wait_impl, snapshot_items and the streaming of snapshot.tmp
CkWrite ==
    /\ pc = "ck_wait" /\ durable >= next
    /\ tmp' = [seq |-> next, items |-> index, st |-> "cached"]
    /\ pc' = "ck_fsync"
    /\ UNCHANGED <<disk, mem, thr, up, replay, fail, ghost, crashes>>

CkFsync ==
    /\ pc = "ck_fsync"
    /\ tmp' = [tmp EXCEPT !.st = "stable"]
    /\ pc' = "ck_rename"
    /\ UNCHANGED <<disk, mem, thr, up, replay, fail, ghost, crashes>>

CkRename ==
    /\ pc = "ck_rename"
    /\ snap' = tmp /\ snapMaybe' = snapMaybe \cup {tmp}
    /\ tmp' = NoSnap
    /\ pc' = "ck_dirsync"
    /\ UNCHANGED <<file, wals, walsD, mem, thr, up, replay, fail, ghost, crashes>>

CkDirSync ==
    /\ pc = "ck_dirsync"
    /\ DirSync
    /\ pc' = "ck_rotate"
    /\ UNCHANGED <<snap, file, wals, mem, thr, up, tmp, replay, fail, ghost, crashes>>

\* Under wal_mu: fsync and close of the active segment, if one is open
CkRotate ==
    /\ pc = "ck_rotate" /\ w # "write"
    /\ file' = IF wfd = 0 THEN file ELSE [file EXCEPT ![wfd] = Synced(@)]
    /\ walsD' = IF wfd = 0 THEN walsD ELSE LinksAfterSync(wfd)
    /\ wfd' = 0
    /\ pc' = "cw_open"
    /\ UNCHANGED <<snap, snapMaybe, wals, index, next, durable, queue, seg, thr, up, tmp,
                   replay, fail, ghost, crashes>>

CkRemove(s) ==
    /\ pc = "ck_remove" /\ s \in wals \ {wfd}
    /\ wals' = wals \ {s}
    /\ UNCHANGED <<snap, snapMaybe, file, walsD, mem, thr, pc, up, tmp, replay, fail, ghost,
                   crashes>>

\* The last fsync_dir: checkpoint() returns.
CkDone ==
    /\ pc = "ck_remove" /\ wals = {wfd}
    /\ DirSync
    /\ pc' = "idle" /\ acked' = Max2(acked, next)
    /\ UNCHANGED <<snap, file, wals, mem, thr, up, tmp, replay, fail, hist, base, crashes>>

CkSteps == {"ck_wait", "ck_fsync", "ck_rename", "ck_dirsync", "ck_rotate", "ck_remove"}
CwSteps == {"cw_open", "cw_header", "cw_sync", "cw_dirsync"}

\* A system call of the checkpoint fails: the exception releases the mutexes and
\* leaves files and fields as they are.
CkFail ==
    /\ up /\ pc \in CkSteps \cup CwSteps
    /\ pc = "ck_wait" => durable >= next \/ w = "dead"
    /\ pc' = "idle" /\ tmp' = NoSnap
    /\ UNCHANGED <<disk, mem, thr, up, replay, fail, ghost, crashes>>

\* fallocate fails after the header is durable: create_wal throws with wal_fd = -1.
CwPreallocFail ==
    /\ up /\ pc = "cw_sync"
    /\ file' = [file EXCEPT ![seg + 1] = Synced(@)]
    /\ walsD' = LinksAfterSync(seg + 1)
    /\ pc' = "idle"
    /\ UNCHANGED <<snap, snapMaybe, wals, mem, thr, up, tmp, replay, fail, ghost, crashes>>

CwOpenFail == ~up /\ pc \in CwSteps /\ OpenFails("io")

-----------------------------------------------------------------------------
(* close_impl                                                              *)

CloseBegin ==
    /\ pc = "idle" /\ pc' = "closing"
    /\ UNCHANGED <<disk, mem, thr, up, tmp, replay, fail, ghost, crashes>>

\* sync_impl succeeds, the writer drains the queue and ends, the WAL is synced.
CloseClean ==
    /\ pc = "closing" /\ durable >= next /\ w = "wait" /\ queue = <<>>
    /\ file' = IF wfd = 0 THEN file ELSE [file EXCEPT ![wfd] = Synced(@)]
    /\ walsD' = IF wfd = 0 THEN walsD ELSE LinksAfterSync(wfd)
    /\ acked' = Max2(acked, next)
    /\ Lost
    /\ UNCHANGED <<snap, snapMaybe, wals, fail, hist, base, crashes>>

\* close() ends with writer_error, or with a failed last fdatasync.
CloseError ==
    /\ pc = "closing"
    /\ \/ w = "dead"
       \/ durable >= next /\ w = "wait" /\ queue = <<>> /\ wfd # 0
    /\ Lost
    /\ UNCHANGED <<disk, fail, ghost, crashes>>

-----------------------------------------------------------------------------
(* The environment: the end of the process, and of the host.               *)

InFlight(s) == w = "write" /\ local # <<>> /\ s = wfd

\* SIGKILL, possibly in the middle of a pwrite
ProcessCrash(torn) ==
    /\ pc # "down" /\ crashes < MaxCrash
    /\ torn => InFlight(wfd) /\ wfd # 0
    /\ file' = IF torn THEN [file EXCEPT ![wfd].torn = "yes"] ELSE file
    /\ crashes' = crashes + 1
    /\ Lost
    /\ UNCHANGED <<snap, snapMaybe, wals, walsD, fail, ghost>>

\* What a power loss can leave of a WAL file: its durable records and any prefix of
\* the rest, possibly cut inside a record.
Survivors(s) ==
    LET f == file[s] IN
    { [hdr |-> h, first |-> f.first, recs |-> SubSeq(f.recs, 1, n), torn |-> t, synced |-> n] :
        h \in IF f.hdr = "written" THEN {"empty", "ok"} ELSE {f.hdr},
        n \in f.synced..Len(f.recs),
        t \in IF f.torn # "no" \/ InFlight(s) \/ f.synced < Len(f.recs)
              THEN {"no", "yes"} ELSE {"no"} }

\* A file with a header that did not survive is empty.
Survives(g) == g.hdr = "ok" \/ (g.recs = <<>> /\ g.torn = "no")

Dirty == {s \in Segs : file[s].hdr = "written" \/ file[s].torn # "no" \/ InFlight(s)
                       \/ file[s].synced < Len(file[s].recs)}

\* Of a snapshot that was never fsync-ed, the file may be damaged.
SnapSurvivors(s) == IF s.st = "cached" THEN {[s EXCEPT !.st = "stable"], [s EXCEPT !.st = "corrupt"]}
                    ELSE {s}

PowerLoss ==
    /\ crashes < MaxCrash
    /\ \E s \in snapMaybe : snap' \in SnapSurvivors(s)
    /\ snapMaybe' = {snap'}
    /\ \E g \in [Dirty -> UNION {Survivors(s) : s \in Dirty}] :
          /\ \A s \in Dirty : g[s] \in Survivors(s) /\ Survives(g[s])
          /\ file' = [s \in Segs |-> IF s \in Dirty THEN g[s] ELSE file[s]]
    /\ \E gone \in SUBSET ((wals \cup walsD) \ (wals \cap walsD)) :
          wals' = (wals \cup walsD) \ gone
    /\ walsD' = wals'
    /\ crashes' = crashes + 1
    /\ Lost
    /\ UNCHANGED <<fail, ghost>>

-----------------------------------------------------------------------------
Recovery == \/ Open
            \/ \E s \in Segs : ReplayHeader(s)
            \/ ReplayCovered \/ ReplayRecord \/ ReplayTail
            \/ RecoverAttach \/ RepairTruncate \/ RepairSync \/ RecoverFails \/ RecoverFresh

CreateWal == CwOpen \/ CwHeader \/ CwSync \/ CwDirSync \/ CwPreallocFail \/ CwOpenFail

Writer == \/ WriterTake \/ WriterWrite \/ WriterSync \/ WriterPublish
          \/ \E torn \in BOOLEAN : WriterFail(torn)

Checkpoint == \/ CkBegin \/ CkWrite \/ CkFsync \/ CkRename \/ CkDirSync \/ CkRotate
              \/ \E s \in Segs : CkRemove(s)
              \/ CkDone \/ CkFail

Close == CloseBegin \/ CloseClean \/ CloseError

Crash == PowerLoss \/ \E torn \in BOOLEAN : ProcessCrash(torn)

Next == \/ Recovery \/ CreateWal \/ Writer \/ Checkpoint \/ Close \/ Crash
        \/ \E k \in Keys, v \in Value : Submit(k, v)
        \/ \E t \in 1..MaxSeq : Wait(t)

Spec == Init /\ [][Next]_vars

-----------------------------------------------------------------------------
Failures == {"none", "snapshot", "header", "gap", "torn", "io"}

DiskType ==
    /\ snap \in Snap /\ snapMaybe \subseteq Snap
    /\ file \in [Segs -> WalFile]
    /\ wals \subseteq Segs /\ walsD \subseteq Segs
MemType ==
    /\ index \in Map /\ queue \in Seq(Rec)
    /\ next \in 0..MaxSeq /\ durable \in 0..MaxSeq
    /\ wfd \in 0..MaxSeg /\ seg \in 0..MaxSeg
ThreadType ==
    /\ w \in {"wait", "write", "publish", "dead"}
    /\ local \in Seq(Rec) /\ batchEnd \in 0..MaxSeq
ControlType ==
    /\ pc \in {"down", "replay", "repair", "idle", "closing"} \cup CkSteps \cup CwSteps
    /\ up \in BOOLEAN /\ tmp \in Snap /\ fail \in Failures
    /\ rseg \in 0..MaxSeg /\ rpos \in Nat /\ rexp \in Nat
GhostType ==
    /\ hist \in Seq(Map) /\ base \in 0..MaxSeq /\ acked \in 0..MaxSeq
    /\ crashes \in 0..MaxCrash

\* Types: in particular, replay stays inside the files and create_wal inside the
\* segment ids.
TypeOK == DiskType /\ MemType /\ ThreadType /\ ControlType /\ GhostType

\* Every operation up to n would survive a power loss at this moment, whichever
\* snapshot and directory entries it leaves.
OnMedium(n, lo) ==
    \A m \in (lo + 1)..n :
        \E s \in wals \cap walsD : \E i \in 1..file[s].synced : file[s].recs[i].seq = m
Stable(n) == \A s \in snapMaybe : s.st = "stable" /\ OnMedium(n, s.seq)

\* Durability: what wait(), put_sync(), checkpoint() or close() acknowledged is on the
\* medium, through checkpoints, failed calls, crashes and recoveries.  And durable_seq, once
\* it is past what recovery found in the page cache, covers that part too, though no
\* fdatasync named the recovered records.
AckedStable ==
    /\ Stable(acked)
    /\ up /\ durable > base => Stable(durable)

\* Recovery gives back an exact prefix of the accepted operations, never less than
\* was acknowledged; while the process runs, reads see exactly the accepted operations.  No
\* record on disk contradicts the history, although a sequence number whose record was lost
\* is given to another operation.
ExactPrefix ==
    /\ pc # "down" => next < Len(hist) /\ index = hist[next + 1]
    /\ up => acked <= next
    /\ \A s \in wals \cup walsD : \A i \in 1..Len(file[s].recs) :
          LET r == file[s].recs[i] IN
              r.seq < Len(hist) /\ hist[r.seq + 1] = Apply(hist[r.seq], r)

\* recover() never meets a damaged snapshot, a gap in the sequences or a torn segment before
\* the last.  The one thing that can stop it is a segment that create_wal had made and not
\* yet given its header: it is the newest and holds nothing.
RecoveryErrors ==
    /\ fail \notin {"snapshot", "gap", "torn"}
    /\ \A s \in wals : file[s].hdr = "empty" => file[s].recs = <<>> /\ \A t \in wals : t <= s

\* The engine implements the durable store: acceptance, acknowledgement, loss of an
\* unacknowledged suffix only, and reads that see the accepted operations.
Store == INSTANCE DurableStore WITH
            Initial <- Empty, log <- hist, kv <- IF up THEN index ELSE Empty, open <- up
RefinesStore == Store!Spec
=============================================================================
