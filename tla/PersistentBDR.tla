----------------------------- MODULE PersistentBDR -----------------------------
(***************************************************************************)
(* The Python engine PersistentBDR (bdr/persistent_engine.py): segmented    *)
(* WAL, group commit, checkpoint and recovery, over a disk on which a power *)
(* loss takes what was not synced.                                         *)
(*                                                                         *)
(* Every method runs under one lock, so the only thing that comes between   *)
(* two steps of a method is the end of the process.  A record that is cut   *)
(* short ends the reading of its file; recovery does not remove it, and     *)
(* what is appended behind it is read as part of it.                       *)
(*                                                                         *)
(* The file system: fsync of a file covers its data and its directory       *)
(* entry; _fsync_dir covers creations, renames and removals.               *)
(***************************************************************************)
EXTENDS Integers, Sequences

CONSTANTS
    Keys, Vals,
    NoVal,          \* a key that is not in the state; as a record: OP_DEL
    SegmentOps,     \* segment_ops
    GroupCommit,    \* group_commit_ops
    IOErrors,       \* whether write and fsync can fail
    MaxSeq,         \* bound: sequence numbers
    MaxSeg,         \* bound: segment index
    MaxCrash        \* bound: ends of the process

ASSUME EngineAssumption ==
    /\ NoVal \notin Vals /\ IOErrors \in BOOLEAN
    /\ SegmentOps \in Nat \ {0} /\ GroupCommit \in Nat \ {0}
    /\ MaxSeq \in Nat /\ MaxSeg \in Nat /\ MaxCrash \in Nat

Segs == 0..MaxSeg
Rec == [seq : 1..MaxSeq, key : Keys, val : Vals \cup {NoVal}]
State == [Keys -> Vals \cup {NoVal}]
Snap == [seq : 0..MaxSeq, st : State]

\* What stands behind the whole records of a file: nothing; a record cut short; a cut
\* record and more bytes, which still read as a cut record, or fail the CRC.
Tails == {"none", "cut", "short", "bad"}

VARIABLES
    file,           \* segments: records that can be read, number synced, tail, tail synced
    segs, segsD,    \* names in the directory, and on the medium
    snap, snapMaybe,    \* snapshot.bin, and what it can be after a power loss
    pc, arg,        \* step of the method under way, its record and `durable'
    seq, state, cur, segCount, pending,     \* the fields of the object
    crashes,        \* ends of the process so far
    hist,           \* the records that were written and not lost, in order (not in the code)
    acked,          \* the last sequence called durable with the segment on the medium (not in the code)
    faults          \* what happened to the log (not in the code)

disk == <<file, segs, segsD, snap, snapMaybe>>
mem  == <<seq, state, cur, segCount, pending>>
ghosts == <<crashes, hist, acked, faults>>
vars == <<disk, pc, arg, mem, ghosts>>

NewFile == [recs |-> <<>>, synced |-> 0, tail |-> "none", tailD |-> "none"]
NoArg == [rec |-> [seq |-> 0, key |-> NoVal, val |-> NoVal], durable |-> FALSE]
NoState == [k \in Keys |-> NoVal]
Apply(st, r) == [st EXCEPT ![r.key] = r.val]

Init ==
    /\ file = [s \in Segs |-> NewFile] /\ segs = {} /\ segsD = {}
    /\ snap = [seq |-> 0, st |-> NoState] /\ snapMaybe = {snap}
    /\ pc = "down" /\ arg = NoArg
    /\ seq = 0 /\ state = NoState /\ cur = 0 /\ segCount = 0 /\ pending = 0
    /\ crashes = 0 /\ hist = <<>> /\ acked = 0 /\ faults = {}

-----------------------------------------------------------------------------
(* Recovery: _load and _open_segment                                       *)

\* One record of the replay: covered by the snapshot, next in sequence, or a gap.
Replay(acc, r) ==
    IF ~acc.ok \/ r.seq <= acc.seq THEN acc
    ELSE IF r.seq = acc.seq + 1 THEN [seq |-> r.seq, st |-> Apply(acc.st, r), ok |-> TRUE]
    ELSE [acc EXCEPT !.ok = FALSE]

\* The records of a file: what is loaded before the first and after each.
ReplayFile(acc, recs) ==
    LET read[i \in 0..Len(recs)] == IF i = 0 THEN acc ELSE Replay(read[i - 1], recs[i])
    IN read

\* The segments in the order of their names, zero-padded to six digits: what is loaded
\* before segment 0 and after each.
ReplayFiles(loaded) ==
    LET read[n \in 0..(MaxSeg + 1)] ==
            IF n = 0 THEN loaded
            ELSE IF n - 1 \in segs
                 THEN ReplayFile(read[n - 1], file[n - 1].recs)[Len(file[n - 1].recs)]
                 ELSE read[n - 1]
    IN read

\* Mutant: the replay starts from an empty state.
LoadedWithoutState ==
    ReplayFiles([seq |-> snap.seq, st |-> NoState, ok |-> TRUE])[MaxSeg + 1]

Loaded == ReplayFiles([seq |-> snap.seq, st |-> snap.st, ok |-> TRUE])[MaxSeg + 1]

LastSeg(S) == CHOOSE s \in S : \A t \in S : t <= s

\* A CRC failure or a gap ends the constructor with RecoveryError.
Rejects == ~Loaded.ok \/ \E s \in segs : file[s].tail = "bad"

Open ==
    /\ pc = "down" /\ ~Rejects
    /\ seq' = Loaded.seq /\ state' = Loaded.st
    /\ cur' = (IF segs = {} THEN 0 ELSE LastSeg(segs))
    /\ file' = IF segs = {} THEN [file EXCEPT ![0] = NewFile] ELSE file
    /\ segs' = segs \cup {cur'}
    /\ segCount' = Len(file'[cur'].recs) /\ pending' = 0
    /\ pc' = "idle"
    /\ hist' = SubSeq(hist, 1, IF Loaded.seq < Len(hist) THEN Loaded.seq ELSE Len(hist))
    /\ UNCHANGED <<segsD, snap, snapMaybe, arg, crashes, acked, faults>>

-----------------------------------------------------------------------------
(* put, delete                                                             *)

\* Bytes that reach the file behind its whole records: behind a cut record they are
\* lost to a reader.
TailAfter(t) == IF t \in {"none", "bad"} THEN {t} ELSE {"short", "bad"}
PartAfter(t) == IF t = "none" THEN {"cut"} ELSE TailAfter(t)

Synced(f) == [f EXCEPT !.synced = Len(f.recs), !.tailD = f.tail]

\* Mutant: flush() of an unbuffered file, and nothing else.
FsyncSkipped == pending' = 0 /\ UNCHANGED disk

\* os.fsync(self._fh.fileno())
Fsync == /\ file' = [file EXCEPT ![cur] = Synced(@)]
         /\ segsD' = segsD \cup {cur} /\ pending' = 0
         /\ UNCHANGED <<segs, snap, snapMaybe>>

\* _append: the sequence number, then one write.
Write(k, v, durable) ==
    /\ pc = "idle" /\ seq < MaxSeq
    /\ LET r == [seq |-> seq + 1, key |-> k, val |-> v] IN
       /\ seq' = seq + 1 /\ arg' = [rec |-> r, durable |-> durable]
       /\ \E t \in TailAfter(file[cur].tail) :
             file' = [file EXCEPT ![cur].tail = t,
                                  ![cur].recs = IF t = "none" THEN Append(@, r) ELSE @]
       /\ faults' = IF file[cur].tail = "none" THEN faults ELSE faults \cup {"spliced"}
       /\ hist' = Append(hist, r)
    /\ segCount' = segCount + 1 /\ pending' = pending + 1
    /\ pc' = "sync"
    /\ UNCHANGED <<segs, segsD, snap, snapMaybe, state, cur, crashes, acked>>

\* An unbuffered write that stores a part and says so in its result, which nobody reads.
WriteShort(k, v, durable) ==
    /\ IOErrors /\ pc = "idle" /\ seq < MaxSeq
    /\ LET r == [seq |-> seq + 1, key |-> k, val |-> v] IN
       /\ seq' = seq + 1 /\ arg' = [rec |-> r, durable |-> durable]
       /\ \E t \in PartAfter(file[cur].tail) : file' = [file EXCEPT ![cur].tail = t]
       /\ faults' = faults \cup {"spliced"} /\ hist' = Append(hist, r)
    /\ segCount' = segCount + 1 /\ pending' = pending + 1
    /\ pc' = "sync"
    /\ UNCHANGED <<segs, segsD, snap, snapMaybe, state, cur, crashes, acked>>

\* _encode raises, for a value that is not in 0..2^64-1, or write does: the sequence
\* number is gone.
EncodeFails ==
    /\ pc = "idle" /\ seq < MaxSeq
    /\ seq' = seq + 1 /\ faults' = faults \cup {"skipped"}
    /\ UNCHANGED <<disk, pc, arg, state, cur, segCount, pending, crashes, hist, acked>>

MustSync == arg.durable \/ pending >= GroupCommit

MaybeRotate == IF segCount >= SegmentOps THEN "rotate" ELSE "return"

AppendSync ==
    /\ pc = "sync" /\ MustSync
    /\ Fsync /\ pc' = MaybeRotate
    /\ UNCHANGED <<arg, seq, state, cur, segCount, ghosts>>

AppendNoSync ==
    /\ pc = "sync" /\ ~MustSync
    /\ pc' = MaybeRotate
    /\ UNCHANGED <<disk, arg, mem, ghosts>>

\* fsync, of the file or of the directory, raises out of put: the record is in the file and not in the state.
SyncFails ==
    /\ IOErrors /\ \/ pc = "sync" /\ MustSync
                   \/ pc = "rotate" /\ pending > 0
                   \/ pc = "rotate_dirsync"
    /\ pc' = "idle" /\ arg' = NoArg /\ faults' = faults \cup {"unapplied"}
    /\ UNCHANGED <<disk, mem, crashes, hist, acked>>

\* Mutant: _rotate_segment does not flush.
RotateUnflushed ==
    /\ pc = "rotate" /\ cur < MaxSeg
    /\ cur' = cur + 1 /\ segCount' = 0
    /\ segs' = segs \cup {cur + 1} /\ file' = [file EXCEPT ![cur + 1] = NewFile]
    /\ pc' = "rotate_dirsync"
    /\ UNCHANGED <<segsD, snap, snapMaybe, arg, seq, state, pending, ghosts>>

\* _rotate_segment: flush, then the next segment.  Nothing is pending after a durable put.
Rotate ==
    /\ pc = "rotate" /\ cur < MaxSeg
    /\ cur' = cur + 1 /\ segCount' = 0
    /\ segs' = segs \cup {cur + 1}
    /\ file' = [file EXCEPT ![cur] = IF pending > 0 THEN Synced(@) ELSE @,
                            ![cur + 1] = NewFile]
    /\ segsD' = (IF pending > 0 THEN segsD \cup {cur} ELSE segsD) /\ pending' = 0
    /\ pc' = "rotate_dirsync"
    /\ UNCHANGED <<snap, snapMaybe, arg, seq, state, ghosts>>

RotateDirSync ==
    /\ pc = "rotate_dirsync"
    /\ segsD' = segs /\ snapMaybe' = {snap}
    /\ pc' = "return"
    /\ UNCHANGED <<file, segs, snap, arg, mem, ghosts>>

\* The state follows the log.  With nothing pending, the caller of a durable put, or of
\* the put that completed a group, knows everything so far to be durable.
Return ==
    /\ pc = "return"
    /\ state' = Apply(state, arg.rec)
    /\ acked' = IF pending = 0 THEN seq ELSE acked
    /\ pc' = "idle" /\ arg' = NoArg
    /\ UNCHANGED <<disk, seq, cur, segCount, pending, crashes, hist, faults>>

\* The active segment has nothing that a power loss can take.
ActiveOnMedium == cur \in segsD /\ file[cur].synced = Len(file[cur].recs)

\* flush(durable=True) syncs what this object has written.  With nothing pending it
\* returns without a sync, and the caller takes what it can read for durable.  So it is,
\* unless the records of the segment were found by the open and never synced.
Flush ==
    /\ pc = "idle"
    /\ IF pending > 0
       THEN Fsync /\ acked' = seq
       ELSE UNCHANGED <<disk, pending>> /\ acked' = IF ActiveOnMedium THEN seq ELSE acked
    /\ UNCHANGED <<pc, arg, seq, state, cur, segCount, crashes, hist, faults>>

-----------------------------------------------------------------------------
(* checkpoint                                                              *)

\* flush; snapshot.tmp is written and synced; nothing reads it but os.replace.
CkBegin ==
    /\ pc = "idle" /\ cur < MaxSeg
    /\ IF pending > 0 THEN Fsync ELSE UNCHANGED <<disk, pending>>
    /\ pc' = "ck_replace"
    /\ UNCHANGED <<arg, seq, state, cur, segCount, ghosts>>

CkReplace ==
    /\ pc = "ck_replace"
    /\ snap' = [seq |-> seq, st |-> state] /\ snapMaybe' = snapMaybe \cup {snap'}
    /\ pc' = "ck_dirsync"
    /\ UNCHANGED <<file, segs, segsD, arg, mem, ghosts>>

CkDirSync ==
    /\ pc = "ck_dirsync"
    /\ segsD' = segs /\ snapMaybe' = {snap}
    /\ pc' = "ck_segment"
    /\ UNCHANGED <<file, segs, snap, arg, mem, ghosts>>

\* The new active segment
CkSegment ==
    /\ pc = "ck_segment"
    /\ cur' = cur + 1 /\ segCount' = 0 /\ pending' = 0
    /\ segs' = segs \cup {cur + 1} /\ file' = [file EXCEPT ![cur + 1] = NewFile]
    /\ pc' = "ck_segment_dirsync"
    /\ UNCHANGED <<segsD, snap, snapMaybe, arg, seq, state, ghosts>>

CkSegmentDirSync ==
    /\ pc = "ck_segment_dirsync"
    /\ segsD' = segs /\ snapMaybe' = {snap}
    /\ pc' = "ck_unlink"
    /\ UNCHANGED <<file, segs, snap, arg, mem, ghosts>>

\* The old segments go one by one, in order.
CkUnlink ==
    /\ pc = "ck_unlink" /\ segs # {cur}
    /\ segs' = segs \ {CHOOSE s \in segs : \A t \in segs : s <= t}
    /\ UNCHANGED <<file, segsD, snap, snapMaybe, pc, arg, mem, ghosts>>

CkEnd ==
    /\ pc = "ck_unlink" /\ segs = {cur}
    /\ segsD' = segs /\ snapMaybe' = {snap}
    /\ pc' = "idle" /\ acked' = seq
    /\ UNCHANGED <<file, segs, snap, arg, mem, crashes, hist, faults>>

\* An OSError of one of its calls leaves checkpoint; where the file handle is open, the
\* object goes on.
CkFails ==
    /\ IOErrors
    /\ pc \in {"ck_replace", "ck_dirsync", "ck_segment_dirsync", "ck_unlink"}
    /\ pc' = "idle"
    /\ UNCHANGED <<disk, arg, mem, ghosts>>

-----------------------------------------------------------------------------
(* The end of the process                                                  *)

Down == /\ pc' = "down" /\ arg' = NoArg /\ crashes' = crashes + 1
        /\ seq' = 0 /\ state' = NoState /\ cur' = 0 /\ segCount' = 0 /\ pending' = 0

\* close(): flush(durable=True), with the same gap when nothing is pending.
Close ==
    /\ pc = "idle" /\ crashes < MaxCrash
    /\ Down
    /\ IF pending > 0
       THEN /\ file' = [file EXCEPT ![cur] = Synced(@)] /\ segsD' = segsD \cup {cur}
            /\ acked' = seq
       ELSE UNCHANGED <<file, segsD>> /\ acked' = IF ActiveOnMedium THEN seq ELSE acked
    /\ UNCHANGED <<segs, snap, snapMaybe, hist, faults>>

\* The process is killed: the files stay as they are.
Kill ==
    /\ pc # "down" /\ crashes < MaxCrash
    /\ Down
    /\ UNCHANGED <<disk, hist, acked, faults>>

\* It is killed inside write: a part of the record is in the file.
KillInAppend ==
    /\ pc = "idle" /\ crashes < MaxCrash
    /\ Down
    /\ \E t \in PartAfter(file[cur].tail) : file' = [file EXCEPT ![cur].tail = t]
    /\ faults' = IF file[cur].tail = "none" THEN faults ELSE faults \cup {"spliced"}
    /\ UNCHANGED <<segs, segsD, snap, snapMaybe, hist, acked>>

\* What is left of a file: what was synced, and any part of the rest.
TailsLeft(f, n) ==
    {t \in Tails :
        IF n < Len(f.recs) THEN t \in {"none", "cut"}
        ELSE \/ t \in {f.tailD, f.tail}
             \/ f.tailD = "none" /\ f.tail # "none" /\ t = "cut"
             \/ f.tailD \in {"none", "cut"} /\ f.tail = "bad" /\ t = "short"}

FileLeft(f, n, t) == [recs |-> SubSeq(f.recs, 1, n), synced |-> n, tail |-> t, tailD |-> t]
Left(f) == UNION {{FileLeft(f, n, t) : t \in TailsLeft(f, n)} : n \in f.synced..Len(f.recs)}

\* A power loss takes what was not synced, in every segment by itself, and directory
\* changes since the last sync.
PowerLoss ==
    /\ crashes < MaxCrash
    /\ Down
    /\ \E S \in SUBSET (segs \cup segsD) :
          /\ segs \cap segsD \subseteq S
          /\ segs' = S /\ segsD' = S
          /\ \E f \in [S -> UNION {Left(file[s]) : s \in S}] :
                /\ \A s \in S : f[s] \in Left(file[s])
                /\ file' = [s \in Segs |-> IF s \in S THEN f[s] ELSE NewFile]
    /\ snap' \in snapMaybe /\ snapMaybe' = {snap'}
    /\ UNCHANGED <<hist, acked, faults>>

-----------------------------------------------------------------------------
Put(k, v, d) == Write(k, v, d) \/ WriteShort(k, v, d)

Next ==
    \/ Open
    \/ \E k \in Keys, v \in Vals \cup {NoVal}, d \in BOOLEAN : Put(k, v, d)
    \/ EncodeFails \/ AppendSync \/ AppendNoSync \/ SyncFails
    \/ Rotate \/ RotateDirSync \/ Return \/ Flush
    \/ CkBegin \/ CkReplace \/ CkDirSync \/ CkSegment \/ CkSegmentDirSync \/ CkUnlink \/ CkEnd
    \/ CkFails
    \/ Close \/ Kill \/ KillInAppend \/ PowerLoss

Spec == Init /\ [][Next]_vars

-----------------------------------------------------------------------------
FileType == [recs : Seq(Rec), synced : 0..MaxSeq, tail : Tails, tailD : Tails]

TypeOK ==
    /\ file \in [Segs -> FileType] /\ segs \subseteq Segs /\ segsD \subseteq Segs
    /\ snap \in Snap /\ snapMaybe \subseteq Snap /\ snap \in snapMaybe
    /\ pc \in {"down", "idle", "sync", "rotate", "rotate_dirsync", "return", "ck_replace",
               "ck_dirsync", "ck_segment", "ck_segment_dirsync", "ck_unlink"}
    /\ seq \in 0..MaxSeq /\ state \in State /\ cur \in Segs
    /\ segCount \in 0..MaxSeq /\ pending \in 0..MaxSeq
    /\ crashes \in 0..MaxCrash /\ hist \in Seq(Rec) /\ acked \in 0..MaxSeq
    /\ faults \subseteq {"spliced", "skipped", "unapplied"}

\* The open database has every operation that a durable put, a completed group, a
\* checkpoint, a flush or a close has called durable while the active segment was on the
\* medium, in every order of writes, rotations, checkpoints, crashes and power losses, unless
\* bytes were appended behind a cut record or a put that raised skipped a number.  Not of
\* this kind is a flush or close behind an open that found records a killed process had
\* not synced: with nothing pending it calls them durable, and a power loss can take them.
AckedRecovered == pc = "idle" /\ faults \subseteq {"unapplied"} => seq >= acked

\* The state before the first operation of a sequence, and after each.
StatesOf(rs) ==
    LET st[i \in 0..Len(rs)] == IF i = 0 THEN NoState ELSE Apply(st[i - 1], rs[i]) IN st

\* Without faults the state is that of the operations up to seq, none missing and none
\* applied twice, whatever part of them came from the snapshot and from the segments.
ExactPrefix ==
    /\ TypeOK
    /\ pc = "idle" /\ faults = {} =>
          /\ Len(hist) = seq /\ \A i \in 1..seq : hist[i].seq = i
          /\ state = StatesOf(hist)[seq]

\* The constructor raises RecoveryError only on a log with bytes behind a cut record or
\* a number skipped by a put that raised; never because of a crash or a power loss alone.
RejectsOnlyFaults == pc = "down" /\ Rejects => faults \cap {"spliced", "skipped"} # {}

=============================================================================
