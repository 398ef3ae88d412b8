--------------------------- MODULE DatabaseV1_proofs ---------------------------
(***************************************************************************)
(* What TLAPS proves about DatabaseV1, for every choice of keys, values,     *)
(* batch size and bounds, in three parts, each on top of the one before:    *)
(*   types: replay_wal, create_wal and the sequences stay in their ranges;  *)
(*   files: recovery meets no error but a missing header;                   *)
(*   contents: recovery gives back a prefix of the history, what was         *)
(*   acknowledged stays on the medium, and clients see a durable store.      *)
(***************************************************************************)
EXTENDS DatabaseV1, SequenceTheorems, TLAPS

-----------------------------------------------------------------------------
(* Types: the operators keep them.                                         *)

LEMMA EmptyType == Empty \in Map
  BY DEF Empty, Map, Value

LEMMA NoSnapType == NoSnap \in Snap
  BY EmptyType, ConstantAssumption DEF NoSnap, Snap

LEMMA NewFileType ==
  ASSUME NEW n \in 1..(MaxSeq + 1) PROVE NewFile(n) \in WalFile
  BY ConstantAssumption DEF NewFile, WalFile

LEMMA ApplyType ==
  ASSUME NEW m \in Map, NEW r \in Rec PROVE Apply(m, r) \in Map
  BY DEF Apply, Map, Rec

LEMMA AppendedType ==
  ASSUME NEW f \in WalFile, NEW r \in Rec PROVE Appended(f, r) \in WalFile
<1>1. f.recs \in Seq(Rec) /\ f = [f EXCEPT !.recs = f.recs]
  BY DEF WalFile
<1> DEFINE q == Append(f.recs, r)
<1>2. q \in Seq(Rec)
  BY <1>1
<1> HIDE DEF q
<1>3. [f EXCEPT !.recs = q] \in WalFile
  BY <1>2 DEF WalFile
<1>4. Appended(f, r) = f \/ Appended(f, r) = [f EXCEPT !.recs = q]
  BY DEF Appended, q
<1> QED
  BY <1>3, <1>4

LEMMA SyncedType ==
  ASSUME NEW f \in WalFile PROVE Synced(f) \in WalFile
  BY DEF Synced, WalFile

LEMMA TornType ==
  ASSUME NEW f \in WalFile, NEW t \in {"no", "yes", "cut"}
  PROVE [f EXCEPT !.torn = t] \in WalFile
  BY DEF WalFile

LEMMA HeaderType ==
  ASSUME NEW f \in WalFile PROVE [f EXCEPT !.hdr = "written"] \in WalFile
  BY DEF WalFile

LEMMA LinksType ==
  ASSUME walsD \subseteq Segs, NEW s \in Segs PROVE LinksAfterSync(s) \subseteq Segs
  BY DEF LinksAfterSync

LEMMA CutType ==
  ASSUME NEW S, NEW s \in Seq(S), NEW n \in Nat PROVE Cut(s, n) \in Seq(S)
  BY DEF Cut

LEMMA SurvivorsType ==
  ASSUME file \in [Segs -> WalFile], NEW s \in Segs
  PROVE Survivors(s) \subseteq WalFile
<1> SUFFICES ASSUME NEW g \in Survivors(s) PROVE g \in WalFile
  OBVIOUS
<1>1. file[s] \in WalFile
  OBVIOUS
<1>2. PICK h \in {"empty", "written", "ok"}, n \in file[s].synced..Len(file[s].recs),
           t \in {"no", "yes"} :
        g = [hdr |-> h, first |-> file[s].first, recs |-> SubSeq(file[s].recs, 1, n),
             torn |-> t, synced |-> n]
  BY <1>1 DEF Survivors, WalFile
<1>3. SubSeq(file[s].recs, 1, n) \in Seq(Rec) /\ n \in Nat
  BY <1>1 DEF WalFile
<1>4. QED
  BY <1>1, <1>2, <1>3 DEF WalFile

LEMMA SnapSurvivorsType ==
  ASSUME NEW s \in Snap PROVE SnapSurvivors(s) \subseteq Snap
  BY DEF SnapSurvivors, Snap

-----------------------------------------------------------------------------
(* The type invariant.  It needs to be known that create_wal has an id left *)
(* for the new segment, and where replay is.                               *)

RoomForSegment ==
    pc \in (CkSteps \ {"ck_remove"}) \cup {"cw_open", "cw_header", "cw_sync"} => seg < MaxSeg

ReplayPosition ==
    /\ pc = "down" => seg = 0 /\ rseg = 0 /\ rpos = 0
    /\ pc = "replay" => seg = rseg /\ (rseg # 0 => rseg \in wals)
    /\ rpos > 0 \/ pc = "repair" => rseg # 0

Position == RoomForSegment /\ ReplayPosition

TypeInv == TypeOK /\ Position

LEMMA TypeInit == Init => TypeInv
<1> SUFFICES ASSUME Init PROVE TypeInv
  OBVIOUS
<1>1. DiskType
  BY NoSnapType, NewFileType, ConstantAssumption DEF Init, DiskType
<1>2. MemType /\ ThreadType
  BY EmptyType, ConstantAssumption DEF Init, MemType, ThreadType
<1>3. up \in BOOLEAN
  BY Zenon DEF Init
<1>4. ControlType
  BY <1>3, NoSnapType, ConstantAssumption DEF Init, ControlType, Failures
<1>5. GhostType
  BY EmptyType, ConstantAssumption DEF Init, GhostType
<1>6. Position
  BY DEF Init, Position, RoomForSegment, ReplayPosition, CkSteps
<1>7. QED
  BY <1>1, <1>2, <1>4, <1>5, <1>6 DEF TypeInv, TypeOK

\* A part of the state that a step leaves alone keeps its type.
LEMMA TypeFrame ==
  ASSUME TypeOK
  PROVE  /\ UNCHANGED disk => DiskType'
         /\ UNCHANGED mem => MemType'
         /\ UNCHANGED thr => ThreadType'
         /\ UNCHANGED <<pc, up, tmp, replay, fail>> => ControlType'
         /\ UNCHANGED <<ghost, crashes>> => GhostType'
  BY DEF TypeOK, DiskType, MemType, ThreadType, ControlType, GhostType, disk, mem, thr,
         replay, ghost

\* When the process ends, only the files and the history have to be looked at.
LEMMA TypeLost ==
  ASSUME Lost, fail' \in Failures
  PROVE  MemType' /\ ThreadType' /\ ControlType' /\ Position'
<1>1. MemType' /\ ThreadType'
  BY EmptyType, ConstantAssumption DEF Lost, MemType, ThreadType
<1>2. up' \in BOOLEAN /\ tmp' \in Snap
  BY NoSnapType, Zenon DEF Lost
<1>3. pc' \in {"down", "replay", "repair", "idle", "closing"} \cup CkSteps \cup CwSteps
  BY DEF Lost
<1>4. rseg' \in 0..MaxSeg /\ rpos' \in Nat /\ rexp' \in Nat
  BY ConstantAssumption DEF Lost
<1>5. Position'
  BY DEF Lost, Position, RoomForSegment, ReplayPosition, CkSteps
<1>6. QED
  BY <1>1, <1>2, <1>3, <1>4, <1>5, Zenon DEF ControlType

LEMMA TypeOpenFails ==
  ASSUME TypeInv, NEW why \in Failures, OpenFails(why) PROVE TypeInv'
  BY TypeFrame, TypeLost DEF OpenFails, TypeInv, TypeOK

LEMMA TypeRecovery == TypeInv /\ Recovery => TypeInv'
<1> SUFFICES ASSUME TypeInv, Recovery PROVE TypeInv'
  OBVIOUS
<1> USE ConstantAssumption DEF TypeInv, TypeOK
<1>1. CASE Open
  <2>1. CASE snap.st = "corrupt"
    BY <1>1, <2>1, TypeOpenFails DEF Open, Failures
  <2>2. CASE snap.st # "corrupt"
    <3>1. MemType'
      BY <1>1, <2>2 DEF Open, MemType, DiskType, Snap
    <3>2. ControlType'
      BY <1>1, <2>2 DEF Open, ControlType, Failures, replay
    <3>3. Position'
      BY <1>1, <2>2 DEF Open, Position, RoomForSegment, ReplayPosition, CkSteps, disk, replay
    <3>4. QED
      BY <1>1, <2>2, <3>1, <3>2, <3>3, TypeFrame DEF Open
  <2>3. QED
    BY <2>1, <2>2
<1>2. ASSUME NEW s \in Segs, ReplayHeader(s) PROVE TypeInv'
  <2>1. CASE file[s].hdr = "empty"
    BY <1>2, <2>1, TypeOpenFails DEF ReplayHeader, Failures
  <2>2. CASE file[s].hdr # "empty"
    <3>1. file[s].first \in Nat /\ s \in wals /\ seg = rseg /\ s > rseg /\ s \in 1..MaxSeg
      BY <1>2 DEF ReplayHeader, NextSegment, DiskType, WalFile, Position, ReplayPosition, Segs
    <3>2. seg' = s
      BY <1>2, <2>2, <3>1 DEF ReplayHeader, Max2, MemType
    <3>3. MemType'
      BY <1>2, <2>2, <3>1, <3>2 DEF ReplayHeader, MemType
    <3>4. ControlType'
      BY <1>2, <2>2, <3>1 DEF ReplayHeader, ControlType, MemType, Max2
    <3>5. Position'
      BY <1>2, <2>2, <3>1, <3>2 DEF ReplayHeader, Position, RoomForSegment, ReplayPosition,
         CkSteps, disk
    <3>6. QED
      BY <1>2, <2>2, <3>3, <3>4, <3>5, TypeFrame DEF ReplayHeader
  <2>3. QED
    BY <2>1, <2>2
<1>3. CASE ReplayCovered
  <2>1. ControlType'
    BY <1>3 DEF ReplayCovered, ControlType
  <2>2. Position'
    BY <1>3 DEF ReplayCovered, Position, RoomForSegment, ReplayPosition, CkSteps, mem, disk
  <2>3. QED
    BY <1>3, <2>1, <2>2, TypeFrame DEF ReplayCovered
<1>4. CASE ReplayRecord
  <2> DEFINE r == file[rseg].recs[rpos]
  <2>1. r \in Rec
    BY <1>4 DEF ReplayRecord, Position, ReplayPosition, DiskType, ControlType, WalFile, Segs
  <2>2. CASE r.seq # rexp
    BY <1>4, <2>2, TypeOpenFails DEF ReplayRecord, Failures
  <2>3. CASE r.seq = rexp
    <3>1. MemType'
      BY <1>4, <2>1, <2>3, ApplyType DEF ReplayRecord, MemType, Rec
    <3>2. ControlType'
      BY <1>4, <2>3 DEF ReplayRecord, ControlType
    <3>3. Position'
      BY <1>4, <2>3 DEF ReplayRecord, Position, RoomForSegment, ReplayPosition, CkSteps, disk
    <3>4. QED
      BY <1>4, <2>3, <3>1, <3>2, <3>3, TypeFrame DEF ReplayRecord
  <2>4. QED
    BY <2>2, <2>3
<1>5. CASE ReplayTail
  <2>1. CASE file[rseg].torn = "yes" /\ ~LastSegment
    BY <1>5, <2>1, TypeOpenFails DEF ReplayTail, Failures
  <2>2. CASE ~(file[rseg].torn = "yes" /\ ~LastSegment)
    <3>1. ControlType'
      BY <1>5, <2>2 DEF ReplayTail, ControlType
    <3>2. Position'
      BY <1>5, <2>2 DEF ReplayTail, Position, RoomForSegment, ReplayPosition, CkSteps, mem, disk
    <3>3. QED
      BY <1>5, <2>2, <3>1, <3>2, TypeFrame DEF ReplayTail
  <2>3. QED
    BY <2>1, <2>2
<1>6. ASSUME Attach, pc \in {"replay", "repair"}
      PROVE  MemType' /\ ThreadType' /\ ControlType' /\ GhostType' /\ Position'
  <2>1. MemType' /\ ThreadType'
    BY <1>6 DEF Attach, MemType, ThreadType, ControlType, thr
  <2>2. ControlType'
    BY <1>6 DEF Attach, ControlType, replay
  <2>3. GhostType'
    BY <1>6, CutType DEF Attach, Recovered, GhostType, MemType
  <2>4. Position'
    BY <1>6 DEF Attach, Position, RoomForSegment, ReplayPosition, CkSteps, replay
  <2>5. QED
    BY <2>1, <2>2, <2>3, <2>4
<1>7. CASE RecoverAttach
  <2>1. DiskType'
    BY <1>7 DEF RecoverAttach, Attach, DiskType
  <2>2. QED
    BY <1>6, <1>7, <2>1 DEF RecoverAttach, Replayed
<1>8. CASE RepairTruncate
  <2>1. rseg \in Segs /\ file[rseg] \in WalFile
    BY <1>8 DEF RepairTruncate, Replayed, ControlType, DiskType, Segs
  <2>2. DiskType'
    BY <1>8, <2>1, TornType DEF RepairTruncate, DiskType
  <2>3. ControlType'
    BY <1>8 DEF RepairTruncate, ControlType, replay
  <2>4. Position'
    BY <1>8 DEF RepairTruncate, Replayed, Position, RoomForSegment, ReplayPosition, CkSteps,
       replay
  <2>5. QED
    BY <1>8, <2>2, <2>3, <2>4, TypeFrame DEF RepairTruncate
<1>9. CASE RepairSync
  <2>1. rseg \in Segs
    BY <1>9 DEF RepairSync, Position, ReplayPosition, ControlType, Segs
  <2>2. DiskType'
    BY <1>9, <2>1, SyncedType, LinksType DEF RepairSync, Attach, DiskType
  <2>3. QED
    BY <1>6, <1>9, <2>2 DEF RepairSync
<1>10. CASE RecoverFails
  BY <1>10, TypeOpenFails DEF RecoverFails, Failures
<1>11. CASE RecoverFresh
  <2>1. MemType'
    BY <1>11 DEF RecoverFresh, MemType
  <2>2. ControlType'
    BY <1>11 DEF RecoverFresh, ControlType, CwSteps, replay
  <2>3. Position'
    BY <1>11 DEF RecoverFresh, Position, RoomForSegment, ReplayPosition, CkSteps, replay
  <2>4. QED
    BY <1>11, <2>1, <2>2, <2>3, TypeFrame DEF RecoverFresh
<1>12. QED
  BY <1>1, <1>2, <1>3, <1>4, <1>5, <1>7, <1>8, <1>9, <1>10, <1>11 DEF Recovery

LEMMA TypeCreateWal == TypeInv /\ CreateWal => TypeInv'
<1> SUFFICES ASSUME TypeInv, CreateWal PROVE TypeInv'
  OBVIOUS
<1> USE ConstantAssumption DEF TypeInv, TypeOK
<1>1. ASSUME pc \in {"cw_open", "cw_header", "cw_sync"} PROVE seg + 1 \in Segs
  BY <1>1 DEF Position, RoomForSegment, MemType, Segs
<1>2. CASE CwOpen
  <2>1. DiskType'
    BY <1>1, <1>2, NewFileType DEF CwOpen, DiskType, MemType
  <2>2. ControlType'
    BY <1>2 DEF CwOpen, ControlType, CwSteps, replay
  <2>3. Position'
    BY <1>2 DEF CwOpen, Position, RoomForSegment, ReplayPosition, CkSteps, mem, replay
  <2>4. QED
    BY <1>2, <2>1, <2>2, <2>3, TypeFrame DEF CwOpen
<1>3. CASE CwHeader
  <2>1. DiskType'
    BY <1>1, <1>3, HeaderType DEF CwHeader, DiskType
  <2>2. ControlType'
    BY <1>3 DEF CwHeader, ControlType, CwSteps, replay
  <2>3. Position'
    BY <1>3 DEF CwHeader, Position, RoomForSegment, ReplayPosition, CkSteps, mem, replay
  <2>4. QED
    BY <1>3, <2>1, <2>2, <2>3, TypeFrame DEF CwHeader
<1>4. CASE CwSync
  <2>1. DiskType'
    BY <1>1, <1>4, SyncedType, LinksType DEF CwSync, DiskType
  <2>2. MemType'
    BY <1>1, <1>4 DEF CwSync, MemType, Segs
  <2>3. ControlType'
    BY <1>4 DEF CwSync, ControlType, CwSteps, replay
  <2>4. Position'
    BY <1>4 DEF CwSync, Position, RoomForSegment, ReplayPosition, CkSteps, replay
  <2>5. QED
    BY <1>4, <2>1, <2>2, <2>3, <2>4, TypeFrame DEF CwSync
<1>5. CASE CwDirSync
  <2>1. DiskType'
    BY <1>5 DEF CwDirSync, DirSync, DiskType
  <2>2. up' \in BOOLEAN
    BY <1>5, Zenon DEF CwDirSync
  <2>3. ControlType'
    BY <1>5, <2>2 DEF CwDirSync, ControlType, CkSteps, replay
  <2>4. GhostType'
    <3>1. CASE up
      BY <1>5, <3>1 DEF CwDirSync, GhostType
    <3>2. CASE ~up
      BY <1>5, <3>2, CutType DEF CwDirSync, Recovered, GhostType, MemType
    <3>3. QED
      BY <3>1, <3>2
  <2>5. Position'
    BY <1>5 DEF CwDirSync, Position, RoomForSegment, ReplayPosition, CkSteps, mem, replay
  <2>6. QED
    BY <1>5, <2>1, <2>3, <2>4, <2>5, TypeFrame DEF CwDirSync
<1>6. CASE CwPreallocFail
  <2>1. DiskType'
    BY <1>1, <1>6, SyncedType, LinksType DEF CwPreallocFail, DiskType
  <2>2. ControlType'
    BY <1>6 DEF CwPreallocFail, ControlType, replay
  <2>3. Position'
    BY <1>6 DEF CwPreallocFail, Position, RoomForSegment, ReplayPosition, CkSteps, mem, replay
  <2>4. QED
    BY <1>6, <2>1, <2>2, <2>3, TypeFrame DEF CwPreallocFail
<1>7. CASE CwOpenFail
  BY <1>7, TypeOpenFails DEF CwOpenFail, Failures
<1>8. QED
  BY <1>2, <1>3, <1>4, <1>5, <1>6, <1>7 DEF CreateWal

LEMMA TypeWriter == TypeInv /\ Writer => TypeInv'
<1> SUFFICES ASSUME TypeInv, Writer PROVE TypeInv'
  OBVIOUS
<1> USE ConstantAssumption DEF TypeInv, TypeOK
<1>1. ASSUME UNCHANGED <<wals, seg, pc, replay>> PROVE Position'
  BY <1>1 DEF Position, RoomForSegment, ReplayPosition, replay
<1>2. CASE WriterTake
  <2> DEFINE n == IF Len(queue) <= WalBatch THEN Len(queue) ELSE WalBatch
  <2>1. n \in 1..Len(queue) /\ queue \in Seq(Rec)
    BY <1>2 DEF WriterTake, MemType
  <2>2. queue[n] \in Rec
    BY <2>1
  <2>3. /\ SubSeq(queue, 1, n) \in Seq(Rec)
        /\ SubSeq(queue, n + 1, Len(queue)) \in Seq(Rec)
    BY <2>1
  <2>4. /\ local' = SubSeq(queue, 1, n) /\ queue' = SubSeq(queue, n + 1, Len(queue))
        /\ batchEnd' = queue[n].seq
    BY <1>2 DEF WriterTake
  <2> HIDE DEF n
  <2>5. MemType'
    BY <1>2, <2>3, <2>4 DEF WriterTake, MemType
  <2>a. queue[n].seq \in 0..MaxSeq
    BY <2>2 DEF Rec
  <2>b. w' = "write"
    BY <1>2 DEF WriterTake
  <2>6. ThreadType'
    BY <2>3, <2>4, <2>a, <2>b DEF ThreadType
  <2>7. QED
    BY <1>1, <1>2, <2>5, <2>6, TypeFrame DEF WriterTake, disk
<1>3. CASE WriterWrite
  <2>1. wfd \in Segs /\ Head(local) \in Rec /\ Tail(local) \in Seq(Rec)
    BY <1>3 DEF WriterWrite, MemType, ThreadType, Segs
  <2>2. DiskType'
    BY <1>3, <2>1, AppendedType DEF WriterWrite, DiskType
  <2>3. ThreadType'
    BY <1>3, <2>1 DEF WriterWrite, ThreadType
  <2>4. QED
    BY <1>1, <1>3, <2>2, <2>3, TypeFrame DEF WriterWrite, mem
<1>4. CASE WriterSync
  <2>1. wfd \in Segs
    BY <1>4 DEF WriterSync, MemType, Segs
  <2>2. DiskType'
    BY <1>4, <2>1, SyncedType, LinksType DEF WriterSync, DiskType
  <2>3. ThreadType'
    BY <1>4 DEF WriterSync, ThreadType
  <2>4. QED
    BY <1>1, <1>4, <2>2, <2>3, TypeFrame DEF WriterSync, mem
<1>5. CASE WriterPublish
  <2>1. MemType' /\ ThreadType'
    BY <1>5 DEF WriterPublish, MemType, ThreadType
  <2>2. QED
    BY <1>1, <1>5, <2>1, TypeFrame DEF WriterPublish, disk
<1>6. ASSUME NEW b \in BOOLEAN, WriterFail(b) PROVE TypeInv'
  <2>1. DiskType'
    <3>1. CASE b
      <4>1. wfd \in Segs
        BY <1>6, <3>1 DEF WriterFail, MemType, Segs
      <4>2. QED
        BY <1>6, <3>1, <4>1, TornType DEF WriterFail, DiskType
    <3>2. CASE ~b
      BY <1>6, <3>2 DEF WriterFail, DiskType
    <3>3. QED
      BY <3>1, <3>2
  <2>2. ThreadType'
    BY <1>6 DEF WriterFail, ThreadType
  <2>3. QED
    BY <1>1, <1>6, <2>1, <2>2, TypeFrame DEF WriterFail, mem
<1>7. QED
  BY <1>2, <1>3, <1>4, <1>5, <1>6 DEF Writer

LEMMA TypeCheckpoint == TypeInv /\ Checkpoint => TypeInv'
<1> SUFFICES ASSUME TypeInv, Checkpoint PROVE TypeInv'
  OBVIOUS
<1> USE ConstantAssumption DEF TypeInv, TypeOK
<1>1. ASSUME UNCHANGED <<wals, mem, replay>>, seg < MaxSeg \/ pc' \in {"idle", "ck_remove"},
             pc' \in {"idle"} \cup CkSteps
      PROVE  Position'
  BY <1>1 DEF Position, RoomForSegment, ReplayPosition, CkSteps, mem, replay
<1>2. ASSUME pc \in CkSteps, pc # "ck_remove" PROVE seg < MaxSeg
  BY <1>2 DEF Position, RoomForSegment
<1>3. CASE CkBegin
  <2>1. ControlType'
    BY <1>3 DEF CkBegin, ControlType, CkSteps, replay
  <2>2. Position'
    BY <1>1, <1>3 DEF CkBegin, CkSteps, disk
  <2>3. QED
    BY <1>3, <2>1, <2>2, TypeFrame DEF CkBegin
<1>4. CASE CkWrite
  <2>1. ControlType'
    BY <1>4 DEF CkWrite, ControlType, MemType, Snap, CkSteps, replay
  <2>2. Position'
    BY <1>1, <1>2, <1>4 DEF CkWrite, CkSteps, disk
  <2>3. QED
    BY <1>4, <2>1, <2>2, TypeFrame DEF CkWrite
<1>5. CASE CkFsync
  <2>1. ControlType'
    BY <1>5 DEF CkFsync, ControlType, Snap, CkSteps, replay
  <2>2. Position'
    BY <1>1, <1>2, <1>5 DEF CkFsync, CkSteps, disk
  <2>3. QED
    BY <1>5, <2>1, <2>2, TypeFrame DEF CkFsync
<1>6. CASE CkRename
  <2>1. DiskType'
    BY <1>6 DEF CkRename, DiskType, ControlType
  <2>2. ControlType'
    BY <1>6, NoSnapType DEF CkRename, ControlType, CkSteps, replay
  <2>3. Position'
    BY <1>1, <1>2, <1>6 DEF CkRename, CkSteps
  <2>4. QED
    BY <1>6, <2>1, <2>2, <2>3, TypeFrame DEF CkRename
<1>7. CASE CkDirSync
  <2>1. DiskType'
    BY <1>7 DEF CkDirSync, DirSync, DiskType
  <2>2. ControlType'
    BY <1>7 DEF CkDirSync, ControlType, CkSteps, replay
  <2>3. Position'
    BY <1>1, <1>2, <1>7 DEF CkDirSync, CkSteps
  <2>4. QED
    BY <1>7, <2>1, <2>2, <2>3, TypeFrame DEF CkDirSync
<1>8. CASE CkRotate
  <2>1. DiskType'
    <3>1. CASE wfd = 0
      BY <1>8, <3>1 DEF CkRotate, DiskType
    <3>2. CASE wfd # 0
      <4>1. wfd \in Segs
        BY <3>2 DEF MemType, Segs
      <4>2. QED
        BY <1>8, <3>2, <4>1, SyncedType, LinksType DEF CkRotate, DiskType
    <3>3. QED
      BY <3>1, <3>2
  <2>2. MemType'
    BY <1>8 DEF CkRotate, MemType
  <2>3. ControlType'
    BY <1>8 DEF CkRotate, ControlType, CwSteps, replay
  <2>4. Position'
    BY <1>2, <1>8 DEF CkRotate, Position, RoomForSegment, ReplayPosition, CkSteps, replay
  <2>5. QED
    BY <1>8, <2>1, <2>2, <2>3, <2>4, TypeFrame DEF CkRotate
<1>9. ASSUME NEW s \in Segs, CkRemove(s) PROVE TypeInv'
  <2>1. DiskType'
    BY <1>9 DEF CkRemove, DiskType
  <2>2. Position'
    BY <1>9 DEF CkRemove, Position, RoomForSegment, ReplayPosition, CkSteps, mem, replay
  <2>3. QED
    BY <1>9, <2>1, <2>2, TypeFrame DEF CkRemove
<1>10. CASE CkDone
  <2>1. DiskType'
    BY <1>10 DEF CkDone, DirSync, DiskType
  <2>2. ControlType'
    BY <1>10 DEF CkDone, ControlType, replay
  <2>3. GhostType'
    BY <1>10 DEF CkDone, GhostType, MemType, Max2
  <2>4. Position'
    BY <1>1, <1>10 DEF CkDone
  <2>5. QED
    BY <1>10, <2>1, <2>2, <2>3, <2>4, TypeFrame DEF CkDone
<1>11. CASE CkFail
  <2>1. ControlType'
    BY <1>11, NoSnapType DEF CkFail, ControlType, replay
  <2>2. Position'
    BY <1>1, <1>11 DEF CkFail, disk
  <2>3. QED
    BY <1>11, <2>1, <2>2, TypeFrame DEF CkFail
<1>12. QED
  BY <1>3, <1>4, <1>5, <1>6, <1>7, <1>8, <1>9, <1>10, <1>11 DEF Checkpoint

LEMMA TypeClose == TypeInv /\ Close => TypeInv'
<1> SUFFICES ASSUME TypeInv, Close PROVE TypeInv'
  OBVIOUS
<1> USE ConstantAssumption DEF TypeInv, TypeOK
<1>1. CASE CloseBegin
  <2>1. ControlType'
    BY <1>1 DEF CloseBegin, ControlType, replay
  <2>2. Position'
    BY <1>1 DEF CloseBegin, Position, RoomForSegment, ReplayPosition, CkSteps, disk, mem, replay
  <2>3. QED
    BY <1>1, <2>1, <2>2, TypeFrame DEF CloseBegin
<1>2. CASE CloseClean
  <2>1. DiskType'
    <3>1. CASE wfd = 0
      BY <1>2, <3>1 DEF CloseClean, DiskType
    <3>2. CASE wfd # 0
      <4>1. wfd \in Segs
        BY <3>2 DEF MemType, Segs
      <4>2. QED
        BY <1>2, <3>2, <4>1, SyncedType, LinksType DEF CloseClean, DiskType
    <3>3. QED
      BY <3>1, <3>2
  <2>2. GhostType'
    BY <1>2 DEF CloseClean, GhostType, MemType, Max2
  <2>3. QED
    BY <1>2, <2>1, <2>2, TypeLost DEF CloseClean, ControlType
<1>3. CASE CloseError
  BY <1>3, TypeFrame, TypeLost DEF CloseError, ControlType
<1>4. QED
  BY <1>1, <1>2, <1>3 DEF Close

LEMMA TypeCrash == TypeInv /\ Crash => TypeInv'
<1> SUFFICES ASSUME TypeInv, Crash PROVE TypeInv'
  OBVIOUS
<1> USE ConstantAssumption DEF TypeInv, TypeOK
<1>1. ASSUME crashes < MaxCrash, crashes' = crashes + 1, UNCHANGED ghost PROVE GhostType'
  BY <1>1 DEF GhostType, ghost
<1>2. ASSUME NEW b \in BOOLEAN, ProcessCrash(b) PROVE TypeInv'
  <2>1. DiskType'
    <3>1. CASE b
      <4>1. wfd \in Segs
        BY <1>2, <3>1 DEF ProcessCrash, MemType, Segs
      <4>2. QED
        BY <1>2, <3>1, <4>1, TornType DEF ProcessCrash, DiskType
    <3>2. CASE ~b
      BY <1>2, <3>2 DEF ProcessCrash, DiskType
    <3>3. QED
      BY <3>1, <3>2
  <2>2. QED
    BY <1>1, <1>2, <2>1, TypeLost DEF ProcessCrash, ControlType
<1>3. CASE PowerLoss
  <2>1. snap' \in Snap /\ snapMaybe' \subseteq Snap
    BY <1>3, SnapSurvivorsType DEF PowerLoss, DiskType
  <2>2. PICK g \in [Dirty -> UNION {Survivors(s) : s \in Dirty}] :
          /\ \A s \in Dirty : g[s] \in Survivors(s) /\ Survives(g[s])
          /\ file' = [s \in Segs |-> IF s \in Dirty THEN g[s] ELSE file[s]]
    BY <1>3 DEF PowerLoss
  <2>3. file' \in [Segs -> WalFile]
    <3> SUFFICES ASSUME NEW s \in Segs PROVE (IF s \in Dirty THEN g[s] ELSE file[s]) \in WalFile
      BY <2>2
    <3>1. Survivors(s) \subseteq WalFile /\ file[s] \in WalFile
      BY SurvivorsType DEF DiskType
    <3>2. QED
      BY <2>2, <3>1
  <2>4. wals' \subseteq Segs /\ walsD' \subseteq Segs
    BY <1>3 DEF PowerLoss, DiskType
  <2>5. QED
    BY <1>1, <1>3, <2>1, <2>3, <2>4, TypeLost DEF PowerLoss, DiskType, ControlType
<1>4. QED
  BY <1>2, <1>3 DEF Crash

LEMMA TypeCalls ==
  ASSUME TypeInv, \/ \E k \in Keys, v \in Value : Submit(k, v)
                  \/ \E t \in 1..MaxSeq : Wait(t)
  PROVE  TypeInv'
<1> USE ConstantAssumption DEF TypeInv, TypeOK
<1>1. ASSUME NEW k \in Keys, NEW v \in Value, Submit(k, v) PROVE TypeInv'
  <2> DEFINE r == [seq |-> next + 1, key |-> k, val |-> v]
  <2>1. r \in Rec
    BY <1>1 DEF Submit, MemType, Rec
  <2>2. Apply(index, r) \in Map
    BY <2>1, ApplyType DEF MemType
  <2>3. /\ queue' = Append(queue, r) /\ index' = Apply(index, r)
        /\ hist' = Append(hist, Apply(index, r)) /\ next' = next + 1 /\ next < MaxSeq
    BY <1>1 DEF Submit
  <2> HIDE DEF r
  <2>4. MemType'
    BY <1>1, <2>1, <2>2, <2>3 DEF Submit, MemType
  <2>5. GhostType'
    BY <1>1, <2>2, <2>3 DEF Submit, GhostType
  <2>6. Position'
    BY <1>1 DEF Submit, Position, RoomForSegment, ReplayPosition, CkSteps, disk, replay
  <2>7. QED
    BY <1>1, <2>4, <2>5, <2>6, TypeFrame DEF Submit
<1>2. ASSUME NEW t \in 1..MaxSeq, Wait(t) PROVE TypeInv'
  <2>1. GhostType'
    BY <1>2 DEF Wait, GhostType
  <2>2. Position'
    BY <1>2 DEF Wait, Position, RoomForSegment, ReplayPosition, disk, mem, replay
  <2>3. QED
    BY <1>2, <2>1, <2>2, TypeFrame DEF Wait
<1>3. QED
  BY <1>1, <1>2

LEMMA TypeStep == TypeInv /\ [Next]_vars => TypeInv'
<1> SUFFICES ASSUME TypeInv, [Next]_vars PROVE TypeInv'
  OBVIOUS
<1>1. CASE UNCHANGED vars
  BY <1>1, TypeFrame DEF vars, TypeInv, TypeOK, Position, RoomForSegment, ReplayPosition,
     disk, mem, replay
<1>2. QED
  BY <1>1, TypeRecovery, TypeCreateWal, TypeWriter, TypeCheckpoint, TypeClose, TypeCrash,
     TypeCalls DEF Next

\* Every reachable state has the types of TypeOK: replay_wal stays inside the records of
\* a file, create_wal inside the segment ids, and every sequence inside its range.
THEOREM TypeCorrect == Spec => []TypeOK
<1>1. TypeInv => TypeOK
  BY DEF TypeInv
<1>2. QED
  BY <1>1, TypeInit, TypeStep, PTL DEF Spec

-----------------------------------------------------------------------------
(* Files: what is on the medium                                            *)

Entries == wals \cup walsD

Has(f, m) == \E i \in 1..Len(f.recs) : f.recs[i].seq = m
Below(f, n) == \A i \in 1..Len(f.recs) : f.recs[i].seq <= n
Whole(f) == f.hdr = "ok" /\ f.torn = "no" /\ f.synced = Len(f.recs)

\* From n on the records of the file leave no number out.
FullFrom(f, n) ==
    \A i \in 1..Len(f.recs) : \A m \in (n + 1)..f.recs[i].seq : \E j \in 1..i : f.recs[j].seq = m

\* snapshot.bdr3 is the newest of the snapshots a power loss can leave, and none is damaged.
SnapOK == snap \in snapMaybe /\ \A p \in snapMaybe : p.st = "stable" /\ p.seq <= snap.seq

FileOK == \A s \in Segs : /\ file[s].synced <= Len(file[s].recs)
                          /\ file[s].hdr = "empty" => file[s].recs = <<>> /\ file[s].torn = "no"

\* A removed segment that may come back is followed by one that is there.
Links == \A s \in walsD : \E t \in wals : s <= t

\* Segments before the last one are complete on the medium, and any snapshot covers them.
Sealed == \A s, t \in Entries : s < t =>
             Whole(file[s]) /\ \A p \in snapMaybe : Below(file[s], p.seq)

\* No snapshot leaves a gap to the records of a segment, or starts before its first_sequence.
Gapless == \A s \in Entries : \A p \in snapMaybe :
              FullFrom(file[s], p.seq) /\ file[s].first <= p.seq + 1

\* A snapshot older than snapshot.bdr3 finds in the segments what the newer one covers.
Between == \A p \in snapMaybe : \A m \in (p.seq + 1)..snap.seq : \E s \in wals : Has(file[s], m)

Disk == SnapOK /\ FileOK /\ Links /\ Sealed /\ Gapless /\ Between

-----------------------------------------------------------------------------
(* Files: the process                                                      *)

\* recover() has replayed everything.
Alive == up \/ pc \in CwSteps

Frozen == {"ck_fsync", "ck_rename", "ck_dirsync", "ck_rotate", "ck_remove"} \cup CwSteps

Mode ==
    /\ up => pc \notin {"down", "replay", "repair"}
    /\ ~up => /\ pc \in {"down", "replay", "repair"} \cup CwSteps
              /\ w = "wait" /\ queue = <<>> /\ local = <<>>
              /\ pc # "cw_dirsync" => wfd = 0
    /\ pc \in {"cw_open", "cw_header", "cw_sync"} => wfd = 0
    /\ pc \in {"cw_header", "cw_sync"} => seg + 1 \in wals
    /\ pc \in {"cw_dirsync", "ck_remove"} => wfd # 0

\* The segment that is written is the last one.
Active == Alive /\ wfd # 0 =>
    /\ wfd = seg /\ wfd \in wals /\ \A s \in Entries : s <= wfd
    /\ file[wfd].hdr # "empty" /\ (w # "dead" => file[wfd].torn # "yes")

\* Without one, after a failed rotation, snapshots cover everything that is durable.
NoActive == Alive /\ wfd = 0 =>
    /\ \A s \in Entries :
          /\ s <= seg + 1 /\ \A p \in snapMaybe : Below(file[s], p.seq)
          /\ s <= seg => Whole(file[s])
          /\ s = seg + 1 => file[s].recs = <<>> /\ file[s].torn = "no"
    /\ \A p \in snapMaybe : durable <= p.seq
    /\ w # "publish"

\* What the writer has taken from the queue, and what of it is in the segment
Taken == IF w = "wait" THEN durable ELSE batchEnd
Frontier == IF w = "wait" THEN durable ELSE batchEnd - Len(local)

Batches == Alive =>
    /\ w \in {"wait", "publish"} => local = <<>>
    /\ w \in {"write", "publish"} => durable < batchEnd
    /\ w = "dead" => durable < next
    /\ w # "dead" =>
          /\ \A i \in 1..Len(queue) : queue[i].seq = Taken + i
          /\ \A i \in 1..Len(local) : local[i].seq = Frontier + i
          /\ Taken + Len(queue) = next

\* The active segment continues every snapshot up to the last record written.
Held == Alive /\ w # "dead" /\ wfd # 0 =>
    \A p \in snapMaybe : \A m \in (p.seq + 1)..Frontier : Has(file[wfd], m)

\* From its snapshot on a checkpoint has nothing pending, and from the fsync_dir on no older
\* snapshot can come back.
Quiet ==
    /\ pc \in Frozen => durable = next /\ w = "wait" /\ queue = <<>>
    /\ pc \in {"ck_fsync", "ck_rename"} => tmp.seq = next
    /\ pc = "ck_rename" => tmp.st = "stable"
    /\ pc = "ck_dirsync" => snap.seq = next
    /\ pc \in {"ck_rotate", "ck_remove"} \cup CwSteps => \A p \in snapMaybe : p.seq = next

Bounded == Alive =>
    /\ \A p \in snapMaybe : p.seq <= next
    /\ \A s \in Entries : Below(file[s], next)

\* How far replay has come
Walk == pc \in {"replay", "repair"} =>
    /\ snap.seq <= next /\ (next = snap.seq \/ \E s \in wals : Has(file[s], next))
    /\ \A s \in wals : s < rseg => Below(file[s], next)
    /\ rseg # 0 => rseg \in wals /\ file[rseg].hdr # "empty"
    /\ rpos > 0 => /\ rexp = next + 1 /\ rpos <= Len(file[rseg].recs) + 1
                   /\ \A i \in 1..(rpos - 1) : file[rseg].recs[i].seq <= next
    /\ rpos = 0 /\ rseg # 0 => Below(file[rseg], next)
    /\ pc = "repair" => rpos = 0 /\ LastSegment /\ file[rseg].torn = "cut" /\ seg = rseg

Process == Mode /\ Active /\ NoActive /\ Batches /\ Held /\ Quiet /\ Bounded /\ Walk

NoErrors == fail \notin {"snapshot", "gap", "torn"}

RecoveryInv == TypeInv /\ Disk /\ Process /\ NoErrors

-----------------------------------------------------------------------------
(* Types, as the steps below use them                                      *)

LEMMA FileTyped ==
  ASSUME TypeInv, NEW s \in Segs
  PROVE  /\ file[s] \in WalFile /\ file[s].recs \in Seq(Rec) /\ Len(file[s].recs) \in Nat
         /\ file[s].synced \in Nat /\ file[s].first \in Nat
         /\ \A i \in 1..Len(file[s].recs) : file[s].recs[i] \in Rec /\ file[s].recs[i].seq \in Nat
<1>1. file[s] \in WalFile
  BY DEF TypeInv, TypeOK, DiskType
<1>2. /\ file[s].recs \in Seq(Rec) /\ Len(file[s].recs) \in Nat
      /\ file[s].synced \in Nat /\ file[s].first \in Nat
  BY <1>1, ConstantAssumption DEF WalFile
<1>3. \A i \in 1..Len(file[s].recs) : file[s].recs[i] \in Rec
  BY <1>2
<1>4. \A r \in Rec : r.seq \in Nat
  BY DEF Rec
<1>5. QED
  BY <1>1, <1>2, <1>3, <1>4

LEMMA NumbersTyped ==
  ASSUME TypeInv
  PROVE  /\ snap \in Snap /\ snap.seq \in Nat
         /\ \A p \in snapMaybe : p \in Snap /\ p.seq \in Nat
         /\ Entries \subseteq Segs /\ wals \subseteq Segs /\ walsD \subseteq Segs
         /\ Segs \subseteq Nat /\ 0 \notin Segs
         /\ next \in Nat /\ durable \in Nat /\ batchEnd \in Nat /\ seg \in Nat /\ wfd \in Nat
         /\ rseg \in Nat /\ rpos \in Nat /\ rexp \in Nat
         /\ (wfd # 0 => wfd \in Segs) /\ (rseg # 0 => rseg \in Segs)
         /\ queue \in Seq(Rec) /\ local \in Seq(Rec)
<1>1. \A p \in Snap : p.seq \in Nat
  BY ConstantAssumption DEF Snap
<1>2. snap \in Snap /\ snapMaybe \subseteq Snap /\ wals \subseteq Segs /\ walsD \subseteq Segs
  BY DEF TypeInv, TypeOK, DiskType
<1>3. Segs \subseteq Nat /\ 0 \notin Segs
  BY ConstantAssumption DEF Segs
<1>4. /\ next \in Nat /\ durable \in Nat /\ seg \in Nat /\ wfd \in Nat /\ queue \in Seq(Rec)
      /\ (wfd # 0 => wfd \in Segs)
  BY ConstantAssumption DEF TypeInv, TypeOK, MemType, Segs
<1>5. batchEnd \in Nat /\ local \in Seq(Rec)
  BY ConstantAssumption DEF TypeInv, TypeOK, ThreadType
<1>6. rseg \in Nat /\ rpos \in Nat /\ rexp \in Nat /\ (rseg # 0 => rseg \in Segs)
  BY ConstantAssumption DEF TypeInv, TypeOK, ControlType, Segs
<1>7. QED
  BY <1>1, <1>2, <1>3, <1>4, <1>5, <1>6 DEF Entries

-----------------------------------------------------------------------------
(* Steps that leave files or the process as they are                       *)

LEMMA DiskSame ==
  ASSUME Disk, UNCHANGED disk PROVE Disk'
<1>1. UNCHANGED <<snap, snapMaybe, file, wals, walsD>>
  BY DEF disk
<1>2. SnapOK' /\ FileOK' /\ Links'
  BY <1>1 DEF Disk, SnapOK, FileOK, Links
<1>3. Sealed'
  BY <1>1 DEF Disk, Sealed, Entries, Whole, Below
<1>4. Gapless'
  BY <1>1 DEF Disk, Gapless, Entries, FullFrom
<1>5. Between'
  BY <1>1 DEF Disk, Between, Has
<1>6. QED
  BY <1>2, <1>3, <1>4, <1>5 DEF Disk

\* When the process ends, nothing is left to say about it.
LEMMA ProcessLost == ASSUME Lost PROVE Process'
<1>1. /\ pc' = "down" /\ ~up' /\ w' = "wait" /\ queue' = <<>> /\ local' = <<>> /\ wfd' = 0
  BY DEF Lost
<1>2. ~Alive'
  BY <1>1 DEF Alive, CwSteps
<1>3. Mode'
  BY <1>1 DEF Mode
<1>4. Active' /\ NoActive' /\ Batches' /\ Held' /\ Bounded'
  BY <1>2 DEF Active, NoActive, Batches, Held, Bounded
<1>5. Quiet' /\ Walk'
  BY <1>1 DEF Quiet, Walk, Frozen, CwSteps
<1>6. QED
  BY <1>3, <1>4, <1>5 DEF Process

LEMMA ProcessSame ==
  ASSUME Process, UNCHANGED <<disk, mem, thr>>, Alive
  PROVE  Active' /\ NoActive' /\ Batches' /\ Held' /\ Bounded'
<1>1. UNCHANGED <<snap, snapMaybe, file, wals, walsD, next, durable, queue, wfd, seg, w, local, batchEnd>>
  BY DEF disk, mem, thr
<1>2. Active' /\ NoActive'
  BY <1>1 DEF Process, Active, NoActive, Entries, Whole, Below
<1>3. Batches'
  BY <1>1 DEF Process, Batches, Taken, Frontier
<1>4. Held' /\ Bounded'
  BY <1>1 DEF Process, Held, Bounded, Has, Frontier, Entries, Below
<1>5. QED
  BY <1>2, <1>3, <1>4

\* The records stay, and the header and tail of one file change: a segment that another one
\* follows stays whole.
LEMMA FileTouched ==
  ASSUME TypeInv, Disk, NEW s \in Segs, UNCHANGED <<snap, snapMaybe, wals>>, walsD' \subseteq Entries,
         \A u \in Segs \ {s} : file'[u] = file[u],
         file'[s].recs = file[s].recs, file'[s].first = file[s].first,
         file'[s].synced <= Len(file'[s].recs),
         file'[s].hdr = "empty" => file'[s].recs = <<>> /\ file'[s].torn = "no",
         (Whole(file[s]) => Whole(file'[s])) \/ \A t \in Entries : t <= s
  PROVE  Disk'
<1>0. /\ Entries' \subseteq Entries /\ Entries \subseteq Segs /\ Segs \subseteq Nat
      /\ \A u \in Segs : file'[u].recs = file[u].recs /\ file'[u].first = file[u].first
  BY NumbersTyped DEF Entries
<1>1. SnapOK' /\ FileOK'
  BY DEF Disk, SnapOK, FileOK
<1>2. Links'
  <2>1. ASSUME NEW u \in walsD' PROVE \E t \in wals : u <= t
    <3>1. CASE u \in wals
      <4>1. u \in Nat
        BY <1>0, <3>1 DEF Entries
      <4>2. QED
        BY <3>1, <4>1
    <3>2. CASE u \in walsD
      BY <3>2 DEF Disk, Links
    <3>3. QED
      BY <3>1, <3>2 DEF Entries
  <2>2. QED
    BY <2>1 DEF Links
<1>3. Sealed'
  <2> SUFFICES ASSUME NEW u \in Entries, NEW t \in Entries, u < t
               PROVE  Whole(file'[u]) /\ \A p \in snapMaybe : Below(file'[u], p.seq)
    BY <1>0 DEF Sealed, Whole, Below
  <2>1. Whole(file[u]) /\ \A p \in snapMaybe : Below(file[u], p.seq)
    BY DEF Disk, Sealed
  <2>2. Whole(file'[u])
    <3>1. CASE u = s
      <4>1. ~(t <= s)
        BY <1>0, <3>1
      <4>2. QED
        BY <2>1, <3>1, <4>1
    <3>2. CASE u # s
      BY <1>0, <2>1, <3>2
    <3>3. QED
      BY <3>1, <3>2
  <2>3. QED
    BY <1>0, <2>1, <2>2 DEF Below
<1>4. Gapless'
  <2> SUFFICES ASSUME NEW u \in Entries, NEW p \in snapMaybe
               PROVE  FullFrom(file'[u], p.seq) /\ file'[u].first <= p.seq + 1
    BY <1>0 DEF Gapless, FullFrom
  <2>1. FullFrom(file[u], p.seq) /\ file[u].first <= p.seq + 1
    BY DEF Disk, Gapless
  <2>2. QED
    BY SMTT(30), <1>0, <2>1 DEF FullFrom
<1>5. Between'
  BY <1>0 DEF Disk, Between, Has, Entries
<1>6. QED
  BY <1>1, <1>2, <1>3, <1>4, <1>5 DEF Disk
-----------------------------------------------------------------------------
(* Recovery                                                                *)

Kept == Disk' /\ Process' /\ NoErrors'

LEMMA KeptOpenFails ==
  ASSUME Disk, NEW why \in {"header", "io"}, OpenFails(why) PROVE Kept
<1>1. Disk' /\ Process'
  BY DiskSame, ProcessLost DEF OpenFails
<1>2. NoErrors'
  BY DEF OpenFails, NoErrors
<1>3. QED
  BY <1>1, <1>2 DEF Kept

\* The steps of replay that go on
LEMMA KeptReplay ==
  ASSUME Disk, Process, NoErrors, UNCHANGED <<disk, queue, wfd, thr, up>>, ~up, pc' = "replay",
         wfd = 0, Walk', fail' \in {fail, "none"}
  PROVE  Kept
<1>1. Disk'
  BY DiskSame
<1>2. w' = "wait" /\ queue' = <<>> /\ local' = <<>> /\ ~up' /\ wfd' = 0
  BY DEF Process, Mode, thr
<1>3. ~Alive'
  BY <1>2 DEF Alive, CwSteps
<1>4. Mode' /\ Quiet'
  BY <1>2 DEF Mode, Quiet, Frozen, CwSteps
<1>5. Active' /\ NoActive' /\ Batches' /\ Held' /\ Bounded'
  BY <1>3 DEF Active, NoActive, Batches, Held, Bounded
<1>6. NoErrors'
  BY DEF NoErrors
<1>7. QED
  BY <1>1, <1>4, <1>5, <1>6 DEF Kept, Process

LEMMA KeptOpen ==
  ASSUME RecoveryInv, Open PROVE Kept
<1>0. TypeInv /\ Disk /\ Process /\ NoErrors
  BY DEF RecoveryInv
<1>1. snap.st = "stable"
  BY <1>0 DEF Disk, SnapOK
<1>2. /\ pc = "down" /\ next' = snap.seq /\ pc' = "replay" /\ fail' = "none"
      /\ UNCHANGED <<disk, queue, wfd, thr, up, replay, snap, wals, file>>
  BY <1>1 DEF Open, disk
<1>3. ~up /\ wfd = 0
  BY <1>0, <1>2 DEF Process, Mode
<1>4. Walk'
  <2>1. rseg = 0 /\ rpos = 0
    BY <1>0, <1>2 DEF TypeInv, Position, ReplayPosition
  <2>2. rseg' = 0 /\ rpos' = 0
    BY <1>2, <2>1 DEF replay
  <2>3. \A s \in wals' : ~(s < rseg')
    BY <1>0, <1>2, <2>2, NumbersTyped
  <2>4. snap'.seq <= next'
    BY <1>0, <1>2, NumbersTyped
  <2>5. QED
    BY <1>2, <2>2, <2>3, <2>4 DEF Walk
<1>5. QED
  BY <1>0, <1>2, <1>3, <1>4, KeptReplay

LEMMA KeptReplayHeader ==
  ASSUME RecoveryInv, NEW s \in Segs, ReplayHeader(s) PROVE Kept
<1>0. TypeInv /\ Disk /\ Process /\ NoErrors
  BY DEF RecoveryInv
<1>1. CASE file[s].hdr = "empty"
  BY <1>0, <1>1, KeptOpenFails DEF ReplayHeader
<1>2. CASE file[s].hdr # "empty"
  <2>1. /\ pc = "replay" /\ pc' = "replay" /\ rpos = 0 /\ NextSegment(s)
        /\ rseg' = s /\ rpos' = 1 /\ rexp' = Max2(next + 1, file[s].first)
        /\ UNCHANGED <<disk, next, queue, wfd, thr, up, fail, snap, wals, file>>
    BY <1>2 DEF ReplayHeader, disk
  <2>2. ~up /\ wfd = 0 /\ Walk
    BY <1>0, <2>1 DEF Process, Mode
  <2>3. snap.seq <= next /\ snap \in snapMaybe /\ s \in wals
    BY <1>0, <2>1, <2>2 DEF Disk, SnapOK, Walk, NextSegment
  <2>4. file[s].first <= snap.seq + 1
    BY <1>0, <2>3 DEF Disk, Gapless, Entries
  <2>5. rexp' = next + 1
    <3>1. file[s].first \in Nat /\ snap.seq \in Nat /\ next \in Nat
      BY <1>0, NumbersTyped, FileTyped
    <3>2. QED
      BY <2>1, <2>3, <2>4, <3>1 DEF Max2
  <2>6. ASSUME NEW t \in wals, t < s PROVE Below(file[t], next)
    <3>1. t <= rseg
      BY <1>0, <2>1, <2>6, NumbersTyped DEF NextSegment
    <3>2. rseg # 0 /\ t \in Segs
      BY <1>0, <3>1, NumbersTyped
    <3>3. CASE t < rseg
      BY <2>1, <2>2, <3>3 DEF Walk
    <3>4. CASE t = rseg
      BY <2>1, <2>2, <3>2, <3>4 DEF Walk
    <3>5. QED
      BY <1>0, <3>1, <3>3, <3>4, NumbersTyped
  <2>7. Walk'
    <3>1. s # 0 /\ Len(file[s].recs) \in Nat
      BY <1>0, NumbersTyped, FileTyped
    <3>2. snap'.seq <= next' /\ (next' = snap'.seq \/ \E t \in wals' : Has(file'[t], next'))
      BY <2>1, <2>2 DEF Walk, Has
    <3>3. \A t \in wals' : t < rseg' => Below(file'[t], next')
      BY <2>1, <2>6 DEF Below
    <3>4. rseg' \in wals' /\ file'[rseg'].hdr # "empty" /\ rexp' = next' + 1
          /\ rpos' <= Len(file'[rseg'].recs) + 1 /\ (rpos' - 1) = 0
      BY <1>2, <2>1, <2>3, <2>5, <3>1
    <3>5. QED
      BY <2>1, <3>2, <3>3, <3>4 DEF Walk
  <2>8. QED
    BY <1>0, <2>1, <2>2, <2>7, KeptReplay
<1>3. QED
  BY <1>1, <1>2

\* What replay rests on
LEMMA InReplay ==
  ASSUME RecoveryInv, pc = "replay"
  PROVE  /\ TypeInv /\ Disk /\ Process /\ NoErrors /\ Walk /\ ~up /\ wfd = 0
         /\ snap \in snapMaybe /\ snap.seq <= next /\ snap.seq \in Nat /\ next \in Nat
         /\ rseg # 0 => /\ rseg \in wals /\ rseg \in Segs /\ rseg \in Entries
                        /\ Len(file[rseg].recs) \in Nat
                        /\ \A i \in 1..Len(file[rseg].recs) : file[rseg].recs[i].seq \in Nat
         /\ rpos > 0 => rseg # 0
<1>1. TypeInv /\ Disk /\ Process /\ NoErrors
  BY DEF RecoveryInv
<1>2. Walk /\ ~up /\ wfd = 0
  BY <1>1 DEF Process, Mode
<1>3. snap \in snapMaybe /\ snap.seq <= next /\ snap.seq \in Nat /\ next \in Nat
  BY <1>1, <1>2, NumbersTyped DEF Disk, SnapOK, Walk
<1>4. rseg # 0 => rseg \in wals /\ rseg \in Segs
  BY <1>1, <1>2, NumbersTyped DEF Walk
<1>5. rpos > 0 => rseg # 0
  BY <1>1 DEF TypeInv, Position, ReplayPosition
<1>6. QED
  BY <1>1, <1>2, <1>3, <1>4, <1>5, FileTyped DEF Entries

LEMMA KeptReplayCovered ==
  ASSUME RecoveryInv, ReplayCovered PROVE Kept
<1>1. /\ pc = "replay" /\ pc' = "replay" /\ rpos > 0 /\ rpos <= Len(file[rseg].recs)
      /\ file[rseg].recs[rpos].seq <= next /\ rpos' = rpos + 1
      /\ UNCHANGED <<disk, next, queue, wfd, thr, up, fail, snap, wals, file, rseg, rexp>>
  BY DEF ReplayCovered, disk, mem
<1>2. /\ TypeInv /\ Disk /\ Process /\ NoErrors /\ Walk /\ ~up /\ wfd = 0
      /\ rseg # 0 /\ Len(file[rseg].recs) \in Nat /\ rpos \in Nat
  BY <1>1, InReplay, NumbersTyped
<1>3. Walk'
  <2>1. snap'.seq <= next' /\ (next' = snap'.seq \/ \E t \in wals' : Has(file'[t], next'))
    BY <1>1, <1>2 DEF Walk, Has
  <2>2. \A t \in wals' : t < rseg' => Below(file'[t], next')
    BY <1>1, <1>2 DEF Walk, Below
  <2>3. rseg' \in wals' /\ file'[rseg'].hdr # "empty" /\ rexp' = next' + 1
        /\ rpos' <= Len(file'[rseg'].recs) + 1 /\ rpos' > 0
    BY <1>1, <1>2 DEF Walk
  <2>4. \A i \in 1..(rpos' - 1) : file'[rseg'].recs[i].seq <= next'
    <3>1. \A i \in 1..(rpos - 1) : file[rseg].recs[i].seq <= next
      BY <1>1, <1>2 DEF Walk
    <3>2. \A i \in 1..rpos : i = rpos \/ i \in 1..(rpos - 1)
      BY <1>2
    <3>3. rpos' - 1 = rpos
      BY <1>1, <1>2
    <3>4. QED
      BY <1>1, <3>1, <3>2, <3>3
  <2>5. QED
    BY <1>1, <2>1, <2>2, <2>3, <2>4 DEF Walk
<1>4. QED
  BY <1>1, <1>2, <1>3, KeptReplay

\* The record that replay applies is the next one: the snapshot leaves no gap to it, and
\* only the last segment has records above the snapshot.
LEMMA ReplayNext ==
  ASSUME RecoveryInv, ReplayRecord
  PROVE  file[rseg].recs[rpos].seq = next + 1 /\ rexp = next + 1
<1>1. /\ pc = "replay" /\ rpos > 0 /\ rpos <= Len(file[rseg].recs)
      /\ file[rseg].recs[rpos].seq > next
  BY DEF ReplayRecord
<1>2. /\ TypeInv /\ Disk /\ Process /\ NoErrors /\ Walk /\ ~up /\ wfd = 0
      /\ rseg # 0 /\ Len(file[rseg].recs) \in Nat /\ rpos \in Nat /\ rpos \in 1..Len(file[rseg].recs)
      /\ snap \in snapMaybe /\ snap.seq \in Nat /\ next \in Nat /\ snap.seq <= next
      /\ rseg \in wals /\ rseg \in Entries
      /\ \A i \in 1..Len(file[rseg].recs) : file[rseg].recs[i].seq \in Nat
  BY <1>1, InReplay, NumbersTyped
<1> PICK r : r = file[rseg].recs[rpos]
  OBVIOUS
<1>3. \A i \in 1..(rpos - 1) : file[rseg].recs[i].seq <= next
  BY <1>1, <1>2 DEF Walk
<1>4. r.seq = next + 1
  <2>1. FullFrom(file[rseg], snap.seq)
    BY <1>2 DEF Disk, Gapless
  <2>2. next + 1 \in (snap.seq + 1)..file[rseg].recs[rpos].seq
    BY <1>1, <1>2
  <2>3. PICK j \in 1..rpos : file[rseg].recs[j].seq = next + 1
    BY <1>2, <2>1, <2>2 DEF FullFrom
  <2>4. j = rpos
    <3>1. CASE j \in 1..(rpos - 1)
      BY <1>2, <1>3, <2>3, <3>1
    <3>2. QED
      BY <1>2, <3>1
  <2>5. QED
    BY <2>3, <2>4
<1>5. rexp = next + 1
  BY <1>1, <1>2 DEF Walk
<1>6. QED
  BY <1>4, <1>5

LEMMA KeptReplayRecord ==
  ASSUME RecoveryInv, ReplayRecord PROVE Kept
<1>1. /\ pc = "replay" /\ rpos > 0 /\ rpos <= Len(file[rseg].recs)
      /\ file[rseg].recs[rpos].seq > next
  BY DEF ReplayRecord
<1>2. /\ TypeInv /\ Disk /\ Process /\ NoErrors /\ Walk /\ ~up /\ wfd = 0
      /\ rseg # 0 /\ Len(file[rseg].recs) \in Nat /\ rpos \in Nat /\ rpos \in 1..Len(file[rseg].recs)
      /\ snap \in snapMaybe /\ snap.seq \in Nat /\ next \in Nat /\ snap.seq <= next
      /\ rseg \in wals /\ rseg \in Entries
      /\ \A i \in 1..Len(file[rseg].recs) : file[rseg].recs[i].seq \in Nat
  BY <1>1, InReplay, NumbersTyped
<1> PICK r : r = file[rseg].recs[rpos]
  OBVIOUS
<1>3. \A i \in 1..(rpos - 1) : file[rseg].recs[i].seq <= next
  BY <1>1, <1>2 DEF Walk
<1>4. r.seq = next + 1
  BY ReplayNext
<1>5. rexp = next + 1
  BY ReplayNext
<1>6. /\ pc' = "replay" /\ next' = next + 1 /\ rexp' = rexp + 1 /\ rpos' = rpos + 1
      /\ UNCHANGED <<disk, queue, wfd, thr, up, fail, snap, wals, file, rseg>>
  BY <1>4, <1>5 DEF ReplayRecord, disk
<1>7. Walk'
  <2>1. snap'.seq <= next' /\ Has(file'[rseg], next')
    BY <1>2, <1>4, <1>6 DEF Has
  <2>2. \A t \in wals' : t < rseg' => Below(file'[t], next')
    <3>1. ASSUME NEW t \in wals, t < rseg PROVE Below(file[t], next + 1)
      <4>1. Below(file[t], next)
        BY <1>1, <1>2, <3>1 DEF Walk
      <4>2. \A i \in 1..Len(file[t].recs) : file[t].recs[i].seq \in Nat
        BY <1>2, FileTyped, NumbersTyped
      <4>3. QED
        BY <1>2, <4>1, <4>2 DEF Below
    <3>2. QED
      BY <1>6, <3>1 DEF Below
  <2>3. rseg' \in wals' /\ file'[rseg'].hdr # "empty" /\ rexp' = next' + 1
        /\ rpos' <= Len(file'[rseg'].recs) + 1 /\ rpos' > 0
    BY <1>1, <1>2, <1>5, <1>6 DEF Walk
  <2>4. \A i \in 1..(rpos' - 1) : file'[rseg'].recs[i].seq <= next'
    <3>1. \A i \in 1..rpos : i \in 1..Len(file[rseg].recs) /\ (i = rpos \/ i \in 1..(rpos - 1))
      BY <1>2
    <3>2. \A i \in 1..rpos : file[rseg].recs[i].seq <= next + 1
      BY <1>2, <1>3, <1>4, <3>1
    <3>3. rpos' - 1 = rpos
      BY <1>2, <1>6
    <3>4. QED
      BY <1>6, <3>2, <3>3
  <2>5. QED
    BY <1>1, <1>2, <1>6, <2>1, <2>2, <2>3, <2>4 DEF Walk
<1>8. QED
  BY <1>2, <1>6, <1>7, KeptReplay

LEMMA KeptReplayTail ==
  ASSUME RecoveryInv, ReplayTail PROVE Kept
<1>1. pc = "replay" /\ rpos > 0 /\ rpos = Len(file[rseg].recs) + 1
  BY DEF ReplayTail
<1>2. /\ TypeInv /\ Disk /\ Process /\ NoErrors /\ Walk /\ ~up /\ wfd = 0
      /\ rseg # 0 /\ rseg \in wals /\ rseg \in Entries /\ Len(file[rseg].recs) \in Nat
      /\ wals \subseteq Nat /\ rseg \in Nat
  BY <1>1, InReplay, NumbersTyped
<1>3. ~(file[rseg].torn = "yes" /\ ~LastSegment)
  <2>1. ASSUME NEW t \in wals, ~(t <= rseg) PROVE file[rseg].torn = "no"
    BY <1>2, <2>1 DEF Disk, Sealed, Entries, Whole
  <2>2. QED
    BY <2>1 DEF LastSegment
<1>4. /\ rpos' = 0 /\ pc' = "replay"
      /\ UNCHANGED <<disk, next, queue, wfd, thr, up, fail, snap, wals, file, rseg, rexp>>
  BY <1>1, <1>3 DEF ReplayTail, disk, mem
<1>5. Walk'
  <2>1. snap'.seq <= next' /\ (next' = snap'.seq \/ \E t \in wals' : Has(file'[t], next'))
    BY <1>1, <1>2, <1>4 DEF Walk, Has
  <2>2. \A t \in wals' : t < rseg' => Below(file'[t], next')
    BY <1>1, <1>2, <1>4 DEF Walk, Below
  <2>3. rseg' \in wals' /\ file'[rseg'].hdr # "empty"
    BY <1>1, <1>2, <1>4 DEF Walk
  <2>4. Below(file'[rseg'], next')
    <3>1. rpos - 1 = Len(file[rseg].recs)
      BY <1>1, <1>2
    <3>2. \A i \in 1..(rpos - 1) : file[rseg].recs[i].seq <= next
      BY <1>1, <1>2 DEF Walk
    <3>3. QED
      BY <1>4, <3>1, <3>2 DEF Below
  <2>5. ~(rpos' > 0)
    BY <1>4
  <2>6. QED
    BY <1>4, <2>1, <2>2, <2>3, <2>4, <2>5 DEF Walk
<1>6. QED
  BY <1>2, <1>4, <1>5, KeptReplay

\* The end of recovery: the active segment is the last one, and continues every snapshot that
\* a power loss could leave, although recovery read only one of them.
LEMMA KeptAttach ==
  ASSUME RecoveryInv, Attach, pc \in {"replay", "repair"}, rpos = 0, rseg # 0, LastSegment,
         seg = rseg, Disk', Entries' \subseteq Entries, file'[rseg].hdr # "empty",
         file'[rseg].torn # "yes", \A u \in Segs : file'[u].recs = file[u].recs
  PROVE  Kept
<1>0. /\ TypeInv /\ Disk /\ Process /\ NoErrors
  BY DEF RecoveryInv
<1>1. /\ wfd' = rseg /\ seg' = rseg /\ durable' = next /\ next' = next /\ pc' = "idle" /\ up'
      /\ snapMaybe' = snapMaybe /\ wals' = wals /\ queue' = queue /\ w' = w /\ local' = local
      /\ fail' = fail /\ snap' = snap
  BY DEF Attach, thr
<1>2. ~up /\ Walk /\ w = "wait" /\ queue = <<>> /\ local = <<>>
  BY <1>0 DEF Process, Mode
<1>3. /\ snap \in snapMaybe /\ snap.seq <= next /\ snap.seq \in Nat /\ next \in Nat
      /\ rseg \in wals /\ rseg \in Segs /\ Segs \subseteq Nat /\ Entries \subseteq Segs /\ wals \subseteq Segs
      /\ \A p \in snapMaybe : p.seq \in Nat /\ p.seq <= snap.seq
      /\ Below(file[rseg], next)
  BY <1>0, <1>2, NumbersTyped DEF Disk, SnapOK, Walk
<1>4. \A s \in Entries : s <= rseg
  <2>1. \A s \in wals : s <= rseg
    BY DEF LastSegment
  <2>2. ASSUME NEW s \in walsD PROVE s <= rseg
    <3>1. PICK t \in wals : s <= t
      BY <1>0 DEF Disk, Links
    <3>2. s \in Nat /\ t \in Nat /\ rseg \in Nat /\ t <= rseg
      BY <1>3, <2>1 DEF Entries
    <3>3. QED
      BY <3>1, <3>2
  <2>3. QED
    BY <2>1, <2>2 DEF Entries
<1>5. Active'
  BY <1>1, <1>3, <1>4 DEF Active
<1>6. NoActive'
  BY <1>1 DEF NoActive
<1>7. Batches'
  <2>1. w' = "wait" /\ queue' = <<>> /\ local' = <<>> /\ Len(queue') = 0 /\ Len(local') = 0
    BY <1>1, <1>2
  <2>2. Taken' = next'
    BY <1>1, <2>1 DEF Taken
  <2>3. QED
    BY <1>1, <1>3, <2>1, <2>2 DEF Batches
<1>8. ASSUME NEW s \in Entries, NEW p \in snapMaybe, NEW m \in Nat, m > p.seq, Has(file[s], m)
      PROVE  s = rseg
  <2>1. CASE s < rseg
    <3>1. Below(file[s], p.seq)
      BY <1>0, <1>3, <2>1 DEF Disk, Sealed, Entries
    <3>2. m <= p.seq
      BY <1>8, <3>1 DEF Has, Below
    <3>3. QED
      BY <1>3, <1>8, <3>2
  <2>2. s <= rseg /\ s \in Nat /\ rseg \in Nat
    BY <1>3, <1>4
  <2>3. QED
    BY <2>1, <2>2
<1>9. Held'
  <2> SUFFICES ASSUME NEW p \in snapMaybe, NEW m \in (p.seq + 1)..next
               PROVE  Has(file'[rseg], m)
    BY <1>1, <1>2 DEF Held, Frontier, Has
  <2>1. p.seq \in Nat /\ m \in Nat /\ m > p.seq /\ m <= next /\ next > p.seq
    BY <1>3
  <2>2. Has(file[rseg], m)
    <3>1. CASE next = snap.seq
      <4>1. PICK s \in wals : Has(file[s], m)
        BY <1>0, <3>1 DEF Disk, Between
      <4>2. QED
        BY <1>8, <2>1, <4>1 DEF Entries
    <3>2. ASSUME NEW s \in wals, Has(file[s], next) PROVE Has(file[rseg], m)
      <4>1. s = rseg
        BY <1>3, <1>8, <2>1, <3>2 DEF Entries
      <4>2. PICK i \in 1..Len(file[rseg].recs) : file[rseg].recs[i].seq = next
        BY <3>2, <4>1 DEF Has
      <4>3. FullFrom(file[rseg], p.seq)
        BY <1>0, <1>3 DEF Disk, Gapless, Entries
      <4>4. PICK j \in 1..i : file[rseg].recs[j].seq = m
        BY <4>2, <4>3 DEF FullFrom
      <4>5. j \in 1..Len(file[rseg].recs)
        BY <1>0, <1>3, <4>2, <4>4, FileTyped
      <4>6. QED
        BY <4>4, <4>5 DEF Has
    <3>3. QED
      BY <1>2, <3>1, <3>2 DEF Walk
  <2>3. QED
    BY <1>3, <2>2 DEF Has
<1>10. Bounded'
  <2>1. \A p \in snapMaybe : p.seq <= next
    BY <1>3
  <2>2. ASSUME NEW s \in Entries PROVE Below(file'[s], next)
    <3>1. CASE s = rseg
      BY <1>3, <3>1 DEF Below
    <3>2. CASE s < rseg
      <4>1. Below(file[s], snap.seq)
        BY <1>0, <1>3, <3>2 DEF Disk, Sealed, Entries
      <4>2. s \in Segs /\ \A i \in 1..Len(file[s].recs) : file[s].recs[i].seq \in Nat
        BY <1>0, <1>3, FileTyped
      <4>3. QED
        BY SMTT(30), <1>3, <4>1, <4>2 DEF Below
    <3>3. s <= rseg /\ s \in Nat /\ rseg \in Nat
      BY <1>3, <1>4
    <3>4. QED
      BY <3>1, <3>2, <3>3
  <2>3. QED
    BY <1>1, <2>1, <2>2 DEF Bounded, Below
<1>11. Mode' /\ Quiet' /\ Walk'
  BY <1>1 DEF Mode, Quiet, Walk, Frozen, CwSteps
<1>12. NoErrors'
  BY <1>0, <1>1 DEF NoErrors
<1>13. QED
  BY <1>5, <1>6, <1>7, <1>9, <1>10, <1>11, <1>12 DEF Kept, Process

LEMMA KeptRecoverAttach ==
  ASSUME RecoveryInv, RecoverAttach PROVE Kept
<1>0. TypeInv /\ Disk /\ Process /\ NoErrors /\ Walk
  BY DEF RecoveryInv, Process
<1>1. /\ pc = "replay" /\ rpos = 0 /\ rseg # 0 /\ LastSegment /\ file[rseg].torn # "yes" /\ Attach
      /\ UNCHANGED <<snap, snapMaybe, file, wals, walsD>>
  BY DEF RecoverAttach, Replayed, Attach
<1>2. seg = rseg /\ file[rseg].hdr # "empty"
  BY <1>0, <1>1 DEF TypeInv, Position, ReplayPosition, Walk
<1>3. Disk'
  BY <1>0, <1>1, DiskSame DEF disk
<1>4. Entries' = Entries
  BY <1>1 DEF Entries
<1>5. QED
  BY <1>1, <1>2, <1>3, <1>4, KeptAttach

LEMMA SyncedIs ==
  ASSUME NEW f \in WalFile
  PROVE  /\ Synced(f).recs = f.recs /\ Synced(f).first = f.first /\ Synced(f).hdr = "ok"
         /\ Synced(f).synced = Len(f.recs)
         /\ f.torn # "yes" => Synced(f).torn = "no"
         /\ Whole(f) => Whole(Synced(f))
  BY DEF Synced, WalFile, Whole

\* fdatasync of one file keeps what Disk says.
LEMMA DiskSync ==
  ASSUME TypeInv, Disk, NEW s \in wals, UNCHANGED <<snap, snapMaybe, wals>>,
         walsD' = LinksAfterSync(s), file' = [file EXCEPT ![s] = Synced(@)]
  PROVE  /\ Disk' /\ Entries' = Entries /\ file'[s] = Synced(file[s])
         /\ \A u \in Segs : file'[u].recs = file[u].recs
         /\ \A u \in Segs \ {s} : file'[u] = file[u]
<1>1. s \in Segs /\ file[s] \in WalFile
  BY NumbersTyped, FileTyped
<1>2. file \in [Segs -> WalFile]
  BY DEF TypeInv, TypeOK, DiskType
<1>3. file'[s] = Synced(file[s]) /\ \A u \in Segs \ {s} : file'[u] = file[u]
  BY <1>1, <1>2
<1>4. Entries' = Entries /\ walsD' \subseteq Entries
  BY DEF Entries, LinksAfterSync
<1>5. /\ file'[s].recs = file[s].recs /\ file'[s].first = file[s].first
      /\ file'[s].synced <= Len(file'[s].recs) /\ file'[s].hdr # "empty"
      /\ Whole(file[s]) => Whole(file'[s])
  BY <1>1, <1>3, SyncedIs, FileTyped
<1>6. Disk'
  BY <1>1, <1>3, <1>4, <1>5, FileTouched
<1>7. QED
  BY <1>3, <1>4, <1>5, <1>6

LEMMA KeptRepairSync ==
  ASSUME RecoveryInv, RepairSync PROVE Kept
<1>0. TypeInv /\ Disk /\ Process /\ NoErrors /\ Walk
  BY DEF RecoveryInv, Process
<1>1. /\ pc = "repair" /\ file' = [file EXCEPT ![rseg] = Synced(@)] /\ walsD' = LinksAfterSync(rseg)
      /\ Attach /\ UNCHANGED <<snap, snapMaybe, wals>>
  BY DEF RepairSync, Attach
<1>2. /\ rseg # 0
  BY <1>0, <1>1 DEF TypeInv, Position, ReplayPosition
<1>3. /\ rpos = 0 /\ LastSegment /\ file[rseg].torn = "cut" /\ seg = rseg /\ rseg \in wals
  BY <1>0, <1>1, <1>2 DEF Walk
<1>4. /\ Disk' /\ Entries' = Entries /\ file'[rseg] = Synced(file[rseg])
      /\ \A u \in Segs : file'[u].recs = file[u].recs
  BY <1>0, <1>1, <1>3, DiskSync
<1>5. file'[rseg].hdr # "empty" /\ file'[rseg].torn # "yes"
  BY <1>0, <1>3, <1>4, SyncedIs, NumbersTyped, FileTyped
<1>6. QED
  BY <1>1, <1>2, <1>3, <1>4, <1>5, KeptAttach

LEMMA LastOfEntries ==
  ASSUME TypeInv, Disk, rseg \in wals, LastSegment
  PROVE  \A s \in Entries : s <= rseg
<1>1. wals \subseteq Nat /\ walsD \subseteq Nat /\ \A t \in wals : t <= rseg
  BY NumbersTyped DEF LastSegment
<1>2. ASSUME NEW s \in walsD PROVE s <= rseg
  <2>1. PICK t \in wals : s <= t
    BY DEF Disk, Links
  <2>2. s \in Nat /\ t \in Nat /\ rseg \in Nat /\ t <= rseg
    BY <1>1
  <2>3. QED
    BY <2>1, <2>2
<1>3. QED
  BY <1>1, <1>2 DEF Entries

LEMMA KeptRepairTruncate ==
  ASSUME RecoveryInv, RepairTruncate PROVE Kept
<1>1. /\ pc = "replay" /\ rpos = 0 /\ rseg # 0 /\ LastSegment
      /\ file' = [file EXCEPT ![rseg].torn = "cut"] /\ pc' = "repair"
      /\ UNCHANGED <<snap, snapMaybe, wals, walsD, next, queue, wfd, seg, w, local, up, fail, rseg, rpos, rexp>>
  BY DEF RepairTruncate, Replayed, mem, thr, replay
<1>2. /\ TypeInv /\ Disk /\ Process /\ NoErrors /\ Walk /\ ~up /\ wfd = 0
      /\ rseg \in wals /\ rseg \in Segs
  BY <1>1, InReplay
<1>3. file \in [Segs -> WalFile] /\ file[rseg] \in WalFile
  BY <1>2 DEF TypeInv, TypeOK, DiskType
<1>4. /\ \A u \in Segs \ {rseg} : file'[u] = file[u]
      /\ file'[rseg].recs = file[rseg].recs /\ file'[rseg].first = file[rseg].first
      /\ file'[rseg].synced = file[rseg].synced /\ file'[rseg].hdr = file[rseg].hdr
      /\ file'[rseg].torn = "cut"
  BY <1>1, <1>2, <1>3 DEF WalFile
<1>5. file[rseg].hdr # "empty" /\ seg = rseg
  BY <1>1, <1>2 DEF Walk, TypeInv, Position, ReplayPosition
<1>6. \A s \in Entries : s <= rseg
  BY <1>1, <1>2, LastOfEntries
<1>7. Disk'
  <2>1. walsD' \subseteq Entries
    BY <1>1 DEF Entries
  <2>2. file'[rseg].synced <= Len(file'[rseg].recs)
    BY <1>2, <1>4 DEF Disk, FileOK
  <2>3. QED
    BY <1>1, <1>2, <1>4, <1>5, <1>6, <2>1, <2>2, FileTouched
<1>8. \A u \in wals : file'[u].recs = file[u].recs
  BY <1>2, <1>4, NumbersTyped
<1>9. Walk'
  <2>1. snap'.seq <= next' /\ (next' = snap'.seq \/ \E t \in wals' : Has(file'[t], next'))
    BY <1>1, <1>2, <1>8 DEF Walk, Has
  <2>2. \A t \in wals' : t < rseg' => Below(file'[t], next')
    BY <1>1, <1>2, <1>8 DEF Walk, Below
  <2>3. rseg' \in wals' /\ file'[rseg'].hdr # "empty" /\ ~(rpos' > 0) /\ rpos' = 0
        /\ file'[rseg'].torn = "cut" /\ seg' = rseg'
    BY <1>1, <1>2, <1>4, <1>5
  <2>4. Below(file'[rseg'], next')
    BY <1>1, <1>2, <1>8 DEF Walk, Below
  <2>5. LastSegment'
    BY <1>1 DEF LastSegment
  <2>6. QED
    BY <2>1, <2>2, <2>3, <2>4, <2>5 DEF Walk
<1>10. ~Alive' /\ Mode' /\ Quiet'
  BY <1>1, <1>2 DEF Alive, Process, Mode, Quiet, Frozen, CwSteps
<1>11. Active' /\ NoActive' /\ Batches' /\ Held' /\ Bounded'
  BY <1>10 DEF Active, NoActive, Batches, Held, Bounded
<1>12. NoErrors'
  BY <1>1, <1>2 DEF NoErrors
<1>13. QED
  BY <1>7, <1>9, <1>10, <1>11, <1>12 DEF Kept, Process

LEMMA KeptRecoverFresh ==
  ASSUME RecoveryInv, RecoverFresh PROVE Kept
<1>1. /\ pc = "replay" /\ rpos = 0 /\ wals = {} /\ durable' = next /\ pc' = "cw_open"
      /\ UNCHANGED <<disk, snap, snapMaybe, wals, walsD, next, queue, wfd, seg, w, local, batchEnd, up, fail>>
  BY DEF RecoverFresh, disk, thr
<1>2. /\ TypeInv /\ Disk /\ Process /\ NoErrors /\ Walk /\ ~up /\ wfd = 0
      /\ snap.seq \in Nat /\ next \in Nat
      /\ w = "wait" /\ queue = <<>> /\ local = <<>>
  BY <1>1, InReplay DEF Process, Mode
<1>3. walsD = {} /\ Entries' = {}
  BY <1>1, <1>2 DEF Disk, Links, Entries
<1>4. next = snap.seq
  BY <1>1, <1>2 DEF Walk
<1>5. ASSUME NEW p \in snapMaybe PROVE p.seq = next
  <2>1. p.seq \in Nat /\ p.seq <= snap.seq
    BY <1>2, NumbersTyped DEF Disk, SnapOK
  <2>2. \A m \in (p.seq + 1)..snap.seq : FALSE
    BY <1>1, <1>2 DEF Disk, Between
  <2>3. ~(p.seq < snap.seq)
    BY <1>2, <2>1, <2>2
  <2>4. QED
    BY <1>2, <1>4, <2>1, <2>3
<1>6. Disk'
  BY <1>1, <1>2, DiskSame
<1>7. Mode' /\ Walk' /\ Active' /\ Held'
  BY <1>1, <1>2 DEF Mode, Walk, Active, Held, CwSteps
<1>8. NoActive' /\ Bounded'
  BY <1>1, <1>2, <1>3, <1>5 DEF NoActive, Bounded
<1>9. Quiet'
  BY <1>1, <1>2, <1>5 DEF Quiet, CwSteps
<1>10. Batches'
  <2>1. Taken' = next' /\ Len(queue') = 0 /\ Len(local') = 0 /\ w' = "wait"
    BY <1>1, <1>2 DEF Taken
  <2>2. QED
    BY <1>1, <1>2, <2>1 DEF Batches
<1>11. NoErrors'
  BY <1>1, <1>2 DEF NoErrors
<1>12. QED
  BY <1>6, <1>7, <1>8, <1>9, <1>10, <1>11 DEF Kept, Process

LEMMA KeptRecovery ==
  ASSUME RecoveryInv, Recovery PROVE Kept
<1>1. CASE RecoverFails
  BY <1>1, KeptOpenFails DEF RecoveryInv, RecoverFails
<1>2. QED
  BY <1>1, KeptOpen, KeptReplayHeader, KeptReplayCovered, KeptReplayRecord, KeptReplayTail,
     KeptRecoverAttach, KeptRepairTruncate, KeptRepairSync, KeptRecoverFresh DEF Recovery
-----------------------------------------------------------------------------
(* create_wal                                                              *)

LEMMA BatchesSame ==
  ASSUME Process, Alive, UNCHANGED <<next, durable, queue, w, local, batchEnd>> PROVE Batches'
  BY DEF Process, Batches, Taken, Frontier

\* Directory entries and old snapshots may go, as long as the active segment stays.
LEMMA ProcessShrink ==
  ASSUME Process, Alive, UNCHANGED <<mem, thr, file>>, Entries' \subseteq Entries,
         snapMaybe' \subseteq snapMaybe, wfd # 0 => wfd \in wals'
  PROVE  Active' /\ NoActive' /\ Batches' /\ Held' /\ Bounded'
<1>1. UNCHANGED <<file, next, durable, queue, wfd, seg, w, local, batchEnd>>
  BY DEF mem, thr
<1>2. Active'
  BY <1>1 DEF Process, Active
<1>3. NoActive'
  BY <1>1 DEF Process, NoActive, Whole, Below
<1>4. Batches'
  BY <1>1, BatchesSame
<1>5. Held'
  BY <1>1 DEF Process, Held, Has, Frontier
<1>6. Bounded'
  BY <1>1 DEF Process, Bounded, Below
<1>7. QED
  BY <1>2, <1>3, <1>4, <1>5, <1>6

\* While wal_mu is held by create_wal, nothing is pending and every snapshot is the newest.
LEMMA InCreate ==
  ASSUME RecoveryInv, pc \in CwSteps
  PROVE  /\ TypeInv /\ Disk /\ Process /\ NoErrors /\ Alive
         /\ durable = next /\ w = "wait" /\ queue = <<>> /\ local = <<>> /\ next \in Nat
         /\ snap \in snapMaybe /\ \A p \in snapMaybe : p.seq = next
         /\ seg \in Nat /\ Entries \subseteq Segs /\ wals \subseteq Entries /\ Segs \subseteq Nat
<1>1. TypeInv /\ Disk /\ Process /\ NoErrors /\ Alive
  BY DEF RecoveryInv, Alive
<1>2. durable = next /\ w = "wait" /\ queue = <<>> /\ \A p \in snapMaybe : p.seq = next
  BY <1>1 DEF Process, Quiet, Frozen
<1>3. local = <<>>
  BY <1>1, <1>2 DEF Process, Batches
<1>4. QED
  BY <1>1, <1>2, <1>3, NumbersTyped DEF Disk, SnapOK, Entries

\* The new segment has an id of its own.
LEMMA NewSegment ==
  ASSUME RecoveryInv, pc \in {"cw_open", "cw_header", "cw_sync"}
  PROVE  /\ wfd = 0 /\ seg + 1 \in Segs /\ seg + 1 # 0
         /\ \A s \in Entries : /\ s <= seg + 1 /\ s \in Nat
                               /\ \A p \in snapMaybe : Below(file[s], p.seq)
                               /\ s <= seg => Whole(file[s])
                               /\ s = seg + 1 => file[s].recs = <<>> /\ file[s].torn = "no"
         /\ pc # "cw_open" => seg + 1 \in wals
<1>1. pc \in CwSteps
  BY DEF CwSteps
<1>2. TypeInv /\ Process /\ Alive /\ seg \in Nat /\ Entries \subseteq Nat
  BY <1>1, InCreate
<1>3. wfd = 0 /\ (pc # "cw_open" => seg + 1 \in wals)
  BY <1>2 DEF Process, Mode
<1>4. seg < MaxSeg
  BY <1>2 DEF TypeInv, Position, RoomForSegment
<1>5. seg + 1 \in Segs
  BY <1>2, <1>4, ConstantAssumption DEF Segs
<1>6. QED
  BY <1>2, <1>3, <1>5 DEF Process, NoActive

LEMMA KeptCwOpen ==
  ASSUME RecoveryInv, CwOpen PROVE Kept
<1>1. /\ pc = "cw_open" /\ pc' = "cw_header"
      /\ file' = [file EXCEPT ![seg + 1] = NewFile(next + 1)] /\ wals' = wals \cup {seg + 1}
      /\ UNCHANGED <<snap, snapMaybe, walsD, next, durable, queue, wfd, seg, w, local, batchEnd, up, fail>>
  BY DEF CwOpen, mem, thr
<1>2. /\ TypeInv /\ Disk /\ Process /\ NoErrors /\ Alive
      /\ durable = next /\ w = "wait" /\ queue = <<>> /\ local = <<>> /\ next \in Nat
      /\ snap \in snapMaybe /\ \A p \in snapMaybe : p.seq = next
      /\ seg \in Nat /\ Entries \subseteq Segs /\ Segs \subseteq Nat
  BY <1>1, InCreate DEF CwSteps
<1>3. /\ wfd = 0 /\ seg + 1 \in Segs
      /\ \A s \in Entries : /\ s <= seg + 1 /\ s \in Nat
                            /\ \A p \in snapMaybe : Below(file[s], p.seq)
                            /\ s <= seg => Whole(file[s])
  BY <1>1, NewSegment
<1>4. file \in [Segs -> WalFile]
  BY <1>2 DEF TypeInv, TypeOK, DiskType
<1>5. /\ \A u \in Segs \ {seg + 1} : file'[u] = file[u]
      /\ file'[seg + 1] = NewFile(next + 1)
  BY <1>1, <1>3, <1>4
<1>6. /\ file'[seg + 1].recs = <<>> /\ file'[seg + 1].torn = "no" /\ file'[seg + 1].synced = 0
      /\ file'[seg + 1].first = next + 1 /\ Len(file'[seg + 1].recs) = 0
  BY <1>5 DEF NewFile
<1>7. /\ Entries' = Entries \cup {seg + 1}
      /\ \A s \in Entries' : s = seg + 1 \/ (s \in Entries /\ s <= seg /\ file'[s] = file[s])
  <2>1. Entries' = Entries \cup {seg + 1}
    BY <1>1 DEF Entries
  <2>2. \A s \in Entries : s # seg + 1 => s <= seg
    BY <1>2, <1>3
  <2>3. QED
    BY <1>2, <1>5, <2>1, <2>2
<1>8. Disk'
  <2>1. SnapOK'
    BY <1>1, <1>2 DEF Disk, SnapOK
  <2>2. FileOK'
    BY <1>2, <1>5, <1>6 DEF Disk, FileOK
  <2>3. Links'
    BY <1>1, <1>2 DEF Disk, Links
  <2>4. Sealed'
    <3> SUFFICES ASSUME NEW s \in Entries', NEW t \in Entries', s < t
                 PROVE  Whole(file'[s]) /\ \A p \in snapMaybe' : Below(file'[s], p.seq)
      BY DEF Sealed
    <3>1. t <= seg + 1 /\ t \in Nat /\ s \in Nat
      BY <1>2, <1>3, <1>7
    <3>2. s # seg + 1
      BY <1>2, <3>1
    <3>3. QED
      BY <1>1, <1>3, <1>7, <3>2
  <2>5. Gapless'
    <3> SUFFICES ASSUME NEW s \in Entries', NEW p \in snapMaybe
                 PROVE  FullFrom(file'[s], p.seq) /\ file'[s].first <= p.seq + 1
      BY <1>1 DEF Gapless
    <3>1. CASE s = seg + 1
      BY <1>2, <1>6, <3>1 DEF FullFrom
    <3>2. CASE s # seg + 1
      BY <1>2, <1>7, <3>2 DEF Disk, Gapless
    <3>3. QED
      BY <3>1, <3>2
  <2>6. Between'
    BY <1>1, <1>2 DEF Between
  <2>7. QED
    BY <2>1, <2>2, <2>3, <2>4, <2>5, <2>6 DEF Disk
<1>9. Mode' /\ Walk' /\ Active' /\ Held'
  BY <1>1, <1>2, <1>3 DEF Process, Mode, Walk, Active, Held, CwSteps
<1>10. NoActive'
  <2>1. ASSUME NEW s \in Entries'
        PROVE  /\ s <= seg + 1 /\ \A p \in snapMaybe : Below(file'[s], p.seq)
               /\ s <= seg => Whole(file'[s])
               /\ s = seg + 1 => file'[s].recs = <<>> /\ file'[s].torn = "no"
    <3>1. CASE s = seg + 1
      BY <1>2, <1>6, <3>1 DEF Below
    <3>2. CASE s # seg + 1
      BY <1>2, <1>3, <1>7, <3>2
    <3>3. QED
      BY <3>1, <3>2
  <2>2. QED
    BY <1>1, <1>2, <2>1 DEF NoActive
<1>11. Quiet'
  BY <1>1, <1>2 DEF Quiet, CwSteps
<1>12. Batches'
  BY <1>1, <1>2, BatchesSame
<1>13. Bounded'
  <2>1. ASSUME NEW s \in Entries' PROVE Below(file'[s], next)
    <3>1. CASE s = seg + 1
      BY <1>6, <3>1 DEF Below
    <3>2. CASE s # seg + 1
      BY <1>2, <1>7, <3>2 DEF Process, Bounded
    <3>3. QED
      BY <3>1, <3>2
  <2>2. QED
    BY <1>1, <1>2, <2>1 DEF Bounded
<1>14. NoErrors'
  BY <1>1, <1>2 DEF NoErrors
<1>15. QED
  BY <1>8, <1>9, <1>10, <1>11, <1>12, <1>13, <1>14 DEF Kept, Process

\* The new segment gets its header, and is not the active one yet.
LEMMA HeaderStep ==
  ASSUME RecoveryInv, pc \in {"cw_header", "cw_sync"},
         UNCHANGED <<snapMaybe, wals, next, durable, wfd, seg, w>>,
         Entries' = Entries, \A u \in Segs \ {seg + 1} : file'[u] = file[u],
         file'[seg + 1].recs = file[seg + 1].recs, file'[seg + 1].torn = "no"
  PROVE  Active' /\ NoActive' /\ Held' /\ Bounded'
<1>1. /\ wfd = 0 /\ seg + 1 \in Segs
      /\ \A s \in Entries : /\ s <= seg + 1 /\ s \in Nat
                            /\ \A p \in snapMaybe : Below(file[s], p.seq)
                            /\ s <= seg => Whole(file[s])
                            /\ s = seg + 1 => file[s].recs = <<>> /\ file[s].torn = "no"
  BY NewSegment
<1>2. /\ Process /\ Alive /\ durable = next /\ w = "wait" /\ seg \in Nat /\ Entries \subseteq Segs
      /\ \A p \in snapMaybe : p.seq = next
      /\ next \in Nat
  BY InCreate DEF CwSteps
<1>3. Active' /\ Held'
  BY <1>1 DEF Active, Held
<1>4. ASSUME NEW s \in Entries
      PROVE  /\ \A p \in snapMaybe : Below(file'[s], p.seq)
             /\ s <= seg => Whole(file'[s])
             /\ s = seg + 1 => file'[s].recs = <<>> /\ file'[s].torn = "no"
             /\ Below(file'[s], next)
  <2>1. \A p \in snapMaybe : Below(file[s], p.seq)
    BY <1>1
  <2>2. Below(file[s], next)
    BY <1>2 DEF Process, Bounded
  <2>3. CASE s = seg + 1
    <3>1. ~(s <= seg)
      BY <1>2, <2>3
    <3>2. QED
      BY <1>1, <2>1, <2>2, <2>3, <3>1 DEF Below
  <2>4. CASE s # seg + 1
    BY <1>1, <1>2, <2>1, <2>2, <2>4
  <2>5. QED
    BY <2>3, <2>4
<1>5. NoActive'
  BY <1>1, <1>2, <1>4 DEF NoActive
<1>6. Bounded'
  BY <1>2, <1>4 DEF Bounded
<1>7. QED
  BY <1>3, <1>5, <1>6

LEMMA KeptCwHeader ==
  ASSUME RecoveryInv, CwHeader PROVE Kept
<1>1. /\ pc = "cw_header" /\ pc' = "cw_sync" /\ file' = [file EXCEPT ![seg + 1].hdr = "written"]
      /\ UNCHANGED <<snap, snapMaybe, wals, walsD, next, durable, queue, wfd, seg, w, local, batchEnd, up, fail>>
  BY DEF CwHeader, mem, thr
<1>2. /\ TypeInv /\ Disk /\ Process /\ NoErrors /\ Alive
      /\ durable = next /\ w = "wait" /\ queue = <<>> /\ \A p \in snapMaybe : p.seq = next
      /\ wals \subseteq Entries
  BY <1>1, InCreate DEF CwSteps
<1>3. /\ wfd = 0 /\ seg + 1 \in Segs /\ seg + 1 \in wals
      /\ \A s \in Entries : /\ s <= seg + 1
                            /\ s = seg + 1 => file[s].recs = <<>> /\ file[s].torn = "no"
  BY <1>1, NewSegment
<1>4. file \in [Segs -> WalFile] /\ file[seg + 1] \in WalFile
  BY <1>2, <1>3 DEF TypeInv, TypeOK, DiskType
<1>5. /\ \A u \in Segs \ {seg + 1} : file'[u] = file[u]
      /\ file'[seg + 1].recs = file[seg + 1].recs /\ file'[seg + 1].first = file[seg + 1].first
      /\ file'[seg + 1].synced = file[seg + 1].synced /\ file'[seg + 1].hdr = "written"
      /\ file'[seg + 1].torn = file[seg + 1].torn
  BY <1>1, <1>3, <1>4 DEF WalFile
<1>6. file'[seg + 1].torn = "no" /\ Entries' = Entries /\ walsD' \subseteq Entries
  BY <1>1, <1>2, <1>3, <1>5 DEF Entries
<1>7. Disk'
  <2>1. file'[seg + 1].synced <= Len(file'[seg + 1].recs)
    BY <1>2, <1>3, <1>5 DEF Disk, FileOK
  <2>2. QED
    BY <1>1, <1>2, <1>3, <1>5, <1>6, <2>1, FileTouched
<1>8. Active' /\ NoActive' /\ Held' /\ Bounded'
  BY <1>1, <1>5, <1>6, HeaderStep
<1>9. Mode' /\ Walk'
  BY <1>1, <1>2, <1>3 DEF Process, Mode, Walk, CwSteps
<1>10. Quiet' /\ NoErrors'
  BY <1>1, <1>2 DEF Quiet, CwSteps, NoErrors
<1>11. Batches'
  BY <1>1, <1>2, BatchesSame
<1>12. QED
  BY <1>7, <1>8, <1>9, <1>10, <1>11 DEF Kept, Process

LEMMA KeptCwPreallocFail ==
  ASSUME RecoveryInv, CwPreallocFail PROVE Kept
<1>1. /\ pc = "cw_sync" /\ up /\ pc' = "idle" /\ file' = [file EXCEPT ![seg + 1] = Synced(@)]
      /\ walsD' = LinksAfterSync(seg + 1)
      /\ UNCHANGED <<snap, snapMaybe, wals, next, durable, queue, wfd, seg, w, local, batchEnd, up, fail>>
  BY DEF CwPreallocFail, mem, thr
<1>2. TypeInv /\ Disk /\ Process /\ NoErrors /\ Alive /\ wals \subseteq Entries
  BY <1>1, InCreate DEF CwSteps
<1>3. /\ seg + 1 \in Segs /\ seg + 1 \in wals /\ wfd = 0
      /\ file[seg + 1].recs = <<>> /\ file[seg + 1].torn = "no"
  BY <1>1, <1>2, NewSegment
<1>4. PICK s \in wals : s = seg + 1
  BY <1>3
<1>5. /\ Disk' /\ Entries' = Entries /\ file'[s] = Synced(file[s])
      /\ \A u \in Segs : file'[u].recs = file[u].recs
      /\ \A u \in Segs \ {s} : file'[u] = file[u]
  BY <1>1, <1>2, <1>4, DiskSync
<1>6. file'[seg + 1].torn = "no"
  BY <1>2, <1>3, <1>4, <1>5, SyncedIs, FileTyped
<1>7. Active' /\ NoActive' /\ Held' /\ Bounded'
  BY <1>1, <1>3, <1>4, <1>5, <1>6, HeaderStep
<1>8. Mode' /\ Walk' /\ Quiet'
  BY <1>1, <1>3 DEF Mode, Walk, CwSteps, Quiet, Frozen
<1>9. Batches' /\ NoErrors'
  BY <1>1, <1>2, BatchesSame DEF NoErrors
<1>10. QED
  BY <1>5, <1>7, <1>8, <1>9 DEF Kept, Process

LEMMA KeptCwSync ==
  ASSUME RecoveryInv, CwSync PROVE Kept
<1>1. /\ pc = "cw_sync" /\ pc' = "cw_dirsync" /\ file' = [file EXCEPT ![seg + 1] = Synced(@)]
      /\ walsD' = LinksAfterSync(seg + 1) /\ wfd' = seg + 1 /\ seg' = seg + 1
      /\ UNCHANGED <<snap, snapMaybe, wals, next, durable, queue, w, local, batchEnd, up, fail>>
  BY DEF CwSync, thr
<1>2. /\ TypeInv /\ Disk /\ Process /\ NoErrors /\ Alive /\ wals \subseteq Entries
      /\ durable = next /\ w = "wait" /\ queue = <<>> /\ local = <<>>
      /\ next \in Nat /\ Entries \subseteq Segs
      /\ \A p \in snapMaybe : p.seq = next
  BY <1>1, InCreate DEF CwSteps
<1>3. /\ seg + 1 \in Segs /\ seg + 1 \in wals /\ seg + 1 # 0 /\ \A s \in Entries : s <= seg + 1
      /\ file[seg + 1].recs = <<>> /\ file[seg + 1].torn = "no"
  BY <1>1, <1>2, NewSegment
<1>4. PICK s \in wals : s = seg + 1
  BY <1>3
<1>5. /\ Disk' /\ Entries' = Entries /\ file'[s] = Synced(file[s])
      /\ \A u \in Segs : file'[u].recs = file[u].recs
  BY <1>1, <1>2, <1>4, DiskSync
<1>6. file'[seg + 1].torn = "no" /\ file'[seg + 1].hdr = "ok"
  BY <1>2, <1>3, <1>4, <1>5, SyncedIs, FileTyped
<1>7. Active'
  BY <1>1, <1>3, <1>5, <1>6 DEF Active
<1>8. Mode' /\ Walk' /\ NoActive'
  BY <1>1, <1>2, <1>3 DEF Process, Mode, Walk, NoActive, CwSteps
<1>9. Quiet' /\ NoErrors'
  BY <1>1, <1>2 DEF Quiet, CwSteps, NoErrors
<1>10. Held'
  <2>1. Frontier' = next
    BY <1>1, <1>2 DEF Frontier
  <2>2. \A p \in snapMaybe' : \A m \in (p.seq + 1)..Frontier' : FALSE
    BY <1>1, <1>2, <2>1
  <2>3. QED
    BY <2>2 DEF Held
<1>11. Bounded'
  <2>1. \A u \in Entries : Below(file[u], next)
    BY <1>2 DEF Process, Bounded
  <2>2. \A u \in Entries' : Below(file'[u], next)
    BY <1>2, <1>5, <2>1 DEF Below
  <2>3. QED
    BY <1>1, <1>2, <2>2 DEF Bounded
<1>12. Batches'
  BY <1>1, <1>2, BatchesSame
<1>13. QED
  BY <1>5, <1>7, <1>8, <1>9, <1>10, <1>11, <1>12 DEF Kept, Process

\* fsync_dir: the directory is what it shows, and only snapshot.bdr3 is left.
LEMMA DiskDirSync ==
  ASSUME TypeInv, Disk, DirSync, UNCHANGED <<snap, file, wals>>
  PROVE  /\ Disk' /\ Entries' = wals /\ Entries' \subseteq Entries
         /\ snapMaybe' = {snap} /\ snapMaybe' \subseteq snapMaybe
<1>1. walsD' = wals /\ snapMaybe' = {snap} /\ snap \in snapMaybe
  BY DEF DirSync, Disk, SnapOK
<1>2. Entries' = wals /\ wals \subseteq Entries /\ wals \subseteq Nat
  BY <1>1, NumbersTyped DEF Entries
<1>3. SnapOK' /\ FileOK'
  BY <1>1, NumbersTyped DEF Disk, SnapOK, FileOK
<1>4. Links'
  BY <1>1, <1>2 DEF Links
<1>5. Sealed'
  BY <1>1, <1>2 DEF Disk, Sealed, Whole, Below
<1>6. Gapless'
  BY <1>1, <1>2 DEF Disk, Gapless, FullFrom
<1>7. Between'
  BY <1>1, NumbersTyped DEF Between
<1>8. QED
  BY <1>1, <1>2, <1>3, <1>4, <1>5, <1>6, <1>7 DEF Disk

LEMMA KeptCwDirSync ==
  ASSUME RecoveryInv, CwDirSync PROVE Kept
<1>1. /\ pc = "cw_dirsync" /\ pc' \in {"ck_remove", "idle"} /\ up' /\ DirSync
      /\ UNCHANGED <<snap, file, wals, mem, thr, fail>>
      /\ UNCHANGED <<next, durable, queue, wfd, seg, w, local, batchEnd>>
  BY DEF CwDirSync, mem, thr
<1>2. /\ TypeInv /\ Disk /\ Process /\ NoErrors /\ Alive
      /\ durable = next /\ w = "wait" /\ queue = <<>>
      /\ snap \in snapMaybe /\ \A p \in snapMaybe : p.seq = next
  BY <1>1, InCreate DEF CwSteps
<1>3. wfd # 0 /\ wfd \in wals
  BY <1>1, <1>2 DEF Process, Mode, Active
<1>4. Disk' /\ Entries' \subseteq Entries /\ snapMaybe' = {snap}
  BY <1>1, <1>2, DiskDirSync
<1>5. Active' /\ NoActive' /\ Batches' /\ Held' /\ Bounded'
  BY <1>1, <1>2, <1>3, <1>4, ProcessShrink
<1>6. Mode' /\ Walk' /\ NoErrors'
  BY <1>1, <1>2, <1>3 DEF Mode, Walk, NoErrors, CwSteps
<1>7. Quiet'
  BY <1>1, <1>2, <1>4 DEF Quiet, CwSteps
<1>8. QED
  BY <1>4, <1>5, <1>6, <1>7 DEF Kept, Process

LEMMA KeptCreateWal ==
  ASSUME RecoveryInv, CreateWal PROVE Kept
<1>1. CASE CwOpenFail
  BY <1>1, KeptOpenFails DEF RecoveryInv, CwOpenFail
<1>2. QED
  BY <1>1, KeptCwOpen, KeptCwHeader, KeptCwSync, KeptCwDirSync, KeptCwPreallocFail DEF CreateWal
-----------------------------------------------------------------------------
(* checkpoint_impl                                                         *)

LEMMA InProcess ==
  ASSUME RecoveryInv, pc \notin {"down", "replay", "repair"} \cup CwSteps
  PROVE  TypeInv /\ Disk /\ Process /\ NoErrors /\ Alive /\ up
<1>1. TypeInv /\ Disk /\ Process /\ NoErrors
  BY DEF RecoveryInv
<1>2. up
  BY <1>1 DEF Process, Mode
<1>3. QED
  BY <1>1, <1>2 DEF Alive

\* Only the thread in checkpoint_impl or close_impl moves, without touching a file.
LEMMA KeptControl ==
  ASSUME RecoveryInv, up, UNCHANGED <<disk, mem, thr, up, fail>>, Quiet',
         pc' \notin {"down", "replay", "repair", "cw_open", "cw_header", "cw_sync", "cw_dirsync", "ck_remove"}
  PROVE  Kept
<1>1. TypeInv /\ Disk /\ Process /\ NoErrors /\ Alive
  BY DEF RecoveryInv, Alive
<1>2. Disk'
  BY <1>1, DiskSame
<1>3. Active' /\ NoActive' /\ Batches' /\ Held' /\ Bounded'
  BY <1>1, ProcessSame
<1>4. Mode' /\ Walk' /\ NoErrors'
  BY <1>1 DEF Mode, Walk, NoErrors
<1>5. QED
  BY <1>2, <1>3, <1>4 DEF Kept, Process

LEMMA KeptCkBegin == ASSUME RecoveryInv, CkBegin PROVE Kept
<1>1. pc = "idle" /\ pc' = "ck_wait" /\ UNCHANGED <<disk, mem, thr, up, fail>>
  BY DEF CkBegin
<1>2. up
  BY <1>1, InProcess DEF CwSteps
<1>3. Quiet'
  BY <1>1 DEF Quiet, Frozen, CwSteps
<1>4. QED
  BY <1>1, <1>2, <1>3, KeptControl

\* wait_impl has returned: the writer has nothing left.
LEMMA Drained ==
  ASSUME RecoveryInv, Alive, durable >= next
  PROVE  durable = next /\ w = "wait" /\ queue = <<>>
<1>0. /\ Process /\ next \in Nat /\ durable \in Nat /\ batchEnd \in Nat /\ queue \in Seq(Rec)
      /\ w \in {"wait", "write", "publish", "dead"}
  BY NumbersTyped DEF RecoveryInv, TypeInv, TypeOK, ThreadType
<1>1. w # "dead"
  BY <1>0 DEF Process, Batches
<1>2. Taken + Len(queue) = next /\ Len(queue) \in Nat
  BY <1>0, <1>1 DEF Process, Batches
<1>3. w = "wait"
  <2>1. CASE w \in {"write", "publish"}
    <3>1. durable < batchEnd /\ Taken = batchEnd
      BY <1>0, <2>1 DEF Process, Batches, Taken
    <3>2. QED
      BY <1>0, <1>2, <3>1
  <2>2. QED
    BY <1>0, <1>1, <2>1
<1>4. Taken = durable
  BY <1>3 DEF Taken
<1>5. Len(queue) = 0 /\ durable = next
  BY <1>0, <1>2, <1>4
<1>6. QED
  BY <1>0, <1>3, <1>5, EmptySeq

LEMMA KeptCkWrite == ASSUME RecoveryInv, CkWrite PROVE Kept
<1>1. /\ pc = "ck_wait" /\ durable >= next /\ pc' = "ck_fsync" /\ tmp'.seq = next
      /\ UNCHANGED <<disk, mem, thr, up, fail>> /\ UNCHANGED <<next, durable, w, queue>>
  BY DEF CkWrite, mem, thr
<1>2. up /\ Alive
  BY <1>1, InProcess DEF CwSteps
<1>3. durable = next /\ w = "wait" /\ queue = <<>>
  BY <1>1, <1>2, Drained
<1>4. Quiet'
  BY <1>1, <1>3 DEF Quiet, CwSteps
<1>5. QED
  BY <1>1, <1>2, <1>4, KeptControl

LEMMA KeptCkFsync == ASSUME RecoveryInv, CkFsync PROVE Kept
<1>1. /\ pc = "ck_fsync" /\ pc' = "ck_rename" /\ tmp' = [tmp EXCEPT !.st = "stable"]
      /\ UNCHANGED <<disk, mem, thr, up, fail>> /\ UNCHANGED <<next, durable, w, queue>>
  BY DEF CkFsync, mem, thr
<1>2. up /\ TypeInv /\ Process
  BY <1>1, InProcess DEF CwSteps
<1>3. tmp'.seq = tmp.seq /\ tmp'.st = "stable"
  BY <1>1, <1>2 DEF TypeInv, TypeOK, ControlType, Snap
<1>4. durable = next /\ w = "wait" /\ queue = <<>> /\ tmp.seq = next
  BY <1>1, <1>2 DEF Process, Quiet, Frozen
<1>5. Quiet'
  BY <1>1, <1>3, <1>4 DEF Quiet, CwSteps
<1>6. QED
  BY <1>1, <1>2, <1>5, KeptControl

\* From its snapshot on, checkpoint_impl has nothing pending.
LEMMA InCheckpoint ==
  ASSUME RecoveryInv, pc \in {"ck_rename", "ck_dirsync", "ck_rotate", "ck_remove"}
  PROVE  /\ TypeInv /\ Disk /\ Process /\ NoErrors /\ Alive /\ up
         /\ durable = next /\ w = "wait" /\ queue = <<>> /\ local = <<>> /\ Frontier = next
         /\ next \in Nat
<1>1. TypeInv /\ Disk /\ Process /\ NoErrors /\ Alive /\ up
  BY InProcess DEF CwSteps
<1>2. durable = next /\ w = "wait" /\ queue = <<>>
  BY <1>1 DEF Process, Quiet, Frozen
<1>3. QED
  BY <1>1, <1>2, NumbersTyped DEF Process, Batches, Frontier

\* The new snapshot covers every record, and the segments still hold what an older one needs.
LEMMA KeptCkRename == ASSUME RecoveryInv, CkRename PROVE Kept
<1>1. /\ pc = "ck_rename" /\ pc' = "ck_dirsync" /\ snap' = tmp /\ snapMaybe' = snapMaybe \cup {tmp}
      /\ UNCHANGED <<file, wals, walsD, up, fail>>
      /\ UNCHANGED <<next, durable, queue, wfd, seg, w, local, batchEnd>>
  BY DEF CkRename, mem, thr
<1>2. /\ TypeInv /\ Disk /\ Process /\ NoErrors /\ Alive /\ up
      /\ durable = next /\ w = "wait" /\ queue = <<>> /\ Frontier = next /\ next \in Nat
  BY <1>1, InCheckpoint
<1>3. tmp.seq = next /\ tmp.st = "stable"
  BY <1>1, <1>2 DEF Process, Quiet
<1>4. /\ \A p \in snapMaybe : p.seq <= next /\ p.seq \in Nat
      /\ \A s \in Entries : Below(file[s], next)
      /\ Entries' = Entries /\ Entries \subseteq Segs
      /\ snap \in snapMaybe
  BY <1>1, <1>2, NumbersTyped DEF Process, Bounded, Entries, Disk, SnapOK
<1>5. \A p \in snapMaybe' : p \in snapMaybe \/ p.seq = next
  BY <1>1, <1>3
<1>6. Disk'
  <2>1. SnapOK'
    BY <1>1, <1>2, <1>3, <1>4 DEF SnapOK, Disk
  <2>2. FileOK' /\ Links'
    BY <1>1, <1>2 DEF Disk, FileOK, Links
  <2>3. Sealed'
    BY <1>1, <1>2, <1>4, <1>5 DEF Disk, Sealed, Whole, Below
  <2>4. Gapless'
    <3> SUFFICES ASSUME NEW s \in Entries, NEW p \in snapMaybe'
                 PROVE  FullFrom(file[s], p.seq) /\ file[s].first <= p.seq + 1
      BY <1>1, <1>4 DEF Gapless, FullFrom
    <3>1. CASE p \in snapMaybe
      BY <1>2, <3>1 DEF Disk, Gapless
    <3>2. CASE p.seq = next
      <4>1. \A i \in 1..Len(file[s].recs) : file[s].recs[i].seq <= next /\ file[s].recs[i].seq \in Nat
        BY <1>2, <1>4, FileTyped DEF Below
      <4>2. FullFrom(file[s], next)
        BY <1>2, <4>1 DEF FullFrom
      <4>3. file[s].first <= snap.seq + 1 /\ file[s].first \in Nat /\ snap.seq \in Nat /\ snap.seq <= next
        BY <1>2, <1>4, FileTyped DEF Disk, Gapless
      <4>4. QED
        BY <1>2, <3>2, <4>2, <4>3
    <3>3. QED
      BY <1>5, <3>1, <3>2
  <2>5. Between'
    <3> SUFFICES ASSUME NEW p \in snapMaybe', NEW m \in (p.seq + 1)..next
                 PROVE  \E s \in wals : Has(file[s], m)
      BY <1>1, <1>3 DEF Between, Has
    <3>1. p \in snapMaybe
      BY <1>2, <1>5
    <3>2. CASE wfd = 0
      <4>1. next <= p.seq /\ p.seq \in Nat
        BY <1>2, <1>4, <3>1, <3>2 DEF Process, NoActive
      <4>2. QED
        BY <1>2, <4>1
    <3>3. CASE wfd # 0
      <4>1. Has(file[wfd], m)
        BY <1>2, <3>1, <3>3 DEF Process, Held
      <4>2. wfd \in wals
        BY <1>2, <3>3 DEF Process, Active
      <4>3. QED
        BY <4>1, <4>2
    <3>4. QED
      BY <3>2, <3>3
  <2>6. QED
    BY <2>1, <2>2, <2>3, <2>4, <2>5 DEF Disk
<1>7. Active'
  BY <1>1, <1>2, <1>4 DEF Process, Active
<1>8. NoActive'
  <2>1. CASE wfd # 0
    BY <1>1, <2>1 DEF NoActive
  <2>2. CASE wfd = 0
    <3>1. /\ \A s \in Entries : /\ s <= seg + 1 /\ (s <= seg => Whole(file[s]))
                                /\ s = seg + 1 => file[s].recs = <<>> /\ file[s].torn = "no"
          /\ \A p \in snapMaybe : durable <= p.seq
          /\ \A s \in Entries : \A p \in snapMaybe : Below(file[s], p.seq)
      BY <1>2, <2>2 DEF Process, NoActive
    <3>2. \A p \in snapMaybe' : durable <= p.seq
      BY <1>2, <1>5, <3>1
    <3>3. \A s \in Entries : \A p \in snapMaybe' : Below(file[s], p.seq)
      BY <1>4, <1>5, <3>1
    <3>4. QED
      BY <1>1, <1>2, <1>4, <3>1, <3>2, <3>3 DEF NoActive, Whole, Below
  <2>3. QED
    BY <2>1, <2>2
<1>9. Held'
  <2>1. CASE wfd = 0
    BY <1>1, <2>1 DEF Held
  <2>2. CASE wfd # 0
    <3>1. \A p \in snapMaybe : \A m \in (p.seq + 1)..next : Has(file[wfd], m)
      BY <1>2, <2>2 DEF Process, Held
    <3>2. \A p \in snapMaybe' : \A m \in (p.seq + 1)..next : Has(file[wfd], m)
      BY <1>2, <1>5, <3>1
    <3>3. Frontier' = next
      BY <1>1, <1>2 DEF Frontier
    <3>4. QED
      BY <1>1, <3>2, <3>3 DEF Held, Has
  <2>3. QED
    BY <2>1, <2>2
<1>10. Bounded'
  BY <1>1, <1>2, <1>4, <1>5 DEF Bounded, Below
<1>11. Batches'
  BY <1>1, <1>2, BatchesSame
<1>12. Mode' /\ Walk' /\ NoErrors'
  BY <1>1, <1>2 DEF Mode, Walk, NoErrors
<1>13. Quiet'
  BY <1>1, <1>2, <1>3 DEF Quiet, CwSteps
<1>14. QED
  BY <1>6, <1>7, <1>8, <1>9, <1>10, <1>11, <1>12, <1>13 DEF Kept, Process

LEMMA KeptCkDirSync == ASSUME RecoveryInv, CkDirSync PROVE Kept
<1>1. /\ pc = "ck_dirsync" /\ pc' = "ck_rotate" /\ DirSync
      /\ UNCHANGED <<snap, file, wals, mem, thr, up, fail>>
      /\ UNCHANGED <<next, durable, queue, wfd, seg, w, local, batchEnd>>
  BY DEF CkDirSync, mem, thr
<1>2. /\ TypeInv /\ Disk /\ Process /\ NoErrors /\ Alive /\ up
      /\ durable = next /\ w = "wait" /\ queue = <<>>
  BY <1>1, InCheckpoint
<1>3. Disk' /\ Entries' \subseteq Entries /\ snapMaybe' = {snap} /\ snapMaybe' \subseteq snapMaybe
  BY <1>1, <1>2, DiskDirSync
<1>4. wfd # 0 => wfd \in wals
  BY <1>2 DEF Process, Active
<1>5. Active' /\ NoActive' /\ Batches' /\ Held' /\ Bounded'
  BY <1>1, <1>2, <1>3, <1>4, ProcessShrink
<1>6. snap.seq = next
  BY <1>1, <1>2 DEF Process, Quiet
<1>7. Mode' /\ Walk' /\ NoErrors'
  BY <1>1, <1>2 DEF Mode, Walk, NoErrors
<1>8. Quiet'
  BY <1>1, <1>2, <1>3, <1>6 DEF Quiet, CwSteps
<1>9. QED
  BY <1>3, <1>5, <1>7, <1>8 DEF Kept, Process

LEMMA KeptCkRemove == ASSUME RecoveryInv, NEW s \in Segs, CkRemove(s) PROVE Kept
<1>1. /\ pc = "ck_remove" /\ pc' = "ck_remove" /\ s \in wals \ {wfd} /\ wals' = wals \ {s}
      /\ UNCHANGED <<snap, snapMaybe, file, walsD, mem, thr, up, fail>>
      /\ UNCHANGED <<next, durable, queue, wfd, seg, w, local, batchEnd>>
  BY DEF CkRemove, mem, thr
<1>2. /\ TypeInv /\ Disk /\ Process /\ NoErrors /\ Alive /\ up
      /\ durable = next /\ w = "wait" /\ queue = <<>>
  BY <1>1, InCheckpoint
<1>3. /\ wfd # 0 /\ wfd \in wals' /\ \A t \in Entries : t <= wfd
      /\ \A p \in snapMaybe : p.seq = next /\ p.seq \in Nat
      /\ snap \in snapMaybe /\ Entries' \subseteq Entries
  BY <1>1, <1>2, NumbersTyped DEF Process, Mode, Active, Quiet, Disk, SnapOK, Entries
<1>4. Disk'
  <2>1. SnapOK' /\ FileOK'
    BY <1>1, <1>2 DEF Disk, SnapOK, FileOK
  <2>2. Links'
    BY <1>1, <1>3 DEF Links, Entries
  <2>3. Sealed'
    BY <1>1, <1>2, <1>3 DEF Disk, Sealed, Whole, Below
  <2>4. Gapless'
    BY <1>1, <1>2, <1>3 DEF Disk, Gapless, FullFrom
  <2>5. Between'
    BY <1>1, <1>3 DEF Between
  <2>6. QED
    BY <2>1, <2>2, <2>3, <2>4, <2>5 DEF Disk
<1>5. Active' /\ NoActive' /\ Batches' /\ Held' /\ Bounded'
  BY <1>1, <1>2, <1>3, ProcessShrink
<1>6. Mode' /\ Walk' /\ NoErrors'
  BY <1>1, <1>2, <1>3 DEF Mode, Walk, NoErrors
<1>7. Quiet'
  BY <1>1, <1>2, <1>3 DEF Quiet, CwSteps
<1>8. QED
  BY <1>4, <1>5, <1>6, <1>7 DEF Kept, Process

LEMMA KeptCkDone == ASSUME RecoveryInv, CkDone PROVE Kept
<1>1. /\ pc = "ck_remove" /\ pc' = "idle" /\ DirSync
      /\ UNCHANGED <<snap, file, wals, mem, thr, up, fail>>
  BY DEF CkDone
<1>2. TypeInv /\ Disk /\ Process /\ NoErrors /\ Alive /\ up
  BY <1>1, InCheckpoint
<1>3. Disk' /\ Entries' \subseteq Entries /\ snapMaybe' \subseteq snapMaybe
  BY <1>1, <1>2, DiskDirSync
<1>4. wfd # 0 => wfd \in wals
  BY <1>2 DEF Process, Active
<1>5. Active' /\ NoActive' /\ Batches' /\ Held' /\ Bounded'
  BY <1>1, <1>2, <1>3, <1>4, ProcessShrink
<1>6. Mode' /\ Walk' /\ NoErrors' /\ Quiet'
  BY <1>1, <1>2 DEF Mode, Walk, NoErrors, Quiet, Frozen, CwSteps
<1>7. QED
  BY <1>3, <1>5, <1>6 DEF Kept, Process

LEMMA KeptCkFail == ASSUME RecoveryInv, CkFail PROVE Kept
<1>1. up /\ pc' = "idle" /\ UNCHANGED <<disk, mem, thr, up, fail>>
  BY DEF CkFail
<1>2. Quiet'
  BY <1>1 DEF Quiet, Frozen, CwSteps
<1>3. QED
  BY <1>1, <1>2, KeptControl

\* The active segment is synced before it is closed: it is complete, and the snapshot covers it.
LEMMA KeptCkRotate == ASSUME RecoveryInv, CkRotate PROVE Kept
<1>1. /\ pc = "ck_rotate" /\ pc' = "cw_open" /\ wfd' = 0
      /\ file' = IF wfd = 0 THEN file ELSE [file EXCEPT ![wfd] = Synced(@)]
      /\ walsD' = IF wfd = 0 THEN walsD ELSE LinksAfterSync(wfd)
      /\ UNCHANGED <<snap, snapMaybe, wals, up, fail>>
      /\ UNCHANGED <<next, durable, queue, seg, w, local, batchEnd>>
  BY DEF CkRotate, thr
<1>2. /\ TypeInv /\ Disk /\ Process /\ NoErrors /\ Alive /\ up
      /\ durable = next /\ w = "wait" /\ queue = <<>> /\ next \in Nat
  BY <1>1, InCheckpoint
<1>3. \A p \in snapMaybe : p.seq = next
  BY <1>1, <1>2 DEF Process, Quiet
<1>4. \A s \in Entries : Below(file[s], next) /\ s \in Segs /\ s \in Nat
  BY <1>2, NumbersTyped DEF Process, Bounded
<1>5. /\ Disk' /\ Entries' = Entries /\ \A u \in Segs : file'[u].recs = file[u].recs
      /\ \A s \in Entries : /\ s <= seg + 1 /\ (s <= seg => Whole(file'[s]))
                            /\ s = seg + 1 => file'[s].recs = <<>> /\ file'[s].torn = "no"
  <2>1. CASE wfd = 0
    <3>1. UNCHANGED <<snap, snapMaybe, file, wals, walsD>>
      BY <1>1, <2>1
    <3>2. Disk' /\ Entries' = Entries
      BY <1>2, <3>1, DiskSame DEF disk, Entries
    <3>3. QED
      BY <1>2, <2>1, <3>1, <3>2 DEF Process, NoActive
  <2>2. CASE wfd # 0
    <3>1. /\ wfd = seg /\ wfd \in wals /\ \A s \in Entries : s <= wfd
          /\ file[wfd].torn # "yes" /\ seg \in Nat /\ wfd \in Segs
      BY <1>2, <2>2, NumbersTyped DEF Process, Active
    <3>2. PICK a \in wals : a = wfd
      BY <3>1
    <3>3. file' = [file EXCEPT ![a] = Synced(@)] /\ walsD' = LinksAfterSync(a)
      BY <1>1, <2>2, <3>2
    <3>4. /\ Disk' /\ Entries' = Entries /\ file'[a] = Synced(file[a])
          /\ \A u \in Segs : file'[u].recs = file[u].recs
          /\ \A u \in Segs \ {a} : file'[u] = file[u]
      BY <1>1, <1>2, <3>3, DiskSync
    <3>5. Whole(file'[a])
      BY <1>2, <3>1, <3>2, <3>4, SyncedIs, FileTyped DEF Whole
    <3>6. ASSUME NEW s \in Entries PROVE s <= seg + 1 /\ Whole(file'[s]) /\ s # seg + 1
      <4>1. s <= seg + 1 /\ s # seg + 1
        BY <1>4, <3>1
      <4>2. CASE s = a
        BY <3>5, <4>1, <4>2
      <4>3. CASE s # a
        <5>1. s < a
          BY <1>4, <3>1, <3>2, <4>3
        <5>2. Whole(file[s])
          BY <1>2, <5>1 DEF Disk, Sealed, Entries
        <5>3. QED
          BY <1>4, <3>4, <4>1, <4>3, <5>2
      <4>4. QED
        BY <4>1, <4>2, <4>3
    <3>7. QED
      BY <3>4, <3>6
  <2>3. QED
    BY <2>1, <2>2
<1>6. \A s \in Entries : Below(file'[s], next)
  BY <1>4, <1>5 DEF Below
<1>7. NoActive'
  BY <1>1, <1>2, <1>3, <1>5, <1>6 DEF NoActive
<1>8. Bounded'
  BY <1>1, <1>2, <1>3, <1>5, <1>6 DEF Bounded
<1>9. Batches'
  BY <1>1, <1>2, BatchesSame
<1>10. Mode' /\ Walk' /\ NoErrors' /\ Active' /\ Held'
  BY <1>1, <1>2 DEF Mode, Walk, NoErrors, Active, Held
<1>11. Quiet'
  BY <1>1, <1>2, <1>3 DEF Quiet, CwSteps
<1>12. QED
  BY <1>5, <1>7, <1>8, <1>9, <1>10, <1>11 DEF Kept, Process

LEMMA KeptCheckpoint ==
  ASSUME RecoveryInv, Checkpoint PROVE Kept
  BY KeptCkBegin, KeptCkWrite, KeptCkFsync, KeptCkRename, KeptCkDirSync, KeptCkRotate,
     KeptCkRemove, KeptCkDone, KeptCkFail DEF Checkpoint

-----------------------------------------------------------------------------
(* writer_loop                                                             *)

\* While a batch or the queue is not empty, the process is up and no checkpoint is past its
\* wait.
LEMMA InWriter ==
  ASSUME RecoveryInv, w # "wait" \/ queue # <<>>
  PROVE  /\ TypeInv /\ Disk /\ Process /\ NoErrors /\ Alive /\ up
         /\ pc \notin {"down", "replay", "repair"} \cup Frozen
         /\ durable \in Nat /\ batchEnd \in Nat /\ next \in Nat
         /\ Len(queue) \in Nat /\ Len(local) \in Nat
<1>1. TypeInv /\ Disk /\ Process /\ NoErrors
  BY DEF RecoveryInv
<1>2. up /\ pc \notin {"down", "replay", "repair"}
  BY <1>1 DEF Process, Mode
<1>3. pc \notin Frozen
  BY <1>1 DEF Process, Quiet
<1>4. QED
  BY <1>1, <1>2, <1>3, NumbersTyped DEF Alive

\* Then only the writer's own facts have to be looked at.
LEMMA KeptWriterStep ==
  ASSUME RecoveryInv, w # "wait" \/ queue # <<>>, UNCHANGED <<pc, up, fail>>,
         Disk', Active', NoActive', Batches', Held', Bounded'
  PROVE  Kept
<1>1. up /\ pc \notin {"down", "replay", "repair"} \cup Frozen /\ NoErrors
  BY InWriter
<1>2. Mode' /\ Walk' /\ NoErrors'
  BY <1>1 DEF Mode, Walk, NoErrors, Frozen, CwSteps
<1>3. Quiet'
  BY <1>1 DEF Quiet, Frozen
<1>4. QED
  BY <1>2, <1>3 DEF Kept, Process

LEMMA KeptWriterTake == ASSUME RecoveryInv, WriterTake PROVE Kept
<1>0. up /\ w = "wait" /\ queue # <<>> /\ w' = "write"
      /\ UNCHANGED <<disk, snapMaybe, file, wals, walsD, next, durable, wfd, seg, pc, up, fail>>
  BY DEF WriterTake, disk
<1>1. /\ TypeInv /\ Disk /\ Process /\ NoErrors /\ Alive /\ durable \in Nat /\ next \in Nat
      /\ Len(queue) \in Nat /\ queue \in Seq(Rec)
  BY <1>0, InWriter, NumbersTyped
<1>2. Len(queue) > 0
  BY <1>0, <1>1, EmptySeq
<1>3. PICK n \in 1..Len(queue) :
         local' = SubSeq(queue, 1, n) /\ queue' = SubSeq(queue, n + 1, Len(queue)) /\ batchEnd' = queue[n].seq
  <2>1. (IF Len(queue) <= WalBatch THEN Len(queue) ELSE WalBatch) \in 1..Len(queue)
    BY <1>1, <1>2, ConstantAssumption
  <2>2. QED
    BY <2>1 DEF WriterTake
<1>4. /\ \A i \in 1..Len(queue) : queue[i].seq = durable + i
      /\ durable + Len(queue) = next
  BY <1>0, <1>1 DEF Process, Batches, Taken
<1>5. /\ Len(local') = n /\ \A i \in 1..n : local'[i] = queue[i]
  BY <1>1, <1>3
<1>6. /\ Len(queue') = Len(queue) - n /\ \A i \in 1..(Len(queue) - n) : queue'[i] = queue[n + i]
  BY <1>1, <1>3
<1>7. batchEnd' = durable + n
  BY <1>3, <1>4
<1>8. Taken' = durable + n /\ Frontier' = durable
  BY <1>0, <1>1, <1>5, <1>7 DEF Taken, Frontier
<1>9. Batches'
  <2>1. \A i \in 1..Len(local') : local'[i].seq = Frontier' + i
    BY <1>3, <1>4, <1>5, <1>8
  <2>2. \A i \in 1..Len(queue') : queue'[i].seq = Taken' + i
    <3>1. \A i \in 1..(Len(queue) - n) : n + i \in 1..Len(queue) /\ durable + (n + i) = (durable + n) + i
      BY <1>1, <1>3
    <3>2. \A i \in 1..(Len(queue) - n) : queue'[i].seq = durable + (n + i)
      BY <1>4, <1>6, <3>1
    <3>3. QED
      BY <1>6, <1>8, <3>1, <3>2
  <2>3. Taken' + Len(queue') = next'
    <3>1. /\ Taken' = durable + n /\ Len(queue') = Len(queue) - n /\ durable + Len(queue) = next
          /\ next' = next /\ n \in Nat /\ Len(queue) \in Nat /\ durable \in Nat
      BY <1>0, <1>1, <1>3, <1>4, <1>6, <1>8
    <3>2. QED
      BY ONLY <3>1
  <2>4. durable' < batchEnd'
    BY <1>0, <1>1, <1>3, <1>7
  <2>5. QED
    BY <1>0, <2>1, <2>2, <2>3, <2>4 DEF Batches
<1>10. Active' /\ NoActive'
  BY <1>0, <1>1 DEF Process, Active, NoActive, Entries, Whole, Below
<1>11. Held'
  <2>1. Frontier = durable
    BY <1>0 DEF Frontier
  <2>2. QED
    BY <1>0, <1>1, <1>8, <2>1 DEF Process, Held, Has
<1>12. Bounded'
  BY <1>0, <1>1 DEF Process, Bounded, Below, Entries
<1>13. Disk'
  BY <1>0, <1>1, DiskSame
<1>14. QED
  BY <1>0, <1>9, <1>10, <1>11, <1>12, <1>13, KeptWriterStep

LEMMA KeptWriterPublish == ASSUME RecoveryInv, WriterPublish PROVE Kept
<1>0. /\ w = "publish" /\ w' = "wait" /\ durable' = batchEnd
      /\ UNCHANGED <<disk, snapMaybe, file, wals, walsD, next, queue, wfd, seg, local, batchEnd, pc, up, fail>>
  BY DEF WriterPublish, disk
<1>1. /\ TypeInv /\ Disk /\ Process /\ NoErrors /\ Alive /\ batchEnd \in Nat
  BY <1>0, InWriter
<1>2. local = <<>> /\ Len(local) = 0
  BY <1>0, <1>1 DEF Process, Batches
<1>3. Taken = batchEnd /\ Taken' = batchEnd /\ Frontier = batchEnd /\ Frontier' = batchEnd
  BY <1>0, <1>1, <1>2 DEF Taken, Frontier
<1>4. wfd # 0
  BY <1>0, <1>1 DEF Process, NoActive
<1>5. Batches'
  BY <1>0, <1>1, <1>2, <1>3 DEF Process, Batches
<1>6. Active' /\ NoActive'
  BY <1>0, <1>1, <1>4 DEF Process, Active, NoActive, Entries
<1>7. Held'
  BY <1>0, <1>1, <1>3, <1>4 DEF Process, Held, Has
<1>8. Bounded'
  BY <1>0, <1>1 DEF Process, Bounded, Below, Entries
<1>9. Disk'
  BY <1>0, <1>1, DiskSame
<1>10. QED
  BY <1>0, <1>5, <1>6, <1>7, <1>8, <1>9, KeptWriterStep

LEMMA KeptWriterSync == ASSUME RecoveryInv, WriterSync PROVE Kept
<1>0. /\ w = "write" /\ w' = "publish" /\ local = <<>> /\ wfd # 0
      /\ file' = [file EXCEPT ![wfd] = Synced(@)] /\ walsD' = LinksAfterSync(wfd)
      /\ UNCHANGED <<snap, snapMaybe, wals, next, durable, queue, wfd, seg, local, batchEnd, pc, up, fail>>
  BY DEF WriterSync, mem
<1>1. /\ TypeInv /\ Disk /\ Process /\ NoErrors /\ Alive /\ batchEnd \in Nat
  BY <1>0, InWriter
<1>2. /\ wfd = seg /\ wfd \in wals /\ \A s \in Entries : s <= wfd
      /\ file[wfd].torn # "yes"
  BY <1>0, <1>1 DEF Process, Active
<1>3. PICK a \in wals : a = wfd
  BY <1>2
<1>4. /\ Disk' /\ Entries' = Entries /\ file'[a] = Synced(file[a])
      /\ \A u \in Segs : file'[u].recs = file[u].recs
  BY <1>0, <1>1, <1>3, DiskSync
<1>5. Entries \subseteq Segs /\ wfd \in Segs
  BY <1>0, <1>1, NumbersTyped
<1>6. file'[wfd].torn = "no" /\ file'[wfd].hdr = "ok"
  BY <1>1, <1>2, <1>3, <1>4, <1>5, SyncedIs, FileTyped
<1>7. Active' /\ NoActive'
  BY <1>0, <1>2, <1>4, <1>6 DEF Active, NoActive
<1>8. Taken = batchEnd /\ Taken' = batchEnd /\ Frontier = Frontier'
  BY <1>0 DEF Taken, Frontier
<1>9. Batches'
  BY <1>0, <1>1, <1>8 DEF Process, Batches
<1>10. Held'
  BY <1>0, <1>1, <1>4, <1>5, <1>8 DEF Process, Held, Has
<1>11. Bounded'
  BY <1>0, <1>1, <1>4, <1>5 DEF Process, Bounded, Below
<1>12. QED
  BY <1>0, <1>4, <1>7, <1>9, <1>10, <1>11, KeptWriterStep

\* A torn append: the records stay.
LEMMA DiskTorn ==
  ASSUME RecoveryInv, Alive, wfd # 0, UNCHANGED <<snap, snapMaybe, wals, walsD>>,
         file' = [file EXCEPT ![wfd].torn = "yes"]
  PROVE  /\ Disk' /\ Entries' = Entries /\ \A u \in Segs : file'[u].recs = file[u].recs
         /\ file'[wfd].hdr = file[wfd].hdr
         /\ \A u \in Segs \ {wfd} : file'[u] = file[u]
<1>0. TypeInv /\ Disk /\ Process
  BY DEF RecoveryInv
<1>1. /\ wfd \in wals /\ (\A s \in Entries : s <= wfd) /\ file[wfd].hdr # "empty" /\ wfd \in Segs
  BY <1>0, NumbersTyped DEF Process, Active
<1>2. file \in [Segs -> WalFile] /\ file[wfd] \in WalFile
  BY <1>0, <1>1 DEF TypeInv, TypeOK, DiskType
<1>3. /\ \A u \in Segs \ {wfd} : file'[u] = file[u]
      /\ file'[wfd].recs = file[wfd].recs /\ file'[wfd].first = file[wfd].first
      /\ file'[wfd].synced = file[wfd].synced /\ file'[wfd].hdr = file[wfd].hdr
  BY <1>1, <1>2 DEF WalFile
<1>4. walsD' \subseteq Entries /\ Entries' = Entries
  BY DEF Entries
<1>5. file'[wfd].synced <= Len(file'[wfd].recs)
  BY <1>0, <1>1, <1>3 DEF Disk, FileOK
<1>6. Disk'
  BY <1>0, <1>1, <1>3, <1>4, <1>5, FileTouched
<1>7. QED
  BY <1>3, <1>4, <1>6

LEMMA KeptWriterFail == ASSUME RecoveryInv, NEW torn \in BOOLEAN, WriterFail(torn) PROVE Kept
<1>0. /\ w = "write" /\ w' = "dead" /\ local' = <<>> /\ (torn => wfd # 0)
      /\ file' = IF torn THEN [file EXCEPT ![wfd].torn = "yes"] ELSE file
      /\ UNCHANGED <<snap, snapMaybe, wals, walsD, next, durable, queue, wfd, seg, batchEnd, pc, up, fail>>
  BY DEF WriterFail, mem
<1>1. /\ TypeInv /\ Disk /\ Process /\ NoErrors /\ Alive
      /\ durable \in Nat /\ batchEnd \in Nat /\ next \in Nat /\ Len(queue) \in Nat
  BY <1>0, InWriter
<1>2. /\ Disk' /\ Entries' = Entries /\ (\A u \in Segs : file'[u].recs = file[u].recs)
      /\ (wfd # 0 => file'[wfd].hdr = file[wfd].hdr)
      /\ wfd = 0 => file' = file
  <2>1. CASE torn
    BY <1>0, <1>1, <2>1, DiskTorn
  <2>2. CASE ~torn
    <3>1. UNCHANGED <<snap, snapMaybe, file, wals, walsD>>
      BY <1>0, <2>2
    <3>2. Disk' /\ Entries' = Entries
      BY <1>1, <3>1, DiskSame DEF disk, Entries
    <3>3. QED
      BY <3>1, <3>2
  <2>3. QED
    BY <2>1, <2>2
<1>3. Active' /\ Held'
  BY <1>0, <1>1, <1>2 DEF Process, Active, Held
<1>4. NoActive'
  <2>1. CASE wfd # 0
    BY <1>0, <2>1 DEF NoActive
  <2>2. CASE wfd = 0
    BY <1>0, <1>1, <1>2, <2>2 DEF Process, NoActive, Whole, Below
  <2>3. QED
    BY <2>1, <2>2
<1>5. durable < next
  <2>1. durable < batchEnd /\ batchEnd + Len(queue) = next
    BY <1>0, <1>1 DEF Process, Batches, Taken
  <2>2. QED
    BY <1>1, <2>1
<1>6. Batches'
  BY <1>0, <1>5 DEF Batches
<1>7. Bounded'
  <2>1. Entries \subseteq Segs
    BY <1>1, NumbersTyped
  <2>2. QED
    BY <1>0, <1>1, <1>2, <2>1 DEF Process, Bounded, Below
<1>8. QED
  BY <1>0, <1>2, <1>3, <1>4, <1>6, <1>7, KeptWriterStep

\* The record that the writer appends is the one after the last record written.
LEMMA WriterAppends ==
  ASSUME RecoveryInv, WriterWrite
  PROVE  \E h \in Rec :
           /\ h = Head(local) /\ h.seq = Frontier + 1 /\ Frontier \in Nat /\ h.seq <= next
           /\ Frontier' = Frontier + 1
           /\ file'[wfd] = [file[wfd] EXCEPT !.recs = Append(@, h)]
           /\ file'[wfd].recs = Append(file[wfd].recs, h)
           /\ file'[wfd].hdr = file[wfd].hdr /\ file'[wfd].torn = file[wfd].torn
           /\ file'[wfd].first = file[wfd].first /\ file'[wfd].synced = file[wfd].synced
           /\ \A u \in Segs \ {wfd} : file'[u] = file[u]
           /\ wfd \in Segs /\ wfd \in wals /\ \A s \in Entries : s <= wfd
<1>0. /\ w = "write" /\ w' = "write" /\ local # <<>> /\ wfd # 0
      /\ file' = [file EXCEPT ![wfd] = Appended(@, Head(local))] /\ local' = Tail(local)
      /\ UNCHANGED <<next, durable, queue, wfd, batchEnd>>
  BY DEF WriterWrite, mem
<1>1. /\ TypeInv /\ Process /\ Alive /\ batchEnd \in Nat /\ next \in Nat /\ durable \in Nat
      /\ Len(queue) \in Nat /\ Len(local) \in Nat /\ local \in Seq(Rec)
  BY <1>0, InWriter, NumbersTyped
<1>2. /\ wfd \in Segs /\ wfd \in wals /\ (\A s \in Entries : s <= wfd) /\ file[wfd].torn # "yes"
  BY <1>0, <1>1, NumbersTyped DEF Process, Active
<1>3. file \in [Segs -> WalFile] /\ file[wfd] \in WalFile
  BY <1>1, <1>2 DEF TypeInv, TypeOK, DiskType
<1>4. Len(local) >= 1 /\ Head(local) = local[1] /\ Head(local) \in Rec /\ Len(local') = Len(local) - 1
  BY <1>0, <1>1
<1>5. Frontier = batchEnd - Len(local) /\ Frontier' = batchEnd - Len(local')
  BY <1>0 DEF Frontier
<1>6. Frontier' = Frontier + 1
  BY <1>1, <1>4, <1>5
<1>7. /\ local[1].seq = Frontier + 1 /\ batchEnd + Len(queue) = next
  <2>1. \A i \in 1..Len(local) : local[i].seq = Frontier + i
    BY <1>0, <1>1 DEF Process, Batches
  <2>2. Taken + Len(queue) = next /\ Taken = batchEnd
    BY <1>0, <1>1 DEF Process, Batches, Taken
  <2>3. QED
    BY <1>1, <1>4, <2>1, <2>2
<1>8. Frontier \in Nat /\ Frontier + 1 <= next
  <2>1. Head(local).seq \in Nat /\ Head(local).seq > 0
    BY <1>4 DEF Rec
  <2>2. QED
    BY <1>1, <1>4, <1>5, <1>7, <2>1
<1>9. /\ \A u \in Segs \ {wfd} : file'[u] = file[u]
      /\ file'[wfd] = [file[wfd] EXCEPT !.recs = Append(@, Head(local))]
  BY <1>0, <1>2, <1>3 DEF Appended
<1>10. /\ file'[wfd].recs = Append(file[wfd].recs, Head(local))
       /\ file'[wfd].hdr = file[wfd].hdr /\ file'[wfd].torn = file[wfd].torn
       /\ file'[wfd].first = file[wfd].first /\ file'[wfd].synced = file[wfd].synced
  BY <1>3, <1>9 DEF WalFile
<1>11. QED
  BY <1>2, <1>4, <1>6, <1>7, <1>8, <1>9, <1>10

LEMMA KeptWriterWrite == ASSUME RecoveryInv, WriterWrite PROVE Kept
<1>0. /\ w = "write" /\ w' = "write" /\ local # <<>> /\ wfd # 0 /\ local' = Tail(local)
      /\ UNCHANGED <<snap, snapMaybe, wals, walsD, next, durable, queue, wfd, seg, batchEnd, pc, up, fail>>
  BY DEF WriterWrite, mem
<1>1. /\ TypeInv /\ Disk /\ Process /\ NoErrors /\ Alive /\ Len(local) \in Nat /\ local \in Seq(Rec)
      /\ next \in Nat
  BY <1>0, InWriter, NumbersTyped
<1>2. PICK h \in Rec :
         /\ h.seq = Frontier + 1 /\ Frontier \in Nat /\ h.seq <= next
         /\ Frontier' = Frontier + 1
         /\ file'[wfd].recs = Append(file[wfd].recs, h)
         /\ file'[wfd].hdr = file[wfd].hdr /\ file'[wfd].torn = file[wfd].torn
         /\ file'[wfd].first = file[wfd].first /\ file'[wfd].synced = file[wfd].synced
         /\ \A u \in Segs \ {wfd} : file'[u] = file[u]
         /\ wfd \in Segs /\ wfd \in wals /\ \A s \in Entries : s <= wfd
  BY WriterAppends
<1>3. Entries' = Entries /\ Entries \subseteq Segs /\ wfd \in Entries /\ Segs \subseteq Nat
  BY <1>0, <1>1, <1>2, NumbersTyped DEF Entries
<1> PICK n \in Nat : n = Len(file[wfd].recs)
  BY <1>1, <1>2, FileTyped
<1>4. /\ file[wfd].recs \in Seq(Rec) /\ \A i \in 1..n : file[wfd].recs[i].seq \in Nat
  BY <1>1, <1>2, FileTyped
<1>5. /\ Len(file'[wfd].recs) = n + 1 /\ file'[wfd].recs[n + 1] = h
      /\ \A i \in 1..n : file'[wfd].recs[i] = file[wfd].recs[i]
  BY <1>2, <1>4
<1>6. \A m : Has(file[wfd], m) => Has(file'[wfd], m)
  <2>1. \A i \in 1..n : i \in 1..(n + 1)
    OBVIOUS
  <2>2. QED
    BY <1>5, <2>1 DEF Has
<1>7. Has(file'[wfd], Frontier + 1)
  BY <1>2, <1>5 DEF Has
<1>8. \A p \in snapMaybe : \A m \in (p.seq + 1)..Frontier : Has(file[wfd], m)
  BY <1>0, <1>1 DEF Process, Held
<1>9. Disk'
  <2>1. SnapOK' /\ Links'
    BY <1>0, <1>1 DEF Disk, SnapOK, Links
  <2>2. FileOK'
    <3>1. file[wfd].hdr # "empty"
      BY <1>0, <1>1 DEF Process, Active
    <3>2. file[wfd].synced <= n /\ file[wfd].synced \in Nat
      BY <1>1, <1>2, FileTyped DEF Disk, FileOK
    <3>3. file'[wfd].synced <= Len(file'[wfd].recs)
      BY <1>2, <1>5, <3>2
    <3>4. QED
      BY <1>1, <1>2, <3>1, <3>3 DEF Disk, FileOK
  <2>3. Sealed'
    <3> SUFFICES ASSUME NEW s \in Entries, NEW t \in Entries, s < t
                 PROVE  Whole(file'[s]) /\ \A p \in snapMaybe : Below(file'[s], p.seq)
      BY <1>0, <1>3 DEF Sealed, Whole, Below
    <3>1. t <= wfd /\ s \in Nat /\ t \in Nat /\ wfd \in Nat
      BY <1>2, <1>3
    <3>2. s # wfd /\ file'[s] = file[s]
      BY <1>2, <1>3, <3>1
    <3>3. QED
      BY <1>1, <3>2 DEF Disk, Sealed
  <2>4. Gapless'
    <3> SUFFICES ASSUME NEW s \in Entries, NEW p \in snapMaybe
                 PROVE  FullFrom(file'[s], p.seq) /\ file'[s].first <= p.seq + 1
      BY <1>0, <1>3 DEF Gapless, FullFrom
    <3>1. FullFrom(file[s], p.seq) /\ file[s].first <= p.seq + 1 /\ p.seq \in Nat
      BY <1>1, NumbersTyped DEF Disk, Gapless
    <3>2. CASE s # wfd
      BY <1>2, <1>3, <3>1, <3>2
    <3>3. CASE s = wfd
      <4>1. ASSUME NEW i \in 1..(n + 1), NEW m \in (p.seq + 1)..file'[wfd].recs[i].seq
            PROVE  \E j \in 1..i : file'[wfd].recs[j].seq = m
        <5>1. CASE i \in 1..n
          <6>0. FullFrom(file[wfd], p.seq) /\ i \in 1..Len(file[wfd].recs)
            BY <3>1, <3>3, <5>1
          <6>1. PICK j \in 1..i : file[wfd].recs[j].seq = m
            <7>1. file'[wfd].recs[i] = file[wfd].recs[i]
              BY ONLY <1>5, <5>1
            <7>2. m \in (p.seq + 1)..file[wfd].recs[i].seq
              BY ONLY <4>1, <7>1
            <7>3. QED
              BY ONLY <6>0, <7>2 DEF FullFrom
          <6>2. j \in 1..n
            BY <5>1
          <6>3. QED
            BY <1>5, <6>1, <6>2
        <5>2. CASE i = n + 1
          <6>1. m \in (p.seq + 1)..(Frontier + 1)
            BY <1>2, <1>5, <4>1, <5>2
          <6>2. CASE m = Frontier + 1
            BY <1>2, <1>5, <5>2, <6>2
          <6>3. CASE m # Frontier + 1
            <7>1. m \in (p.seq + 1)..Frontier
              BY <1>2, <3>1, <6>1, <6>3
            <7>2. PICK j \in 1..n : file[wfd].recs[j].seq = m
              BY <1>8, <7>1 DEF Has
            <7>3. j \in 1..i
              BY <5>2
            <7>4. file'[wfd].recs[j].seq = m
              BY <1>5, <7>2
            <7>5. QED
              BY <7>3, <7>4
          <6>4. QED
            BY <6>2, <6>3
        <5>3. QED
          BY <5>1, <5>2
      <4>2. FullFrom(file'[wfd], p.seq)
        BY ONLY <1>5, <4>1 DEF FullFrom
      <4>3. QED
        BY <1>2, <3>1, <3>3, <4>2
    <3>4. QED
      BY <3>2, <3>3
  <2>5. Between'
    <3>1. \A s \in wals : \A m : Has(file[s], m) => Has(file'[s], m)
      BY <1>2, <1>3, <1>6 DEF Entries
    <3>2. ASSUME NEW p \in snapMaybe, NEW m \in (p.seq + 1)..snap.seq
          PROVE  \E s \in wals : Has(file'[s], m)
      <4>1. \E s \in wals : Has(file[s], m)
        BY <1>1 DEF Disk, Between
      <4>2. QED
        BY <3>1, <4>1
    <3>3. QED
      BY <1>0, <3>2 DEF Between, Has
  <2>6. QED
    BY <2>1, <2>2, <2>3, <2>4, <2>5 DEF Disk
<1>10. Active' /\ NoActive'
  BY <1>0, <1>1, <1>2, <1>3 DEF Process, Active, NoActive
<1>11. Batches'
  <2>1. Taken' = Taken /\ Taken + Len(queue) = next /\ durable < batchEnd
        /\ (\A i \in 1..Len(queue) : queue[i].seq = Taken + i)
        /\ (\A i \in 1..Len(local) : local[i].seq = Frontier + i)
    BY <1>0, <1>1 DEF Process, Batches, Taken
  <2>2. Len(local') = Len(local) - 1 /\ \A i \in 1..(Len(local) - 1) : local'[i] = local[i + 1]
    BY <1>0, <1>1
  <2>3. \A i \in 1..(Len(local) - 1) : i + 1 \in 1..Len(local) /\ Frontier + (i + 1) = (Frontier + 1) + i
    BY <1>1, <1>2
  <2>4. \A i \in 1..Len(local') : local'[i].seq = Frontier' + i
    <3>1. \A i \in 1..(Len(local) - 1) : local'[i].seq = Frontier + (i + 1)
      BY <2>1, <2>2, <2>3
    <3>2. QED
      BY <1>2, <2>2, <2>3, <3>1
  <2>5. QED
    BY <1>0, <2>1, <2>4 DEF Batches
<1>12. Held'
  <2>1. ASSUME NEW p \in snapMaybe, NEW m \in (p.seq + 1)..(Frontier + 1) PROVE Has(file'[wfd], m)
    <3>1. CASE m = Frontier + 1
      BY <1>7, <3>1
    <3>2. CASE m # Frontier + 1
      <4>1. m \in (p.seq + 1)..Frontier
        BY <1>1, <1>2, <3>2, NumbersTyped
      <4>2. QED
        BY <1>6, <1>8, <4>1
    <3>3. QED
      BY <3>1, <3>2
  <2>2. QED
    BY <1>0, <1>2, <2>1 DEF Held, Has
<1>13. Bounded'
  <2>1. \A s \in Entries : Below(file[s], next)
    BY <1>1 DEF Process, Bounded
  <2>2. Below(file'[wfd], next)
    <3>1. \A i \in 1..(n + 1) : i = n + 1 \/ i \in 1..n
      OBVIOUS
    <3>2. QED
      BY <1>2, <1>3, <1>5, <2>1, <3>1 DEF Below
  <2>3. \A s \in Entries : Below(file'[s], next)
    BY <1>2, <1>3, <2>1, <2>2
  <2>4. QED
    BY <1>0, <1>1, <1>3, <2>3 DEF Process, Bounded, Below
<1>14. QED
  BY <1>0, <1>9, <1>10, <1>11, <1>12, <1>13, KeptWriterStep

LEMMA KeptWriter ==
  ASSUME RecoveryInv, Writer PROVE Kept
  BY KeptWriterTake, KeptWriterWrite, KeptWriterSync, KeptWriterPublish, KeptWriterFail DEF Writer
-----------------------------------------------------------------------------
(* Calls, close and crashes                                                *)

LEMMA KeptSubmit == ASSUME RecoveryInv, NEW k \in Keys, NEW v \in Value, Submit(k, v) PROVE Kept
<1> PICK r : r = [seq |-> next + 1, key |-> k, val |-> v]
  OBVIOUS
<1>0. /\ pc = "idle" /\ w # "dead" /\ next' = next + 1 /\ queue' = Append(queue, r)
      /\ UNCHANGED <<disk, snapMaybe, file, wals, walsD, durable, wfd, seg, w, local, batchEnd, pc, up, fail>>
  BY DEF Submit, disk, thr
<1>1. /\ TypeInv /\ Disk /\ Process /\ NoErrors /\ Alive /\ up
  BY <1>0, InProcess DEF CwSteps
<1>2. next \in Nat /\ queue \in Seq(Rec) /\ Len(queue) \in Nat /\ r.seq = next + 1
      /\ durable \in Nat /\ batchEnd \in Nat
  BY <1>1, NumbersTyped
<1>3. /\ Taken' = Taken /\ Frontier' = Frontier /\ Taken + Len(queue) = next /\ Taken \in Nat
      /\ \A i \in 1..Len(queue) : queue[i].seq = Taken + i
      /\ \A i \in 1..Len(local) : local[i].seq = Frontier + i
  BY <1>0, <1>1, <1>2 DEF Process, Batches, Taken, Frontier
<1>4. /\ Len(queue') = Len(queue) + 1 /\ queue'[Len(queue) + 1] = r
      /\ \A i \in 1..Len(queue) : queue'[i] = queue[i]
  BY <1>0, <1>2
<1>5. Batches'
  <2>1. \A i \in 1..(Len(queue) + 1) : i = Len(queue) + 1 \/ i \in 1..Len(queue)
    BY <1>2
  <2>2. queue'[Len(queue) + 1].seq = Taken + (Len(queue) + 1)
    BY <1>2, <1>3, <1>4
  <2>3. \A i \in 1..Len(queue') : queue'[i].seq = Taken' + i
    BY <1>3, <1>4, <2>1, <2>2
  <2>4. Taken' + Len(queue') = next'
    BY <1>0, <1>2, <1>3, <1>4
  <2>5. QED
    BY <1>0, <1>1, <1>3, <2>3, <2>4 DEF Process, Batches
<1>6. Active' /\ NoActive'
  BY <1>0, <1>1 DEF Process, Active, NoActive, Entries, Whole, Below
<1>7. Held'
  BY <1>0, <1>1, <1>3 DEF Process, Held, Has
<1>8. Bounded'
  <2>1. ASSUME NEW s \in Entries PROVE Below(file[s], next + 1)
    <3>1. Below(file[s], next) /\ \A i \in 1..Len(file[s].recs) : file[s].recs[i].seq \in Nat
      BY <1>1, NumbersTyped, FileTyped DEF Process, Bounded
    <3>2. QED
      BY <1>2, <3>1 DEF Below
  <2>2. \A p \in snapMaybe : p.seq <= next + 1
    BY <1>1, <1>2, NumbersTyped DEF Process, Bounded
  <2>3. QED
    BY <1>0, <2>1, <2>2 DEF Bounded, Entries, Below
<1>9. Disk'
  BY <1>0, <1>1, DiskSame
<1>10. Mode' /\ Walk' /\ Quiet' /\ NoErrors'
  BY <1>0, <1>1 DEF Mode, Walk, Quiet, NoErrors, Frozen, CwSteps
<1>11. QED
  BY <1>5, <1>6, <1>7, <1>8, <1>9, <1>10 DEF Kept, Process

\* Nothing but the history may change.
LEMMA KeptFrame ==
  ASSUME RecoveryInv, UNCHANGED <<disk, mem, thr, pc, up, tmp, replay, fail>> PROVE Kept
<1>0. Disk /\ Process /\ NoErrors
  BY DEF RecoveryInv
<1>1. UNCHANGED <<snap, snapMaybe, file, wals, walsD, next, durable, queue, wfd, seg, w, local,
                  batchEnd, pc, up, tmp, rseg, rpos, rexp, fail>>
  BY DEF disk, mem, thr, replay
<1>2. Disk' /\ NoErrors'
  BY <1>0, <1>1, DiskSame DEF NoErrors
<1>3. Mode' /\ Quiet' /\ Walk'
  BY <1>0, <1>1 DEF Process, Mode, Quiet, Walk, Has, Below, LastSegment
<1>4. Active' /\ NoActive' /\ Batches' /\ Held' /\ Bounded'
  <2>1. CASE Alive
    BY <1>0, <2>1, ProcessSame
  <2>2. CASE ~Alive
    <3>1. ~Alive'
      BY <1>1, <2>2 DEF Alive
    <3>2. QED
      BY <3>1 DEF Active, NoActive, Batches, Held, Bounded
  <2>3. QED
    BY <2>1, <2>2
<1>5. QED
  BY <1>2, <1>3, <1>4 DEF Kept, Process

LEMMA KeptClose == ASSUME RecoveryInv, Close PROVE Kept
<1>1. CASE CloseBegin
  <2>1. pc = "idle" /\ pc' = "closing" /\ UNCHANGED <<disk, mem, thr, up, fail>>
    BY <1>1 DEF CloseBegin
  <2>2. up
    BY <2>1, InProcess DEF CwSteps
  <2>3. Quiet'
    BY <2>1 DEF Quiet, Frozen, CwSteps
  <2>4. QED
    BY <2>1, <2>2, <2>3, KeptControl
<1>2. CASE CloseClean
  <2>1. /\ pc = "closing" /\ Lost
        /\ file' = IF wfd = 0 THEN file ELSE [file EXCEPT ![wfd] = Synced(@)]
        /\ walsD' = IF wfd = 0 THEN walsD ELSE LinksAfterSync(wfd)
        /\ UNCHANGED <<snap, snapMaybe, wals, fail>>
    BY <1>2 DEF CloseClean
  <2>2. TypeInv /\ Disk /\ Process /\ NoErrors /\ Alive
    BY <2>1, InProcess DEF CwSteps
  <2>3. Disk'
    <3>1. CASE wfd = 0
      BY <2>1, <2>2, <3>1, DiskSame DEF disk
    <3>2. CASE wfd # 0
      <4>1. PICK a \in wals : a = wfd
        BY <2>2, <3>2 DEF Process, Active
      <4>2. file' = [file EXCEPT ![a] = Synced(@)] /\ walsD' = LinksAfterSync(a)
        BY <2>1, <3>2, <4>1
      <4>3. QED
        BY <2>1, <2>2, <4>2, DiskSync
    <3>3. QED
      BY <3>1, <3>2
  <2>4. QED
    BY <2>1, <2>2, <2>3, ProcessLost DEF Kept, NoErrors
<1>3. CASE CloseError
  <2>1. Lost /\ UNCHANGED <<disk, fail>>
    BY <1>3 DEF CloseError
  <2>2. QED
    BY <2>1, DiskSame, ProcessLost DEF Kept, NoErrors, RecoveryInv
<1>4. QED
  BY <1>1, <1>2, <1>3 DEF Close

LEMMA KeptProcessCrash == ASSUME RecoveryInv, NEW torn \in BOOLEAN, ProcessCrash(torn) PROVE Kept
<1>1. /\ Lost /\ UNCHANGED <<snap, snapMaybe, wals, walsD, fail>>
      /\ file' = IF torn THEN [file EXCEPT ![wfd].torn = "yes"] ELSE file
      /\ torn => w = "write" /\ wfd # 0
  BY DEF ProcessCrash, InFlight
<1>2. Disk'
  <2>1. CASE torn
    <3>1. Alive
      BY <1>1, <2>1, InWriter
    <3>2. QED
      BY <1>1, <2>1, <3>1, DiskTorn
  <2>2. CASE ~torn
    BY <1>1, <2>2, DiskSame DEF disk, RecoveryInv
  <2>3. QED
    BY <2>1, <2>2
<1>3. QED
  BY <1>1, <1>2, ProcessLost DEF Kept, NoErrors, RecoveryInv

\* What is left of a file: a prefix of its records, all of them when it was whole.
LEMMA LeftOver ==
  ASSUME RecoveryInv, PowerLoss, NEW s \in Segs
  PROVE  /\ Len(file'[s].recs) <= Len(file[s].recs) /\ Len(file'[s].recs) \in Nat
         /\ file[s].synced <= Len(file'[s].recs)
         /\ \A i \in 1..Len(file'[s].recs) : file'[s].recs[i] = file[s].recs[i]
         /\ file'[s].first = file[s].first
         /\ file'[s].synced <= Len(file'[s].recs) /\ file[s].synced <= file'[s].synced
         /\ file'[s].hdr = "empty" => file'[s].recs = <<>> /\ file'[s].torn = "no"
         /\ Whole(file[s]) /\ ~InFlight(s) => file'[s] = file[s]
<1>0. TypeInv /\ Disk
  BY DEF RecoveryInv
<1>1. /\ file[s] \in WalFile /\ file[s].recs \in Seq(Rec) /\ Len(file[s].recs) \in Nat /\ file[s].synced \in Nat
      /\ file[s].synced <= Len(file[s].recs)
      /\ file[s].hdr = "empty" => file[s].recs = <<>> /\ file[s].torn = "no"
  BY <1>0, FileTyped DEF Disk, FileOK
<1>2. CASE s \notin Dirty
  <2>1. file'[s] = file[s]
    BY <1>2 DEF PowerLoss
  <2>2. ~(file[s].synced < Len(file[s].recs))
    BY <1>2 DEF Dirty
  <2>3. QED
    BY <1>1, <2>1, <2>2
<1>3. CASE s \in Dirty
  <2>1. file'[s] \in Survivors(s) /\ Survives(file'[s])
    BY <1>3 DEF PowerLoss
  <2>2. PICK hd \in {"empty", "written", "ok"}, n \in file[s].synced..Len(file[s].recs),
             t \in {"no", "yes"} :
           file'[s] = [hdr |-> hd, first |-> file[s].first, recs |-> SubSeq(file[s].recs, 1, n),
                       torn |-> t, synced |-> n]
    <3> PICK g \in Survivors(s) : g = file'[s]
      BY <2>1
    <3>1. \E hd \in {"empty", "written", "ok"}, n \in file[s].synced..Len(file[s].recs),
             t \in {"no", "yes"} :
           g = [hdr |-> hd, first |-> file[s].first, recs |-> SubSeq(file[s].recs, 1, n),
                torn |-> t, synced |-> n]
      BY ONLY <1>1, g \in Survivors(s) DEF Survivors, WalFile
    <3>2. QED
      BY <3>1
  <2>3. /\ file'[s].recs = SubSeq(file[s].recs, 1, n) /\ file'[s].synced = n
        /\ file'[s].first = file[s].first
    BY <2>2
  <2>4. n \in Nat /\ n <= Len(file[s].recs) /\ file[s].synced <= n
    BY <1>1
  <2>5. /\ Len(SubSeq(file[s].recs, 1, n)) = n
        /\ \A i \in 1..n : SubSeq(file[s].recs, 1, n)[i] = file[s].recs[i]
    BY <1>1, <2>4
  <2>6. file'[s].hdr = "empty" => file'[s].recs = <<>> /\ file'[s].torn = "no"
    BY <2>1 DEF Survives
  <2>7. ~(Whole(file[s]) /\ ~InFlight(s))
    BY <1>1, <1>3 DEF Dirty, Whole
  <2>8. QED
    BY <2>3, <2>4, <2>5, <2>6, <2>7
<1>4. QED
  BY <1>2, <1>3

\* No segment that another one follows has a record in flight.
LEMMA NotInFlight ==
  ASSUME RecoveryInv, NEW s \in Entries, NEW t \in Entries, s < t PROVE ~InFlight(s)
<1>1. SUFFICES ASSUME InFlight(s) PROVE FALSE
  OBVIOUS
<1>2. w = "write" /\ s = wfd
  BY <1>1 DEF InFlight
<1>3. TypeInv /\ Process /\ Alive
  BY <1>2, InWriter
<1>4. s \in Nat /\ t \in Nat /\ s # 0
  BY <1>3, NumbersTyped
<1>5. t <= wfd
  BY <1>2, <1>3, <1>4 DEF Process, Active
<1>6. QED
  BY <1>2, <1>4, <1>5

LEMMA KeptPowerLoss == ASSUME RecoveryInv, PowerLoss PROVE Kept
<1>0. TypeInv /\ Disk /\ Process /\ NoErrors
  BY DEF RecoveryInv
<1>1. Lost /\ snapMaybe' = {snap'} /\ walsD' = wals' /\ wals' \subseteq Entries /\ fail' = fail
  BY DEF PowerLoss, Entries
<1>2. snap' \in snapMaybe
  <2>1. \A p \in snapMaybe : p.st = "stable"
    BY <1>0 DEF Disk, SnapOK
  <2>2. \A p \in snapMaybe : SnapSurvivors(p) = {p}
    BY <2>1 DEF SnapSurvivors
  <2>3. QED
    BY <2>2 DEF PowerLoss
<1>3. /\ Entries' = wals' /\ Entries' \subseteq Entries /\ Entries \subseteq Segs /\ Segs \subseteq Nat
      /\ snap'.seq \in Nat
  BY <1>0, <1>1, <1>2, NumbersTyped DEF Entries
<1>4. SnapOK'
  BY <1>0, <1>1, <1>2, <1>3 DEF Disk, SnapOK
<1>5. FileOK'
  BY LeftOver DEF FileOK
<1>6. Links'
  BY <1>1, <1>3 DEF Links
<1>7. Sealed'
  <2> SUFFICES ASSUME NEW s \in Entries', NEW t \in Entries', s < t
               PROVE  Whole(file'[s]) /\ \A p \in snapMaybe' : Below(file'[s], p.seq)
    BY DEF Sealed
  <2>1. Whole(file[s]) /\ Below(file[s], snap'.seq)
    BY <1>0, <1>2, <1>3 DEF Disk, Sealed
  <2>2. ~InFlight(s)
    BY <1>3, NotInFlight
  <2>3. file'[s] = file[s]
    BY <1>3, <2>1, <2>2, LeftOver
  <2>4. QED
    BY <1>1, <2>1, <2>3
<1>8. Gapless'
  <2> SUFFICES ASSUME NEW s \in Entries'
               PROVE  FullFrom(file'[s], snap'.seq) /\ file'[s].first <= snap'.seq + 1
    BY <1>1 DEF Gapless
  <2>1. FullFrom(file[s], snap'.seq) /\ file[s].first <= snap'.seq + 1
    BY <1>0, <1>2, <1>3 DEF Disk, Gapless
  <2> PICK n \in Nat : n = Len(file'[s].recs)
    BY <1>3, LeftOver
  <2>2. /\ n <= Len(file[s].recs) /\ Len(file[s].recs) \in Nat /\ file'[s].first = file[s].first
        /\ \A i \in 1..n : file'[s].recs[i] = file[s].recs[i]
    BY <1>0, <1>3, LeftOver, FileTyped
  <2>3. ASSUME NEW i \in 1..n, NEW m \in (snap'.seq + 1)..file'[s].recs[i].seq
        PROVE  \E j \in 1..i : file'[s].recs[j].seq = m
    <3>1. i \in 1..Len(file[s].recs) /\ file'[s].recs[i] = file[s].recs[i]
      BY <2>2
    <3>2. PICK j \in 1..i : file[s].recs[j].seq = m
      BY <2>1, <2>3, <3>1 DEF FullFrom
    <3>3. j \in 1..n
      BY <2>3, <3>2
    <3>4. QED
      BY <2>2, <3>2, <3>3
  <2>4. FullFrom(file'[s], snap'.seq)
    BY <2>3 DEF FullFrom
  <2>5. QED
    BY <2>1, <2>2, <2>4
<1>9. Between'
  BY <1>1, <1>3 DEF Between
<1>10. QED
  BY <1>0, <1>1, <1>4, <1>5, <1>6, <1>7, <1>8, <1>9, ProcessLost DEF Kept, Disk, NoErrors

LEMMA RecoveryStep == RecoveryInv /\ [Next]_vars => RecoveryInv'
<1> SUFFICES ASSUME RecoveryInv, [Next]_vars PROVE RecoveryInv'
  OBVIOUS
<1>1. TypeInv'
  BY TypeStep DEF RecoveryInv
<1>2. Kept
  <2>1. CASE UNCHANGED vars
    BY <2>1, KeptFrame DEF vars
  <2>2. ASSUME NEW t \in 1..MaxSeq, Wait(t) PROVE Kept
    BY <2>2, KeptFrame DEF Wait
  <2>3. QED
    BY <2>1, <2>2, KeptRecovery, KeptCreateWal, KeptWriter, KeptCheckpoint, KeptClose,
       KeptPowerLoss, KeptProcessCrash, KeptSubmit DEF Next, Crash
<1>3. QED
  BY <1>1, <1>2 DEF Kept, RecoveryInv

LEMMA RecoveryInit == Init => RecoveryInv
<1> SUFFICES ASSUME Init PROVE RecoveryInv
  OBVIOUS
<1>1. TypeInv
  BY TypeInit
<1>2. /\ snap = NoSnap /\ snapMaybe = {NoSnap} /\ wals = {} /\ walsD = {} /\ Entries = {}
      /\ pc = "down" /\ ~up /\ w = "wait" /\ queue = <<>> /\ local = <<>> /\ wfd = 0 /\ fail = "none"
      /\ \A s \in Segs : file[s] = NewFile(1)
  BY DEF Init, Entries
<1>3. NoSnap.st = "stable" /\ NoSnap.seq = 0
  BY DEF NoSnap
<1>4. SnapOK /\ Links /\ Sealed /\ Gapless /\ Between
  BY <1>2, <1>3 DEF SnapOK, Links, Sealed, Gapless, Between
<1>5. FileOK
  BY <1>2 DEF FileOK, NewFile
<1>6. ~Alive /\ Mode /\ Quiet /\ Walk
  BY <1>2 DEF Alive, Mode, Quiet, Walk, Frozen, CwSteps
<1>7. Active /\ NoActive /\ Batches /\ Held /\ Bounded
  BY <1>6 DEF Active, NoActive, Batches, Held, Bounded
<1>8. NoErrors
  BY <1>2 DEF NoErrors
<1>9. QED
  BY <1>1, <1>4, <1>5, <1>6, <1>7, <1>8 DEF RecoveryInv, Disk, Process

LEMMA RecoveryAlways == Spec => []RecoveryInv
  BY RecoveryInit, RecoveryStep, PTL DEF Spec

\* RecoveryErrors always holds: through any sequence of checkpoints, failed calls, crashes and
\* power losses, recover() never refuses a directory for its snapshot, for a gap in the
\* sequences or for a torn segment; only the newest segment, when it is empty, can lack its
\* header.  No assumption on what a file sync does to directory entries is needed.
THEOREM RecoveryNeverRefuses == Spec => []RecoveryErrors
<1>1. RecoveryInv => RecoveryErrors
  <2> SUFFICES ASSUME RecoveryInv PROVE RecoveryErrors
    OBVIOUS
  <2>1. TypeInv /\ Disk /\ NoErrors
    BY DEF RecoveryInv
  <2>2. ASSUME NEW s \in wals, file[s].hdr = "empty"
        PROVE  file[s].recs = <<>> /\ \A t \in wals : t <= s
    <3>1. file[s].recs = <<>> /\ wals \subseteq Nat
      BY <2>1, <2>2, NumbersTyped DEF Disk, FileOK
    <3>2. ASSUME NEW t \in wals PROVE ~(s < t)
      BY <2>1, <2>2 DEF Disk, Sealed, Entries, Whole
    <3>3. QED
      BY <3>1, <3>2
  <2>3. QED
    BY <2>1, <2>2 DEF RecoveryErrors, NoErrors
<1>2. QED
  BY <1>1, RecoveryAlways, PTL

-----------------------------------------------------------------------------
(* Contents: snapshots, records and pending operations agree with the       *)
(* history.                                                                *)

Fits(r) == r.seq < Len(hist) /\ hist[r.seq + 1] = Apply(hist[r.seq], r)

SnapsFit == \A p \in snapMaybe : p.seq < Len(hist) /\ p.items = hist[p.seq + 1]

RecordsFit == \A s \in Entries : \A i \in 1..Len(file[s].recs) : Fits(file[s].recs[i])

PendingFit == /\ \A i \in 1..Len(queue) : Fits(queue[i])
              /\ \A i \in 1..Len(local) : Fits(local[i])

IndexFits == /\ pc # "down" => next < Len(hist) /\ index = hist[next + 1]
             /\ up => Len(hist) = next + 1
             /\ pc \in {"ck_fsync", "ck_rename"} => tmp.items = index

Content == SnapsFit /\ RecordsFit /\ PendingFit /\ IndexFits

ContentInv == RecoveryInv /\ Content

-----------------------------------------------------------------------------
(* Frames                                                                  *)

\* Every record that is still there was there before.
NoNewRecords ==
    \A s \in Entries' : \A i \in 1..Len(file'[s].recs) :
        s \in Entries /\ i \in 1..Len(file[s].recs) /\ file'[s].recs[i] = file[s].recs[i]

LEMMA FilesFit ==
  ASSUME SnapsFit, RecordsFit, hist' = hist, snapMaybe' \subseteq snapMaybe, NoNewRecords
  PROVE  SnapsFit' /\ RecordsFit'
<1>1. SnapsFit'
  BY DEF SnapsFit
<1>2. RecordsFit'
  BY DEF RecordsFit, NoNewRecords, Fits
<1>3. QED
  BY <1>1, <1>2

LEMMA SameRecords ==
  ASSUME Entries' \subseteq Entries, \A s \in Entries' : file'[s].recs = file[s].recs
  PROVE  NoNewRecords
  BY DEF NoNewRecords

LEMMA ContentLost ==
  ASSUME Content, Lost, hist' = hist, snapMaybe' \subseteq snapMaybe, NoNewRecords
  PROVE  Content'
<1>1. SnapsFit' /\ RecordsFit'
  BY FilesFit DEF Content
<1>2. /\ pc' = "down" /\ ~up' /\ Len(queue') = 0 /\ Len(local') = 0
  BY DEF Lost
<1>3. PendingFit' /\ IndexFits'
  BY <1>2 DEF PendingFit, IndexFits
<1>4. QED
  BY <1>1, <1>3 DEF Content

\* Steps that leave the map and the pending operations as they are
LEMMA ContentKept ==
  ASSUME Content, UNCHANGED <<hist, queue, local, index, next>>, snapMaybe' \subseteq snapMaybe,
         NoNewRecords, pc # "down", up' = up,
         pc' \in {"ck_fsync", "ck_rename"} => tmp'.items = index
  PROVE  Content'
<1>1. SnapsFit' /\ RecordsFit'
  BY FilesFit DEF Content
<1>2. PendingFit'
  BY DEF Content, PendingFit, Fits
<1>3. IndexFits'
  BY DEF Content, IndexFits
<1>4. QED
  BY <1>1, <1>2, <1>3 DEF Content

LEMMA SameFiles ==
  ASSUME UNCHANGED file, Entries' \subseteq Entries PROVE NoNewRecords
  BY DEF NoNewRecords

-----------------------------------------------------------------------------
(* What the steps do to the files: only the writer adds a record, and only   *)
(* the removal of a segment takes one from the medium.                      *)

MediumKept ==
    \A s \in wals \cap walsD :
        /\ s \in wals' \cap walsD'
        /\ \A i \in 1..file[s].synced : i \in 1..file'[s].synced /\ file'[s].recs[i] = file[s].recs[i]

FilesKept == NoNewRecords /\ MediumKept

LEMMA RecordsStay ==
  ASSUME TypeInv, Entries' \subseteq Entries, wals \cap walsD \subseteq wals' \cap walsD',
         NEW S, wals \cup walsD \subseteq S,
         \A u \in S : /\ file'[u].recs = file[u].recs /\ file'[u].synced \in Nat
                      /\ file[u].synced \in Nat /\ file[u].synced <= file'[u].synced
  PROVE  FilesKept
<1>1. NoNewRecords
  BY SameRecords DEF Entries
<1>2. ASSUME NEW s \in wals \cap walsD, NEW i \in 1..file[s].synced
      PROVE  i \in 1..file'[s].synced /\ file'[s].recs[i] = file[s].recs[i]
  <2>1. /\ file'[s].recs = file[s].recs /\ file'[s].synced \in Nat
        /\ file[s].synced \in Nat /\ file[s].synced <= file'[s].synced
    OBVIOUS
  <2>2. QED
    BY <2>1
<1>3. QED
  BY <1>1, <1>2 DEF FilesKept, MediumKept

\* One file is replaced by another with the same records, as many of them on the medium.
LEMMA OneFile ==
  ASSUME TypeInv, NEW s \in Segs, NEW g, file' = [file EXCEPT ![s] = g], g.recs = file[s].recs,
         g.synced \in Nat, file[s].synced <= g.synced, UNCHANGED wals,
         walsD \subseteq walsD', walsD' \subseteq Entries
  PROVE  FilesKept
<1>1. file \in [Segs -> WalFile] /\ wals \cup walsD \subseteq Segs
  BY NumbersTyped DEF TypeInv, TypeOK, DiskType
<1>2. \A u \in Segs : /\ file'[u].recs = file[u].recs /\ file'[u].synced \in Nat
                       /\ file[u].synced \in Nat /\ file[u].synced <= file'[u].synced
  <2>1. \A u \in Segs : file[u].synced \in Nat
    BY FileTyped
  <2>2. \A u \in Segs : file'[u] = IF u = s THEN g ELSE file[u]
    BY <1>1
  <2>3. QED
    BY <2>1, <2>2
<1>3. Entries' \subseteq Entries
  BY DEF Entries
<1>4. QED
  BY <1>1, <1>2, <1>3, RecordsStay

LEMMA NoFile ==
  ASSUME TypeInv, UNCHANGED file, Entries' \subseteq Entries,
         wals \cap walsD \subseteq wals' \cap walsD'
  PROVE  FilesKept
<1>1. \A u \in Segs : /\ file'[u].recs = file[u].recs /\ file'[u].synced \in Nat
                       /\ file[u].synced \in Nat /\ file[u].synced <= file'[u].synced
  BY FileTyped
<1>2. wals \cup walsD \subseteq Segs
  BY NumbersTyped
<1>3. QED
  BY <1>1, <1>2, RecordsStay

LEMMA SyncKept ==
  ASSUME TypeInv, Disk, NEW s \in wals, file' = [file EXCEPT ![s] = Synced(@)],
         walsD' = LinksAfterSync(s), UNCHANGED wals
  PROVE  FilesKept
<1>1. s \in Segs /\ file[s] \in WalFile
  BY NumbersTyped, FileTyped
<1>2. file' = [file EXCEPT ![s] = Synced(file[s])]
  OBVIOUS
<1>3. /\ Synced(file[s]).recs = file[s].recs /\ Synced(file[s]).synced \in Nat
      /\ file[s].synced <= Synced(file[s]).synced
  BY <1>1, SyncedIs, FileTyped DEF Disk, FileOK
<1>4. walsD \subseteq walsD' /\ walsD' \subseteq Entries
  BY DEF LinksAfterSync, Entries
<1>5. QED
  BY <1>1, <1>2, <1>3, <1>4, OneFile

LEMMA TornKept ==
  ASSUME TypeInv, NEW s \in Segs, NEW t, file' = [file EXCEPT ![s].torn = t],
         UNCHANGED <<wals, walsD>>
  PROVE  FilesKept
<1>1. file[s] \in WalFile /\ file[s].synced \in Nat
  BY FileTyped
<1>2. PICK g : g = [file[s] EXCEPT !.torn = t]
  OBVIOUS
<1>3. file' = [file EXCEPT ![s] = g] /\ g.recs = file[s].recs /\ g.synced = file[s].synced
  BY <1>1, <1>2 DEF WalFile
<1>4. walsD \subseteq walsD' /\ walsD' \subseteq Entries /\ g.synced \in Nat /\ file[s].synced <= g.synced
  BY <1>1, <1>3 DEF Entries
<1>5. QED
  BY <1>3, <1>4, OneFile

LEMMA DirSyncKept ==
  ASSUME TypeInv, DirSync, UNCHANGED <<file, wals>> PROVE FilesKept
<1>1. Entries' \subseteq Entries /\ wals \cap walsD \subseteq wals' \cap walsD'
  BY DEF DirSync, Entries
<1>2. QED
  BY <1>1, NoFile

LEMMA SameDisk == ASSUME TypeInv, UNCHANGED disk PROVE FilesKept /\ snapMaybe' = snapMaybe
<1>1. UNCHANGED <<snapMaybe, file, wals, walsD>>
  BY DEF disk
<1>2. QED
  BY <1>1, NoFile DEF Entries

LEMMA FilesRecovery == ASSUME RecoveryInv, Recovery PROVE FilesKept /\ snapMaybe' = snapMaybe
<1>0. TypeInv /\ Disk /\ Process
  BY DEF RecoveryInv
<1>1. CASE UNCHANGED disk
  BY <1>0, <1>1, SameDisk
<1>2. ASSUME RepairTruncate \/ RepairSync PROVE FilesKept /\ snapMaybe' = snapMaybe
  <2>1. rseg \in wals /\ rseg \in Segs
    BY <1>0, <1>2, NumbersTyped
       DEF RepairTruncate, RepairSync, Replayed, Process, Walk, TypeInv, Position, ReplayPosition
  <2>2. CASE RepairTruncate
    BY <1>0, <2>1, <2>2, TornKept DEF RepairTruncate
  <2>3. CASE RepairSync
    <3>1. /\ file' = [file EXCEPT ![rseg] = Synced(@)] /\ walsD' = LinksAfterSync(rseg)
          /\ UNCHANGED <<wals, snapMaybe>>
      BY <2>3 DEF RepairSync, Attach
    <3>2. QED
      BY <1>0, <2>1, <3>1, SyncKept
  <2>4. QED
    BY <1>2, <2>2, <2>3
<1>3. UNCHANGED disk \/ RepairTruncate \/ RepairSync
  BY DEF Recovery, Open, OpenFails, ReplayHeader, ReplayCovered, ReplayRecord, ReplayTail,
         RecoverAttach, Attach, RecoverFails, RecoverFresh, disk
<1>4. QED
  BY <1>1, <1>2, <1>3

LEMMA FilesCreateWal ==
  ASSUME RecoveryInv, CreateWal PROVE FilesKept /\ snapMaybe' \subseteq snapMaybe
<1>0. TypeInv /\ Disk /\ Process
  BY DEF RecoveryInv
<1>1. CASE CwOpenFail
  BY <1>0, <1>1, SameDisk DEF CwOpenFail, OpenFails
<1>2. CASE CwOpen
  <2>1. /\ pc = "cw_open" /\ file' = [file EXCEPT ![seg + 1] = NewFile(next + 1)]
        /\ wals' = wals \cup {seg + 1} /\ UNCHANGED <<walsD, snapMaybe>>
    BY <1>2 DEF CwOpen
  <2>2. /\ seg + 1 \in Segs /\ \A s \in Entries : s = seg + 1 => file[s].recs = <<>>
    BY <2>1, NewSegment
  <2>3. file \in [Segs -> WalFile] /\ Entries \subseteq Segs
    BY <1>0, NumbersTyped DEF TypeInv, TypeOK, DiskType
  <2>4. /\ \A u \in Segs \ {seg + 1} : file'[u] = file[u]
        /\ Len(file'[seg + 1].recs) = 0
    BY <2>1, <2>2, <2>3 DEF NewFile
  <2>5. NoNewRecords
    BY <2>1, <2>2, <2>3, <2>4 DEF NoNewRecords, Entries
  <2>6. MediumKept
    <3> SUFFICES ASSUME NEW s \in wals \cap walsD, NEW i \in 1..file[s].synced
                 PROVE  i \in 1..file'[s].synced /\ file'[s].recs[i] = file[s].recs[i]
      BY <2>1 DEF MediumKept
    <3>1. s \in Segs /\ file[s].synced \in Nat /\ file[s].synced <= Len(file[s].recs)
      BY <1>0, <2>3, FileTyped DEF Entries, Disk, FileOK
    <3>2. s # seg + 1
      BY <2>2, <3>1 DEF Entries
    <3>3. QED
      BY <2>4, <3>1, <3>2
  <2>7. QED
    BY <2>1, <2>5, <2>6 DEF FilesKept
<1>3. CASE CwHeader
  <2>1. /\ pc = "cw_header" /\ file' = [file EXCEPT ![seg + 1].hdr = "written"]
        /\ UNCHANGED <<wals, walsD, snapMaybe>>
    BY <1>3 DEF CwHeader
  <2>2. seg + 1 \in Segs
    BY <2>1, NewSegment
  <2>3. file[seg + 1] \in WalFile /\ file[seg + 1].synced \in Nat
    BY <1>0, <2>2, FileTyped
  <2>4. PICK g : g = [file[seg + 1] EXCEPT !.hdr = "written"]
    OBVIOUS
  <2>5. file' = [file EXCEPT ![seg + 1] = g] /\ g.recs = file[seg + 1].recs /\ g.synced = file[seg + 1].synced
    BY <2>1, <2>3, <2>4 DEF WalFile
  <2>6. walsD \subseteq walsD' /\ walsD' \subseteq Entries /\ g.synced \in Nat
        /\ file[seg + 1].synced <= g.synced
    BY <2>1, <2>3, <2>5 DEF Entries
  <2>7. FilesKept
    BY <1>0, <2>1, <2>2, <2>5, <2>6, OneFile
  <2>8. QED
    BY <2>1, <2>7
<1>4. ASSUME CwSync \/ CwPreallocFail PROVE FilesKept /\ snapMaybe' \subseteq snapMaybe
  <2>1. /\ pc = "cw_sync" /\ file' = [file EXCEPT ![seg + 1] = Synced(@)]
        /\ walsD' = LinksAfterSync(seg + 1) /\ UNCHANGED <<wals, snapMaybe>>
    BY <1>4 DEF CwSync, CwPreallocFail
  <2>2. PICK s \in wals : s = seg + 1
    BY <2>1, NewSegment
  <2>3. file' = [file EXCEPT ![s] = Synced(@)] /\ walsD' = LinksAfterSync(s)
    BY <2>1, <2>2
  <2>4. FilesKept
    BY <1>0, <2>1, <2>3, SyncKept
  <2>5. QED
    BY <2>1, <2>4
<1>5. CASE CwDirSync
  <2>1. DirSync /\ UNCHANGED <<snap, file, wals>>
    BY <1>5 DEF CwDirSync
  <2>2. QED
    BY <1>0, <2>1, DirSyncKept, DiskDirSync
<1>6. QED
  BY <1>1, <1>2, <1>3, <1>4, <1>5 DEF CreateWal

\* The fsync of the active segment, if there is one
LEMMA ActiveSync ==
  ASSUME RecoveryInv, Alive, UNCHANGED wals,
         file' = IF wfd = 0 THEN file ELSE [file EXCEPT ![wfd] = Synced(@)],
         walsD' = IF wfd = 0 THEN walsD ELSE LinksAfterSync(wfd)
  PROVE  FilesKept
<1>0. TypeInv /\ Disk /\ Process
  BY DEF RecoveryInv
<1>1. CASE wfd = 0
  BY <1>0, <1>1, NoFile DEF Entries
<1>2. CASE wfd # 0
  <2>1. PICK s \in wals : s = wfd
    BY <1>0, <1>2 DEF Process, Active
  <2>2. file' = [file EXCEPT ![s] = Synced(@)] /\ walsD' = LinksAfterSync(s)
    BY <1>2, <2>1
  <2>3. QED
    BY <1>0, <2>2, SyncKept
<1>3. QED
  BY <1>1, <1>2

\* A record cut short by a failed pwrite or by the end of the process
LEMMA ActiveTorn ==
  ASSUME RecoveryInv, NEW torn \in BOOLEAN, torn => wfd # 0, UNCHANGED <<wals, walsD>>,
         file' = IF torn THEN [file EXCEPT ![wfd].torn = "yes"] ELSE file
  PROVE  FilesKept
<1>0. TypeInv
  BY DEF RecoveryInv
<1>1. CASE ~torn
  BY <1>0, <1>1, NoFile DEF Entries
<1>2. CASE torn
  BY <1>0, <1>2, TornKept, NumbersTyped
<1>3. QED
  BY <1>1, <1>2

LEMMA FilesWriter ==
  ASSUME RecoveryInv, Writer, ~WriterWrite PROVE FilesKept /\ snapMaybe' = snapMaybe
<1>0. TypeInv
  BY DEF RecoveryInv
<1>1. CASE WriterTake \/ WriterPublish
  BY <1>0, <1>1, SameDisk DEF WriterTake, WriterPublish
<1>2. CASE WriterSync
  <2>1. /\ Alive /\ wfd # 0 /\ UNCHANGED <<wals, snapMaybe>>
        /\ file' = [file EXCEPT ![wfd] = Synced(@)] /\ walsD' = LinksAfterSync(wfd)
    BY <1>2, InWriter DEF WriterSync
  <2>2. QED
    BY <2>1, ActiveSync
<1>3. ASSUME NEW torn \in BOOLEAN, WriterFail(torn) PROVE FilesKept /\ snapMaybe' = snapMaybe
  BY <1>3, ActiveTorn DEF WriterFail
<1>4. QED
  BY <1>1, <1>2, <1>3 DEF Writer

LEMMA FilesCheckpoint ==
  ASSUME RecoveryInv, Checkpoint
  PROVE  /\ NoNewRecords
         /\ (\E s \in Segs : CkRemove(s)) \/ MediumKept
         /\ CkRename \/ snapMaybe' \subseteq snapMaybe
<1>0. TypeInv /\ Disk
  BY DEF RecoveryInv
<1>1. CASE CkBegin \/ CkWrite \/ CkFsync \/ CkFail
  BY <1>0, <1>1, SameDisk DEF CkBegin, CkWrite, CkFsync, CkFail, FilesKept
<1>2. CASE CkRename
  BY <1>0, <1>2, NoFile DEF CkRename, Entries, FilesKept
<1>3. CASE CkDirSync \/ CkDone
  <2>1. DirSync /\ UNCHANGED <<snap, file, wals>>
    BY <1>3 DEF CkDirSync, CkDone
  <2>2. QED
    BY <1>0, <2>1, DirSyncKept, DiskDirSync DEF FilesKept
<1>4. CASE CkRotate
  <2>1. /\ UNCHANGED <<wals, snapMaybe>> /\ pc = "ck_rotate"
        /\ file' = IF wfd = 0 THEN file ELSE [file EXCEPT ![wfd] = Synced(@)]
        /\ walsD' = IF wfd = 0 THEN walsD ELSE LinksAfterSync(wfd)
    BY <1>4 DEF CkRotate
  <2>2. Alive
    BY <2>1, InCheckpoint
  <2>3. QED
    BY <2>1, <2>2, ActiveSync DEF FilesKept
<1>5. ASSUME NEW s \in Segs, CkRemove(s)
      PROVE  NoNewRecords /\ snapMaybe' = snapMaybe
  BY <1>5, SameFiles DEF CkRemove, Entries
<1>6. QED
  BY <1>1, <1>2, <1>3, <1>4, <1>5 DEF Checkpoint

LEMMA FilesClose == ASSUME RecoveryInv, Close PROVE FilesKept /\ snapMaybe' = snapMaybe
<1>0. TypeInv
  BY DEF RecoveryInv
<1>1. CASE CloseBegin \/ CloseError
  BY <1>0, <1>1, SameDisk DEF CloseBegin, CloseError
<1>2. CASE CloseClean
  <2>1. /\ UNCHANGED <<wals, snapMaybe>> /\ pc = "closing"
        /\ file' = IF wfd = 0 THEN file ELSE [file EXCEPT ![wfd] = Synced(@)]
        /\ walsD' = IF wfd = 0 THEN walsD ELSE LinksAfterSync(wfd)
    BY <1>2 DEF CloseClean
  <2>2. Alive
    BY <2>1, InProcess DEF CwSteps
  <2>3. QED
    BY <2>1, <2>2, ActiveSync
<1>3. QED
  BY <1>1, <1>2 DEF Close

\* A power loss leaves every record that had been synced, of every file whose entry is durable.
LEMMA FilesPowerLoss ==
  ASSUME RecoveryInv, PowerLoss PROVE FilesKept /\ snapMaybe' \subseteq snapMaybe
<1>0. TypeInv /\ Disk /\ Entries \subseteq Segs
  BY NumbersTyped DEF RecoveryInv
<1>1. snapMaybe' \subseteq snapMaybe
  <2>1. \A p \in snapMaybe : SnapSurvivors(p) = {p}
    BY <1>0 DEF Disk, SnapOK, SnapSurvivors
  <2>2. QED
    BY <2>1 DEF PowerLoss
<1>2. Entries' \subseteq Entries /\ wals \cap walsD \subseteq wals' \cap walsD'
  BY DEF PowerLoss, Entries
<1>3. NoNewRecords
  <2> SUFFICES ASSUME NEW s \in Entries', NEW i \in 1..Len(file'[s].recs)
               PROVE  i \in 1..Len(file[s].recs) /\ file'[s].recs[i] = file[s].recs[i]
    BY <1>2 DEF NoNewRecords
  <2>1. /\ Len(file'[s].recs) <= Len(file[s].recs) /\ Len(file'[s].recs) \in Nat
        /\ Len(file[s].recs) \in Nat /\ file'[s].recs[i] = file[s].recs[i]
    BY <1>0, <1>2, LeftOver, FileTyped
  <2>2. QED
    BY <2>1
<1>4. MediumKept
  <2> SUFFICES ASSUME NEW s \in wals \cap walsD, NEW i \in 1..file[s].synced
               PROVE  i \in 1..file'[s].synced /\ file'[s].recs[i] = file[s].recs[i]
    BY <1>2 DEF MediumKept
  <2>1. s \in Segs
    BY <1>0 DEF Entries
  <2>2. /\ file[s].synced \in Nat /\ file[s].synced <= file'[s].synced
        /\ file'[s].synced <= Len(file'[s].recs) /\ Len(file'[s].recs) \in Nat
        /\ \A j \in 1..Len(file'[s].recs) : file'[s].recs[j] = file[s].recs[j]
    BY <1>0, <2>1, LeftOver, FileTyped
  <2>3. file'[s].synced \in Nat
    <3>1. TypeInv'
      BY <1>0, TypeStep DEF Next, Crash
    <3>2. file'[s] \in WalFile
      BY <2>1, <3>1 DEF TypeInv, TypeOK, DiskType
    <3>3. QED
      BY <3>2 DEF WalFile
  <2>4. QED
    BY <2>2, <2>3
<1>5. QED
  BY <1>1, <1>3, <1>4 DEF FilesKept

LEMMA FilesProcessCrash ==
  ASSUME RecoveryInv, NEW torn \in BOOLEAN, ProcessCrash(torn)
  PROVE  FilesKept /\ snapMaybe' = snapMaybe
  BY ActiveTorn DEF ProcessCrash
-----------------------------------------------------------------------------
(* Recovery                                                                *)

LEMMA ContentOpenFails ==
  ASSUME Content, NEW why, OpenFails(why) PROVE Content'
<1>1. Lost /\ hist' = hist /\ UNCHANGED <<snapMaybe, file, wals, walsD>>
  BY DEF OpenFails, ghost, disk
<1>2. NoNewRecords
  BY <1>1, SameFiles DEF Entries
<1>3. QED
  BY <1>1, <1>2, ContentLost

LEMMA ContentOpen == ASSUME ContentInv, Open PROVE Content'
<1>0. TypeInv /\ Disk /\ Process /\ Content
  BY DEF ContentInv, RecoveryInv
<1>1. snap.st = "stable" /\ snap \in snapMaybe
  BY <1>0 DEF Disk, SnapOK
<1>2. /\ pc = "down" /\ next' = snap.seq /\ index' = snap.items /\ pc' = "replay"
      /\ UNCHANGED <<snapMaybe, file, wals, walsD, queue, local, up, hist>>
  BY <1>1 DEF Open, disk, thr, ghost
<1>3. ~up
  BY <1>0, <1>2 DEF Process, Mode
<1>4. SnapsFit' /\ RecordsFit'
  BY <1>0, <1>2, SameFiles, FilesFit DEF Content, Entries
<1>5. PendingFit'
  BY <1>0, <1>2 DEF Content, PendingFit, Fits
<1>6. IndexFits'
  BY <1>0, <1>1, <1>2, <1>3 DEF Content, SnapsFit, IndexFits
<1>7. QED
  BY <1>4, <1>5, <1>6 DEF Content

\* Replay applies the operation that the history has there.
LEMMA ContentReplayRecord == ASSUME ContentInv, ReplayRecord PROVE Content'
<1>0. RecoveryInv /\ TypeInv /\ Disk /\ Process /\ Content /\ pc = "replay"
  BY DEF ContentInv, RecoveryInv, ReplayRecord
<1> PICK r : r = file[rseg].recs[rpos]
  OBVIOUS
<1>1. r.seq = next + 1 /\ rexp = next + 1 /\ ~up
  BY <1>0, ReplayNext, InReplay
<1>2. /\ rpos > 0 /\ rpos <= Len(file[rseg].recs)
      /\ index' = Apply(index, r) /\ next' = r.seq /\ pc' = pc
      /\ UNCHANGED <<snapMaybe, file, wals, walsD, queue, local, up, hist>>
  BY <1>1 DEF ReplayRecord, disk, thr, ghost
<1>3. /\ rseg \in Entries /\ rpos \in 1..Len(file[rseg].recs) /\ next \in Nat
  BY <1>0, <1>2, InReplay, NumbersTyped
<1>4. Fits(r)
  BY <1>0, <1>3 DEF Content, RecordsFit
<1>5. index = hist[next + 1]
  BY <1>0 DEF Content, IndexFits
<1>6. index' = hist[next' + 1] /\ next' < Len(hist)
  BY <1>1, <1>2, <1>4, <1>5 DEF Fits
<1>7. SnapsFit' /\ RecordsFit'
  BY <1>0, <1>2, SameFiles, FilesFit DEF Content, Entries
<1>8. PendingFit'
  BY <1>0, <1>2 DEF Content, PendingFit, Fits
<1>9. IndexFits'
  BY <1>0, <1>1, <1>2, <1>6 DEF IndexFits
<1>10. QED
  BY <1>7, <1>8, <1>9 DEF Content

\* From the end of recovery on, the recovered operations are the history: nothing on disk is
\* from beyond them.
LEMMA ContentRecovered ==
  ASSUME ContentInv, RecoveryInv', Recovered, up', pc # "down", pc' = "idle",
         UNCHANGED <<index, next, queue, local>>, queue = <<>>, local = <<>>,
         snapMaybe' \subseteq snapMaybe, NoNewRecords
  PROVE  /\ Content' /\ Len(hist') = next + 1
         /\ \A i \in 1..(next + 1) : hist'[i] = hist[i]
<1>0. TypeInv /\ Content /\ next < Len(hist) /\ next \in Nat
  BY NumbersTyped DEF ContentInv, RecoveryInv, Content, IndexFits
<1>1. hist \in Seq(Map) /\ Len(hist) \in Nat
  BY <1>0 DEF TypeInv, TypeOK, GhostType
<1>2. next + 1 <= Len(hist)
  BY <1>0, <1>1
<1>3. hist' = SubSeq(hist, 1, next + 1)
  BY <1>2 DEF Recovered, Cut
<1>4. Len(hist') = next + 1 /\ \A i \in 1..(next + 1) : hist'[i] = hist[i]
  BY <1>0, <1>1, <1>2, <1>3
<1>5. Bounded' /\ Alive' /\ TypeInv'
  BY DEF RecoveryInv, Process, Alive
<1>6. SnapsFit'
  <2> SUFFICES ASSUME NEW p \in snapMaybe' PROVE p.seq < Len(hist') /\ p.items = hist'[p.seq + 1]
    BY DEF SnapsFit
  <2>1. p.seq <= next /\ p.seq \in Nat
    BY <1>0, <1>5, NumbersTyped DEF Bounded
  <2>2. p.items = hist[p.seq + 1]
    BY <1>0 DEF Content, SnapsFit
  <2>3. p.seq + 1 \in 1..(next + 1)
    BY <1>0, <2>1
  <2>4. QED
    BY <1>0, <1>4, <2>1, <2>2, <2>3
<1>7. RecordsFit'
  <2> SUFFICES ASSUME NEW s \in Entries', NEW i \in 1..Len(file'[s].recs)
               PROVE  /\ file'[s].recs[i].seq < Len(hist')
                      /\ hist'[file'[s].recs[i].seq + 1]
                            = Apply(hist'[file'[s].recs[i].seq], file'[s].recs[i])
    BY DEF RecordsFit, Fits
  <2> PICK r : r = file[s].recs[i]
    OBVIOUS
  <2>1. file'[s].recs[i] = r /\ s \in Entries /\ i \in 1..Len(file[s].recs)
    BY DEF NoNewRecords
  <2>2. r.seq <= next
    BY <1>5, <2>1 DEF Bounded, Below
  <2>3. Fits(r)
    BY <1>0, <2>1 DEF Content, RecordsFit
  <2>4. r.seq \in Nat /\ r.seq > 0
    <3>1. s \in Segs /\ file[s].recs \in Seq(Rec)
      BY <1>0, <2>1, NumbersTyped, FileTyped
    <3>2. r \in Rec
      BY <2>1, <3>1
    <3>3. QED
      BY <3>2, ConstantAssumption DEF Rec
  <2>5. r.seq \in 1..(next + 1) /\ r.seq + 1 \in 1..(next + 1)
    BY ONLY <1>0, <2>2, <2>4
  <2>6. r.seq < Len(hist') /\ hist'[r.seq + 1] = Apply(hist'[r.seq], r)
    BY ONLY <1>0, <1>4, <2>2, <2>3, <2>4, <2>5 DEF Fits
  <2>7. QED
    BY <2>1, <2>6
<1>8. PendingFit'
  BY DEF PendingFit
<1>9. IndexFits'
  BY <1>0, <1>4 DEF Content, IndexFits
<1>10. QED
  BY <1>4, <1>6, <1>7, <1>8, <1>9 DEF Content

LEMMA ContentRecovery == ASSUME ContentInv, RecoveryInv', Recovery PROVE Content'
<1>0. RecoveryInv /\ TypeInv /\ Disk /\ Process /\ Content /\ FilesKept /\ snapMaybe' \subseteq snapMaybe
  BY FilesRecovery DEF ContentInv, RecoveryInv
<1>1. ASSUME NEW why, OpenFails(why) PROVE Content'
  BY <1>0, <1>1, ContentOpenFails
<1>2. ASSUME UNCHANGED <<hist, queue, local, index, next, up>>, pc # "down",
             pc' \in {"replay", "repair", "cw_open"}
      PROVE  Content'
  BY <1>0, <1>2, ContentKept DEF FilesKept
<1>3. ASSUME NEW s \in Segs, ReplayHeader(s) PROVE Content'
  <2>1. CASE file[s].hdr = "empty"
    BY <1>1, <1>3, <2>1 DEF ReplayHeader
  <2>2. CASE file[s].hdr # "empty"
    BY <1>2, <1>3, <2>2 DEF ReplayHeader, thr, ghost
  <2>3. QED
    BY <2>1, <2>2
<1>4. CASE ReplayCovered
  BY <1>2, <1>4 DEF ReplayCovered, mem, thr, ghost
<1>5. CASE ReplayTail
  <2>1. CASE file[rseg].torn = "yes" /\ ~LastSegment
    BY <1>1, <1>5, <2>1 DEF ReplayTail
  <2>2. CASE ~(file[rseg].torn = "yes" /\ ~LastSegment)
    BY <1>2, <1>5, <2>2 DEF ReplayTail, mem, thr, ghost
  <2>3. QED
    BY <2>1, <2>2
<1>6. CASE RepairTruncate
  BY <1>2, <1>6 DEF RepairTruncate, Replayed, mem, thr, ghost
<1>7. CASE RecoverFresh
  BY <1>2, <1>7 DEF RecoverFresh, thr, ghost
<1>8. CASE RecoverFails
  BY <1>1, <1>8 DEF RecoverFails
<1>9. CASE RecoverAttach \/ RepairSync
  <2>1. /\ pc \in {"replay", "repair"} /\ Recovered /\ up' /\ pc' = "idle"
        /\ UNCHANGED <<index, next, queue, local>>
    BY <1>9 DEF RecoverAttach, RepairSync, Replayed, Attach, thr
  <2>2. queue = <<>> /\ local = <<>>
    BY <1>0, <2>1 DEF Process, Mode
  <2>3. QED
    BY <1>0, <2>1, <2>2, ContentRecovered DEF FilesKept
<1>10. QED
  BY <1>3, <1>4, <1>5, <1>6, <1>7, <1>8, <1>9, ContentOpen, ContentReplayRecord DEF Recovery

LEMMA ContentCreateWal == ASSUME ContentInv, RecoveryInv', CreateWal PROVE Content'
<1>0. /\ RecoveryInv /\ Content /\ FilesKept /\ snapMaybe' \subseteq snapMaybe
  BY FilesCreateWal DEF ContentInv
<1>1. CASE CwOpenFail
  BY <1>0, <1>1, ContentOpenFails DEF CwOpenFail
<1>2. CASE CwOpen \/ CwHeader \/ CwSync \/ CwPreallocFail
  <2>1. /\ UNCHANGED <<hist, queue, local, index, next, up>> /\ pc # "down"
        /\ pc' \notin {"ck_fsync", "ck_rename"}
    BY <1>2 DEF CwOpen, CwHeader, CwSync, CwPreallocFail, mem, thr, ghost
  <2>2. QED
    BY <1>0, <2>1, ContentKept DEF FilesKept
<1>3. CASE CwDirSync
  <2>1. /\ pc = "cw_dirsync" /\ UNCHANGED <<queue, local, index, next>> /\ up'
        /\ IF up THEN UNCHANGED <<hist, base>> ELSE Recovered
        /\ pc' = IF up THEN "ck_remove" ELSE "idle"
    BY <1>3 DEF CwDirSync, mem, thr
  <2>2. CASE up
    <3>1. hist' = hist /\ up' = up
      <4>1. up' = TRUE /\ up \in BOOLEAN
        BY <1>0, <1>3, Zenon DEF CwDirSync, RecoveryInv, TypeInv, TypeOK, ControlType
      <4>2. QED
        BY <2>1, <2>2, <4>1
    <3>2. QED
      BY <1>0, <2>1, <2>2, <3>1, ContentKept DEF FilesKept
  <2>3. CASE ~up
    <3>1. queue = <<>> /\ local = <<>>
      BY <1>0, <2>1, InCreate DEF CwSteps
    <3>2. QED
      BY <1>0, <2>1, <2>3, <3>1, ContentRecovered DEF FilesKept
  <2>4. QED
    BY <2>2, <2>3
<1>4. QED
  BY <1>1, <1>2, <1>3 DEF CreateWal

-----------------------------------------------------------------------------
(* Operations, writer, checkpoint and the end of the process               *)

LEMMA ContentSubmit ==
  ASSUME ContentInv, NEW k \in Keys, NEW v \in Value, Submit(k, v)
  PROVE  Content' /\ hist' = Append(hist, index') /\ Len(hist) = next + 1 /\ index = hist[next + 1]
<1> PICK r : r = [seq |-> next + 1, key |-> k, val |-> v]
  OBVIOUS
<1>0. RecoveryInv /\ TypeInv /\ Process /\ Content /\ pc = "idle"
  BY DEF ContentInv, RecoveryInv, Submit
<1>1. /\ next' = next + 1 /\ queue' = Append(queue, r) /\ index' = Apply(index, r)
      /\ hist' = Append(hist, Apply(index, r))
      /\ UNCHANGED <<snapMaybe, file, wals, walsD, local, pc, up>>
  BY DEF Submit, disk, thr
<1>2. up
  BY <1>0, InProcess DEF CwSteps
<1>3. /\ hist \in Seq(Map) /\ Len(hist) = next + 1 /\ index = hist[next + 1]
      /\ next \in Nat /\ queue \in Seq(Rec)
  BY <1>0, <1>2, NumbersTyped DEF Content, IndexFits, TypeInv, TypeOK, GhostType
<1>4. /\ Len(hist') = next + 2 /\ hist'[next + 2] = index'
      /\ \A i \in 1..(next + 1) : hist'[i] = hist[i]
  BY <1>1, <1>3
<1>5. ASSUME NEW q, q.seq \in Nat, q.seq > 0, Fits(q)
      PROVE  q.seq < Len(hist') /\ hist'[q.seq + 1] = Apply(hist'[q.seq], q)
  <2>1. q.seq + 1 \in 1..(next + 1) /\ q.seq \in 1..(next + 1)
    BY <1>3, <1>5 DEF Fits
  <2>2. QED
    BY <1>3, <1>4, <1>5, <2>1 DEF Fits
<1>6. \A q \in Rec : q.seq \in Nat /\ q.seq > 0
  BY DEF Rec
<1>7. r.seq < Len(hist') /\ hist'[r.seq + 1] = Apply(hist'[r.seq], r)
  <2>1. r.seq = next + 1 /\ next + 1 \in 1..(next + 1)
    BY <1>3
  <2>2. hist'[r.seq] = index
    BY <1>3, <1>4, <2>1
  <2>3. QED
    BY <1>1, <1>3, <1>4, <2>1, <2>2
<1>8. SnapsFit'
  <2>1. \A p \in snapMaybe : p.seq \in Nat /\ p.seq + 1 \in 1..(next + 1)
    BY <1>0, <1>3, NumbersTyped DEF Content, SnapsFit
  <2>2. QED
    BY <1>0, <1>1, <1>3, <1>4, <2>1 DEF Content, SnapsFit
<1>9. RecordsFit'
  <2> SUFFICES ASSUME NEW s \in Entries, NEW i \in 1..Len(file[s].recs)
               PROVE  /\ file[s].recs[i].seq < Len(hist')
                      /\ hist'[file[s].recs[i].seq + 1] = Apply(hist'[file[s].recs[i].seq], file[s].recs[i])
    BY <1>1 DEF RecordsFit, Fits, Entries
  <2>1. file[s].recs[i] \in Rec
    BY <1>0, NumbersTyped, FileTyped
  <2>2. Fits(file[s].recs[i])
    BY <1>0 DEF Content, RecordsFit
  <2>3. QED
    BY <1>5, <1>6, <2>1, <2>2
<1>10. PendingFit'
  <2>1. \A i \in 1..Len(local) : local[i] \in Rec /\ Fits(local[i])
    BY <1>0, NumbersTyped DEF Content, PendingFit
  <2>2. \A i \in 1..Len(queue) : queue[i] \in Rec /\ Fits(queue[i])
    BY <1>0, <1>3 DEF Content, PendingFit
  <2>3. \A i \in 1..Len(local) :
           local[i].seq < Len(hist') /\ hist'[local[i].seq + 1] = Apply(hist'[local[i].seq], local[i])
    BY <1>5, <1>6, <2>1
  <2>4. ASSUME NEW i \in 1..Len(queue')
        PROVE  queue'[i].seq < Len(hist') /\ hist'[queue'[i].seq + 1] = Apply(hist'[queue'[i].seq], queue'[i])
    <3>1. CASE i = Len(queue) + 1
      <4>1. queue'[i] = r
        BY <1>1, <1>3, <3>1
      <4>2. QED
        BY <1>7, <4>1
    <3>2. CASE i # Len(queue) + 1
      <4>1. i \in 1..Len(queue) /\ queue'[i] = queue[i]
        BY <1>1, <1>3, <3>2
      <4>2. QED
        BY <1>5, <1>6, <2>2, <4>1
    <3>3. QED
      BY <3>1, <3>2
  <2>5. QED
    BY <1>1, <2>3, <2>4 DEF PendingFit, Fits
<1>11. IndexFits'
  BY <1>0, <1>1, <1>3, <1>4 DEF IndexFits
<1>12. QED
  BY <1>1, <1>3, <1>8, <1>9, <1>10, <1>11 DEF Content

\* A batch is taken from the front of the queue.
LEMMA Halves ==
  ASSUME NEW T, NEW q \in Seq(T), NEW n \in 1..Len(q)
  PROVE  /\ \A i \in 1..Len(SubSeq(q, 1, n)) : i \in 1..Len(q) /\ SubSeq(q, 1, n)[i] = q[i]
         /\ \A i \in 1..Len(SubSeq(q, n + 1, Len(q))) :
               n + i \in 1..Len(q) /\ SubSeq(q, n + 1, Len(q))[i] = q[n + i]
  OBVIOUS

LEMMA ContentWriter == ASSUME ContentInv, Writer PROVE Content'
<1>0. RecoveryInv /\ TypeInv /\ Process /\ Content
  BY DEF ContentInv, RecoveryInv
<1>1. UNCHANGED <<hist, index, next, pc, up, tmp, snapMaybe>>
  BY DEF Writer, WriterTake, WriterWrite, WriterSync, WriterPublish, WriterFail, disk, mem, ghost
<1>2. IndexFits' /\ SnapsFit'
  BY <1>0, <1>1 DEF Content, IndexFits, SnapsFit
<1>3. RecordsFit'
  <2>1. CASE WriterWrite
    <3>1. PICK h \in Rec :
             /\ h = Head(local) /\ file'[wfd].recs = Append(file[wfd].recs, h)
             /\ (\A u \in Segs \ {wfd} : file'[u] = file[u]) /\ wfd \in Segs /\ wfd \in wals
      BY <1>0, <2>1, WriterAppends
    <3>2. UNCHANGED <<wals, walsD>> /\ local # <<>> /\ local \in Seq(Rec)
      BY <1>0, <2>1, NumbersTyped DEF WriterWrite
    <3>3. Fits(h)
      <4>1. h = local[1] /\ 1 \in 1..Len(local)
        BY <3>1, <3>2
      <4>2. QED
        BY <1>0, <4>1 DEF Content, PendingFit
    <3>4. ASSUME NEW s \in Entries, NEW i \in 1..Len(file'[s].recs) PROVE Fits(file'[s].recs[i])
      <4>1. CASE s = wfd
        <5>1. file[s].recs \in Seq(Rec)
          BY <1>0, <3>1, <4>1, FileTyped
        <5>2. CASE i = Len(file[s].recs) + 1
          <6>1. PICK q \in Seq(Rec) : q = file[s].recs
            BY <5>1
          <6>2. file'[s].recs = Append(q, h) /\ i = Len(q) + 1
            BY <3>1, <4>1, <5>2, <6>1
          <6>3. Append(q, h)[Len(q) + 1] = h
            BY ONLY q \in Seq(Rec), h \in Rec
          <6>4. QED
            BY <3>3, <6>2, <6>3
        <5>3. CASE i # Len(file[s].recs) + 1
          <6>1. i \in 1..Len(file[s].recs) /\ file'[s].recs[i] = file[s].recs[i]
            BY SMTT(30), <3>1, <4>1, <5>1, <5>3
          <6>2. QED
            BY <1>0, <6>1 DEF Content, RecordsFit
        <5>4. QED
          BY <5>2, <5>3
      <4>2. CASE s # wfd
        <5>1. file'[s] = file[s]
          BY <1>0, <3>1, <4>2, NumbersTyped
        <5>2. QED
          BY <1>0, <5>1 DEF Content, RecordsFit
      <4>3. QED
        BY <4>1, <4>2
    <3>5. QED
      BY <1>1, <3>2, <3>4 DEF RecordsFit, Fits, Entries
  <2>2. CASE ~WriterWrite
    BY <1>0, <1>1, <2>2, FilesWriter, FilesFit DEF FilesKept, Content
  <2>3. QED
    BY <2>1, <2>2
<1>4. PendingFit'
  <2>0. queue \in Seq(Rec) /\ local \in Seq(Rec)
    BY <1>0, NumbersTyped
  <2>1. CASE WriterTake
    <3>0. w = "wait" /\ queue # <<>>
      BY <2>1 DEF WriterTake
    <3>1. (IF Len(queue) <= WalBatch THEN Len(queue) ELSE WalBatch) \in 1..Len(queue)
      BY <2>0, <3>0, ConstantAssumption, EmptySeq
    <3>2. PICK n \in 1..Len(queue) :
             local' = SubSeq(queue, 1, n) /\ queue' = SubSeq(queue, n + 1, Len(queue))
      BY <2>1, <3>1 DEF WriterTake
    <3>3. /\ \A i \in 1..Len(local') : i \in 1..Len(queue) /\ local'[i] = queue[i]
          /\ \A i \in 1..Len(queue') : n + i \in 1..Len(queue) /\ queue'[i] = queue[n + i]
      <4>1. PICK q \in Seq(Rec) : q = queue
        BY <2>0
      <4>2. n \in 1..Len(q) /\ local' = SubSeq(q, 1, n) /\ queue' = SubSeq(q, n + 1, Len(q))
        BY <3>2, <4>1
      <4>3. QED
        BY ONLY <4>1, <4>2, Halves
    <3>4. QED
      BY ZenonT(40), <1>0, <1>1, <3>3 DEF Content, PendingFit, Fits
  <2>2. CASE WriterWrite
    <3>1. queue' = queue /\ local' = Tail(local) /\ local # <<>>
      BY <2>2 DEF WriterWrite, mem
    <3>2. \A i \in 1..Len(local') : i + 1 \in 1..Len(local) /\ local'[i] = local[i + 1]
      BY <2>0, <3>1
    <3>3. QED
      BY <1>0, <1>1, <3>1, <3>2 DEF Content, PendingFit, Fits
  <2>3. CASE WriterSync \/ WriterPublish \/ \E torn \in BOOLEAN : WriterFail(torn)
    <3>1. queue' = queue /\ (local' = local \/ local' = <<>>)
      BY <2>3 DEF WriterSync, WriterPublish, WriterFail, mem
    <3>2. QED
      BY <1>0, <1>1, <3>1 DEF Content, PendingFit, Fits
  <2>4. QED
    BY <2>1, <2>2, <2>3 DEF Writer
<1>5. QED
  BY <1>2, <1>3, <1>4 DEF Content

LEMMA ContentCheckpoint == ASSUME ContentInv, Checkpoint PROVE Content'
<1>0. RecoveryInv /\ TypeInv /\ Process /\ Content /\ NoNewRecords
      /\ (CkRename \/ snapMaybe' \subseteq snapMaybe)
  BY FilesCheckpoint DEF ContentInv, RecoveryInv
<1>1. UNCHANGED <<hist, queue, local, index, next, up>> /\ pc # "down"
  BY <1>0 DEF Checkpoint, CkBegin, CkWrite, CkFsync, CkRename, CkDirSync, CkRotate, CkRemove, CkDone,
         CkFail, CkSteps, CwSteps, mem, thr, ghost
<1>2. CASE CkRename
  <2>1. /\ pc = "ck_rename" /\ pc' = "ck_dirsync" /\ snapMaybe' = snapMaybe \cup {tmp}
        /\ tmp.seq = next
    BY <1>0, <1>2 DEF CkRename, Process, Quiet
  <2>2. tmp.items = index /\ next < Len(hist) /\ index = hist[next + 1]
    BY <1>0, <2>1 DEF Content, IndexFits
  <2>3. SnapsFit'
    BY <1>0, <1>1, <2>1, <2>2 DEF Content, SnapsFit
  <2>4. RecordsFit'
    BY <1>0, <1>1 DEF Content, RecordsFit, NoNewRecords, Fits
  <2>5. PendingFit' /\ IndexFits'
    BY <1>0, <1>1, <2>1 DEF Content, PendingFit, IndexFits, Fits
  <2>6. QED
    BY <2>3, <2>4, <2>5 DEF Content
<1>3. CASE ~CkRename
  <2>1. pc' \in {"ck_fsync", "ck_rename"} => tmp'.items = index
    <3>1. CASE CkWrite
      BY <3>1 DEF CkWrite
    <3>2. CASE CkFsync
      <4>1. pc = "ck_fsync" /\ tmp' = [tmp EXCEPT !.st = "stable"] /\ tmp \in Snap
        BY <1>0, <3>2 DEF CkFsync, TypeInv, TypeOK, ControlType
      <4>2. tmp'.items = tmp.items
        BY <4>1 DEF Snap
      <4>3. QED
        BY <1>0, <4>1, <4>2 DEF Content, IndexFits
    <3>3. QED
      BY <1>3, <3>1, <3>2 DEF Checkpoint, CkBegin, CkDirSync, CkRotate, CkRemove, CkDone, CkFail
  <2>2. QED
    BY <1>0, <1>1, <1>3, <2>1, ContentKept
<1>4. QED
  BY <1>2, <1>3

LEMMA ContentEnds == ASSUME ContentInv, Close \/ Crash PROVE Content'
<1>0. RecoveryInv /\ Content
  BY DEF ContentInv
<1>1. FilesKept /\ snapMaybe' \subseteq snapMaybe
  BY <1>0, FilesClose, FilesPowerLoss, FilesProcessCrash DEF Crash
<1>2. CASE CloseBegin
  <2>1. /\ UNCHANGED <<hist, queue, local, index, next, up>> /\ pc = "idle" /\ pc' = "closing"
    BY <1>2 DEF CloseBegin, mem, thr, ghost
  <2>2. QED
    BY <1>0, <1>1, <2>1, ContentKept DEF FilesKept
<1>3. CASE CloseClean \/ CloseError \/ Crash
  <2>1. Lost /\ hist' = hist
    BY <1>3 DEF CloseClean, CloseError, Crash, PowerLoss, ProcessCrash, ghost
  <2>2. QED
    BY <1>0, <1>1, <2>1, ContentLost DEF FilesKept
<1>4. QED
  BY <1>2, <1>3 DEF Close

LEMMA ContentStep == ContentInv /\ [Next]_vars => ContentInv'
<1> SUFFICES ASSUME ContentInv, [Next]_vars PROVE ContentInv'
  OBVIOUS
<1>1. RecoveryInv'
  BY RecoveryStep DEF ContentInv
<1>2. Content'
  <2>1. ASSUME UNCHANGED vars \/ \E t \in 1..MaxSeq : Wait(t) PROVE Content'
    <3>1. UNCHANGED <<snapMaybe, file, wals, walsD, queue, local, index, next, up, hist, pc, tmp>>
      BY <2>1 DEF vars, Wait, disk, mem, thr, ghost
    <3>2. QED
      BY <3>1 DEF ContentInv, Content, SnapsFit, RecordsFit, PendingFit, IndexFits, Fits, Entries
  <2>2. QED
    BY <1>1, <2>1, ContentRecovery, ContentCreateWal, ContentSubmit, ContentWriter,
       ContentCheckpoint, ContentEnds DEF Next
<1>3. QED
  BY <1>1, <1>2 DEF ContentInv

LEMMA ContentInit == Init => ContentInv
<1> SUFFICES ASSUME Init PROVE ContentInv
  OBVIOUS
<1>1. /\ snapMaybe = {NoSnap} /\ Entries = {} /\ hist = <<Empty>> /\ queue = <<>> /\ local = <<>>
      /\ pc = "down" /\ ~up /\ NoSnap.seq = 0 /\ NoSnap.items = Empty
  BY DEF Init, Entries, NoSnap
<1>2. Content
  BY <1>1 DEF Content, SnapsFit, RecordsFit, PendingFit, IndexFits
<1>3. QED
  BY <1>2, RecoveryInit DEF ContentInv
-----------------------------------------------------------------------------
(* Durability, on a file system where syncing a file makes its directory     *)
(* entry durable: the engine acknowledges what it appended to a segment that *)
(* create_wal made before the directory was fsync-ed.                       *)

Durable ==
    /\ Stable(acked)
    /\ up => base <= durable
    /\ up /\ durable > base => Stable(durable)
    /\ w = "publish" => Stable(batchEnd)

DurableInv == ContentInv /\ Durable

LEMMA StableKept ==
  ASSUME MediumKept, snapMaybe' \subseteq snapMaybe, NEW n, Stable(n) PROVE Stable(n)'
<1> SUFFICES ASSUME NEW p \in snapMaybe', NEW m \in (p.seq + 1)..n
             PROVE  \E s \in wals' \cap walsD' : \E i \in 1..file'[s].synced : file'[s].recs[i].seq = m
  BY DEF Stable, OnMedium
<1>1. PICK s \in wals \cap walsD : \E i \in 1..file[s].synced : file[s].recs[i].seq = m
  BY DEF Stable, OnMedium
<1>2. PICK i \in 1..file[s].synced : file[s].recs[i].seq = m
  BY <1>1
<1>3. s \in wals' \cap walsD' /\ i \in 1..file'[s].synced /\ file'[s].recs[i] = file[s].recs[i]
  BY DEF MediumKept
<1>4. QED
  BY <1>2, <1>3

LEMMA StableLower ==
  ASSUME TypeInv, NEW n \in Nat, NEW k \in Nat, k <= n, Stable(n) PROVE Stable(k)
<1> SUFFICES ASSUME NEW p \in snapMaybe, NEW m \in (p.seq + 1)..k
             PROVE  \E s \in wals \cap walsD : \E i \in 1..file[s].synced : file[s].recs[i].seq = m
  BY DEF Stable, OnMedium
<1>1. m \in (p.seq + 1)..n
  BY NumbersTyped
<1>2. QED
  BY <1>1 DEF Stable, OnMedium

\* Snapshots that reach n cover everything up to n.
LEMMA StableCovered ==
  ASSUME NEW n \in Nat, \A p \in snapMaybe : p.st = "stable" /\ p.seq \in Nat /\ n <= p.seq
  PROVE  Stable(n)
  BY DEF Stable, OnMedium

\* Nothing beyond next_seq is on the medium.
LEMMA StableBounded ==
  ASSUME RecoveryInv, Alive, NEW n \in Nat, Stable(n) PROVE n <= next
<1>0. TypeInv /\ Disk /\ Process /\ next \in Nat /\ snap \in snapMaybe /\ snap.seq \in Nat
  BY NumbersTyped DEF RecoveryInv, Disk, SnapOK
<1>1. snap.seq <= next
  BY <1>0 DEF Process, Bounded
<1>2. CASE n <= snap.seq
  BY <1>0, <1>1, <1>2
<1>3. CASE ~(n <= snap.seq)
  <2>1. n \in (snap.seq + 1)..n
    BY <1>0, <1>3
  <2>2. PICK s \in wals \cap walsD : \E i \in 1..file[s].synced : file[s].recs[i].seq = n
    BY <1>0, <2>1 DEF Stable, OnMedium
  <2>3. PICK i \in 1..file[s].synced : file[s].recs[i].seq = n
    BY <2>2
  <2>4. s \in Entries /\ s \in Segs
    BY <1>0, NumbersTyped DEF Entries
  <2>5. i \in 1..Len(file[s].recs)
    BY <1>0, <2>4, FileTyped DEF Disk, FileOK
  <2>6. QED
    BY <1>0, <2>3, <2>4, <2>5 DEF Process, Bounded, Below
<1>4. QED
  BY <1>2, <1>3

LEMMA NaturalsHere ==
  ASSUME TypeInv PROVE acked \in Nat /\ base \in Nat /\ durable \in Nat /\ next \in Nat /\ batchEnd \in Nat
  BY NumbersTyped, ConstantAssumption DEF TypeInv, TypeOK, GhostType

\* Steps after which the process is not up
LEMMA DurableDown ==
  ASSUME DurableInv, MediumKept, snapMaybe' \subseteq snapMaybe, acked' = acked, ~up',
         w' # "publish"
  PROVE  Durable'
<1>1. Stable(acked)'
  <2>1. PICK n : n = acked
    OBVIOUS
  <2>2. Stable(n)'
    BY <2>1, StableKept DEF DurableInv, Durable
  <2>3. QED
    BY <2>1, <2>2 DEF Stable, OnMedium
<1>2. QED
  BY <1>1 DEF Durable

\* Recovery ends: what it found counts as durable, and is not acknowledged for that.
LEMMA DurableUp ==
  ASSUME DurableInv, TypeInv', MediumKept, snapMaybe' \subseteq snapMaybe, acked' = acked,
         base' = durable', w' # "publish"
  PROVE  Durable'
<1>1. Stable(acked)'
  <2>1. PICK n : n = acked
    OBVIOUS
  <2>2. Stable(n)'
    BY <2>1, StableKept DEF DurableInv, Durable
  <2>3. QED
    BY <2>1, <2>2 DEF Stable, OnMedium
<1>2. durable' \in Nat
  BY ConstantAssumption DEF TypeInv, TypeOK, MemType
<1>3. QED
  BY <1>1, <1>2 DEF Durable

LEMMA DurableKept ==
  ASSUME DurableInv, MediumKept, snapMaybe' \subseteq snapMaybe, UNCHANGED <<acked, base, durable, up>>,
         w' = "publish" => w = "publish" /\ batchEnd' = batchEnd
  PROVE  Durable'
<1>1. PICK a, d, b : a = acked /\ d = durable /\ b = batchEnd
  OBVIOUS
<1>2. Stable(a) => Stable(a)'
  BY StableKept
<1>3. Stable(d) => Stable(d)'
  BY StableKept
<1>4. Stable(b) => Stable(b)'
  BY StableKept
<1>5. Stable(acked)' = Stable(a)' /\ (Stable(durable)' = Stable(d)')
  BY <1>1 DEF Stable, OnMedium
<1>6. w' = "publish" => (Stable(batchEnd)' = Stable(b)')
  BY <1>1 DEF Stable, OnMedium
<1>7. QED
  BY <1>1, <1>2, <1>3, <1>4, <1>5, <1>6 DEF DurableInv, Durable

LEMMA DurableRecovery == ASSUME DurableInv, RecoveryInv', Recovery PROVE Durable'
<1>0. RecoveryInv /\ TypeInv' /\ MediumKept /\ snapMaybe' \subseteq snapMaybe
  BY FilesRecovery DEF DurableInv, ContentInv, RecoveryInv, FilesKept
<1>1. acked' = acked
  BY DEF Recovery, Open, OpenFails, ReplayHeader, ReplayCovered, ReplayRecord, ReplayTail,
         RecoverAttach, RepairTruncate, RepairSync, Attach, RecoverFails, RecoverFresh, ghost
<1>2. ~up' => w' # "publish"
  BY DEF RecoveryInv, Process, Mode
<1>3. CASE RecoverAttach \/ RepairSync
  <2>1. /\ pc \in {"replay", "repair"} /\ base' = next /\ durable' = next /\ w' = w
    BY <1>3 DEF RecoverAttach, RepairSync, Replayed, Attach, Recovered, thr
  <2>2. w = "wait"
    BY <1>0, <2>1 DEF RecoveryInv, Process, Mode
  <2>3. QED
    BY <1>0, <1>1, <2>1, <2>2, DurableUp
<1>4. CASE ~(RecoverAttach \/ RepairSync)
  <2>1. pc \in {"down", "replay", "repair"} /\ (up' => up)
    BY <1>4 DEF Recovery, Open, OpenFails, ReplayHeader, ReplayCovered, ReplayRecord, ReplayTail,
         RepairTruncate, RecoverFails, RecoverFresh, Replayed, Lost
  <2>2. ~up
    BY <1>0, <2>1 DEF RecoveryInv, Process, Mode
  <2>3. QED
    BY <1>0, <1>1, <1>2, <2>1, <2>2, DurableDown
<1>5. QED
  BY <1>3, <1>4

LEMMA DurableCreateWal == ASSUME DurableInv, RecoveryInv', CreateWal PROVE Durable'
<1>0. RecoveryInv /\ TypeInv' /\ MediumKept /\ snapMaybe' \subseteq snapMaybe
  BY FilesCreateWal DEF DurableInv, ContentInv, RecoveryInv, FilesKept
<1>1. CASE CwOpenFail
  <2>1. acked' = acked /\ ~up' /\ w' # "publish"
    BY <1>1 DEF CwOpenFail, OpenFails, Lost, ghost
  <2>2. QED
    BY <1>0, <2>1, DurableDown
<1>2. CASE CwOpen \/ CwHeader \/ CwSync \/ CwPreallocFail
  <2>1. UNCHANGED <<acked, base, durable, up, w, batchEnd>>
    BY <1>2 DEF CwOpen, CwHeader, CwSync, CwPreallocFail, mem, thr, ghost
  <2>2. QED
    BY <1>0, <2>1, DurableKept
<1>3. CASE CwDirSync
  <2>1. /\ UNCHANGED <<acked, durable, next, w, batchEnd>> /\ pc = "cw_dirsync" /\ up' = TRUE
        /\ IF up THEN UNCHANGED <<hist, base>> ELSE Recovered
    BY <1>3 DEF CwDirSync, mem, thr
  <2>2. w = "wait" /\ durable = next
    BY <1>0, <2>1, InCreate DEF CwSteps
  <2>3. CASE up
    <3>1. up' = up
      <4>1. up \in BOOLEAN
        BY <1>0, Zenon DEF RecoveryInv, TypeInv, TypeOK, ControlType
      <4>2. QED
        BY <2>1, <2>3, <4>1
    <3>2. QED
      BY <1>0, <2>1, <2>2, <2>3, <3>1, DurableKept
  <2>4. CASE ~up
    BY <1>0, <2>1, <2>2, <2>4, DurableUp DEF Recovered
  <2>5. QED
    BY <2>3, <2>4
<1>4. QED
  BY <1>1, <1>2, <1>3 DEF CreateWal

\* wait() returns for a ticket of this process only, and durable_seq is on the medium once it
\* has moved.
LEMMA DurableWait == ASSUME DurableInv, NEW t \in 1..MaxSeq, Wait(t) PROVE Durable'
<1>0. TypeInv
  BY DEF DurableInv, ContentInv, RecoveryInv
<1>1. /\ up /\ base < t /\ t <= durable /\ acked' = t
      /\ UNCHANGED <<disk, base, durable, up, w, batchEnd>>
  BY DEF Wait, mem, thr
<1>2. durable > base /\ t \in Nat /\ durable \in Nat
  BY <1>0, <1>1, NaturalsHere, ConstantAssumption
<1>3. Stable(durable)
  BY <1>1, <1>2 DEF DurableInv, Durable
<1>4. Stable(t)
  BY <1>0, <1>1, <1>2, <1>3, StableLower
<1>5. UNCHANGED <<snapMaybe, file, wals, walsD>>
  BY <1>1 DEF disk
<1>6. QED
  BY <1>1, <1>3, <1>4, <1>5 DEF DurableInv, Durable, Stable, OnMedium

LEMMA DurableSubmit ==
  ASSUME DurableInv, NEW k \in Keys, NEW v \in Value, Submit(k, v) PROVE Durable'
<1>1. UNCHANGED <<disk, acked, base, durable, up, w, batchEnd>>
  BY DEF Submit, thr
<1>2. MediumKept /\ snapMaybe' = snapMaybe
  BY <1>1, SameDisk DEF DurableInv, ContentInv, RecoveryInv, FilesKept
<1>3. QED
  BY <1>1, <1>2, DurableKept

\* The active segment is synced: the batch is on the medium, behind whatever snapshot is left.
LEMMA SyncedBatch ==
  ASSUME RecoveryInv, FileSyncLinks, Alive, w # "dead", wfd # 0, UNCHANGED <<snapMaybe, wals>>,
         file' = [file EXCEPT ![wfd] = Synced(@)], walsD' = LinksAfterSync(wfd),
         NEW n \in Nat, n <= Frontier
  PROVE  Stable(n)'
<1>0. TypeInv /\ Disk /\ Process
  BY DEF RecoveryInv
<1>1. wfd \in wals /\ wfd \in Segs /\ file[wfd] \in WalFile
  BY <1>0, NumbersTyped, FileTyped DEF Process, Active
<1>2. file \in [Segs -> WalFile]
  BY <1>0 DEF TypeInv, TypeOK, DiskType
<1>3. file'[wfd].recs = file[wfd].recs /\ file'[wfd].synced = Len(file[wfd].recs)
  BY <1>1, <1>2, SyncedIs
<1>4. wfd \in wals' \cap walsD'
  BY <1>1 DEF LinksAfterSync
<1>5. Frontier \in Int
  BY <1>0, NumbersTyped DEF Frontier
<1>6. ASSUME NEW p \in snapMaybe, NEW m \in (p.seq + 1)..n
      PROVE  \E i \in 1..file'[wfd].synced : file'[wfd].recs[i].seq = m
  <2>1. m \in (p.seq + 1)..Frontier
    BY <1>0, <1>5, NumbersTyped
  <2>2. Has(file[wfd], m)
    BY <1>0, <2>1 DEF Process, Held
  <2>3. QED
    BY <1>3, <2>2 DEF Has
<1>7. \A p \in snapMaybe : p.st = "stable"
  BY <1>0 DEF Disk, SnapOK
<1>8. \A p \in snapMaybe' : p.st = "stable" /\ \A m \in (p.seq + 1)..n :
         \E s \in wals' \cap walsD' : \E i \in 1..file'[s].synced : file'[s].recs[i].seq = m
  BY <1>4, <1>6, <1>7
<1>9. QED
  BY <1>8 DEF Stable, OnMedium

LEMMA DurableWriter == ASSUME FileSyncLinks, DurableInv, Writer PROVE Durable'
<1>0. RecoveryInv /\ TypeInv /\ Process
  BY DEF DurableInv, ContentInv, RecoveryInv
<1>1. CASE WriterTake \/ \E torn \in BOOLEAN : WriterFail(torn)
  <2>1. UNCHANGED <<acked, base, durable, up>> /\ w' # "publish"
    BY <1>1 DEF WriterTake, WriterFail, mem, ghost
  <2>2. ~WriterWrite
    BY <1>1 DEF WriterTake, WriterFail, WriterWrite
  <2>3. MediumKept /\ snapMaybe' = snapMaybe
    BY <1>0, <2>2, FilesWriter DEF FilesKept
  <2>4. QED
    BY <2>1, <2>3, DurableKept
<1>2. CASE WriterWrite
  <2>1. UNCHANGED <<acked, base, durable, up, w, batchEnd, wals, walsD, snapMaybe>>
    BY <1>2 DEF WriterWrite, mem, ghost
  <2>2. PICK h \in Rec :
           /\ file'[wfd].recs = Append(file[wfd].recs, h) /\ file'[wfd].synced = file[wfd].synced
           /\ (\A u \in Segs \ {wfd} : file'[u] = file[u]) /\ wfd \in Segs /\ wfd \in wals
    BY <1>0, <1>2, WriterAppends
  <2>3. ASSUME NEW s \in wals \cap walsD, NEW i \in 1..file[s].synced
        PROVE  i \in 1..file'[s].synced /\ file'[s].recs[i] = file[s].recs[i]
    <3>1. s \in Segs /\ file[s].recs \in Seq(Rec) /\ file[s].synced \in Nat
          /\ file[s].synced <= Len(file[s].recs)
      BY <1>0, NumbersTyped, FileTyped DEF RecoveryInv, Disk, FileOK
    <3>2. CASE s = wfd
      BY <2>2, <3>1, <3>2
    <3>3. CASE s # wfd
      BY <2>2, <3>1, <3>3
    <3>4. QED
      BY <3>2, <3>3
  <2>4. MediumKept
    BY <2>1, <2>3 DEF MediumKept
  <2>5. QED
    BY <2>1, <2>4, DurableKept
<1>3. CASE WriterSync
  <2>1. /\ w = "write" /\ local = <<>> /\ wfd # 0 /\ w' = "publish"
        /\ file' = [file EXCEPT ![wfd] = Synced(@)] /\ walsD' = LinksAfterSync(wfd)
        /\ UNCHANGED <<snapMaybe, wals, acked, base, durable, up, batchEnd>>
    BY <1>3 DEF WriterSync, mem, ghost
  <2>2. Alive /\ batchEnd \in Nat
    BY <1>0, <2>1, InWriter
  <2>3. Frontier = batchEnd
    BY <2>1, <2>2 DEF Frontier
  <2>4. PICK b \in Nat : b = batchEnd
    BY <2>2
  <2>5. Stable(b)'
    BY <1>0, <2>1, <2>2, <2>3, <2>4, SyncedBatch
  <2>6. MediumKept
    BY <1>0, <2>1, <2>2, ActiveSync DEF FilesKept
  <2>7. PICK a, d : a = acked /\ d = durable
    OBVIOUS
  <2>8. Stable(a) => Stable(a)'
    BY <2>1, <2>6, StableKept
  <2>9. Stable(d) => Stable(d)'
    BY <2>1, <2>6, StableKept
  <2>10. Stable(acked)' = Stable(a)' /\ Stable(durable)' = Stable(d)' /\ Stable(batchEnd)' = Stable(b)'
    BY <2>1, <2>4, <2>7 DEF Stable, OnMedium
  <2>11. QED
    BY <2>1, <2>5, <2>7, <2>8, <2>9, <2>10 DEF DurableInv, Durable
<1>4. CASE WriterPublish
  <2>1. /\ w = "publish" /\ w' = "wait" /\ durable' = batchEnd
        /\ UNCHANGED <<snapMaybe, file, wals, walsD, acked, base, up>>
    BY <1>4 DEF WriterPublish, disk, ghost
  <2>2. Stable(batchEnd) /\ Stable(acked) /\ up /\ base <= durable
    BY <1>0, <2>1, InWriter DEF DurableInv, Durable
  <2>3. durable < batchEnd
    BY <1>0, <2>1, InWriter DEF Process, Batches
  <2>4. base <= batchEnd
    BY <1>0, <2>2, <2>3, NaturalsHere
  <2>5. QED
    BY <2>1, <2>2, <2>4 DEF Durable, Stable, OnMedium
<1>5. QED
  BY <1>1, <1>2, <1>3, <1>4 DEF Writer

LEMMA AckedBelow ==
  ASSUME DurableInv, Alive PROVE acked <= next
<1>1. acked \in Nat /\ Stable(acked) /\ RecoveryInv
  BY NaturalsHere DEF DurableInv, ContentInv, RecoveryInv, Durable
<1>2. PICK n \in Nat : n = acked
  BY <1>1
<1>3. Stable(n)
  BY <1>1, <1>2
<1>4. n <= next
  BY <1>1, <1>3, StableBounded
<1>5. QED
  BY <1>2, <1>4

\* Snapshots that reach next_seq cover everything acknowledged.
LEMMA NewestStable ==
  ASSUME NEW n \in Nat, NEW m \in Nat, n <= m, \A p \in snapMaybe' : p.st = "stable" /\ p.seq = m
  PROVE  Stable(n)'
  BY DEF Stable, OnMedium

LEMMA DurableCheckpoint == ASSUME DurableInv, Checkpoint PROVE Durable'
<1>0. RecoveryInv /\ TypeInv /\ Disk /\ Process
  BY DEF DurableInv, ContentInv, RecoveryInv
<1>1. UNCHANGED <<base, durable, next, up, w, batchEnd>> /\ (CkDone \/ acked' = acked)
  BY DEF Checkpoint, CkBegin, CkWrite, CkFsync, CkRename, CkDirSync, CkRotate, CkRemove, CkDone,
         CkFail, mem, thr, ghost
<1>2. ASSUME pc \in {"ck_rename", "ck_remove"}
      PROVE  /\ durable = next /\ w = "wait" /\ next \in Nat
             /\ acked \in Nat /\ acked <= next
  BY <1>0, <1>2, InCheckpoint, NaturalsHere, AckedBelow
<1>3. CASE CkRename
  <2>1. /\ pc = "ck_rename" /\ snapMaybe' = snapMaybe \cup {tmp}
        /\ UNCHANGED <<file, wals, walsD>>
    BY <1>3 DEF CkRename
  <2>2. tmp.seq = next /\ tmp.st = "stable"
    BY <1>0, <2>1 DEF Process, Quiet
  <2>3. ASSUME NEW n \in Nat, n <= next, Stable(n) PROVE Stable(n)'
    <3>1. \A m \in (next + 1)..n : FALSE
      BY <1>2, <2>1, <2>3
    <3>2. QED
      BY <2>1, <2>2, <2>3, <3>1 DEF Stable, OnMedium
  <2>4. PICK a, d : a = acked /\ d = durable
    OBVIOUS
  <2>5. Stable(a) => Stable(a)'
    BY <1>2, <2>1, <2>3, <2>4
  <2>6. Stable(d) => Stable(d)'
    BY <1>2, <2>1, <2>3, <2>4
  <2>7. Stable(acked)' = Stable(a)' /\ Stable(durable)' = Stable(d)'
    BY <1>1, <1>3, <2>4 DEF Stable, OnMedium, CkRename, CkDone
  <2>8. w' # "publish"
    BY <1>1, <1>2, <2>1
  <2>9. QED
    BY <1>1, <2>4, <2>5, <2>6, <2>7, <2>8 DEF DurableInv, Durable
<1>4. ASSUME (\E s \in Segs : CkRemove(s)) \/ CkDone PROVE Durable'
  <2>1. pc = "ck_remove" /\ snapMaybe' \subseteq snapMaybe
    <3>1. CASE CkDone
      <4>1. DirSync /\ UNCHANGED <<snap, file, wals>> /\ pc = "ck_remove"
        BY <3>1 DEF CkDone
      <4>2. QED
        BY <1>0, <4>1, DiskDirSync
    <3>2. CASE \E s \in Segs : CkRemove(s)
      BY <3>2 DEF CkRemove
    <3>3. QED
      BY <1>4, <3>1, <3>2
  <2>2. \A p \in snapMaybe' : p.st = "stable" /\ p.seq = next
    BY <1>0, <2>1 DEF Disk, SnapOK, Process, Quiet
  <2>3. acked' \in Nat /\ acked' <= next
    BY <1>1, <1>2, <2>1 DEF CkDone, Max2
  <2>4. PICK a, d : a = acked' /\ d = durable'
    OBVIOUS
  <2>5. Stable(a)'
    BY <1>2, <2>1, <2>2, <2>3, <2>4, NewestStable
  <2>6. Stable(d)'
    BY <1>1, <1>2, <2>1, <2>2, <2>4, NewestStable
  <2>7. Stable(acked)' /\ Stable(durable)'
    BY <2>4, <2>5, <2>6 DEF Stable, OnMedium
  <2>8. w' # "publish"
    BY <1>1, <1>2, <2>1
  <2>9. QED
    BY <1>1, <2>7, <2>8 DEF DurableInv, Durable
<1>5. CASE ~CkRename /\ ~CkDone /\ ~\E s \in Segs : CkRemove(s)
  BY <1>0, <1>1, <1>5, FilesCheckpoint, DurableKept
<1>6. QED
  BY <1>3, <1>4, <1>5

\* A clean close acknowledges everything, what only recovery had found included: the last
\* fdatasync covers the whole active segment.
LEMMA DurableClose == ASSUME FileSyncLinks, DurableInv, Close PROVE Durable'
<1>0. RecoveryInv /\ TypeInv /\ Disk /\ Process /\ MediumKept /\ snapMaybe' = snapMaybe
  BY FilesClose DEF DurableInv, ContentInv, RecoveryInv, FilesKept
<1>1. CASE CloseBegin
  <2>1. UNCHANGED <<acked, base, durable, up, w, batchEnd>>
    BY <1>1 DEF CloseBegin, mem, thr, ghost
  <2>2. QED
    BY <1>0, <2>1, DurableKept
<1>2. CASE CloseError
  <2>1. acked' = acked /\ ~up' /\ w' # "publish"
    BY <1>2 DEF CloseError, Lost, ghost
  <2>2. QED
    BY <1>0, <2>1, DurableDown
<1>3. CASE CloseClean
  <2>1. /\ pc = "closing" /\ durable >= next /\ w = "wait" /\ queue = <<>>
        /\ file' = IF wfd = 0 THEN file ELSE [file EXCEPT ![wfd] = Synced(@)]
        /\ walsD' = IF wfd = 0 THEN walsD ELSE LinksAfterSync(wfd)
        /\ acked' = Max2(acked, next) /\ ~up' /\ w' = "wait" /\ UNCHANGED wals
    BY <1>3 DEF CloseClean, Lost
  <2>2. Alive
    BY <1>0, <2>1, InProcess DEF CwSteps
  <2>3. durable = next /\ next \in Nat /\ acked \in Nat /\ acked <= next
    BY <1>0, <2>1, <2>2, Drained, NaturalsHere, AckedBelow
  <2>4. acked' = next
    BY <2>1, <2>3 DEF Max2
  <2>5. PICK n \in Nat : n = next
    BY <2>3
  <2>6. Stable(n)'
    <3>1. CASE wfd = 0
      <4>1. \A p \in snapMaybe : p.st = "stable" /\ p.seq \in Nat /\ n <= p.seq
        BY <1>0, <2>2, <2>3, <2>5, <3>1, NumbersTyped DEF Disk, SnapOK, Process, NoActive
      <4>2. Stable(n)
        BY <4>1, StableCovered
      <4>3. QED
        BY <1>0, <4>2, StableKept
    <3>2. CASE wfd # 0
      <4>1. Frontier = n
        BY <2>1, <2>3, <2>5 DEF Frontier
      <4>2. file' = [file EXCEPT ![wfd] = Synced(@)] /\ walsD' = LinksAfterSync(wfd) /\ w # "dead"
            /\ n <= Frontier
        BY <2>1, <3>2, <4>1
      <4>3. QED
        BY <1>0, <2>1, <2>2, <3>2, <4>2, SyncedBatch
    <3>3. QED
      BY <3>1, <3>2
  <2>7. QED
    BY <2>1, <2>4, <2>5, <2>6 DEF Durable, Stable, OnMedium
<1>4. QED
  BY <1>1, <1>2, <1>3 DEF Close

LEMMA DurableCrash == ASSUME DurableInv, Crash PROVE Durable'
<1>1. MediumKept /\ snapMaybe' \subseteq snapMaybe
  BY FilesPowerLoss, FilesProcessCrash DEF DurableInv, ContentInv, Crash, FilesKept
<1>2. acked' = acked /\ ~up' /\ w' # "publish"
  BY DEF Crash, PowerLoss, ProcessCrash, Lost, ghost
<1>3. QED
  BY <1>1, <1>2, DurableDown

LEMMA DurableStep == FileSyncLinks /\ DurableInv /\ [Next]_vars => DurableInv'
<1> SUFFICES ASSUME FileSyncLinks, DurableInv, [Next]_vars PROVE DurableInv'
  OBVIOUS
<1>1. ContentInv' /\ RecoveryInv'
  BY ContentStep DEF DurableInv, ContentInv
<1>2. Durable'
  <2>1. CASE UNCHANGED vars
    <3>1. UNCHANGED <<snapMaybe, file, wals, walsD, acked, base, durable, up, w, batchEnd>>
      BY <2>1 DEF vars, disk, mem, thr, ghost
    <3>2. QED
      BY <3>1 DEF DurableInv, Durable, Stable, OnMedium
  <2>2. QED
    BY <1>1, <2>1, DurableRecovery, DurableCreateWal, DurableWait, DurableSubmit, DurableWriter,
       DurableCheckpoint, DurableClose, DurableCrash DEF Next
<1>3. QED
  BY <1>1, <1>2 DEF DurableInv

LEMMA DurableInit == Init => DurableInv
<1> SUFFICES ASSUME Init PROVE DurableInv
  OBVIOUS
<1>1. snapMaybe = {NoSnap} /\ acked = 0 /\ ~up /\ w = "wait" /\ NoSnap.st = "stable" /\ NoSnap.seq = 0
  BY DEF Init, NoSnap
<1>2. Stable(acked)
  BY <1>1 DEF Stable, OnMedium
<1>3. QED
  BY <1>1, <1>2, ContentInit DEF DurableInv, Durable

\* AckedStable always holds where syncing a file makes its directory entry durable: whatever a
\* wait, a checkpoint or a close acknowledged would survive a power loss at any moment, behind
\* whichever snapshot and directory entries it leaves.
THEOREM AcknowledgedIsStable == FileSyncLinks => (Spec => []AckedStable)
<1> SUFFICES ASSUME FileSyncLinks PROVE Spec => []AckedStable
  OBVIOUS
<1>1. DurableInv /\ [Next]_vars => DurableInv'
  BY DurableStep
<1>2. DurableInv => AckedStable
  BY DEF DurableInv, Durable, AckedStable
<1>3. QED
  BY <1>1, <1>2, DurableInit, PTL DEF Spec

\* ExactPrefix always holds there: recovery returns the map after some prefix of the accepted
\* operations, the acknowledged ones among them; reads see exactly the accepted operations; and
\* no record on disk contradicts the history.
THEOREM RecoveredIsPrefix == FileSyncLinks => (Spec => []ExactPrefix)
<1> SUFFICES ASSUME FileSyncLinks PROVE Spec => []ExactPrefix
  OBVIOUS
<1>1. DurableInv /\ [Next]_vars => DurableInv'
  BY DurableStep
<1>2. DurableInv => ExactPrefix
  <2> SUFFICES ASSUME DurableInv PROVE ExactPrefix
    OBVIOUS
  <2>1. up => acked <= next
    BY AckedBelow DEF Alive
  <2>2. QED
    BY <2>1 DEF DurableInv, ContentInv, Content, IndexFits, RecordsFit, Entries, Fits, ExactPrefix
<1>3. QED
  BY <1>1, <1>2, DurableInit, PTL DEF Spec

-----------------------------------------------------------------------------
(* The refinement                                                          *)

\* An acknowledgement never runs ahead of the accepted operations.
AckedLow == up => acked <= next

LEMMA AckedIsLow == DurableInv => AckedLow
  BY AckedBelow DEF Alive, AckedLow

LEMMA RefineStutter ==
  ASSUME UNCHANGED <<hist, acked>>, up' = up, up => index' = index
  PROVE  [Store!Next]_(Store!vars)
  BY DEF Store!vars

LEMMA RefineStop ==
  ASSUME Lost, hist' = hist, acked' = acked, up \in BOOLEAN
  PROVE  [Store!Next]_(Store!vars)
<1>1. up' = FALSE
  BY DEF Lost
<1>2. CASE up
  <2>1. up = TRUE
    BY <1>2, Zenon
  <2>2. Store!Stop
    BY <1>1, <1>2 DEF Store!Stop, Store!Empty, Empty
  <2>3. QED
    BY <2>2 DEF Store!Next
<1>3. CASE ~up
  <2>1. up' = up
    BY <1>1, <1>3, Zenon
  <2>2. QED
    BY <1>3, <2>1, RefineStutter
<1>4. QED
  BY <1>2, <1>3

\* Recovery is over: the store comes back with the operations that were found.
LEMMA RefineReopen ==
  ASSUME ContentInv, AckedLow', Recovered, ~up, up \in BOOLEAN, up' = TRUE, pc # "down",
         UNCHANGED <<index, next, acked>>
  PROVE  [Store!Next]_(Store!vars)
<1>1. /\ TypeInv /\ next \in Nat /\ acked \in Nat /\ acked <= next
      /\ next < Len(hist) /\ index = hist[next + 1]
  BY NaturalsHere DEF ContentInv, RecoveryInv, Content, IndexFits, AckedLow
<1>2. hist \in Seq(Map) /\ Len(hist) \in Nat
  BY <1>1 DEF TypeInv, TypeOK, GhostType
<1>3. hist' = SubSeq(hist, 1, next + 1)
  BY <1>1, <1>2 DEF Recovered, Cut
<1>4. next \in acked..(Len(hist) - 1)
  BY <1>1, <1>2
<1>5. up = FALSE
  BY Zenon
<1>6. Store!Reopen
  BY <1>1, <1>3, <1>4, <1>5 DEF Store!Reopen
<1>7. QED
  BY <1>6 DEF Store!Next

LEMMA RefineRecovery ==
  ASSUME DurableInv, AckedLow', Recovery PROVE [Store!Next]_(Store!vars)
<1>0. ContentInv /\ RecoveryInv /\ Process /\ up \in BOOLEAN
  BY Zenon DEF DurableInv, ContentInv, RecoveryInv, TypeInv, TypeOK, ControlType
<1>1. ASSUME NEW why, OpenFails(why) PROVE [Store!Next]_(Store!vars)
  BY <1>0, <1>1, RefineStop DEF OpenFails, ghost
<1>2. CASE RecoverAttach \/ RepairSync
  <2>1. /\ Recovered /\ up' = TRUE /\ pc \in {"replay", "repair"} /\ UNCHANGED <<index, next, acked>>
    BY <1>2 DEF RecoverAttach, RepairSync, Replayed, Attach
  <2>2. ~up
    BY <1>0, <2>1 DEF Process, Mode
  <2>3. QED
    BY <1>0, <2>1, <2>2, RefineReopen
<1>3. ASSUME ~RecoverAttach, ~RepairSync, ~\E why : OpenFails(why)
      PROVE  [Store!Next]_(Store!vars)
  <2>1. pc \in {"down", "replay", "repair"} /\ UNCHANGED <<hist, acked, up>>
    BY <1>3 DEF Recovery, Open, ReplayHeader, ReplayCovered, ReplayRecord, ReplayTail,
                RecoverFails, RecoverFresh, RepairTruncate, Replayed, ghost
  <2>2. ~up
    BY <1>0, <2>1 DEF Process, Mode
  <2>3. QED
    BY <2>1, <2>2, RefineStutter
<1>4. QED
  BY <1>1, <1>2, <1>3

LEMMA RefineCreateWal ==
  ASSUME DurableInv, AckedLow', CreateWal PROVE [Store!Next]_(Store!vars)
<1>0. ContentInv /\ RecoveryInv /\ up \in BOOLEAN
  BY Zenon DEF DurableInv, ContentInv, RecoveryInv, TypeInv, TypeOK, ControlType
<1>1. CASE CwOpenFail
  BY <1>0, <1>1, RefineStop DEF CwOpenFail, OpenFails, ghost
<1>2. CASE CwOpen \/ CwHeader \/ CwSync \/ CwPreallocFail
  BY <1>2, RefineStutter DEF CwOpen, CwHeader, CwSync, CwPreallocFail, mem, ghost
<1>3. CASE CwDirSync
  <2>1. /\ pc = "cw_dirsync" /\ UNCHANGED <<index, next, acked>> /\ up' = TRUE
        /\ IF up THEN UNCHANGED <<hist, base>> ELSE Recovered
    BY <1>3 DEF CwDirSync, mem
  <2>2. CASE up
    <3>1. up' = up
      BY <1>0, <2>1, <2>2, Zenon
    <3>2. QED
      BY <2>1, <2>2, <3>1, RefineStutter
  <2>3. CASE ~up
    BY <1>0, <2>1, <2>3, RefineReopen
  <2>4. QED
    BY <2>2, <2>3
<1>4. QED
  BY <1>1, <1>2, <1>3 DEF CreateWal

\* What a running process does is acceptance, acknowledgement, or invisible.
LEMMA RefineSubmit ==
  ASSUME DurableInv, NEW k \in Keys, NEW v \in Value, Submit(k, v)
  PROVE  [Store!Next]_(Store!vars)
<1>0. ContentInv /\ RecoveryInv /\ TypeInv /\ up \in BOOLEAN
  BY Zenon DEF DurableInv, ContentInv, RecoveryInv, TypeInv, TypeOK, ControlType
<1>1. up /\ pc = "idle"
  BY <1>0, InProcess DEF Submit, CwSteps
<1>2. /\ up' = up /\ acked' = acked /\ hist' = Append(hist, index')
      /\ index' = Apply(index, [seq |-> next + 1, key |-> k, val |-> v])
  BY <1>0, ContentSubmit DEF Submit
<1>3. index \in [Keys -> Vals \cup {Absent}]
  BY <1>0 DEF TypeInv, TypeOK, MemType, Map, Value
<1>4. PICK new : new = [index EXCEPT ![k] = v]
  OBVIOUS
<1>5. new \in [Keys -> Vals \cup {Absent}] /\ new = [j \in Keys |-> IF j \in Keys THEN new[j] ELSE index[j]]
  BY <1>3, <1>4 DEF Value
<1>6. index' = new
  BY <1>2, <1>4 DEF Apply
<1>7. Store!Accept(Keys, new)
  BY <1>1, <1>2, <1>5, <1>6 DEF Store!Accept
<1>8. QED
  BY <1>5, <1>7 DEF Store!Next

LEMMA RefineAcknowledge ==
  ASSUME ContentInv, up, AckedLow', UNCHANGED <<hist, index, next>>, up' = up, acked' \in Nat, acked <= acked'
  PROVE  [Store!Next]_(Store!vars)
<1>1. /\ TypeInv /\ next \in Nat /\ acked \in Nat /\ acked' <= next /\ Len(hist) = next + 1
  BY NaturalsHere DEF ContentInv, RecoveryInv, Content, IndexFits, AckedLow
<1>2. acked' \in acked..(Len(hist) - 1)
  BY <1>1
<1>3. Store!Acknowledge
  BY <1>2 DEF Store!Acknowledge
<1>4. QED
  BY <1>3 DEF Store!Next

LEMMA RefineCheckpoint ==
  ASSUME DurableInv, AckedLow', Checkpoint PROVE [Store!Next]_(Store!vars)
<1>0. ContentInv /\ RecoveryInv /\ TypeInv /\ acked \in Nat /\ next \in Nat
  BY NaturalsHere DEF DurableInv, ContentInv, RecoveryInv
<1>1. CASE CkDone
  <2>1. /\ pc = "ck_remove" /\ acked' = Max2(acked, next) /\ UNCHANGED <<hist, index, next, up>>
    BY <1>1 DEF CkDone, mem
  <2>2. up
    BY <1>0, <2>1, InProcess DEF CwSteps
  <2>3. acked' \in Nat /\ acked <= acked'
    BY <1>0, <2>1 DEF Max2
  <2>4. QED
    BY <1>0, <2>1, <2>2, <2>3, RefineAcknowledge
<1>2. CASE ~CkDone
  <2>1. UNCHANGED <<hist, acked, index, up>>
    BY <1>2 DEF Checkpoint, CkBegin, CkWrite, CkFsync, CkRename, CkDirSync, CkRotate, CkRemove,
                CkFail, mem, ghost
  <2>2. QED
    BY <2>1, RefineStutter
<1>3. QED
  BY <1>1, <1>2

LEMMA RefineClose ==
  ASSUME DurableInv, Close PROVE [Store!Next]_(Store!vars)
<1>0. ContentInv /\ RecoveryInv /\ TypeInv /\ Content /\ acked \in Nat /\ next \in Nat /\ up \in BOOLEAN
  <2>1. up \in BOOLEAN
    BY Zenon DEF DurableInv, ContentInv, RecoveryInv, TypeInv, TypeOK, ControlType
  <2>2. QED
    BY <2>1, NaturalsHere DEF DurableInv, ContentInv, RecoveryInv
<1>1. CASE CloseBegin
  BY <1>1, RefineStutter DEF CloseBegin, mem, ghost
<1>2. CASE CloseError
  BY <1>0, <1>2, RefineStop DEF CloseError, ghost
<1>3. CASE CloseClean
  <2>1. /\ pc = "closing" /\ acked' = Max2(acked, next) /\ up' = FALSE /\ hist' = hist
    BY <1>3 DEF CloseClean, Lost
  <2>2. up
    BY <1>0, <2>1, InProcess DEF CwSteps
  <2>3. acked <= next /\ Len(hist) = next + 1
    BY <1>0, <2>2, AckedBelow DEF Alive, Content, IndexFits
  <2>4. acked' \in {acked, Len(hist) - 1}
    BY <1>0, <2>1, <2>3 DEF Max2
  <2>5. Store!Stop
    BY <2>1, <2>2, <2>4 DEF Store!Stop, Store!Empty, Empty
  <2>6. QED
    BY <2>5 DEF Store!Next
<1>4. QED
  BY <1>1, <1>2, <1>3 DEF Close

LEMMA RefineStep ==
  ASSUME DurableInv, AckedLow', [Next]_vars PROVE [Store!Next]_(Store!vars)
<1>0. ContentInv /\ RecoveryInv /\ TypeInv /\ up \in BOOLEAN
  BY Zenon DEF DurableInv, ContentInv, RecoveryInv, TypeInv, TypeOK, ControlType
<1>1. CASE UNCHANGED vars
  BY <1>1, RefineStutter DEF vars, mem, ghost
<1>2. CASE Writer
  <2>1. UNCHANGED <<hist, acked, index, up>>
    BY <1>2 DEF Writer, WriterTake, WriterWrite, WriterSync, WriterPublish, WriterFail, mem, ghost
  <2>2. QED
    BY <2>1, RefineStutter
<1>3. CASE Crash
  BY <1>0, <1>3, RefineStop DEF Crash, PowerLoss, ProcessCrash, ghost
<1>4. ASSUME NEW t \in 1..MaxSeq, Wait(t) PROVE [Store!Next]_(Store!vars)
  <2>1. /\ up /\ acked < t /\ acked' = t /\ UNCHANGED <<hist, index, next, up>>
    BY <1>4 DEF Wait, mem
  <2>2. acked' \in Nat /\ acked <= acked'
    BY <1>0, <2>1, NaturalsHere
  <2>3. QED
    BY <1>0, <2>1, <2>2, RefineAcknowledge
<1>5. QED
  BY <1>1, <1>2, <1>3, <1>4, RefineRecovery, RefineCreateWal, RefineCheckpoint, RefineClose,
     RefineSubmit DEF Next

\* DatabaseV1 implements DurableStore where syncing a file makes its directory entry durable:
\* clients see operations accepted one after the other and acknowledged in order, checkpoints
\* and the log are invisible, and every open comes back with a prefix of the accepted
\* operations that has all acknowledged ones.
THEOREM ImplementsStore == FileSyncLinks => (Spec => RefinesStore)
<1> SUFFICES ASSUME FileSyncLinks PROVE Spec => RefinesStore
  OBVIOUS
<1>1. Init => Store!Init
  BY DEF Init, Store!Init, Store!Empty, Empty
<1>2. DurableInv /\ [Next]_vars => DurableInv'
  BY DurableStep
<1>3. DurableInv => AckedLow
  BY AckedIsLow
<1>4. DurableInv /\ AckedLow' /\ [Next]_vars => [Store!Next]_(Store!vars)
  BY RefineStep
<1>5. QED
  BY <1>1, <1>2, <1>3, <1>4, DurableInit, PTL DEF Spec, RefinesStore, Store!Spec
=============================================================================
