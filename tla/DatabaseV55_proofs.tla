-------------------------- MODULE DatabaseV55_proofs --------------------------
(***************************************************************************)
(* What TLAPS proves about the api_v55 engine, for every set of threads,     *)
(* batch size and bound: the frontier durable_seq is exact, only a race      *)
(* with close() leaves a thread behind, recovery reads back everything       *)
(* acknowledged, and the one error it can meet is a segment without header.  *)
(***************************************************************************)
EXTENDS DatabaseV55, SequenceTheorems, WellFoundedInduction, TLAPS

-----------------------------------------------------------------------------
(* The inductive invariant                                                 *)

Newest == wals[LastSeg]

\* The last sequence on disk, the operation that a sequence on disk has, and all of them.
Reach == IF wals = <<>> THEN snap.seq ELSE Newest.first + Len(Newest.recs) - 1
DiskId(n) == IF n <= snap.seq THEN snap.kv[n] ELSE Newest.recs[n + 1 - Newest.first].id
OnDisk == [n \in 1..Reach |-> DiskId(n)]

Shape == /\ wals = <<>> \/ DOMAIN wals # {}
         /\ snap.seq = Len(snap.kv)

\* Every segment but the newest is whole and has nothing that the snapshot has not.
Older == \A s \in DOMAIN wals : s # LastSeg =>
    /\ wals[s].hdr /\ ~wals[s].torn
    /\ \A i \in 1..Len(wals[s].recs) : wals[s].recs[i].seq <= snap.seq

\* The newest one continues the snapshot without a gap.
Latest == wals # <<>> =>
    /\ Newest.first <= snap.seq + 1 /\ snap.seq <= Reach
    /\ \A i \in 1..Len(Newest.recs) : Newest.recs[i].seq = Newest.first + i - 1
    /\ ~Newest.hdr => Newest.recs = <<>>

Disk == Shape /\ Older /\ Latest /\ Reach <= ids

AckedOnDisk == Len(acked) <= Reach /\ \A i \in 1..Len(acked) : acked[i] = DiskId(i)

Sleeping == {"wait", "to_sleep", "asleep"}
Rotating == {"ck_rotate", "ck_header", "ck_remove"}
Checkpointing(t) == \/ pc[t] \in Rotating \cup {"ck_snapshot"}
                    \/ call[t] = "checkpoint" /\ pc[t] \in Sleeping

\* Without a process, and in the constructor, there are no calls and nothing is pending.
Quiet == up # "up" =>
    /\ \A t \in Threads : pc[t] = "idle" /\ ticket[t] = 0
    /\ wpc = "take" /\ queue = <<>> /\ local = <<>> /\ stop = FALSE
    /\ wfd = 0 /\ seg = 0 /\ next = durable

Creating == up = "create" =>
    /\ DOMAIN wals = {1} /\ snap.seq = next /\ wals[1].recs = <<>>

\* The disk has the operations up to durable_seq, and the batch once it is written.
Written == up # "down" =>
    /\ Reach = durable + (IF wpc = "publish" THEN Len(local) ELSE 0)
    /\ \A n \in 1..Reach : kv[n] = DiskId(n)
    /\ wals # <<>> /\ \A s \in DOMAIN wals : ~wals[s].torn

\* The open segment is the newest, unless a checkpoint has begun the next one.
Active == up = "up" =>
    /\ seg \in DOMAIN wals /\ wals[seg].hdr /\ wfd \in {0, seg}
    /\ LastSeg \in {seg, seg + 1} /\ (wfd # 0 => LastSeg = seg)
    /\ LastSeg # seg => Newest.recs = <<>>

\* submit_mu is held where a ticket has to stay the newest sequence.
SubmitHeld == \A t \in Threads :
    pc[t] = "push" \/ Checkpointing(t) => submitMu = t /\ ticket[t] = next

CheckpointSteps == \A t \in Threads :
    /\ ticket[t] <= next
    /\ pc[t] \in Rotating \cup {"ck_snapshot"} => durable = next
    /\ pc[t] \in Rotating => snap.seq = next
    /\ pc[t] = "ck_header" => wfd = 0 /\ LastSeg = seg + 1
    /\ pc[t] = "ck_remove" => wfd # 0

WriterPhase ==
    /\ wpc \in {"io", "publish"} => local # <<>>
    /\ wpc \notin {"io", "publish"} => local = <<>>
    /\ wpc = "done" => stop /\ \A i \in 1..Len(queue) : queue[i].seq \in late

Numbering == next = Len(kv) /\ next <= ids

\* The batch and the queue continue durable_seq, and what a submit has to queue follows.
Pushing == \E t \in Threads : pc[t] = "push"
Continues(q, from) == \A i \in 1..Len(q) : q[i].seq = from + i /\ q[i].id = kv[from + i]
Pending ==
    /\ Continues(local, durable) /\ Continues(queue, durable + Len(local))
    /\ next = durable + Len(local) + Len(queue) + (IF Pushing THEN 1 ELSE 0)

Process == Quiet /\ Creating /\ Written /\ Active
Callers == SubmitHeld /\ CheckpointSteps
IInv == /\ TypeOK /\ Disk /\ AckedOnDisk /\ Process
        /\ Callers /\ WriterPhase /\ Numbering /\ Pending

-----------------------------------------------------------------------------
(* Files                                                                   *)

LEMMA WalsType ==
  ASSUME DiskType, NEW s \in DOMAIN wals
  PROVE  /\ s \in Segs /\ s \in Nat /\ wals[s] \in WalFile
         /\ wals[s].hdr \in BOOLEAN /\ wals[s].torn \in BOOLEAN
         /\ wals[s].first \in 1..(MaxOps + 1) /\ wals[s].first \in Nat
         /\ wals[s].recs \in Seq(Rec) /\ Len(wals[s].recs) \in Nat
         /\ \A i \in 1..Len(wals[s].recs) : /\ wals[s].recs[i].seq \in Nat
                                            /\ wals[s].recs[i].id \in Ops
<1>1. s \in Segs /\ wals[s] \in WalFile
  BY DEF DiskType
<1>2. s \in Nat
  BY <1>1, V55Assumption DEF Segs
<1>3. /\ wals[s].hdr \in BOOLEAN /\ wals[s].torn \in BOOLEAN
      /\ wals[s].first \in 1..(MaxOps + 1) /\ wals[s].recs \in Seq(Rec)
  BY <1>1 DEF WalFile
<1>4. Len(wals[s].recs) \in Nat /\ \A i \in 1..Len(wals[s].recs) : wals[s].recs[i] \in Rec
  BY <1>3, LenProperties, ElementOfSeq
<1>5. \A r \in Rec : r.seq \in Nat /\ r.id \in Ops
  BY V55Assumption DEF Rec, Ops
<1>6. wals[s].first \in Nat
  BY <1>3, V55Assumption
<1>7. QED
  BY <1>1, <1>2, <1>3, <1>4, <1>5, <1>6

\* A set of segment ids has a last one.
LEMMA LastOf ==
  ASSUME NEW D, D \subseteq Nat, NEW s \in D, \A t \in D : t <= s
  PROVE  (CHOOSE u \in D : \A t \in D : t <= u) = s
<1> DEFINE u == CHOOSE u \in D : \A t \in D : t <= u
<1>1. u \in D /\ \A t \in D : t <= u
  OBVIOUS
<1>2. u <= s /\ s <= u /\ u \in Nat /\ s \in Nat
  BY <1>1
<1>3. QED
  BY <1>2

LEMMA LastExists ==
  ASSUME NEW m \in Nat, NEW D, D \subseteq 1..m, D # {}
  PROVE  \E s \in D : \A t \in D : t <= s
<1> DEFINE U == {n \in Nat : \A t \in D : t <= n}
<1>1. U \subseteq Nat /\ U # {}
  <2>1. m \in U
    OBVIOUS
  <2>2. QED
    BY <2>1
<1>2. PICK n \in U : \A k \in U : ~(<<k, n>> \in OpToRel(<, Nat))
  BY <1>1, NatLessThanWellFounded, WFMin
<1>3. SUFFICES ASSUME n \notin D PROVE FALSE
  OBVIOUS
<1>4. PICK d \in D : TRUE
  OBVIOUS
<1>5. n \in Nat /\ n - 1 \in Nat /\ n - 1 < n
  <2>1. d \in Nat /\ d >= 1 /\ d <= n /\ n \in Nat
    BY <1>4
  <2>2. QED
    BY <2>1
<1>6. n - 1 \in U
  <2>1. \A t \in D : t \in Nat /\ t <= n /\ t # n
    BY <1>3
  <2>2. QED
    BY <1>5, <2>1
<1>7. <<n - 1, n>> \in OpToRel(<, Nat)
  BY <1>5, Zenon DEF OpToRel
<1>8. QED
  BY <1>2, <1>6, <1>7

LEMMA LastSegIs ==
  ASSUME DiskType, NEW s \in DOMAIN wals, \A t \in DOMAIN wals : t <= s
  PROVE  LastSeg = s
<1>1. DOMAIN wals \subseteq Nat
  BY WalsType
<1>2. (CHOOSE u \in DOMAIN wals : \A t \in DOMAIN wals : t <= u) = s
  BY ONLY <1>1, LastOf, s \in DOMAIN wals, \A t \in DOMAIN wals : t <= s
<1>3. QED
  BY <1>2 DEF LastSeg

LEMMA LastSegExists ==
  ASSUME DiskType, Shape, wals # <<>>
  PROVE  /\ LastSeg \in DOMAIN wals /\ LastSeg \in Segs /\ LastSeg \in Nat
         /\ \A t \in DOMAIN wals : t <= LastSeg
<1>1. MaxSeg \in Nat /\ DOMAIN wals \subseteq 1..MaxSeg /\ DOMAIN wals # {}
  BY V55Assumption DEF DiskType, Shape, Segs
<1>2. PICK s \in DOMAIN wals : \A t \in DOMAIN wals : t <= s
  BY ONLY <1>1, LastExists
<1>3. LastSeg = s
  BY <1>2, LastSegIs
<1>4. QED
  BY <1>2, <1>3, WalsType

LEMMA PutIs ==
  ASSUME DiskType, NEW s \in Segs, NEW f \in WalFile
  PROVE  /\ DOMAIN Put(s, f) = DOMAIN wals \cup {s} /\ DOMAIN Put(s, f) \subseteq Segs
         /\ Put(s, f)[s] = f /\ \A t \in DOMAIN wals \ {s} : Put(s, f)[t] = wals[t]
         /\ \A t \in DOMAIN Put(s, f) : Put(s, f)[t] \in WalFile
         /\ Put(s, f) # <<>>
<1>1. /\ DOMAIN Put(s, f) = DOMAIN wals \cup {s}
      /\ Put(s, f)[s] = f /\ \A t \in DOMAIN wals \ {s} : Put(s, f)[t] = wals[t]
  BY DEF Put
<1>2. DOMAIN wals \subseteq Segs /\ \A t \in DOMAIN wals : wals[t] \in WalFile
  BY DEF DiskType
<1>3. DOMAIN Put(s, f) # {} /\ DOMAIN <<>> = {}
  BY <1>1
<1>4. \A t \in DOMAIN Put(s, f) : Put(s, f)[t] \in WalFile
  BY <1>1, <1>2
<1>5. QED
  BY <1>1, <1>2, <1>3, <1>4

-----------------------------------------------------------------------------
(* What recover() reads                                                    *)

\* Induction on the numbers up to n, for a set
LEMMA Upto ==
  ASSUME NEW n \in Nat, NEW P, 0 \in P, \A i \in 1..n : i - 1 \in P => i \in P
  PROVE  0..n \subseteq P
<1> DEFINE Bad == (0..n) \ P
<1>1. SUFFICES ASSUME Bad # {} PROVE FALSE
  OBVIOUS
<1>2. PICK e \in Bad : \A f \in Bad : ~(<<f, e>> \in OpToRel(<, Nat))
  <2>1. Bad \subseteq Nat
    OBVIOUS
  <2>2. QED
    BY <1>1, <2>1, NatLessThanWellFounded, WFMin
<1>3. e \in 1..n
  OBVIOUS
<1>4. e - 1 \notin Bad
  <2>1. ASSUME e - 1 \in Bad PROVE FALSE
    <3>1. e - 1 < e /\ e - 1 \in Nat /\ e \in Nat
      BY <1>3
    <3>2. PICK f \in Nat : f = e - 1
      BY <3>1
    <3>3. f < e /\ f \in Bad
      BY <2>1, <3>1, <3>2
    <3>4. <<f, e>> \in OpToRel(<, Nat)
      BY <3>1, <3>3, Zenon DEF OpToRel
    <3>5. QED
      BY <1>2, <3>3, <3>4
  <2>2. QED
    BY <2>1
<1>5. QED
  BY <1>3, <1>4

LEMMA AppendIs ==
  ASSUME NEW T, NEW s \in Seq(T), NEW e
  PROVE  /\ Len(Append(s, e)) = Len(s) + 1 /\ DOMAIN Append(s, e) = 1..(Len(s) + 1)
         /\ Append(s, e)[Len(s) + 1] = e
         /\ \A i \in 1..Len(s) : Append(s, e)[i] = s[i]
         /\ e \in T => Append(s, e) \in Seq(T)
<1>1. PICK U : U = T \cup {e}
  OBVIOUS
<1>2. s \in Seq(U) /\ e \in U
  BY <1>1, SeqMonotonic
<1>3. QED
  BY <1>2, AppendProperties, LenProperties

LEMMA TuplesAre ==
  ASSUME NEW T, NEW n \in Nat, NEW f \in [1..n -> T]
  PROVE  f \in Seq(T) /\ Len(f) = n /\ DOMAIN f = 1..n
<1>1. f \in Seq(T) /\ DOMAIN f = 1..n
  BY SeqDef
<1>2. Len(f) \in Nat /\ DOMAIN f = 1..Len(f)
  BY <1>1, LenProperties
<1>3. QED
  BY <1>1, <1>2

LEMMA SnapType ==
  ASSUME DiskType, Shape
  PROVE  /\ snap = [seq |-> snap.seq, kv |-> snap.kv] /\ snap.seq \in Nat /\ snap.seq <= MaxOps
         /\ snap.kv \in Seq(Ops) /\ Len(snap.kv) = snap.seq
         /\ \A n \in 1..snap.seq : snap.kv[n] \in Ops
<1>1. snap \in Snap
  BY DEF DiskType
<1>2. /\ snap = [seq |-> snap.seq, kv |-> snap.kv] /\ snap.seq \in Nat /\ snap.seq <= MaxOps
      /\ snap.kv \in Seq(Ops)
  BY <1>1, V55Assumption DEF Snap
<1>3. Len(snap.kv) = snap.seq
  BY DEF Shape
<1>4. \A n \in 1..snap.seq : snap.kv[n] \in Ops
  BY <1>2, <1>3, ElementOfSeq
<1>5. QED
  BY <1>2, <1>3, <1>4

LEMMA ReachType ==
  ASSUME DiskType, Disk
  PROVE  Reach \in Nat /\ snap.seq <= Reach /\ (wals = <<>> => Reach = snap.seq)
<1>1. CASE wals = <<>>
  BY <1>1, SnapType DEF Disk, Reach
<1>2. CASE wals # <<>>
  <2>1. LastSeg \in DOMAIN wals
    BY <1>2, LastSegExists DEF Disk
  <2>2. Newest.first \in Nat /\ Len(Newest.recs) \in Nat
    BY <2>1, WalsType DEF Newest
  <2>3. Reach = Newest.first + Len(Newest.recs) - 1 /\ snap.seq <= Reach /\ snap.seq \in Nat
    BY <1>2, SnapType DEF Disk, Latest, Reach
  <2>4. QED
    BY <1>2, <2>2, <2>3
<1>3. QED
  BY <1>1, <1>2

\* A sequence on disk past the snapshot is in the newest segment.
LEMMA PastSnapshot ==
  ASSUME DiskType, Disk, NEW n \in 1..Reach, n > snap.seq
  PROVE  /\ wals # <<>> /\ n + 1 - Newest.first \in 1..Len(Newest.recs)
         /\ DiskId(n) = Newest.recs[n + 1 - Newest.first].id
<1>1. Reach \in Nat /\ snap.seq \in Nat /\ wals # <<>> /\ n \in Nat
  BY ReachType, SnapType DEF Disk
<1>2. LastSeg \in DOMAIN wals
  BY <1>1, LastSegExists DEF Disk
<1>3. Newest.first \in Nat /\ Len(Newest.recs) \in Nat
  BY <1>2, WalsType DEF Newest
<1>4. Reach = Newest.first + Len(Newest.recs) - 1 /\ Newest.first <= snap.seq + 1
  BY <1>1 DEF Disk, Latest, Reach
<1>5. n + 1 - Newest.first \in 1..Len(Newest.recs)
  BY <1>1, <1>3, <1>4
<1>6. ~(n <= snap.seq)
  BY <1>1
<1>7. QED
  BY <1>1, <1>5, <1>6 DEF DiskId

LEMMA DiskIdType ==
  ASSUME DiskType, Disk, NEW n \in 1..Reach
  PROVE  DiskId(n) \in Ops
<1>1. Reach \in Nat /\ snap.seq \in Nat
  BY ReachType, SnapType DEF Disk
<1>2. CASE n <= snap.seq
  <2>1. n \in 1..snap.seq
    BY <1>1, <1>2
  <2>2. QED
    BY <1>2, <2>1, SnapType DEF DiskId, Disk
<1>3. CASE n > snap.seq
  <2>1. wals # <<>> /\ n + 1 - Newest.first \in 1..Len(Newest.recs)
    BY <1>3, PastSnapshot
  <2>2. LastSeg \in DOMAIN wals
    BY <2>1, LastSegExists DEF Disk
  <2>3. \A i \in 1..Len(Newest.recs) : Newest.recs[i].id \in Ops
    BY <2>2, WalsType DEF Newest
  <2>4. QED
    BY <1>3, <2>1, <2>3, PastSnapshot
<1>4. QED
  BY <1>1, <1>2, <1>3

LEMMA OnDiskType ==
  ASSUME DiskType, Disk
  PROVE  OnDisk \in Seq(Ops) /\ Len(OnDisk) = Reach /\ \A n \in 1..Reach : OnDisk[n] = DiskId(n)
<1>1. Reach \in Nat /\ OnDisk \in [1..Reach -> Ops]
  BY ReachType, DiskIdType DEF OnDisk
<1>2. QED
  BY <1>1, TuplesAre DEF OnDisk

LEMMA ReplayRecordsAre ==
  ASSUME NEW r, NEW recs \in Seq(Rec)
  PROVE  /\ ReplayRecords(r, recs)[0] = r
         /\ \A i \in 1..Len(recs) :
               ReplayRecords(r, recs)[i] = ReplayRecord(ReplayRecords(r, recs)[i - 1], recs[i])
<1> DEFINE n == Len(recs)
           F(f, m) == f = [i \in 0..m |-> IF i = 0 THEN r ELSE ReplayRecord(f[i - 1], recs[i])]
           P == {m \in 0..n : \E f : F(f, m)}
<1>1. n \in Nat
  BY LenProperties
<1>2. 0 \in P
  <2>1. F([i \in 0..0 |-> r], 0)
    OBVIOUS
  <2>2. 0 \in 0..n
    BY <1>1
  <2>3. \E f : F(f, 0)
    <3> HIDE DEF F
    <3>1. QED
      BY <2>1, Zenon
  <2>4. QED
    BY ONLY <2>2, <2>3
<1>3. ASSUME NEW m \in 1..n, m - 1 \in P PROVE m \in P
  <2>1. PICK f : F(f, m - 1)
    BY <1>3
  <2>2. PICK g : g = [i \in 0..m |-> IF i = m THEN ReplayRecord(f[m - 1], recs[m]) ELSE f[i]]
    OBVIOUS
  <2>3. F(g, m)
    <3>1. \A i \in 0..(m - 1) : f[i] = IF i = 0 THEN r ELSE ReplayRecord(f[i - 1], recs[i])
      BY <2>1
    <3>2. \A i \in 0..m : g[i] = IF i = 0 THEN r ELSE ReplayRecord(g[i - 1], recs[i])
      BY <1>1, <2>2, <3>1
    <3>3. QED
      BY <2>2, <3>2
  <2>4. QED
    BY <1>1, <2>3
<1>4. n \in P
  <2>1. 0..n \subseteq P
    BY ONLY <1>1, <1>2, <1>3, Upto
  <2>2. QED
    BY <1>1, <2>1
<1>5. PICK c : c = ReplayRecords(r, recs)
  OBVIOUS
<1>6. F(c, n)
  BY <1>4, <1>5, Zenon DEF ReplayRecords
<1>7. c[0] = r /\ \A i \in 1..n : c[i] = ReplayRecord(c[i - 1], recs[i])
  BY <1>1, <1>6
<1>8. QED
  BY <1>5, <1>7

LEMMA ReplayWalsAre ==
  /\ ReplayWals[0] = [seq |-> snap.seq, kv |-> snap.kv, expected |-> 0, err |-> "none"]
  /\ \A s \in 1..MaxSeg :
        ReplayWals[s] = IF s \in DOMAIN wals THEN ReplayWal(ReplayWals[s - 1], s)
                        ELSE ReplayWals[s - 1]
<1> DEFINE Next1(r, s) == IF s \in DOMAIN wals THEN ReplayWal(r, s) ELSE r
           F(f, m) == f = [s \in 0..m |-> IF s = 0 THEN DecodeSnapshot
                                          ELSE IF s \in DOMAIN wals THEN ReplayWal(f[s - 1], s)
                                          ELSE f[s - 1]]
           P == {m \in 0..MaxSeg : \E f : F(f, m)}
<1>1. MaxSeg \in Nat
  BY V55Assumption
<1>2. 0 \in P
  <2>1. F([s \in 0..0 |-> DecodeSnapshot], 0)
    OBVIOUS
  <2>2. 0 \in 0..MaxSeg
    BY <1>1
  <2>3. \E f : F(f, 0)
    <3> HIDE DEF F
    <3>1. QED
      BY <2>1, Zenon
  <2>4. QED
    BY ONLY <2>2, <2>3
<1>3. ASSUME NEW m \in 1..MaxSeg, m - 1 \in P PROVE m \in P
  <2>1. PICK f : F(f, m - 1)
    BY <1>3
  <2>2. PICK g : g = [s \in 0..m |-> IF s = m THEN Next1(f[m - 1], m) ELSE f[s]]
    OBVIOUS
  <2>3. F(g, m)
    <3>1. \A s \in 0..(m - 1) : f[s] = IF s = 0 THEN DecodeSnapshot ELSE Next1(f[s - 1], s)
      BY <2>1
    <3>2. \A s \in 0..m : g[s] = IF s = 0 THEN DecodeSnapshot ELSE Next1(g[s - 1], s)
      <4> HIDE DEF Next1
      <4>1. QED
        BY <1>1, <2>2, <3>1
    <3>3. QED
      BY <2>2, <3>2
  <2>4. QED
    BY <1>1, <2>3
<1>4. MaxSeg \in P
  <2>1. 0..MaxSeg \subseteq P
    BY ONLY <1>1, <1>2, <1>3, Upto
  <2>2. QED
    BY <1>1, <2>1
<1>5. PICK c : c = ReplayWals
  OBVIOUS
<1>6. F(c, MaxSeg)
  BY <1>4, <1>5, Zenon DEF ReplayWals
<1>7. c[0] = DecodeSnapshot /\ \A s \in 1..MaxSeg : c[s] = Next1(c[s - 1], s)
  BY <1>1, <1>6
<1>8. QED
  BY <1>5, <1>7 DEF DecodeSnapshot

\* Records that the snapshot has change nothing.
LEMMA OldRecordsSkipped ==
  ASSUME NEW r, NEW recs \in Seq(Rec), r.err = "none",
         \A i \in 1..Len(recs) : recs[i].seq <= r.seq
  PROVE  ReplayRecords(r, recs)[Len(recs)] = r
<1> DEFINE n == Len(recs)
           P == {i \in 0..n : ReplayRecords(r, recs)[i] = r}
<1>1. n \in Nat
  BY LenProperties
<1>2. 0 \in P
  BY <1>1, ReplayRecordsAre
<1>3. ASSUME NEW i \in 1..n, i - 1 \in P PROVE i \in P
  <2>1. ReplayRecords(r, recs)[i] = ReplayRecord(ReplayRecords(r, recs)[i - 1], recs[i])
    BY ReplayRecordsAre
  <2>2. ReplayRecords(r, recs)[i - 1] = r
    BY <1>3
  <2>3. ReplayRecord(r, recs[i]) = r
    BY DEF ReplayRecord
  <2>4. i \in 0..n
    BY <1>1
  <2>5. QED
    BY <2>1, <2>2, <2>3, <2>4
<1>4. 0..n \subseteq P
  <2> HIDE DEF P
  <2>1. QED
    BY ONLY <1>1, <1>2, <1>3, Upto
<1>5. n \in P
  BY <1>1, <1>4
<1>6. QED
  BY <1>5

\* recover() when the sequences up to n are read
Read(n) == [seq |-> n, kv |-> [k \in 1..n |-> DiskId(k)], expected |-> n + 1, err |-> "none"]

LEMMA ReadFromSnapshot ==
  ASSUME DiskType, Disk
  PROVE  Read(snap.seq) = [seq |-> snap.seq, kv |-> snap.kv, expected |-> snap.seq + 1, err |-> "none"]
<1>1. snap.kv \in Seq(Ops) /\ Len(snap.kv) = snap.seq /\ snap.seq \in Nat
  BY SnapType DEF Disk
<1>2. snap.kv = [k \in 1..snap.seq |-> snap.kv[k]]
  BY <1>1, LenProperties
<1>3. \A k \in 1..snap.seq : snap.kv[k] = DiskId(k)
  BY <1>1 DEF DiskId
<1>4. [k \in 1..snap.seq |-> DiskId(k)] = snap.kv
  BY <1>2, <1>3
<1>5. QED
  BY <1>4 DEF Read

LEMMA ReadNext ==
  ASSUME DiskType, Disk, NEW n \in Nat, n < Reach, NEW x, x.seq = n + 1, x.id = DiskId(n + 1)
  PROVE  ReplayRecord(Read(n), x) = Read(n + 1)
<1> DEFINE s == [k \in 1..n |-> DiskId(k)]
           t == [k \in 1..(n + 1) |-> DiskId(k)]
<1>1. \A k \in 1..(n + 1) : k \in 1..Reach
  BY ReachType
<1>2. s \in Seq(Ops) /\ Len(s) = n
  <2>1. s \in [1..n -> Ops]
    <3>1. \A k \in 1..n : DiskId(k) \in Ops
      BY <1>1, DiskIdType
    <3>2. QED
      BY <3>1
  <2>2. QED
    BY ONLY <2>1, TuplesAre, n \in Nat
<1>3. Append(s, x.id) = t
  <2>1. \A k \in 1..n : s[k] = DiskId(k)
    OBVIOUS
  <2>2. /\ DOMAIN Append(s, x.id) = 1..(n + 1) /\ Append(s, x.id)[n + 1] = x.id
        /\ \A k \in 1..n : Append(s, x.id)[k] = s[k]
    <3> HIDE DEF s
    <3>1. QED
      BY <1>2, AppendIs
  <2>3. \A k \in 1..(n + 1) : Append(s, x.id)[k] = DiskId(k)
    <3> HIDE DEF s
    <3>1. QED
      BY <2>1, <2>2
  <2>4. Append(s, x.id) \in Seq(Ops \cup {x.id})
    <3>1. s \in Seq(Ops \cup {x.id})
      <4> HIDE DEF s
      <4>1. QED
        BY <1>2, SeqMonotonic
    <3>2. QED
      BY <3>1, AppendProperties
  <2>5. Append(s, x.id) = [k \in 1..(n + 1) |-> Append(s, x.id)[k]]
    <3> HIDE DEF s
    <3>1. QED
      BY <2>2, <2>4, LenProperties
  <2>6. QED
    <3> HIDE DEF s
    <3>1. QED
      BY <2>3, <2>5
<1>4. ReplayRecord(Read(n), x) = [Read(n) EXCEPT !.seq = x.seq, !.kv = Append(@, x.id), !.expected = @ + 1]
  BY DEF ReplayRecord, Read
<1>5. ReplayRecord(Read(n), x) = [seq |-> n + 1, kv |-> Append(s, x.id), expected |-> n + 1 + 1, err |-> "none"]
  <2>1. Read(n) = [seq |-> n, kv |-> s, expected |-> n + 1, err |-> "none"]
    BY DEF Read
  <2>2. PICK m : m = n + 1
    OBVIOUS
  <2>3. Read(n) = [seq |-> n, kv |-> s, expected |-> m, err |-> "none"]
    BY <2>1, <2>2
  <2>4. ReplayRecord(Read(n), x) = [seq |-> x.seq, kv |-> Append(s, x.id), expected |-> m + 1, err |-> "none"]
    <3>1. PICK r : r = Read(n)
      OBVIOUS
    <3>2. ReplayRecord(r, x) = [r EXCEPT !.seq = x.seq, !.kv = Append(r.kv, x.id), !.expected = r.expected + 1]
      BY <1>4, <3>1
    <3>3. r = [seq |-> n, kv |-> s, expected |-> m, err |-> "none"]
      BY <2>3, <3>1
    <3> HIDE DEF s
    <3>4. r.kv = s /\ r.expected = m
      BY <3>3
    <3>5. PICK a, k : a = Append(s, x.id) /\ k = x.seq
      OBVIOUS
    <3>6. PICK j : j = m + 1
      OBVIOUS
    <3>7. [r EXCEPT !.seq = k, !.kv = a, !.expected = j] = [seq |-> k, kv |-> a, expected |-> j, err |-> "none"]
      <4>1. PICK r1 : r1 = [r EXCEPT !.seq = k]
        OBVIOUS
      <4>2. r1 = [seq |-> k, kv |-> s, expected |-> m, err |-> "none"]
        BY ONLY <3>3, <4>1
      <4>3. PICK r2 : r2 = [r1 EXCEPT !.kv = a]
        OBVIOUS
      <4>4. r2 = [seq |-> k, kv |-> a, expected |-> m, err |-> "none"]
        BY ONLY <4>2, <4>3
      <4>5. [r2 EXCEPT !.expected = j] = [seq |-> k, kv |-> a, expected |-> j, err |-> "none"]
        BY ONLY <4>4
      <4>6. QED
        BY ONLY <4>1, <4>3, <4>5
    <3>8. ReplayRecord(r, x) = [r EXCEPT !.seq = k, !.kv = a, !.expected = j]
      BY ONLY <3>2, <3>4, <3>5, <3>6
    <3>9. QED
      BY ONLY <3>1, <3>5, <3>6, <3>7, <3>8
  <2>5. QED
    <3> HIDE DEF s
    <3>1. QED
      BY <2>2, <2>4
<1>6. Read(n + 1) = [seq |-> n + 1, kv |-> t, expected |-> n + 1 + 1, err |-> "none"]
  BY DEF Read
<1>7. QED
  <2> HIDE DEF s, t
  <2>1. QED
    BY <1>3, <1>5, <1>6

LEMMA ReadSkips ==
  ASSUME NEW n, NEW x, x.seq <= n
  PROVE  ReplayRecord(Read(n), x) = Read(n)
  BY DEF ReplayRecord, Read

LEMMA NewestRead ==
  ASSUME DiskType, Disk, wals # <<>>
  PROVE  ReplayRecords(Read(snap.seq), Newest.recs)[Len(Newest.recs)] = Read(Reach)
<1> DEFINE recs == Newest.recs
           n == Len(Newest.recs)
           At(i) == IF Newest.first + i - 1 <= snap.seq THEN snap.seq ELSE Newest.first + i - 1
           P == {i \in 0..n : ReplayRecords(Read(snap.seq), recs)[i] = Read(At(i))}
<1>1. LastSeg \in DOMAIN wals
  BY LastSegExists DEF Disk
<1>2. /\ recs \in Seq(Rec) /\ n \in Nat /\ Newest.first \in Nat
      /\ snap.seq \in Nat /\ Reach = Newest.first + n - 1
      /\ Newest.first <= snap.seq + 1 /\ snap.seq <= Reach
      /\ \A i \in 1..n : recs[i].seq = Newest.first + i - 1
  BY <1>1, WalsType, SnapType DEF Newest, Disk, Latest, Reach
<1>3. 0 \in P
  <2>1. ReplayRecords(Read(snap.seq), recs)[0] = Read(snap.seq)
    BY <1>2, ReplayRecordsAre
  <2>2. At(0) = snap.seq
    BY <1>2
  <2>3. QED
    BY <1>2, <2>1, <2>2
<1>4. ASSUME NEW i \in 1..n, i - 1 \in P PROVE i \in P
  <2>1. ReplayRecords(Read(snap.seq), recs)[i]
          = ReplayRecord(ReplayRecords(Read(snap.seq), recs)[i - 1], recs[i])
    BY <1>2, ReplayRecordsAre
  <2>2. ReplayRecords(Read(snap.seq), recs)[i - 1] = Read(At(i - 1))
    BY <1>4
  <2>3. recs[i].seq = Newest.first + i - 1 /\ i \in 0..n
    BY <1>2
  <2>4. CASE Newest.first + i - 1 <= snap.seq
    <3>1. At(i - 1) = snap.seq /\ At(i) = snap.seq
      BY <1>2, <2>4
    <3>2. ReplayRecord(Read(snap.seq), recs[i]) = Read(snap.seq)
      BY <2>3, <2>4, ReadSkips
    <3>3. QED
      BY <2>1, <2>2, <2>3, <3>1, <3>2
  <2>5. CASE ~(Newest.first + i - 1 <= snap.seq)
    <3>1. PICK m : m = At(i - 1)
      OBVIOUS
    <3>2. /\ m \in Nat /\ m + 1 = Newest.first + i - 1 /\ At(i) = m + 1 /\ m < Reach
      <4>1. PICK a, b, r, l, z : /\ a = Newest.first /\ b = snap.seq /\ r = Reach /\ l = n
                                 /\ z = At(i)
        OBVIOUS
      <4>2. /\ a \in Nat /\ b \in Nat /\ l \in Nat /\ r = a + l - 1 /\ a <= b + 1
            /\ i \in 1..l /\ ~(a + i - 1 <= b)
        BY <1>2, <2>5, <4>1
      <4>3. /\ m = (IF a + (i - 1) - 1 <= b THEN b ELSE a + (i - 1) - 1)
            /\ z = (IF a + i - 1 <= b THEN b ELSE a + i - 1)
        BY <3>1, <4>1
      <4>4. m \in Nat /\ m + 1 = a + i - 1 /\ z = m + 1 /\ m < r
        BY ONLY <4>2, <4>3
      <4>5. QED
        BY <4>1, <4>4
    <3>3. recs[i].seq = m + 1
      BY <2>3, <3>2
    <3>4. recs[i].id = DiskId(m + 1)
      <4>1. ~(m + 1 <= snap.seq) /\ m + 1 + 1 - Newest.first = i
        BY <1>2, <2>5, <3>2
      <4>2. QED
        BY <4>1 DEF DiskId
    <3>5. ReplayRecord(Read(m), recs[i]) = Read(m + 1)
      <4> HIDE DEF recs
      <4>1. QED
        BY <3>2, <3>3, <3>4, ReadNext
    <3>6. QED
      <4> HIDE DEF At, recs
      <4>1. QED
        BY <2>1, <2>2, <2>3, <3>1, <3>2, <3>5
  <2>6. QED
    BY <2>4, <2>5
<1>5. 0..n \subseteq P
  <2> HIDE DEF P
  <2>1. QED
    BY ONLY <1>2, <1>3, <1>4, Upto
<1>6. n \in P
  <2>1. n \in 0..n
    BY <1>2
  <2> HIDE DEF P
  <2>2. QED
    BY <1>5, <2>1
<1>7. At(n) = Reach
  BY <1>2
<1>8. QED
  <2> HIDE DEF At
  <2>1. QED
    BY <1>6, <1>7

\* A segment that is not the newest
LEMMA OlderSkipped ==
  ASSUME DiskType, Disk, NEW s \in DOMAIN wals, s # LastSeg, NEW e,
         NEW r, r = [seq |-> snap.seq, kv |-> snap.kv, expected |-> e, err |-> "none"]
  PROVE  \E d : ReplayWal(r, s) = [seq |-> snap.seq, kv |-> snap.kv, expected |-> d, err |-> "none"]
<1>1. /\ wals[s].hdr /\ ~wals[s].torn
      /\ \A i \in 1..Len(wals[s].recs) : wals[s].recs[i].seq <= snap.seq
  BY DEF Disk, Older
<1>2. PICK start : start = IF r.seq + 1 > wals[s].first THEN r.seq + 1 ELSE wals[s].first
  OBVIOUS
<1>3. PICK q : q = [r EXCEPT !.expected = start]
  OBVIOUS
<1>4. q = [seq |-> snap.seq, kv |-> snap.kv, expected |-> start, err |-> "none"]
  BY <1>3
<1>5. wals[s].recs \in Seq(Rec)
  BY WalsType
<1>6. ReplayRecords(q, wals[s].recs)[Len(wals[s].recs)] = q
  <2>1. q.err = "none" /\ q.seq = snap.seq
    BY <1>4
  <2>2. QED
    BY <1>1, <1>5, <2>1, OldRecordsSkipped
<1>7. r.err = "none"
  OBVIOUS
<1>8. ReplayWal(r, s) = q
  BY <1>1, <1>2, <1>3, <1>6, <1>7 DEF ReplayWal
<1>9. QED
  BY <1>4, <1>8

\* What reading the newest segment leads to
LEMMA NewestReplayed ==
  ASSUME DiskType, Disk, wals # <<>>, NEW e,
         NEW r, r = [seq |-> snap.seq, kv |-> snap.kv, expected |-> e, err |-> "none"]
  PROVE  ReplayWal(r, LastSeg) = IF Newest.hdr THEN Read(Reach) ELSE [r EXCEPT !.err = "header"]
<1>1. r.err = "none" /\ LastSeg \in DOMAIN wals /\ ~\E t \in DOMAIN wals : t > LastSeg
  <2>1. LastSeg \in DOMAIN wals /\ \A t \in DOMAIN wals : t <= LastSeg
    BY LastSegExists DEF Disk
  <2>2. \A t \in DOMAIN wals : t \in Nat
    BY WalsType
  <2>3. QED
    BY <2>1, <2>2
<1>2. CASE ~Newest.hdr
  BY <1>1, <1>2 DEF ReplayWal, Newest
<1>3. CASE Newest.hdr
  <2>1. snap.seq + 1 >= Newest.first /\ snap.seq \in Nat /\ Newest.first \in Nat
    BY <1>1, WalsType, SnapType DEF Disk, Latest, Newest
  <2>2. PICK start : start = IF r.seq + 1 > wals[LastSeg].first THEN r.seq + 1 ELSE wals[LastSeg].first
    OBVIOUS
  <2>3. start = snap.seq + 1
    BY <2>1, <2>2 DEF Newest
  <2>4. [r EXCEPT !.expected = start] = Read(snap.seq)
    BY <2>3, ReadFromSnapshot
  <2>5. ReplayRecords(Read(snap.seq), wals[LastSeg].recs)[Len(wals[LastSeg].recs)] = Read(Reach)
    BY NewestRead DEF Newest
  <2>6. QED
    BY <1>1, <1>3, <2>2, <2>4, <2>5 DEF ReplayWal, Newest
<1>4. QED
  BY <1>2, <1>3

LEMMA HeaderError ==
  ASSUME NEW r, r.err = "header", NEW s
  PROVE  ReplayWal(r, s) = r
  BY DEF ReplayWal

\* recover() gives what is on disk, or stops at a newest segment without header.
LEMMA RecoverReads ==
  ASSUME DiskType, Disk
  PROVE  IF wals = <<>> \/ Newest.hdr
         THEN Replayed.err = "none" /\ Replayed.seq = Reach /\ Replayed.kv = OnDisk
         ELSE Replayed.err = "header"
<1> DEFINE Before(s) == \E e : ReplayWals[s] = [seq |-> snap.seq, kv |-> snap.kv,
                                                expected |-> e, err |-> "none"]
           After(s) == IF Newest.hdr THEN ReplayWals[s] = Read(Reach)
                       ELSE ReplayWals[s].err = "header"
           P == {s \in 0..MaxSeg : IF wals = <<>> \/ s < LastSeg THEN Before(s) ELSE After(s)}
<1>1. MaxSeg \in Nat /\ Before(0)
  BY ReplayWalsAre, V55Assumption
<1>2. wals # <<>> => /\ LastSeg \in DOMAIN wals /\ LastSeg \in 1..MaxSeg
                     /\ \A t \in DOMAIN wals : t <= LastSeg /\ t \in Nat
  BY LastSegExists, WalsType DEF Disk, Segs
<1>3. 0 \in P
  <2>1. 0 \in 0..MaxSeg /\ (wals = <<>> \/ 0 < LastSeg)
    BY <1>1, <1>2
  <2>2. QED
    BY <1>1, <2>1
<1>4. ASSUME NEW s \in 1..MaxSeg, s - 1 \in P PROVE s \in P
  <2>1. ReplayWals[s] = IF s \in DOMAIN wals THEN ReplayWal(ReplayWals[s - 1], s) ELSE ReplayWals[s - 1]
    BY ReplayWalsAre
  <2>2. s \in 0..MaxSeg /\ s - 1 \in 0..MaxSeg /\ s \in Nat
    BY <1>1
  <2>3. CASE wals = <<>>
    <3>1. s \notin DOMAIN wals
      BY <2>3
    <3>2. Before(s - 1)
      BY <1>4, <2>3
    <3>3. QED
      BY <2>1, <2>2, <2>3, <3>1, <3>2
  <2>4. CASE wals # <<>> /\ s < LastSeg
    <3>1. s - 1 < LastSeg
      BY <1>2, <2>2, <2>4
    <3>2. Before(s - 1)
      BY <1>4, <2>4, <3>1
    <3>3. PICK e : ReplayWals[s - 1] = [seq |-> snap.seq, kv |-> snap.kv, expected |-> e, err |-> "none"]
      BY <3>2
    <3>4. s # LastSeg
      BY <1>2, <2>2, <2>4
    <3>5. Before(s)
      <4>1. CASE s \in DOMAIN wals
        BY <2>1, <3>3, <3>4, <4>1, OlderSkipped
      <4>2. CASE s \notin DOMAIN wals
        BY <2>1, <3>3, <4>2
      <4>3. QED
        BY <4>1, <4>2
    <3>6. QED
      BY <2>2, <2>4, <3>5
  <2>5. CASE wals # <<>> /\ s = LastSeg
    <3>1. s - 1 < LastSeg /\ ~(s < LastSeg)
      BY <1>2, <2>2, <2>5
    <3>2. Before(s - 1)
      BY <1>4, <2>5, <3>1
    <3>3. PICK e : ReplayWals[s - 1] = [seq |-> snap.seq, kv |-> snap.kv, expected |-> e, err |-> "none"]
      BY <3>2
    <3>4. ReplayWals[s] = IF Newest.hdr THEN Read(Reach) ELSE [ReplayWals[s - 1] EXCEPT !.err = "header"]
      BY <1>2, <2>1, <2>5, <3>3, NewestReplayed
    <3>5. After(s)
      BY <3>3, <3>4
    <3>6. QED
      BY <2>2, <2>5, <3>1, <3>5
  <2>6. CASE wals # <<>> /\ s > LastSeg
    <3>1. ~(s - 1 < LastSeg) /\ ~(s < LastSeg) /\ s \notin DOMAIN wals
      BY <1>2, <2>2, <2>6
    <3>2. After(s - 1)
      BY <1>4, <2>6, <3>1
    <3>3. After(s)
      BY <2>1, <3>1, <3>2
    <3>4. QED
      BY <2>2, <2>6, <3>1, <3>3
  <2>7. wals # <<>> => s < LastSeg \/ s = LastSeg \/ s > LastSeg
    BY <1>2, <2>2
  <2>8. QED
    <3> HIDE DEF P
    <3>1. QED
      BY <2>3, <2>4, <2>5, <2>6, <2>7
<1>5. 0..MaxSeg \subseteq P
  <2> HIDE DEF P
  <2>1. QED
    BY ONLY <1>1, <1>3, <1>4, Upto
<1>6. MaxSeg \in P
  <2>1. MaxSeg \in 0..MaxSeg
    BY <1>1
  <2> HIDE DEF P
  <2>2. QED
    BY <1>5, <2>1
<1>7. CASE wals = <<>>
  <2>1. Before(MaxSeg)
    BY <1>6, <1>7
  <2>2. Reach = snap.seq
    BY <1>7, ReachType
  <2>3. OnDisk = snap.kv
    BY <2>2, ReadFromSnapshot DEF OnDisk, Read
  <2>4. QED
    BY <1>7, <2>1, <2>2, <2>3 DEF Replayed
<1>8. CASE wals # <<>>
  <2>1. ~(MaxSeg < LastSeg)
    BY <1>1, <1>2, <1>8
  <2>2. After(MaxSeg)
    BY <1>6, <1>8, <2>1
  <2>3. Read(Reach).err = "none" /\ Read(Reach).seq = Reach /\ Read(Reach).kv = OnDisk
    BY DEF Read, OnDisk
  <2>4. QED
    BY <1>8, <2>2, <2>3 DEF Replayed
<1>9. QED
  BY <1>7, <1>8

-----------------------------------------------------------------------------
(* Steps that leave the disk alone                                         *)

LEMMA SameDisk ==
  ASSUME DiskType, Disk, snap' = snap, wals' = wals
  PROVE  /\ DiskType' /\ Shape' /\ Older' /\ Latest' /\ Reach' = Reach
         /\ LastSeg' = LastSeg /\ Newest' = Newest /\ \A n : DiskId(n)' = DiskId(n)
<1>1. LastSeg' = LastSeg
  BY DEF LastSeg
<1>2. Newest' = Newest
  BY <1>1 DEF Newest
<1>3. Reach' = Reach /\ \A n : DiskId(n)' = DiskId(n)
  BY <1>2 DEF Reach, DiskId
<1>4. DiskType' /\ Shape'
  BY DEF DiskType, Disk, Shape
<1>5. Older'
  BY <1>1 DEF Older, Disk
<1>6. Latest'
  BY <1>2, <1>3 DEF Latest, Disk
<1>7. QED
  BY <1>1, <1>2, <1>3, <1>4, <1>5, <1>6

LEMMA SameHistory ==
  ASSUME DiskType, Disk, AckedOnDisk, snap' = snap, wals' = wals, acked' = acked, ids' = ids
  PROVE  Disk' /\ AckedOnDisk'
<1>1. Disk'
  BY SameDisk DEF Disk
<1>2. \A i \in 1..Len(acked) : acked'[i] = DiskId(i)'
  BY SameDisk DEF AckedOnDisk
<1>3. QED
  BY <1>1, <1>2, SameDisk DEF AckedOnDisk

\* The process goes on: what is written is what was written.
LEMMA SameProcess ==
  ASSUME DiskType, Disk, Process, snap' = snap, wals' = wals, up = "up", up' = "up",
         kv' = kv, durable' = durable, seg' = seg, wfd' \in {0, wfd},
         (wpc = "publish") = (wpc' = "publish"), wpc = "publish" => local' = local
  PROVE  Process'
<1>1. Quiet' /\ Creating'
  BY DEF Quiet, Creating
<1>2. Active'
  BY SameDisk DEF Active, Process
<1>3. \A n \in 1..Reach' : kv'[n] = DiskId(n)'
  BY SameDisk DEF Written, Process
<1>4. Reach' = durable' + (IF wpc' = "publish" THEN Len(local') ELSE 0)
  BY SameDisk DEF Written, Process
<1>5. wals' # <<>> /\ \A s \in DOMAIN wals' : ~wals'[s].torn
  BY DEF Written, Process
<1>6. Written'
  BY <1>3, <1>4, <1>5 DEF Written
<1>7. QED
  BY <1>1, <1>2, <1>6 DEF Process

LEMMA SamePending ==
  ASSUME Pending, local' = local, queue' = queue, durable' = durable, kv' = kv, next' = next,
         Pushing' = Pushing
  PROVE  Pending'
  BY DEF Pending, Continues

LEMMA InvParts ==
  ASSUME IInv
  PROVE  /\ DiskType /\ MemoryType /\ ThreadType /\ HistoryType
         /\ Disk /\ AckedOnDisk /\ Process /\ Pending
  BY DEF IInv, TypeOK

LEMMA BeginStep ==
  ASSUME IInv, NEW t \in Threads, NEW c \in Calls, Begin(t, c)
  PROVE  IInv'
<1> USE InvParts
<1>1. /\ snap' = snap /\ wals' = wals /\ UNCHANGED mem /\ UNCHANGED wr /\ UNCHANGED locks
      /\ UNCHANGED proc /\ UNCHANGED hist /\ faults' = faults
      /\ up = "up" /\ pc[t] = "idle" /\ calls[t] < MaxCalls /\ calls' = [calls EXCEPT ![t] = @ + 1]
      /\ pc' = [pc EXCEPT ![t] = Entry[c]] /\ call' = [call EXCEPT ![t] = c]
      /\ ticket' = [ticket EXCEPT ![t] = IF c \in {"sync", "close"} THEN next ELSE 0]
  BY DEF Begin, Goto, Take, disk
<1>2. Entry[c] \in {"submit", "ck_lock", "wait"} /\ (Entry[c] = "wait" => c \in {"sync", "close"})
  BY DEF Entry, Calls
<1>3. PICK e, n : e = Entry[c] /\ n = (IF c \in {"sync", "close"} THEN next ELSE 0)
  OBVIOUS
<1>4. n \in 0..MaxOps /\ n <= next
  BY <1>3, V55Assumption DEF MemoryType
<1>5. TypeOK'
  <2>1. DiskType' /\ MemoryType'
    BY <1>1, SameDisk DEF MemoryType, mem
  <2>2. ThreadType'
    BY <1>1, <1>2, <1>3, <1>4 DEF ThreadType, wr, locks
  <2>3. calls' \in [Threads -> 0..MaxCalls]
    BY <1>1, V55Assumption DEF HistoryType
  <2>4. HistoryType'
    BY <1>1, <2>3 DEF HistoryType, proc, hist
  <2>5. QED
    BY <2>1, <2>2, <2>4 DEF TypeOK
<1>6. Disk' /\ AckedOnDisk'
  BY <1>1, SameHistory DEF hist
<1>7. Process'
  BY <1>1, SameProcess DEF mem, wr, proc
<1>8. SubmitHeld'
  BY <1>1, <1>2, <1>3 DEF IInv, Callers, SubmitHeld, Checkpointing, Rotating, Sleeping, mem, locks, ThreadType
<1>9. CheckpointSteps'
  <2>1. LastSeg' = LastSeg
    BY <1>1, SameDisk
  <2>2. QED
    BY <1>1, <1>2, <1>3, <1>4, <2>1 DEF IInv, Callers, CheckpointSteps, Rotating, mem, ThreadType
<1>10. WriterPhase' /\ Numbering'
  BY <1>1 DEF IInv, WriterPhase, Numbering, mem, wr, hist
<1>11. Pending'
  <2>1. Pushing' = Pushing
    BY <1>1, <1>2 DEF Pushing, ThreadType
  <2>2. QED
    BY <1>1, <2>1, SamePending DEF mem, wr
<1>12. QED
  BY <1>5, <1>6, <1>7, <1>8, <1>9, <1>10, <1>11 DEF IInv, Callers

Steps == {"idle", "submit", "push", "wait", "to_sleep", "asleep", "ck_lock", "ck_snapshot",
          "ck_rotate", "ck_header", "ck_remove", "cl_stop", "cl_join"}

\* A caller goes from one step to another that changes nothing but whom it holds.
LEMMA CallerMoves ==
  ASSUME IInv, NEW t \in Threads, pc[t] # "idle", pc[t] # "push",
         NEW p \in Steps, p # "push", NEW c \in Calls \cup {"none"}, NEW n \in 0..MaxOps, n <= next,
         pc' = [pc EXCEPT ![t] = p], call' = [call EXCEPT ![t] = c], ticket' = [ticket EXCEPT ![t] = n],
         submitMu' \in Threads \cup {NoOne}, queueMu' \in Threads \cup {NoOne},
         snap' = snap, wals' = wals, UNCHANGED mem, UNCHANGED wr, UNCHANGED proc,
         ids' = ids, late' = late, acked' \in Seq(Ops), AckedOnDisk',
         UNCHANGED bound
  PROVE  /\ TypeOK' /\ Disk' /\ Process' /\ WriterPhase' /\ Numbering' /\ Pending'
         /\ LastSeg' = LastSeg /\ up = "up"
<1> USE InvParts
<1>1. up = "up"
  BY DEF Process, Quiet
<1>2. TypeOK'
  <2>1. DiskType' /\ MemoryType'
    BY SameDisk DEF MemoryType, mem
  <2>2. ThreadType'
    BY DEF ThreadType, wr, Steps
  <2>3. HistoryType'
    BY DEF HistoryType, proc, bound
  <2>4. QED
    BY <2>1, <2>2, <2>3 DEF TypeOK
<1>3. Disk' /\ LastSeg' = LastSeg
  BY SameDisk DEF Disk
<1>4. Process'
  BY <1>1, SameProcess DEF mem, wr, proc
<1>5. WriterPhase' /\ Numbering'
  BY DEF IInv, WriterPhase, Numbering, mem, wr
<1>6. Pending'
  <2>1. Pushing' = Pushing
    BY DEF Pushing, ThreadType
  <2>2. QED
    BY <2>1, SamePending DEF mem, wr
<1>7. QED
  BY <1>1, <1>2, <1>3, <1>4, <1>5, <1>6

LEMMA WaitBlocksStep ==
  ASSUME IInv, NEW t \in Threads, WaitBlocks(t) \/ WaitSleeps(t)
  PROVE  IInv'
<1> USE InvParts
<1>1. PICK p \in {"to_sleep", "asleep"} : pc' = [pc EXCEPT ![t] = p]
  BY DEF WaitBlocks, WaitSleeps, Goto
<1>2. /\ pc[t] \in Sleeping /\ call' = call /\ ticket' = ticket /\ submitMu' = submitMu
      /\ queueMu' \in Threads \cup {NoOne} /\ snap' = snap /\ wals' = wals
      /\ UNCHANGED mem /\ UNCHANGED wr /\ UNCHANGED proc /\ UNCHANGED hist /\ UNCHANGED bound
  BY DEF WaitBlocks, WaitSleeps, disk, Sleeping
<1>3. AckedOnDisk'
  BY <1>2, SameHistory DEF hist
<1>4. PICK c, n : c = call[t] /\ n = ticket[t]
  OBVIOUS
<1>5. /\ c \in Calls \cup {"none"} /\ n \in 0..MaxOps /\ n <= next /\ p \in Steps
      /\ pc[t] # "idle" /\ pc[t] # "push" /\ p # "push"
      /\ call' = [call EXCEPT ![t] = c] /\ ticket' = [ticket EXCEPT ![t] = n]
  BY <1>2, <1>4 DEF ThreadType, Sleeping, Steps, IInv, Callers, CheckpointSteps
<1>6. acked' \in Seq(Ops) /\ ids' = ids /\ late' = late /\ submitMu' \in Threads \cup {NoOne}
  BY <1>2 DEF HistoryType, ThreadType, hist
<1>7. /\ TypeOK' /\ Disk' /\ Process' /\ WriterPhase' /\ Numbering' /\ Pending' /\ LastSeg' = LastSeg
  BY <1>1, <1>2, <1>3, <1>5, <1>6, CallerMoves
<1>8. SubmitHeld'
  BY <1>1, <1>2 DEF IInv, Callers, SubmitHeld, Checkpointing, Rotating, Sleeping, mem, ThreadType
<1>9. CheckpointSteps'
  BY <1>1, <1>2, <1>7 DEF IInv, Callers, CheckpointSteps, Rotating, mem, ThreadType
<1>10. QED
  BY <1>3, <1>7, <1>8, <1>9 DEF IInv, Callers

LEMMA CkLockStep ==
  ASSUME IInv, NEW t \in Threads, CkLock(t)
  PROVE  IInv'
<1> USE InvParts
<1>1. /\ pc[t] = "ck_lock" /\ submitMu = NoOne /\ submitMu' = t /\ pc' = [pc EXCEPT ![t] = "wait"]
      /\ ticket' = [ticket EXCEPT ![t] = next] /\ call' = call /\ queueMu' = queueMu
      /\ snap' = snap /\ wals' = wals
      /\ UNCHANGED mem /\ UNCHANGED wr /\ UNCHANGED proc /\ UNCHANGED hist /\ UNCHANGED bound
  BY DEF CkLock, Goto, Take, disk
<1>2. AckedOnDisk'
  BY <1>1, SameHistory DEF hist
<1>3. PICK c : c = call[t]
  OBVIOUS
<1>4. /\ c \in Calls \cup {"none"} /\ next \in 0..MaxOps /\ next <= next /\ "wait" \in Steps
      /\ pc[t] # "idle" /\ pc[t] # "push" /\ call' = [call EXCEPT ![t] = c]
  BY <1>1, <1>3 DEF ThreadType, MemoryType, Steps
<1>5. /\ acked' \in Seq(Ops) /\ ids' = ids /\ late' = late
      /\ submitMu' \in Threads \cup {NoOne} /\ queueMu' \in Threads \cup {NoOne}
  BY <1>1 DEF HistoryType, ThreadType, hist
<1>6. /\ TypeOK' /\ Disk' /\ Process' /\ WriterPhase' /\ Numbering' /\ Pending' /\ LastSeg' = LastSeg
  BY <1>1, <1>2, <1>4, <1>5, CallerMoves
<1>7. SubmitHeld'
  <2>1. \A u \in Threads : pc[u] # "push" /\ ~Checkpointing(u)
    BY <1>1, V55Assumption DEF IInv, Callers, SubmitHeld
  <2>2. \A u \in Threads \ {t} : pc'[u] = pc[u] /\ call'[u] = call[u]
    BY <1>1 DEF ThreadType
  <2>3. \A u \in Threads \ {t} : pc'[u] # "push" /\ ~Checkpointing(u)'
    BY <2>1, <2>2 DEF Checkpointing
  <2>4. pc'[t] # "push" /\ submitMu' = t /\ ticket'[t] = next'
    BY <1>1 DEF ThreadType, mem
  <2>5. QED
    BY <2>3, <2>4 DEF SubmitHeld
<1>8. CheckpointSteps'
  BY <1>1, <1>4, <1>6 DEF IInv, Callers, CheckpointSteps, Rotating, mem, ThreadType, MemoryType
<1>9. QED
  BY <1>2, <1>6, <1>7, <1>8 DEF IInv, Callers

\* What wait() returned for is on disk.
LEMMA WaitReturnStep ==
  ASSUME IInv, NEW t \in Threads, WaitReturn(t)
  PROVE  IInv'
<1> USE InvParts
<1>1. /\ pc[t] = "wait" /\ durable >= ticket[t] /\ ticket' = ticket
      /\ acked' = IF ticket[t] > Len(acked) THEN SubSeq(kv, 1, ticket[t]) ELSE acked
      /\ snap' = snap /\ wals' = wals /\ ids' = ids /\ late' = late
      /\ UNCHANGED mem /\ UNCHANGED wr /\ UNCHANGED locks /\ UNCHANGED proc /\ UNCHANGED bound
  BY DEF WaitReturn, disk
<1>2. PICK p, c : /\ pc' = [pc EXCEPT ![t] = p] /\ call' = [call EXCEPT ![t] = c]
                  /\ \/ p = "ck_snapshot" /\ c = call[t] /\ call[t] = "checkpoint"
                     \/ p = "cl_stop" /\ c = call[t] /\ call[t] # "checkpoint"
                     \/ p = "idle" /\ c = "none"
  <2>1. AfterWait(t)
    BY DEF WaitReturn
  <2>2. call = [call EXCEPT ![t] = call[t]]
    BY DEF ThreadType
  <2>3. CASE call[t] = "checkpoint"
    BY <2>1, <2>2, <2>3 DEF AfterWait, Goto
  <2>4. CASE call[t] = "close"
    BY <2>1, <2>2, <2>4 DEF AfterWait, Goto
  <2>5. CASE call[t] \notin {"checkpoint", "close"}
    BY <2>1, <2>5 DEF AfterWait, Goto, Return
  <2>6. QED
    BY <2>3, <2>4, <2>5
<1>3. PICK n : n = ticket[t]
  OBVIOUS
<1>4. /\ n \in 0..MaxOps /\ n <= next /\ ticket' = [ticket EXCEPT ![t] = n] /\ n <= durable
      /\ p \in Steps /\ p # "push" /\ c \in Calls \cup {"none"} /\ pc[t] # "idle" /\ pc[t] # "push"
  BY <1>1, <1>2, <1>3 DEF ThreadType, Steps, IInv, Callers, CheckpointSteps
<1>5. /\ acked' \in Seq(Ops)
      /\ submitMu' \in Threads \cup {NoOne} /\ queueMu' \in Threads \cup {NoOne}
  <2>1. SubSeq(kv, 1, n) \in Seq(Ops)
    <3>1. n <= Len(kv) /\ kv \in Seq(Ops) /\ n \in Nat
      BY <1>4, V55Assumption DEF IInv, Numbering, MemoryType
    <3>2. QED
      BY <3>1, SubSeqProperties
  <2>2. QED
    BY <1>1, <1>3, <2>1 DEF HistoryType, ThreadType, locks
<1>6. AckedOnDisk'
  <2>1. CASE n > Len(acked)
    <3>1. n \in Nat /\ n <= Reach /\ kv \in Seq(Ops) /\ n <= Len(kv) /\ Reach \in Nat
      <4>1. up # "down"
        BY <1>1 DEF Process, Quiet
      <4>2. Reach >= durable
        BY <4>1 DEF Process, Written, ThreadType, MemoryType
      <4>3. QED
        BY <1>4, <4>2, V55Assumption, ReachType DEF IInv, Numbering, MemoryType
    <3>2. \A i \in 1..Reach : kv[i] = DiskId(i)
      BY <1>1 DEF Process, Quiet, Written
    <3>3. acked' = SubSeq(kv, 1, n)
      BY <1>1, <1>3, <2>1
    <3>4. Len(acked') = n /\ \A i \in 1..n : acked'[i] = kv[i]
      BY <3>1, <3>3, SubSeqProperties
    <3>5. \A i \in 1..n : acked'[i] = DiskId(i)'
      <4>1. \A i : DiskId(i)' = DiskId(i)
        BY <1>1, SameDisk
      <4>2. \A i \in 1..n : i \in 1..Reach
        BY <3>1
      <4>3. QED
        BY <3>2, <3>4, <4>1, <4>2
    <3>6. QED
      BY <1>1, <3>1, <3>4, <3>5, SameDisk DEF AckedOnDisk
  <2>2. CASE ~(n > Len(acked))
    BY <1>1, <1>3, <2>2, SameHistory
  <2>3. QED
    BY <2>1, <2>2
<1>7. /\ TypeOK' /\ Disk' /\ Process' /\ WriterPhase' /\ Numbering' /\ Pending' /\ LastSeg' = LastSeg
  BY <1>1, <1>2, <1>4, <1>5, <1>6, CallerMoves
<1>8. SubmitHeld'
  BY <1>1, <1>2 DEF IInv, Callers, SubmitHeld, Checkpointing, Rotating, Sleeping, mem, locks, ThreadType
<1>9. CheckpointSteps'
  <2>1. p = "ck_snapshot" => durable = next
    <3>1. p = "ck_snapshot" => ticket[t] = next
      BY <1>1, <1>2 DEF IInv, Callers, SubmitHeld, Checkpointing, Sleeping
    <3>2. durable <= next
      BY DEF Pending, MemoryType, ThreadType
    <3>3. QED
      BY <1>1, <3>1, <3>2 DEF MemoryType
  <2>2. QED
    BY <1>1, <1>2, <1>7, <2>1 DEF IInv, Callers, CheckpointSteps, Rotating, mem, ThreadType
<1>10. QED
  BY <1>6, <1>7, <1>8, <1>9 DEF IInv, Callers

-----------------------------------------------------------------------------
(* Submits, close() and the writer                                         *)

LEMMA Frontier ==
  ASSUME IInv
  PROVE  /\ next \in Nat /\ durable \in Nat /\ Len(local) \in Nat /\ Len(queue) \in Nat
         /\ next = durable + Len(local) + Len(queue) + (IF Pushing THEN 1 ELSE 0)
         /\ durable <= next /\ Len(kv) = next /\ next <= ids /\ ids <= MaxOps /\ ids \in Nat
         /\ local \in Seq(Rec) /\ queue \in Seq(Rec) /\ kv \in Seq(Ops)
         /\ up # "down" => Reach <= next /\ durable <= Reach /\ Reach \in Nat
<1> USE InvParts
<1>1. /\ next \in Nat /\ durable \in Nat /\ local \in Seq(Rec) /\ queue \in Seq(Rec)
      /\ kv \in Seq(Ops) /\ ids <= MaxOps /\ ids \in Nat
  BY V55Assumption DEF MemoryType, ThreadType, HistoryType
<1>2. Len(local) \in Nat /\ Len(queue) \in Nat
  BY <1>1
<1>3. next = durable + Len(local) + Len(queue) + (IF Pushing THEN 1 ELSE 0)
  BY DEF Pending
<1>4. Len(kv) = next /\ next <= ids
  BY DEF IInv, Numbering
<1>5. durable <= next
  BY <1>1, <1>2, <1>3
<1>6. ASSUME up # "down" PROVE Reach <= next /\ durable <= Reach /\ Reach \in Nat
  <2>1. Reach = durable + (IF wpc = "publish" THEN Len(local) ELSE 0)
    BY <1>6 DEF Process, Written
  <2>2. QED
    BY <1>1, <1>2, <1>3, <2>1
<1>7. QED
  BY <1>1, <1>2, <1>3, <1>4, <1>5, <1>6

LEMMA OnlyOnePushes ==
  ASSUME IInv, NEW t \in Threads, submitMu \in {NoOne, t}
  PROVE  \A u \in Threads \ {t} : pc[u] # "push" /\ ~Checkpointing(u)
  BY V55Assumption DEF IInv, Callers, SubmitHeld

LEMMA SubmitStep ==
  ASSUME IInv, NEW t \in Threads, Submit(t)
  PROVE  IInv'
<1> USE InvParts
<1>1. /\ pc[t] = "submit" /\ submitMu = NoOne /\ ids < MaxOps /\ submitMu' = t
      /\ next' = next + 1 /\ ticket' = [ticket EXCEPT ![t] = next + 1]
      /\ ids' = ids + 1 /\ kv' = Append(kv, ids + 1) /\ pc' = [pc EXCEPT ![t] = "push"]
      /\ snap' = snap /\ wals' = wals
      /\ UNCHANGED <<durable, queue, wfd, seg, closed, stop, call, wpc, local, queueMu, up, fail, acked,
                     late, calls, faults>>
  BY DEF Submit, Goto, Take, disk, wr, proc, bound
<1>2. /\ up = "up" /\ ~Pushing /\ submitMu \in {NoOne, t}
      /\ \A u \in Threads : pc[u] # "push" /\ ~Checkpointing(u)
  <2>1. \A u \in Threads : pc[u] # "push" /\ ~Checkpointing(u)
    BY <1>1, OnlyOnePushes DEF Checkpointing, Rotating, Sleeping
  <2>2. up = "up"
    BY <1>1 DEF Process, Quiet
  <2>3. QED
    BY <1>1, <2>1, <2>2 DEF Pushing
<1>3. /\ Len(kv') = next + 1 /\ kv' \in Seq(Ops) /\ \A i \in 1..next : kv'[i] = kv[i]
  <2>1. ids + 1 \in Ops
    BY <1>1, Frontier, V55Assumption DEF Ops
  <2>2. kv \in Seq(Ops) /\ Len(kv) = next /\ kv' = Append(kv, ids + 1)
    BY <1>1, Frontier
  <2>3. PICK id : id = ids + 1
    OBVIOUS
  <2>4. kv \in Seq(Ops) /\ id \in Ops
    BY <2>1, <2>2, <2>3
  <2>5. /\ Len(Append(kv, id)) = Len(kv) + 1 /\ Append(kv, id) \in Seq(Ops)
        /\ \A i \in 1..Len(kv) : Append(kv, id)[i] = kv[i]
    BY ONLY <2>4, AppendIs, SMT
  <2>6. QED
    BY ONLY <2>2, <2>3, <2>5, Zenon
<1>4. TypeOK'
  <2>1. next + 1 \in 0..MaxOps /\ ids + 1 \in 0..MaxOps
    BY <1>1, Frontier, V55Assumption
  <2>2. DiskType' /\ MemoryType'
    BY <1>1, <1>3, <2>1, SameDisk DEF MemoryType
  <2>3. ThreadType' /\ HistoryType'
    BY <1>1, <2>1 DEF ThreadType, HistoryType
  <2>4. QED
    BY <2>2, <2>3 DEF TypeOK
<1>5. Disk' /\ AckedOnDisk' /\ LastSeg' = LastSeg
  <2>1. Reach' <= ids' /\ Reach' = Reach
    BY <1>1, <1>2, Frontier, SameDisk
  <2>2. Disk' /\ LastSeg' = LastSeg
    BY <1>1, <2>1, SameDisk DEF Disk
  <2>3. \A i \in 1..Len(acked) : acked'[i] = DiskId(i)'
    BY <1>1, SameDisk DEF AckedOnDisk
  <2>4. QED
    BY <1>1, <2>1, <2>2, <2>3 DEF AckedOnDisk
<1>6. Process'
  <2>1. Quiet' /\ Creating' /\ Active'
    BY <1>1, <1>2, <1>5, SameDisk DEF Quiet, Creating, Active, Process
  <2>2. \A n \in 1..Reach' : kv'[n] = DiskId(n)'
    <3>1. Reach' = Reach /\ \A n : DiskId(n)' = DiskId(n)
      BY <1>1, SameDisk
    <3>2. \A n \in 1..Reach : n \in 1..next /\ kv[n] = DiskId(n)
      BY <1>2, Frontier DEF Process, Written
    <3>3. QED
      BY <1>3, <3>1, <3>2
  <2>3. Written'
    <3>1. Reach' = Reach /\ wals' = wals /\ wpc' = wpc /\ durable' = durable /\ local' = local
      BY <1>1, SameDisk
    <3>2. /\ Reach = durable + (IF wpc = "publish" THEN Len(local) ELSE 0)
          /\ wals # <<>> /\ \A s \in DOMAIN wals : ~wals[s].torn
      BY <1>2 DEF Written, Process
    <3>3. QED
      BY ONLY <2>2, <3>1, <3>2 DEF Written
  <2>4. QED
    BY <2>1, <2>3 DEF Process
<1>7. SubmitHeld'
  BY <1>1, <1>2 DEF SubmitHeld, Checkpointing, Rotating, Sleeping, ThreadType
<1>8. CheckpointSteps'
  <2>1. \A u \in Threads : ticket'[u] <= next'
    <3>1. next \in Nat /\ \A u \in Threads : ticket[u] \in Nat /\ ticket[u] <= next
      BY Frontier, V55Assumption DEF IInv, Callers, CheckpointSteps, ThreadType
    <3>2. \A u \in Threads : ticket'[u] = IF u = t THEN next + 1 ELSE ticket[u]
      BY <1>1 DEF ThreadType
    <3>3. QED
      BY ONLY <1>1, <3>1, <3>2
  <2>2. \A u \in Threads : pc'[u] \notin Rotating \cup {"ck_snapshot"}
    BY <1>1, <1>2 DEF Checkpointing, Rotating, ThreadType
  <2>3. QED
    BY <2>1, <2>2 DEF CheckpointSteps, Rotating
<1>9. WriterPhase' /\ Numbering'
  BY <1>1, <1>3, Frontier DEF IInv, WriterPhase, Numbering
<1>10. Pending'
  <2>1. Pushing'
    BY <1>1 DEF Pushing, ThreadType
  <2>2. Continues(local, durable)' /\ Continues(queue, durable + Len(local))'
    <3>1. \A i \in 1..Len(local) : durable + i \in 1..next
      BY Frontier
    <3>2. \A i \in 1..Len(queue) : durable + Len(local) + i \in 1..next
      BY Frontier
    <3>3. QED
      BY <1>1, <1>3, <3>1, <3>2 DEF Pending, Continues
  <2>3. QED
    BY <1>1, <1>2, <2>1, <2>2, Frontier DEF Pending
<1>11. QED
  BY <1>4, <1>5, <1>6, <1>7, <1>8, <1>9, <1>10 DEF IInv, Callers

LEMMA PushStep ==
  ASSUME IInv, NEW t \in Threads, Push(t)
  PROVE  IInv'
<1> USE InvParts
<1> DEFINE rec == [seq |-> ticket[t], id |-> kv[ticket[t]]]
<1>1. /\ pc[t] = "push" /\ queue' = Append(queue, rec) /\ submitMu' = NoOne /\ WakeWriter
      /\ late' = IF stop THEN late \cup {ticket[t]} ELSE late
      /\ snap' = snap /\ wals' = wals
      /\ UNCHANGED <<kv, next, durable, wfd, seg, closed, stop, ticket, local, queueMu, up, fail,
                     ids, acked, calls, faults>>
  BY DEF Push, Queued, disk, proc, bound
<1>2. PICK p, c : /\ pc' = [pc EXCEPT ![t] = p] /\ call' = [call EXCEPT ![t] = c]
                  /\ p \in {"wait", "idle"} /\ c \in Calls \cup {"none"} /\ c # "checkpoint"
  <2>1. AfterSubmit(t)
    BY DEF Push
  <2>2. call = [call EXCEPT ![t] = call[t]] /\ call[t] \in Calls \cup {"none"}
    BY DEF ThreadType
  <2>3. CASE call[t] = "put_sync"
    BY <2>1, <2>2, <2>3 DEF AfterSubmit, Goto
  <2>4. CASE call[t] # "put_sync"
    BY <2>1, <2>4 DEF AfterSubmit, Goto, Return
  <2>5. QED
    BY <2>3, <2>4
<1>3. /\ wpc' \in {"take", "asleep", "io", "publish", "notify", "done"}
      /\ wpc' = wpc \/ (wpc = "asleep" /\ wpc' = "take")
  BY <1>1 DEF WakeWriter, ThreadType
<1>4. /\ ticket[t] = next /\ submitMu = t /\ up = "up" /\ Pushing
      /\ next = durable + Len(local) + Len(queue) + 1
  <2>1. ticket[t] = next /\ submitMu = t /\ Pushing
    BY <1>1 DEF IInv, Callers, SubmitHeld, Pushing
  <2>2. up = "up"
    BY <1>1 DEF Process, Quiet
  <2>3. QED
    BY <2>1, <2>2, Frontier
<1>5. next \in Ops /\ kv[next] \in Ops /\ next \in 1..Len(kv)
  <2>1. next \in 1..Len(kv) /\ next \in Ops
    BY <1>4, Frontier, V55Assumption DEF Ops
  <2>2. QED
    BY <2>1, Frontier, ElementOfSeq
<1>6. rec = [seq |-> next, id |-> kv[next]] /\ rec \in Rec
  BY <1>4, <1>5 DEF Rec
<1> HIDE DEF rec
<1>7. /\ queue' \in Seq(Rec) /\ Len(queue') = Len(queue) + 1 /\ queue'[Len(queue) + 1] = rec
      /\ \A i \in 1..Len(queue) : queue'[i] = queue[i]
  BY <1>1, <1>6, Frontier, AppendIs
<1>8. TypeOK'
  <2>1. DiskType' /\ MemoryType'
    BY <1>1, <1>7, SameDisk DEF MemoryType
  <2>2. ThreadType'
    BY <1>1, <1>2, <1>3 DEF ThreadType
  <2>3. HistoryType'
    BY <1>1, <1>4, <1>5 DEF HistoryType
  <2>4. QED
    BY <2>1, <2>2, <2>3 DEF TypeOK
<1>9. Disk' /\ AckedOnDisk' /\ LastSeg' = LastSeg
  BY <1>1, SameHistory, SameDisk
<1>10. Process'
  BY <1>1, <1>3, <1>4, SameProcess
<1>11. \A u \in Threads \ {t} : pc[u] # "push" /\ ~Checkpointing(u)
  BY <1>4, OnlyOnePushes
<1>12. SubmitHeld' /\ ~Pushing'
  BY <1>1, <1>2, <1>11 DEF SubmitHeld, Pushing, Checkpointing, Rotating, Sleeping, ThreadType
<1>13. CheckpointSteps'
  BY <1>1, <1>2, <1>9 DEF IInv, Callers, CheckpointSteps, Rotating, ThreadType
<1>14. WriterPhase'
  <2>1. wpc' = "done" => stop /\ \A i \in 1..Len(queue') : queue'[i].seq \in late'
    <3>1. SUFFICES ASSUME wpc' = "done", NEW i \in 1..Len(queue') PROVE stop /\ queue'[i].seq \in late'
      BY <1>3 DEF IInv, WriterPhase
    <3>2. stop /\ \A j \in 1..Len(queue) : queue[j].seq \in late
      BY <1>3, <3>1 DEF IInv, WriterPhase
    <3>3. late' = late \cup {next}
      BY <1>1, <1>4, <3>2
    <3>4. rec.seq = next
      BY <1>6
    <3>5. i \in 1..Len(queue) \/ i = Len(queue) + 1
      BY <1>7, Frontier
    <3>6. QED
      BY <1>7, <3>2, <3>3, <3>4, <3>5
  <2>2. QED
    BY <1>1, <1>3, <2>1 DEF IInv, WriterPhase
<1>15. Numbering'
  BY <1>1 DEF IInv, Numbering
<1>16. Pending'
  <2>1. Continues(local, durable)'
    BY <1>1 DEF Pending, Continues
  <2>2. \A i \in 1..Len(queue') : /\ queue'[i].seq = durable + Len(local) + i
                                  /\ queue'[i].id = kv[durable + Len(local) + i]
    <3>1. \A i \in 1..Len(queue) : /\ queue'[i].seq = durable + Len(local) + i
                                   /\ queue'[i].id = kv[durable + Len(local) + i]
      BY <1>7 DEF Pending, Continues
    <3>2. rec.seq = next /\ rec.id = kv[next] /\ next = durable + Len(local) + (Len(queue) + 1)
      BY <1>4, <1>6, Frontier
    <3>3. \A i \in 1..Len(queue') : i \in 1..Len(queue) \/ i = Len(queue) + 1
      BY <1>7, Frontier
    <3>4. QED
      BY <1>7, <3>1, <3>2, <3>3
  <2>3. Continues(queue, durable + Len(local))'
    BY <1>1, <2>2 DEF Continues
  <2>4. QED
    BY <1>1, <1>4, <1>7, <1>12, <2>1, <2>3, Frontier DEF Pending
<1>17. QED
  BY <1>8, <1>9, <1>10, <1>12, <1>13, <1>14, <1>15, <1>16 DEF IInv, Callers

LEMMA CloseStopStep ==
  ASSUME IInv, NEW t \in Threads, CloseStop(t)
  PROVE  IInv'
<1> USE InvParts
<1>1. /\ pc[t] = "cl_stop" /\ stop' = TRUE /\ WakeWriter /\ pc' = [pc EXCEPT ![t] = "cl_join"]
      /\ snap' = snap /\ wals' = wals
      /\ UNCHANGED <<kv, next, durable, queue, wfd, seg, closed, call, ticket, local, submitMu,
                     queueMu, up, fail, ids, acked, late, calls, faults>>
  BY DEF CloseStop, Goto, disk, locks, proc, hist, bound
<1>2. /\ wpc' \in {"take", "asleep", "io", "publish", "notify", "done"} /\ up = "up"
      /\ wpc' = wpc \/ (wpc = "asleep" /\ wpc' = "take")
  BY <1>1 DEF WakeWriter, ThreadType, Process, Quiet
<1>3. TypeOK'
  BY <1>1, <1>2, SameDisk DEF TypeOK, MemoryType, ThreadType, HistoryType
<1>4. Disk' /\ AckedOnDisk' /\ LastSeg' = LastSeg
  BY <1>1, SameHistory, SameDisk
<1>5. Process'
  BY <1>1, <1>2, SameProcess
<1>6. SubmitHeld' /\ CheckpointSteps'
  BY <1>1, <1>4 DEF IInv, Callers, SubmitHeld, CheckpointSteps, Checkpointing, Rotating, Sleeping,
                    ThreadType
<1>7. WriterPhase' /\ Numbering'
  BY <1>1, <1>2 DEF IInv, WriterPhase, Numbering
<1>8. Pending'
  <2>1. Pushing' = Pushing
    BY <1>1 DEF Pushing, ThreadType
  <2>2. QED
    BY <1>1, <2>1, SamePending
<1>9. QED
  BY <1>3, <1>4, <1>5, <1>6, <1>7, <1>8 DEF IInv, Callers

LEMMA CloseJoinStep ==
  ASSUME IInv, NEW t \in Threads, CloseJoin(t)
  PROVE  IInv'
<1> USE InvParts
<1>1. /\ pc[t] = "cl_join" /\ WalFree /\ wfd' = 0 /\ closed' = TRUE
      /\ pc' = [pc EXCEPT ![t] = "idle"] /\ call' = [call EXCEPT ![t] = "none"]
      /\ snap' = snap /\ wals' = wals
      /\ UNCHANGED <<kv, next, durable, queue, seg, stop, ticket, wpc, local, submitMu,
                     queueMu, up, fail, ids, acked, late, calls, faults>>
  BY DEF CloseJoin, Return, Goto, disk, wr, locks, proc, hist, bound
<1>2. up = "up"
  BY <1>1 DEF Process, Quiet
<1>3. TypeOK'
  <2>1. 0 \in 0..MaxSeg
    BY V55Assumption
  <2>2. DiskType'
    BY <1>1, SameDisk
  <2>3. MemoryType'
    BY <1>1, <2>1 DEF MemoryType
  <2>4. ThreadType'
    BY <1>1 DEF ThreadType
  <2>5. HistoryType'
    BY <1>1 DEF HistoryType
  <2>6. QED
    BY <2>2, <2>3, <2>4, <2>5 DEF TypeOK
<1>4. Disk' /\ AckedOnDisk' /\ LastSeg' = LastSeg
  BY <1>1, SameHistory, SameDisk
<1>5. Process'
  BY <1>1, <1>2, SameProcess
<1>6. SubmitHeld' /\ CheckpointSteps'
  BY <1>1, <1>4 DEF IInv, Callers, SubmitHeld, CheckpointSteps, Checkpointing, Rotating, Sleeping,
                    ThreadType, WalFree
<1>7. WriterPhase' /\ Numbering'
  BY <1>1, <1>2 DEF IInv, WriterPhase, Numbering
<1>8. Pending'
  <2>1. Pushing' = Pushing
    BY <1>1 DEF Pushing, ThreadType
  <2>2. QED
    BY <1>1, <2>1, SamePending
<1>9. QED
  BY <1>3, <1>4, <1>5, <1>6, <1>7, <1>8 DEF IInv, Callers

LEMMA WriterTakeStep ==
  ASSUME IInv, WriterTake
  PROVE  IInv'
<1> USE InvParts
<1>1. /\ up = "up" /\ wpc = "take" /\ snap' = snap /\ wals' = wals
      /\ UNCHANGED <<kv, next, durable, wfd, seg, closed, stop, pc, call, ticket, submitMu,
                     queueMu, up, fail, ids, acked, late, calls, faults>>
  BY DEF WriterTake, disk, thr, locks, proc, hist, bound
<1>2. local = <<>> /\ Len(local) = 0
  BY <1>1 DEF IInv, WriterPhase
<1>3. /\ wpc' \in {"take", "asleep", "io", "publish", "notify", "done"} /\ wpc' # "publish"
      /\ queue' \in Seq(Rec) /\ local' \in Seq(Rec)
      /\ wpc' = "io" => local' # <<>>
      /\ wpc' # "io" => local' = <<>>
      /\ wpc' = "done" => stop /\ queue' = <<>>
      /\ Len(local') + Len(queue') = Len(queue)
      /\ \A i \in 1..Len(local') : local'[i] = queue[i]
      /\ \A i \in 1..Len(queue') : queue'[i] = queue[Len(local') + i]
  <2>1. CASE queue = <<>>
    <3>1. wpc' \in {"done", "asleep"} /\ (wpc' = "done" => stop) /\ queue' = queue /\ local' = local
      BY <2>1 DEF WriterTake
    <3>2. Len(queue) = 0
      BY <2>1
    <3>3. QED
      BY <1>2, <2>1, <3>1, <3>2, Frontier
  <2>2. CASE queue # <<>>
    <3>1. PICK n : n = BatchLen
      OBVIOUS
    <3>2. n \in 1..Len(queue)
      <4>1. Len(queue) >= 1
        <5>1. SUFFICES ASSUME Len(queue) = 0 PROVE queue = <<>>
          BY <2>2, Frontier
        <5>2. QED
          BY <5>1, Frontier, EmptySeq
      <4>2. QED
        BY <3>1, <4>1, Frontier, V55Assumption DEF BatchLen
    <3>3. /\ wpc' = "io" /\ local' = SubSeq(queue, 1, n)
          /\ queue' = SubSeq(queue, n + 1, Len(queue))
      BY <2>2, <3>1 DEF WriterTake
    <3>4. /\ local' \in Seq(Rec) /\ Len(local') = n /\ \A i \in 1..n : local'[i] = queue[i]
      BY <3>2, <3>3, Frontier, SubSeqProperties
    <3>5. /\ queue' \in Seq(Rec) /\ Len(queue') = Len(queue) - n
          /\ \A i \in 1..(Len(queue) - n) : queue'[i] = queue[n + i]
      BY <3>2, <3>3, Frontier, SubSeqProperties
    <3>6. local' # <<>>
      <4>1. SUFFICES ASSUME local' = <<>> PROVE FALSE
        OBVIOUS
      <4>2. Len(local') = 0
        BY <4>1
      <4>3. QED
        BY <3>2, <3>4, <4>2
    <3>7. Len(local') + Len(queue') = Len(queue)
      BY <3>2, <3>4, <3>5, Frontier
    <3>8. \A i \in 1..Len(local') : local'[i] = queue[i]
      BY <3>4
    <3>9. \A i \in 1..Len(queue') : queue'[i] = queue[Len(local') + i]
      BY <3>4, <3>5
    <3>10. QED
      BY <3>3, <3>4, <3>5, <3>6, <3>7, <3>8, <3>9
  <2>3. QED
    BY <2>1, <2>2
<1>4. TypeOK'
  BY <1>1, <1>3, SameDisk DEF TypeOK, MemoryType, ThreadType, HistoryType
<1>5. Disk' /\ AckedOnDisk' /\ LastSeg' = LastSeg
  BY <1>1, SameHistory, SameDisk
<1>6. Process'
  BY <1>1, <1>3, SameProcess
<1>7. SubmitHeld' /\ CheckpointSteps'
  BY <1>1, <1>5 DEF IInv, Callers, SubmitHeld, CheckpointSteps, Checkpointing
<1>8. WriterPhase'
  <2>1. queue' = <<>> => Len(queue') = 0
    OBVIOUS
  <2>2. QED
    BY <1>1, <1>3, <2>1 DEF WriterPhase
<1>9. Numbering'
  BY <1>1 DEF IInv, Numbering
<1>10. Pending'
  <2>1. Len(local') \in Nat /\ Len(queue') \in Nat
    BY <1>3, LenProperties
  <2>2. \A i \in 1..Len(queue) : queue[i].seq = durable + i /\ queue[i].id = kv[durable + i]
    <3>1. \A i \in 1..Len(queue) : durable + Len(local) + i = durable + i
      BY <1>2, Frontier
    <3>2. QED
      BY <3>1 DEF Pending, Continues
  <2>3. Continues(local, durable)'
    <3>1. \A i \in 1..Len(local') : i \in 1..Len(queue)
      BY <1>3, <2>1, Frontier
    <3>2. QED
      BY <1>1, <1>3, <2>2, <3>1 DEF Continues
  <2>4. Continues(queue, durable + Len(local))'
    <3>1. \A i \in 1..Len(queue') : /\ Len(local') + i \in 1..Len(queue)
                                    /\ durable + (Len(local') + i) = durable + Len(local') + i
      BY <1>3, <2>1, Frontier
    <3>2. \A i \in 1..Len(queue') : queue'[i] = queue[Len(local') + i]
      BY <1>3
    <3>3. \A i \in 1..Len(queue') : /\ queue'[i].seq = durable + Len(local') + i
                                    /\ queue'[i].id = kv[durable + Len(local') + i]
      <4>1. TAKE i \in 1..Len(queue')
      <4>2. PICK j : j = Len(local') + i
        OBVIOUS
      <4>3. j \in 1..Len(queue) /\ durable + j = durable + Len(local') + i /\ queue'[i] = queue[j]
        BY <3>1, <3>2, <4>2
      <4>4. queue[j].seq = durable + j /\ queue[j].id = kv[durable + j]
        BY <2>2, <4>3
      <4>5. QED
        BY <4>3, <4>4
    <3>4. QED
      BY <1>1, <3>3 DEF Continues
  <2>5. Pushing' = Pushing
    BY <1>1 DEF Pushing
  <2>6. next' = durable' + Len(local') + Len(queue') + (IF Pushing' THEN 1 ELSE 0)
    <3>1. PICK p : p = (IF Pushing THEN 1 ELSE 0)
      OBVIOUS
    <3>2. p \in Nat /\ (IF Pushing' THEN 1 ELSE 0) = p
      BY <2>5, <3>1
    <3>3. next = durable + Len(local) + Len(queue) + p /\ durable \in Nat /\ Len(queue) \in Nat
      BY <3>1, Frontier
    <3>4. next = durable + Len(queue) + p
      BY <1>2, <3>2, <3>3
    <3>5. Len(local') + Len(queue') = Len(queue)
      BY <1>3
    <3>6. next = durable + Len(local') + Len(queue') + p
      BY ONLY <2>1, <3>2, <3>3, <3>4, <3>5
    <3>7. QED
      BY <1>1, <3>2, <3>6
  <2>7. QED
    BY <2>3, <2>4, <2>6 DEF Pending
<1>11. QED
  BY <1>4, <1>5, <1>6, <1>7, <1>8, <1>9, <1>10 DEF IInv, Callers

\* durable_seq takes the last sequence of the batch, which is on disk.
LEMMA WriterPublishStep ==
  ASSUME IInv, WriterPublish
  PROVE  IInv'
<1> USE InvParts
<1>1. /\ wpc = "publish" /\ wpc' = "notify" /\ local' = <<>> /\ durable' = Last(local).seq
      /\ snap' = snap /\ wals' = wals
      /\ UNCHANGED <<kv, next, queue, wfd, seg, closed, stop, pc, call, ticket, submitMu,
                     queueMu, up, fail, ids, acked, late, calls, faults>>
  BY DEF WriterPublish, disk, thr, locks, proc, hist, bound
<1>2. Len(local) \in Nat /\ Len(local) >= 1 /\ up = "up"
  <2>1. local # <<>>
    BY <1>1 DEF IInv, WriterPhase
  <2>2. Len(local) # 0
    BY <2>1, Frontier, EmptySeq
  <2>3. up = "up"
    BY <1>1 DEF Process, Quiet
  <2>4. QED
    BY <2>2, <2>3, Frontier
<1>3. durable' = durable + Len(local) /\ durable' \in Nat /\ durable' <= next
  <2>1. Last(local) = local[Len(local)]
    BY DEF Last
  <2>2. Len(local) \in 1..Len(local)
    BY <1>2
  <2>3. local[Len(local)].seq = durable + Len(local)
    BY <2>2 DEF Pending, Continues
  <2>4. QED
    BY <1>1, <2>1, <2>3, Frontier
<1>4. Len(local') = 0 /\ local' \in Seq(Rec)
  BY <1>1
<1>5. TypeOK'
  <2>1. durable' \in 0..MaxOps
    BY <1>3, Frontier, V55Assumption
  <2>2. QED
    BY <1>1, <1>4, <2>1, SameDisk DEF TypeOK, MemoryType, ThreadType, HistoryType
<1>6. Disk' /\ AckedOnDisk' /\ LastSeg' = LastSeg
  BY <1>1, SameHistory, SameDisk
<1>7. Process'
  <2>1. Quiet' /\ Creating' /\ Active'
    BY <1>1, <1>2, <1>6, SameDisk DEF Quiet, Creating, Active, Process
  <2>2. Reach' = durable'
    BY <1>1, <1>2, <1>3, SameDisk DEF Process, Written
  <2>3. \A n \in 1..Reach' : kv'[n] = DiskId(n)'
    BY <1>1, <1>2, SameDisk DEF Process, Written
  <2>4. wals' # <<>> /\ \A s \in DOMAIN wals' : ~wals'[s].torn
    BY <1>1, <1>2 DEF Process, Written
  <2>5. Written'
    BY <1>1, <1>3, <2>2, <2>3, <2>4 DEF Written
  <2>6. QED
    BY <2>1, <2>5 DEF Process
<1>8. SubmitHeld'
  BY <1>1 DEF IInv, Callers, SubmitHeld, Checkpointing
<1>9. CheckpointSteps'
  <2>1. \A u \in Threads : pc[u] \in Rotating \cup {"ck_snapshot"} => durable = next
    BY DEF IInv, Callers, CheckpointSteps
  <2>2. \A u \in Threads : pc[u] \notin Rotating \cup {"ck_snapshot"}
    BY <1>2, <1>3, <2>1, Frontier
  <2>3. QED
    BY <1>1, <2>2 DEF IInv, Callers, CheckpointSteps, Rotating
<1>10. WriterPhase' /\ Numbering'
  BY <1>1 DEF IInv, WriterPhase, Numbering
<1>11. Pending'
  <2>1. Continues(local, durable)'
    BY <1>4 DEF Continues
  <2>2. Continues(queue, durable + Len(local))'
    <3>1. durable' + Len(local') = durable + Len(local)
      BY <1>3, <1>4, Frontier
    <3>2. QED
      BY <1>1, <3>1 DEF Pending, Continues
  <2>3. Pushing' = Pushing
    BY <1>1 DEF Pushing
  <2>4. QED
    BY <1>1, <1>3, <1>4, <2>1, <2>2, <2>3, Frontier DEF Pending
<1>12. QED
  BY <1>5, <1>6, <1>7, <1>8, <1>9, <1>10, <1>11 DEF IInv, Callers

LEMMA WriterNotifyStep ==
  ASSUME IInv, WriterNotify
  PROVE  IInv'
<1> USE InvParts
<1>1. /\ wpc = "notify" /\ wpc' = "take"
      /\ pc' = [t \in Threads |-> IF pc[t] = "asleep" THEN "wait" ELSE pc[t]]
      /\ snap' = snap /\ wals' = wals
      /\ UNCHANGED <<kv, next, durable, queue, wfd, seg, closed, stop, call, ticket, local,
                     submitMu, queueMu, up, fail, ids, acked, late, calls, faults>>
  BY DEF WriterNotify, disk, mem, locks, proc, hist, bound
<1>2. up = "up"
  BY <1>1 DEF Process, Quiet
<1>3. TypeOK'
  BY <1>1, SameDisk DEF TypeOK, MemoryType, ThreadType, HistoryType
<1>4. Disk' /\ AckedOnDisk' /\ LastSeg' = LastSeg
  BY <1>1, SameHistory, SameDisk
<1>5. Process'
  BY <1>1, <1>2, SameProcess
<1>6. SubmitHeld' /\ CheckpointSteps'
  BY <1>1, <1>4 DEF IInv, Callers, SubmitHeld, CheckpointSteps, Checkpointing, Rotating, Sleeping
<1>7. WriterPhase' /\ Numbering'
  BY <1>1 DEF IInv, WriterPhase, Numbering
<1>8. Pending'
  <2>1. Pushing' = Pushing
    BY <1>1 DEF Pushing
  <2>2. QED
    BY <1>1, <2>1, SamePending
<1>9. QED
  BY <1>3, <1>4, <1>5, <1>6, <1>7, <1>8 DEF IInv, Callers

-----------------------------------------------------------------------------
(* Steps that change the newest segment                                    *)

LEMMA PutNewest ==
  ASSUME DiskType, NEW s \in Segs, NEW f \in WalFile, \A t \in DOMAIN wals : t <= s,
         wals' = Put(s, f), snap' = snap
  PROVE  /\ DiskType' /\ wals' # <<>> /\ DOMAIN wals' = DOMAIN wals \cup {s} /\ wals'[s] = f
         /\ \A t \in DOMAIN wals \ {s} : wals'[t] = wals[t]
         /\ LastSeg' = s /\ Newest' = f /\ Reach' = f.first + Len(f.recs) - 1
<1>1. /\ wals' # <<>> /\ DOMAIN wals' = DOMAIN wals \cup {s} /\ wals'[s] = f
      /\ \A t \in DOMAIN wals \ {s} : wals'[t] = wals[t]
      /\ DOMAIN wals' \subseteq Segs /\ \A t \in DOMAIN wals' : wals'[t] \in WalFile
  BY PutIs
<1>2. DiskType'
  BY <1>1 DEF DiskType
<1>3. LastSeg' = s
  <2>1. DOMAIN wals' \subseteq Nat /\ s \in DOMAIN wals' /\ \A t \in DOMAIN wals' : t <= s
    BY <1>1, V55Assumption DEF Segs
  <2>2. (CHOOSE u \in DOMAIN wals' : \A t \in DOMAIN wals' : t <= u) = s
    BY ONLY <2>1, LastOf
  <2>3. QED
    BY <2>2 DEF LastSeg
<1>4. Newest' = f
  BY <1>1, <1>3 DEF Newest
<1>5. Reach' = f.first + Len(f.recs) - 1
  BY <1>1, <1>4 DEF Reach
<1>6. QED
  BY <1>1, <1>2, <1>3, <1>4, <1>5

\* Records added behind the newest segment's own
LEMMA ExtendNewest ==
  ASSUME DiskType, Disk, AckedOnDisk, wals # <<>>, ids \in Nat, acked \in Seq(Ops),
         NEW f \in WalFile, NEW q \in Seq(Rec),
         f.first = Newest.first, f.recs = Newest.recs \o q, ~f.hdr => f.recs = <<>>,
         \A i \in 1..Len(q) : q[i].seq = Reach + i,
         Reach + Len(q) <= ids,
         wals' = Put(LastSeg, f), snap' = snap, ids' = ids, acked' = acked
  PROVE  /\ DiskType' /\ Disk' /\ AckedOnDisk'
         /\ wals' # <<>> /\ DOMAIN wals' = DOMAIN wals /\ wals'[LastSeg] = f
         /\ \A t \in DOMAIN wals \ {LastSeg} : wals'[t] = wals[t] /\ ~wals[t].torn
         /\ LastSeg' = LastSeg /\ Reach' = Reach + Len(q)
         /\ \A n \in 1..Reach : DiskId(n)' = DiskId(n)
         /\ \A n \in (Reach + 1)..(Reach + Len(q)) : DiskId(n)' = q[n - Reach].id
<1>1. /\ LastSeg \in DOMAIN wals /\ LastSeg \in Segs /\ \A t \in DOMAIN wals : t <= LastSeg
  BY LastSegExists DEF Disk
<1>2. /\ DiskType' /\ wals' # <<>> /\ DOMAIN wals' = DOMAIN wals /\ wals'[LastSeg] = f
      /\ \A t \in DOMAIN wals \ {LastSeg} : wals'[t] = wals[t]
      /\ LastSeg' = LastSeg /\ Newest' = f /\ Reach' = f.first + Len(f.recs) - 1
  BY <1>1, PutNewest
<1>3. PICK recs, a, k, m, R, S : /\ recs = Newest.recs /\ a = Newest.first /\ k = Len(recs)
                                 /\ m = Len(q) /\ R = Reach /\ S = snap.seq
  OBVIOUS
<1>4. /\ recs \in Seq(Rec) /\ k \in Nat /\ m \in Nat /\ a \in Nat
      /\ S \in Nat /\ R \in Nat /\ R = a + k - 1 /\ a <= S + 1 /\ S <= R
      /\ \A i \in 1..k : recs[i].seq = a + i - 1
  <2>1. Newest.recs \in Seq(Rec) /\ Newest.first \in Nat /\ Len(Newest.recs) \in Nat
    BY <1>1, WalsType DEF Newest
  <2>2. /\ Reach = Newest.first + Len(Newest.recs) - 1
        /\ Newest.first <= snap.seq + 1 /\ snap.seq <= Reach
        /\ \A i \in 1..Len(Newest.recs) : Newest.recs[i].seq = Newest.first + i - 1
    BY DEF Disk, Latest, Reach
  <2>3. snap.seq \in Nat /\ Reach \in Nat /\ m \in Nat
    BY <1>3, SnapType, ReachType, LenProperties DEF Disk
  <2>4. QED
    BY ONLY <1>3, <2>1, <2>2, <2>3
<1>5. /\ Len(f.recs) = k + m /\ \A i \in 1..k : f.recs[i] = recs[i]
      /\ \A i \in 1..m : f.recs[k + i] = q[i]
  <2>1. f.recs = recs \o q
    BY <1>3
  <2>2. /\ Len(recs \o q) = k + m
        /\ \A i \in 1..(k + m) : (recs \o q)[i] = IF i <= k THEN recs[i] ELSE q[i - k]
    BY <1>3, <1>4, ConcatProperties
  <2>3. \A i \in 1..k : i \in 1..(k + m) /\ i <= k
    BY <1>4
  <2>4. \A i \in 1..m : k + i \in 1..(k + m) /\ ~(k + i <= k) /\ (k + i) - k = i
    BY <1>4
  <2>5. QED
    BY ONLY <2>1, <2>2, <2>3, <2>4
<1>6. f.first = a /\ Reach' = R + m /\ Len(f.recs) = k + m
  <2>1. f.first = a
    BY <1>3
  <2>2. QED
    BY <1>2, <1>4, <1>5, <2>1
<1>7. Latest'
  <2>1. \A i \in 1..(k + m) : f.recs[i].seq = a + i - 1
    <3>1. TAKE i \in 1..(k + m)
    <3>2. CASE i <= k
      <4>1. i \in 1..k
        BY <1>4, <3>2
      <4>2. QED
        BY <1>4, <1>5, <4>1
    <3>3. CASE i > k
      <4>1. PICK j : j = i - k
        OBVIOUS
      <4>2. j \in 1..m /\ k + j = i /\ R + j = a + i - 1
        BY <1>4, <3>3, <4>1
      <4>3. q[j].seq = R + j
        BY <1>3, <4>2
      <4>4. QED
        BY <1>5, <4>2, <4>3
    <3>4. i <= k \/ i > k
      BY <1>4
    <3>5. QED
      BY ONLY <3>2, <3>3, <3>4
  <2>2. Newest'.first <= snap'.seq + 1 /\ snap'.seq <= Reach'
    BY <1>2, <1>3, <1>4, <1>6
  <2>3. QED
    BY <1>2, <1>6, <2>1, <2>2 DEF Latest
<1>8. Older'
  BY <1>2 DEF Older, Disk
<1>9. Disk'
  <2>1. Shape'
    BY <1>1, <1>2 DEF Shape, Disk
  <2>2. QED
    BY <1>3, <1>6, <1>7, <1>8, <2>1 DEF Disk
<1>10. \A n : DiskId(n)' = IF n <= S THEN snap.kv[n] ELSE f.recs[n + 1 - a].id
  BY <1>2, <1>3, <1>6 DEF DiskId
<1>11. \A n : DiskId(n) = IF n <= S THEN snap.kv[n] ELSE recs[n + 1 - a].id
  BY <1>3 DEF DiskId
<1>12. \A n \in 1..R : DiskId(n)' = DiskId(n)
  <2>1. TAKE n \in 1..R
  <2>2. CASE n <= S
    BY <1>10, <1>11, <2>2
  <2>3. CASE ~(n <= S)
    <3>1. n + 1 - a \in 1..k
      BY <1>4, <2>3
    <3>2. QED
      BY <1>5, <1>10, <1>11, <2>3, <3>1
  <2>4. QED
    BY <2>2, <2>3
<1>13. \A n \in (R + 1)..(R + m) : DiskId(n)' = q[n - R].id
  <2>1. TAKE n \in (R + 1)..(R + m)
  <2>2. PICK j : j = n - R
    OBVIOUS
  <2>3. ~(n <= S) /\ n + 1 - a = k + j /\ j \in 1..m
    BY <1>4, <2>2
  <2>4. QED
    BY <1>5, <1>10, <2>2, <2>3
<1>14. AckedOnDisk'
  <2>1. \A i \in 1..Len(acked) : i \in 1..R
    BY <1>3, <1>4 DEF AckedOnDisk
  <2>2. \A i \in 1..Len(acked) : acked'[i] = DiskId(i)'
    BY <1>12, <2>1 DEF AckedOnDisk
  <2>3. Len(acked) <= R /\ Len(acked) \in Int
    BY <1>3, <1>4 DEF AckedOnDisk
  <2>4. Len(acked') <= Reach'
    BY <1>4, <1>6, <2>3
  <2>5. QED
    BY <2>2, <2>4 DEF AckedOnDisk
<1>15. \A t \in DOMAIN wals \ {LastSeg} : ~wals[t].torn
  BY DEF Disk, Older
<1>16. QED
  BY <1>2, <1>3, <1>6, <1>9, <1>12, <1>13, <1>14, <1>15

-----------------------------------------------------------------------------
(* The end of a process, and the constructor                               *)

LEMMA GoneKeeps ==
  ASSUME IInv, Gone, DiskType', Disk', AckedOnDisk', faults' \in 0..MaxFault
  PROVE  IInv'
<1> USE InvParts
<1>1. /\ kv' = <<>> /\ next' = 0 /\ durable' = 0 /\ queue' = <<>> /\ local' = <<>>
      /\ wfd' = 0 /\ seg' = 0 /\ closed' = FALSE /\ stop' = FALSE
      /\ pc' = [t \in Threads |-> "idle"] /\ call' = [t \in Threads |-> "none"]
      /\ ticket' = [t \in Threads |-> 0]
      /\ wpc' = "take" /\ submitMu' = NoOne /\ queueMu' = NoOne /\ up' = "down" /\ late' = {}
      /\ UNCHANGED <<snap, fail, ids, acked, calls>>
  BY DEF Gone, ForAll
<1>2. Len(kv') = 0 /\ Len(local') = 0 /\ Len(queue') = 0
  BY <1>1
<1>3. TypeOK'
  <2>1. 0 \in 0..MaxOps /\ 0 \in 0..MaxSeg
    BY V55Assumption
  <2>2. MemoryType'
    <3>1. kv' \in Seq(Ops) /\ queue' \in Seq(Rec)
      BY <1>1
    <3>2. /\ next' \in 0..MaxOps /\ durable' \in 0..MaxOps /\ wfd' \in 0..MaxSeg /\ seg' \in 0..MaxSeg
          /\ closed' \in BOOLEAN /\ stop' \in BOOLEAN
      BY <1>1, <2>1
    <3>3. QED
      BY <3>1, <3>2 DEF MemoryType
  <2>3. ThreadType'
    BY <1>1, <2>1 DEF ThreadType
  <2>4. HistoryType'
    BY <1>1 DEF HistoryType
  <2>5. QED
    BY <2>2, <2>3, <2>4 DEF TypeOK
<1>4. Process'
  BY <1>1 DEF Process, Quiet, Creating, Written, Active
<1>5. Callers'
  BY <1>1 DEF Callers, SubmitHeld, CheckpointSteps, Checkpointing, Rotating, Sleeping
<1>6. WriterPhase' /\ Numbering'
  BY <1>1, <1>2, Frontier DEF WriterPhase, Numbering
<1>7. Pending'
  <2>1. ~Pushing'
    BY <1>1 DEF Pushing
  <2>2. QED
    BY <1>1, <1>2, <2>1 DEF Pending, Continues
<1>8. QED
  BY <1>3, <1>4, <1>5, <1>6, <1>7 DEF IInv

LEMMA EndStep ==
  ASSUME IInv, WriterAborts \/ Destroy
  PROVE  IInv'
<1>1. Gone /\ wals' = wals /\ faults' = faults /\ snap' = snap /\ acked' = acked /\ ids' = ids
  BY DEF WriterAborts, Destroy, Gone
<1>2. DiskType' /\ Disk' /\ AckedOnDisk'
  BY <1>1, InvParts, SameDisk, SameHistory
<1>3. faults' \in 0..MaxFault
  BY <1>1, InvParts DEF HistoryType
<1>4. QED
  BY <1>1, <1>2, <1>3, GoneKeeps

LEMMA FrontierWritten ==
  ASSUME IInv, wpc = "io", wfd # 0
  PROVE  /\ up = "up" /\ wfd = LastSeg /\ wals # <<>> /\ Newest = wals[wfd] /\ Newest \in WalFile
         /\ Newest.hdr /\ Reach = durable /\ LastSeg \in DOMAIN wals /\ LastSeg \in Segs
<1> USE InvParts
<1>1. up = "up"
  BY DEF Process, Quiet
<1>2. wfd = LastSeg /\ wals # <<>> /\ wals[wfd].hdr
  BY <1>1 DEF Process, Active, Written
<1>3. LastSeg \in DOMAIN wals /\ LastSeg \in Segs
  BY <1>2, LastSegExists DEF Disk
<1>4. Reach = durable
  BY <1>1, Frontier DEF Process, Written
<1>5. QED
  BY <1>1, <1>2, <1>3, <1>4, WalsType DEF Newest

\* A batch that was being written may be there in part.
LEMMA CrashStep ==
  ASSUME IInv, Crash
  PROVE  IInv'
<1> USE InvParts
<1>1. Gone /\ snap' = snap /\ acked' = acked /\ ids' = ids /\ faults' \in 0..MaxFault
  <2>1. faults' = faults + 1 /\ faults < MaxFault
    BY DEF Crash
  <2>2. faults' \in 0..MaxFault
    BY <2>1, V55Assumption DEF HistoryType
  <2>3. QED
    BY <2>2 DEF Crash, Gone
<1>2. CASE wals' = wals
  BY <1>1, <1>2, SameDisk, SameHistory, GoneKeeps
<1>3. ASSUME wpc = "io", wfd # 0, NEW n \in 0..(Len(local) - 1), NEW torn \in BOOLEAN,
             wals' = Put(wfd, [wals[wfd] EXCEPT !.recs = @ \o SubSeq(local, 1, n), !.torn = torn])
      PROVE  IInv'
  <2>1. PICK q : q = SubSeq(local, 1, n)
    OBVIOUS
  <2>2. n \in Nat /\ n <= Len(local) /\ Len(local) \in Nat /\ local \in Seq(Rec)
    BY Frontier
  <2>3. q \in Seq(Rec) /\ Len(q) = n /\ \A i \in 1..n : q[i] = local[i]
    BY <2>1, <2>2, SubSeqProperties
  <2>4. PICK f : f = [Newest EXCEPT !.recs = Newest.recs \o q, !.torn = torn]
    OBVIOUS
  <2>5. wals' = Put(LastSeg, f)
    BY <1>3, <2>1, <2>4, FrontierWritten
  <2>6. /\ f \in WalFile /\ f.first = Newest.first /\ f.hdr = Newest.hdr
        /\ f.recs = Newest.recs \o q
    <3>1. Newest \in WalFile /\ Newest.recs \in Seq(Rec)
      BY <1>3, FrontierWritten DEF WalFile
    <3>2. PICK rs : rs = Newest.recs \o q
      OBVIOUS
    <3>3. rs \in Seq(Rec)
      BY <2>3, <3>1, <3>2, ConcatProperties
    <3>4. f = [Newest EXCEPT !.recs = rs, !.torn = torn]
      BY <2>4, <3>2
    <3>5. f \in WalFile /\ f.first = Newest.first /\ f.hdr = Newest.hdr /\ f.recs = rs
      BY ONLY <3>1, <3>3, <3>4, torn \in BOOLEAN DEF WalFile
    <3>6. QED
      BY <3>2, <3>5
  <2>7. f.hdr /\ Reach = durable /\ wals # <<>>
    BY <1>3, <2>6, FrontierWritten
  <2>8. \A i \in 1..Len(q) : q[i].seq = Reach + i
    <3>1. \A i \in 1..n : i \in 1..Len(local)
      BY <2>2
    <3>2. QED
      BY <2>3, <2>7, <3>1 DEF Pending, Continues
  <2>9. Reach + Len(q) <= ids /\ ids \in Nat /\ acked \in Seq(Ops)
    BY <2>2, <2>3, <2>7, Frontier DEF HistoryType
  <2>10. DiskType' /\ Disk' /\ AckedOnDisk'
    BY <1>1, <2>3, <2>5, <2>6, <2>7, <2>8, <2>9, ExtendNewest
  <2>11. QED
    BY <1>1, <2>10, GoneKeeps
<1>4. QED
  BY <1>2, <1>3 DEF Crash

\* The batch reaches the open segment.
LEMMA WriterIOStep ==
  ASSUME IInv, WriterIO
  PROVE  IInv'
<1> USE InvParts
<1>1. /\ wpc = "io" /\ wfd # 0 /\ wpc' = "publish" /\ snap' = snap
      /\ wals' = Put(wfd, [wals[wfd] EXCEPT !.recs = @ \o local])
      /\ UNCHANGED <<kv, next, durable, queue, wfd, seg, closed, stop, pc, call, ticket, local,
                     submitMu, queueMu, up, fail, ids, acked, late, calls, faults>>
  BY DEF WriterIO, mem, thr, locks, proc, hist, bound
<1>2. /\ up = "up" /\ wfd = LastSeg /\ wals # <<>> /\ Newest = wals[wfd] /\ Newest \in WalFile
      /\ Newest.hdr /\ Reach = durable /\ LastSeg \in DOMAIN wals
  BY <1>1, FrontierWritten
<1>3. PICK f : f = [Newest EXCEPT !.recs = Newest.recs \o local]
  OBVIOUS
<1>4. /\ f \in WalFile /\ f.first = Newest.first /\ f.hdr = Newest.hdr /\ f.torn = Newest.torn
      /\ f.recs = Newest.recs \o local
  <2>1. Newest.recs \in Seq(Rec)
    BY <1>2 DEF WalFile
  <2>2. PICK rs : rs = Newest.recs \o local
    OBVIOUS
  <2>3. rs \in Seq(Rec)
    BY <2>1, <2>2, Frontier, ConcatProperties
  <2>4. f = [Newest EXCEPT !.recs = rs]
    BY <1>3, <2>2
  <2>5. /\ f \in WalFile /\ f.first = Newest.first /\ f.hdr = Newest.hdr /\ f.torn = Newest.torn
        /\ f.recs = rs
    BY ONLY <1>2, <2>3, <2>4 DEF WalFile
  <2>6. QED
    BY <2>2, <2>5
<1>5. wals' = Put(LastSeg, f)
  BY <1>1, <1>2, <1>3
<1>6. \A i \in 1..Len(local) : local[i].seq = Reach + i
  BY <1>2 DEF Pending, Continues
<1>7. Reach + Len(local) <= ids /\ Reach + Len(local) <= next /\ acked \in Seq(Ops) /\ ids \in Nat
  BY <1>2, Frontier DEF HistoryType
<1>8. f.hdr /\ local \in Seq(Rec)
  BY <1>2, <1>4, Frontier
<1>9. /\ DiskType' /\ Disk' /\ AckedOnDisk'
      /\ wals' # <<>> /\ DOMAIN wals' = DOMAIN wals /\ wals'[LastSeg] = f
      /\ \A t \in DOMAIN wals \ {LastSeg} : wals'[t] = wals[t]
      /\ LastSeg' = LastSeg /\ Reach' = Reach + Len(local)
      /\ \A n \in 1..Reach : DiskId(n)' = DiskId(n)
      /\ \A n \in (Reach + 1)..(Reach + Len(local)) : DiskId(n)' = local[n - Reach].id
  BY <1>1, <1>2, <1>4, <1>5, <1>6, <1>7, <1>8, ExtendNewest
<1>10. TypeOK'
  BY <1>1, <1>9 DEF TypeOK, MemoryType, ThreadType, HistoryType
<1>11. Written'
  <2>1. Reach' = durable' + Len(local')
    BY <1>1, <1>2, <1>9
  <2>2. \A n \in 1..Reach' : kv'[n] = DiskId(n)'
    <3>1. PICK m, R : m = Len(local) /\ R = Reach
      OBVIOUS
    <3>2. m \in Nat /\ R \in Nat /\ Reach' = R + m /\ R = durable
      BY <1>2, <1>9, <3>1, Frontier
    <3>3. SUFFICES ASSUME NEW n \in 1..(R + m) PROVE kv[n] = DiskId(n)'
      BY <1>1, <3>2
    <3>4. CASE n <= R
      <4>1. n \in 1..Reach
        BY <3>1, <3>2, <3>4
      <4>2. kv[n] = DiskId(n)
        BY <1>2, <4>1 DEF Process, Written
      <4>3. QED
        BY <1>9, <4>1, <4>2
    <3>5. CASE n > R
      <4>1. PICK i : i = n - R
        OBVIOUS
      <4>2. i \in 1..m /\ durable + i = n /\ n \in (R + 1)..(R + m)
        BY <3>2, <3>5, <4>1
      <4>3. local[i].id = kv[n]
        BY <3>1, <4>2 DEF Pending, Continues
      <4>4. DiskId(n)' = local[i].id
        BY <1>9, <3>1, <4>1, <4>2
      <4>5. QED
        BY <4>3, <4>4
    <3>6. QED
      BY <3>2, <3>4, <3>5
  <2>3. \A s \in DOMAIN wals' : ~wals'[s].torn
    <3>1. \A s \in DOMAIN wals : ~wals[s].torn
      BY <1>2 DEF Process, Written
    <3>2. ~f.torn
      BY <1>2, <1>4, <3>1
    <3>3. QED
      BY <1>9, <3>1, <3>2
  <2>4. QED
    BY <1>1, <1>9, <2>1, <2>2, <2>3 DEF Written
<1>12. Active'
  <2>1. seg = LastSeg
    BY <1>1, <1>2 DEF Process, Active
  <2>2. QED
    BY <1>1, <1>2, <1>4, <1>9, <2>1 DEF Active
<1>13. Process'
  BY <1>1, <1>2, <1>11, <1>12 DEF Process, Quiet, Creating
<1>14. Callers'
  BY <1>1, <1>9 DEF IInv, Callers, SubmitHeld, CheckpointSteps, Checkpointing
<1>15. WriterPhase' /\ Numbering'
  BY <1>1 DEF IInv, WriterPhase, Numbering
<1>16. Pending'
  <2>1. Pushing' = Pushing
    BY <1>1 DEF Pushing
  <2>2. QED
    BY <1>1, <2>1, SamePending
<1>17. QED
  BY <1>9, <1>10, <1>13, <1>14, <1>15, <1>16 DEF IInv

\* create_new_wal in the constructor, and the header of the next segment in a checkpoint:
\* the newest segment without records gets what it lacks.
LEMMA NewestHeader ==
  ASSUME IInv, wals # <<>>, NEW h \in BOOLEAN, NEW torn \in BOOLEAN, h \/ Newest.recs = <<>>,
         wals' = Put(LastSeg, [Newest EXCEPT !.hdr = h, !.torn = torn]),
         snap' = snap, ids' = ids, acked' = acked
  PROVE  /\ DiskType' /\ Disk' /\ AckedOnDisk'
         /\ wals' # <<>> /\ DOMAIN wals' = DOMAIN wals
         /\ wals'[LastSeg].hdr = h /\ wals'[LastSeg].torn = torn /\ wals'[LastSeg].recs = Newest.recs
         /\ \A t \in DOMAIN wals \ {LastSeg} : wals'[t] = wals[t] /\ ~wals[t].torn
         /\ LastSeg' = LastSeg /\ LastSeg \in DOMAIN wals /\ Reach' = Reach
         /\ \A n \in 1..Reach : DiskId(n)' = DiskId(n)
<1> USE InvParts
<1>1. LastSeg \in DOMAIN wals /\ Newest \in WalFile
  BY LastSegExists, WalsType DEF Disk, Newest
<1>2. PICK f : f = [Newest EXCEPT !.hdr = h, !.torn = torn]
  OBVIOUS
<1>3. /\ f \in WalFile /\ f.first = Newest.first /\ f.hdr = h /\ f.torn = torn
      /\ f.recs = Newest.recs /\ Newest.recs \in Seq(Rec)
  BY ONLY <1>1, <1>2, h \in BOOLEAN, torn \in BOOLEAN DEF WalFile
<1>4. PICK q : q = <<>>
  OBVIOUS
<1>5. q \in Seq(Rec) /\ Len(q) = 0 /\ f.recs = Newest.recs \o q
  BY <1>3, <1>4, ConcatEmptySeq
<1>6. Reach \in Nat /\ Reach <= ids /\ ids \in Nat /\ acked \in Seq(Ops)
  BY ReachType, V55Assumption DEF Disk, HistoryType
<1>7. wals' = Put(LastSeg, f) /\ (~f.hdr => f.recs = <<>>)
  BY <1>2, <1>3
<1>8. \A i \in 1..Len(q) : q[i].seq = Reach + i
  BY <1>5
<1>9. Reach + Len(q) <= ids
  BY <1>5, <1>6
<1>10. /\ DiskType' /\ Disk' /\ AckedOnDisk'
       /\ wals' # <<>> /\ DOMAIN wals' = DOMAIN wals /\ wals'[LastSeg] = f
       /\ \A t \in DOMAIN wals \ {LastSeg} : wals'[t] = wals[t] /\ ~wals[t].torn
       /\ LastSeg' = LastSeg /\ Reach' = Reach + Len(q)
       /\ \A n \in 1..Reach : DiskId(n)' = DiskId(n)
  BY <1>3, <1>5, <1>6, <1>7, <1>8, <1>9, ExtendNewest
<1>11. QED
  BY <1>1, <1>3, <1>5, <1>6, <1>10

\* A file without torn record keeps none when only its header changes.
LEMMA HeaderAlone ==
  ASSUME NEW f \in WalFile, ~f.torn, NEW h \in BOOLEAN
  PROVE  [f EXCEPT !.hdr = h] = [f EXCEPT !.hdr = h, !.torn = FALSE]
<1>1. PICK g : g = [f EXCEPT !.hdr = h]
  OBVIOUS
<1>2. g \in WalFile /\ g.torn = FALSE
  BY <1>1 DEF WalFile
<1>3. [g EXCEPT !.torn = FALSE] = g
  BY ONLY <1>2 DEF WalFile
<1>4. QED
  BY <1>1, <1>3

LEMMA OpenCreatesStep ==
  ASSUME IInv, OpenCreates
  PROVE  IInv'
<1> USE InvParts
<1>1. /\ up = "create" /\ up' = "up" /\ wfd' = 1 /\ seg' = 1 /\ snap' = snap
      /\ wals' = Put(1, [wals[1] EXCEPT !.hdr = TRUE])
      /\ UNCHANGED <<kv, next, durable, queue, closed, stop, pc, call, ticket, wpc, local,
                     submitMu, queueMu, fail, ids, acked, late, calls, faults>>
  BY DEF OpenCreates, thr, wr, locks, hist, bound
<1>2. /\ DOMAIN wals = {1} /\ snap.seq = next /\ wals[1].recs = <<>> /\ wals # <<>> /\ ~wals[1].torn
      /\ (\A t \in Threads : pc[t] = "idle") /\ wpc = "take" /\ next = durable /\ Reach = durable
      /\ \A n \in 1..Reach : kv[n] = DiskId(n)
  BY <1>1, Frontier DEF Process, Quiet, Creating, Written
<1>3. LastSeg = 1 /\ 1 \in Segs
  BY <1>2, V55Assumption, LastSegIs DEF Segs
<1>4. wals' = Put(LastSeg, [Newest EXCEPT !.hdr = TRUE, !.torn = FALSE])
  <2>1. Newest \in WalFile /\ Newest = wals[1]
    BY <1>2, <1>3, WalsType DEF Newest
  <2>2. [Newest EXCEPT !.hdr = TRUE] = [Newest EXCEPT !.hdr = TRUE, !.torn = FALSE]
    BY <1>2, <2>1, HeaderAlone
  <2>3. PICK g : g = [wals[1] EXCEPT !.hdr = TRUE]
    OBVIOUS
  <2>4. g = [Newest EXCEPT !.hdr = TRUE, !.torn = FALSE]
    BY <2>1, <2>2, <2>3
  <2>5. wals' = Put(LastSeg, g)
    BY <1>1, <1>3, <2>3
  <2>6. QED
    BY ONLY <2>4, <2>5
<1>5. /\ DiskType' /\ Disk' /\ AckedOnDisk'
      /\ wals' # <<>> /\ DOMAIN wals' = DOMAIN wals
      /\ wals'[LastSeg].hdr /\ ~wals'[LastSeg].torn
      /\ LastSeg' = LastSeg /\ Reach' = Reach
      /\ \A n \in 1..Reach : DiskId(n)' = DiskId(n)
  BY <1>1, <1>2, <1>4, NewestHeader
<1>6. TypeOK'
  <2>1. 1 \in 0..MaxSeg
    BY <1>3, V55Assumption DEF Segs
  <2>2. QED
    BY <1>1, <1>5, <2>1 DEF TypeOK, MemoryType, ThreadType, HistoryType
<1>7. Process'
  <2>1. \A s \in DOMAIN wals' : s = LastSeg
    BY <1>2, <1>3, <1>5
  <2>2. Written'
    <3>1. \A n \in 1..Reach' : kv'[n] = DiskId(n)'
      BY <1>1, <1>2, <1>5
    <3>2. Reach' = durable' + (IF wpc' = "publish" THEN Len(local') ELSE 0)
      BY <1>1, <1>2, <1>5, Frontier
    <3>3. wals' # <<>> /\ \A s \in DOMAIN wals' : ~wals'[s].torn
      BY <1>5, <2>1
    <3>4. QED
      BY <3>1, <3>2, <3>3 DEF Written
  <2>3. Active' /\ Quiet' /\ Creating'
    BY <1>1, <1>2, <1>3, <1>5 DEF Active, Quiet, Creating
  <2>4. QED
    BY <2>2, <2>3 DEF Process
<1>8. Callers'
  BY <1>1, <1>2 DEF IInv, Callers, SubmitHeld, CheckpointSteps, Checkpointing, Rotating, Sleeping
<1>9. WriterPhase' /\ Numbering'
  BY <1>1 DEF IInv, WriterPhase, Numbering
<1>10. Pending'
  <2>1. Pushing' = Pushing
    BY <1>1 DEF Pushing
  <2>2. QED
    BY <1>1, <2>1, SamePending
<1>11. QED
  BY <1>5, <1>6, <1>7, <1>8, <1>9, <1>10 DEF IInv

\* What every state has after the disk was read
LEMMA Opened ==
  ASSUME IInv, up = "down", kv' = OnDisk, next' = Reach, durable' = Reach,
         UNCHANGED <<queue, closed, stop, pc, call, ticket, wpc, local, submitMu, queueMu, ids,
                     acked, late, calls, faults>>,
         wfd' \in 0..MaxSeg, seg' \in 0..MaxSeg, up' \in {"create", "up"}, fail' = "none",
         DiskType', Disk', AckedOnDisk'
  PROVE  /\ TypeOK' /\ Callers' /\ WriterPhase' /\ Numbering' /\ Pending'
         /\ kv' \in Seq(Ops) /\ Reach \in Nat /\ \A n \in 1..Reach : kv'[n] = DiskId(n)
<1> USE InvParts
<1>1. OnDisk \in Seq(Ops) /\ Len(OnDisk) = Reach /\ \A n \in 1..Reach : OnDisk[n] = DiskId(n)
  BY OnDiskType
<1>2. Reach \in Nat /\ Reach <= ids /\ Reach \in 0..MaxOps
  BY ReachType, Frontier, V55Assumption DEF Disk
<1>3. /\ \A t \in Threads : pc[t] = "idle" /\ ticket[t] = 0
      /\ wpc = "take" /\ queue = <<>> /\ local = <<>> /\ Len(queue) = 0 /\ Len(local) = 0
  BY DEF Process, Quiet
<1>4. TypeOK'
  BY <1>1, <1>2 DEF TypeOK, MemoryType, ThreadType, HistoryType
<1>5. Callers'
  BY <1>2, <1>3 DEF Callers, SubmitHeld, CheckpointSteps, Checkpointing, Rotating, Sleeping
<1>6. WriterPhase' /\ Numbering'
  BY <1>1, <1>2, <1>3 DEF WriterPhase, Numbering
<1>7. Pending'
  <2>1. ~Pushing'
    BY <1>3 DEF Pushing
  <2>2. QED
    BY <1>2, <1>3, <2>1 DEF Pending, Continues
<1>8. QED
  BY <1>1, <1>2, <1>4, <1>5, <1>6, <1>7

LEMMA OpenStep ==
  ASSUME IInv, Open
  PROVE  IInv'
<1> USE InvParts
<1>1. /\ up = "down" /\ fail' = Replayed.err /\ snap' = snap
      /\ UNCHANGED <<queue, closed, stop, pc, call, ticket, wpc, local, submitMu, queueMu, ids,
                     acked, late, calls, faults>>
  BY DEF Open, disk, mem, thr, wr, locks, hist, bound
<1>2. CASE Replayed.err # "none"
  <2>1. Replayed.err = "header"
    BY <1>2, RecoverReads
  <2>2. wals' = wals /\ UNCHANGED mem /\ up' = up
    BY <1>2 DEF Open, disk
  <2>3. TypeOK'
    <3>1. DiskType' /\ MemoryType' /\ ThreadType'
      BY <1>1, <2>2, SameDisk DEF mem, MemoryType, ThreadType
    <3>2. HistoryType'
      BY <1>1, <2>1, <2>2 DEF HistoryType
    <3>3. QED
      BY <3>1, <3>2 DEF TypeOK
  <2>4. Disk' /\ AckedOnDisk' /\ LastSeg' = LastSeg
    BY <1>1, <2>2, SameHistory, SameDisk
  <2>5. Process'
    BY <1>1, <2>2 DEF Process, Quiet, Creating, Written, Active, mem
  <2>6. Callers'
    BY <1>1, <2>2, <2>4 DEF IInv, Callers, SubmitHeld, CheckpointSteps, Checkpointing, mem
  <2>7. WriterPhase' /\ Numbering'
    BY <1>1, <2>2 DEF IInv, WriterPhase, Numbering, mem
  <2>8. Pending'
    <3>1. Pushing' = Pushing
      BY <1>1 DEF Pushing
    <3>2. QED
      BY <1>1, <2>2, <3>1, SamePending DEF mem
  <2>9. QED
    BY <2>3, <2>4, <2>5, <2>6, <2>7, <2>8 DEF IInv
<1>3. CASE Replayed.err = "none"
  <2>1. (wals = <<>> \/ Newest.hdr) /\ Replayed.seq = Reach /\ Replayed.kv = OnDisk
    BY <1>3, RecoverReads
  <2>2. kv' = OnDisk /\ next' = Reach /\ durable' = Reach
    BY <1>3, <2>1 DEF Open
  <2>3. CASE wals = <<>>
    <3>1. PICK f : f = Created(Reach + 1)
      OBVIOUS
    <3>2. wals' = Put(1, f) /\ up' = "create" /\ wfd' = wfd /\ seg' = seg
      BY <1>3, <2>1, <2>3, <3>1 DEF Open
    <3>3. Reach \in Nat /\ Reach <= MaxOps /\ Reach = snap.seq /\ 1 \in Segs
      BY <2>3, ReachType, Frontier, V55Assumption DEF Disk, Segs
    <3>4. /\ f \in WalFile /\ f.first = Reach + 1 /\ f.recs = <<>> /\ Len(f.recs) = 0
          /\ ~f.hdr /\ ~f.torn
      <4>1. Reach + 1 \in 1..(MaxOps + 1)
        BY <3>3, V55Assumption
      <4>2. PICK b : b = Reach + 1
        OBVIOUS
      <4>3. f = [hdr |-> FALSE, first |-> b, recs |-> <<>>, torn |-> FALSE]
        BY <3>1, <4>2 DEF Created
      <4>4. <<>> \in Seq(Rec)
        OBVIOUS
      <4>5. QED
        BY <4>1, <4>2, <4>3, <4>4 DEF WalFile
    <3>5. DOMAIN wals = {}
      BY <2>3
    <3>6. /\ DiskType' /\ wals' # <<>> /\ DOMAIN wals' = {1} /\ wals'[1] = f
          /\ LastSeg' = 1 /\ Newest' = f /\ Reach' = f.first + Len(f.recs) - 1
      BY <1>1, <3>2, <3>3, <3>4, <3>5, PutNewest
    <3>7. Reach' = Reach
      BY <3>3, <3>4, <3>6
    <3>8. \A n \in 1..Reach : DiskId(n)' = DiskId(n)
      BY <1>1, <3>3 DEF DiskId
    <3>9. Disk'
      <4>1. Shape' /\ Older'
        BY <1>1, <3>6 DEF Disk, Shape, Older
      <4>2. Latest'
        BY <1>1, <3>3, <3>4, <3>6, <3>7 DEF Latest
      <4>3. QED
        BY <1>1, <3>7, <4>1, <4>2 DEF Disk
    <3>10. AckedOnDisk'
      <4>1. Len(acked) <= Reach /\ Len(acked) \in Nat
        BY LenProperties DEF AckedOnDisk, HistoryType
      <4>2. \A i \in 1..Len(acked) : i \in 1..Reach
        BY <3>3, <4>1
      <4>3. \A i \in 1..Len(acked) : acked'[i] = DiskId(i)'
        BY <1>1, <3>8, <4>2 DEF AckedOnDisk
      <4>4. QED
        BY <1>1, <3>7, <4>1, <4>3 DEF AckedOnDisk
    <3>11. wfd' \in 0..MaxSeg /\ seg' \in 0..MaxSeg /\ fail' = "none"
      BY <1>1, <1>3, <3>2 DEF MemoryType
    <3>12. /\ TypeOK' /\ Callers' /\ WriterPhase' /\ Numbering' /\ Pending'
           /\ \A n \in 1..Reach : kv'[n] = DiskId(n)
      BY <1>1, <2>2, <3>2, <3>6, <3>9, <3>10, <3>11, Opened
    <3>13. Process'
      <4>1. /\ \A t \in Threads : pc[t] = "idle" /\ ticket[t] = 0
            /\ wpc = "take" /\ queue = <<>> /\ local = <<>> /\ wfd = 0 /\ seg = 0 /\ stop = FALSE
        BY <1>1 DEF Process, Quiet
      <4>2. Written'
        BY <1>1, <2>2, <3>3, <3>4, <3>6, <3>7, <3>8, <3>12, <4>1 DEF Written
      <4>3. Quiet' /\ Creating' /\ Active'
        BY <1>1, <2>2, <3>2, <3>3, <3>4, <3>6, <4>1 DEF Quiet, Creating, Active
      <4>4. QED
        BY <4>2, <4>3 DEF Process
    <3>14. QED
      BY <3>9, <3>10, <3>12, <3>13 DEF IInv
  <2>4. CASE wals # <<>>
    <3>1. /\ wals' = Put(LastSeg, [wals[LastSeg] EXCEPT !.torn = FALSE])
          /\ wfd' = LastSeg /\ seg' = LastSeg /\ up' = "up" /\ Newest.hdr
      BY <1>3, <2>1, <2>4 DEF Open
    <3>2. LastSeg \in DOMAIN wals /\ LastSeg \in Segs /\ Newest \in WalFile
      BY <2>4, LastSegExists, WalsType DEF Disk, Newest
    <3>3. wals' = Put(LastSeg, [Newest EXCEPT !.hdr = TRUE, !.torn = FALSE])
      <4>1. [Newest EXCEPT !.torn = FALSE] = [Newest EXCEPT !.hdr = TRUE, !.torn = FALSE]
        BY <3>1, <3>2 DEF WalFile
      <4>2. QED
        BY <3>1, <4>1 DEF Newest
    <3>4. /\ DiskType' /\ Disk' /\ AckedOnDisk'
          /\ wals' # <<>> /\ DOMAIN wals' = DOMAIN wals
          /\ wals'[LastSeg].hdr /\ ~wals'[LastSeg].torn
          /\ \A t \in DOMAIN wals \ {LastSeg} : wals'[t] = wals[t] /\ ~wals[t].torn
          /\ LastSeg' = LastSeg /\ Reach' = Reach
          /\ \A n \in 1..Reach : DiskId(n)' = DiskId(n)
      BY <1>1, <2>4, <3>3, NewestHeader
    <3>5. wfd' \in 0..MaxSeg /\ seg' \in 0..MaxSeg /\ fail' = "none"
      BY <1>1, <1>3, <3>1, <3>2, V55Assumption DEF Segs
    <3>6. /\ TypeOK' /\ Callers' /\ WriterPhase' /\ Numbering' /\ Pending' /\ Reach \in Nat
          /\ \A n \in 1..Reach : kv'[n] = DiskId(n)
      BY <1>1, <2>2, <3>1, <3>4, <3>5, Opened
    <3>7. Process'
      <4>1. wpc = "take"
        BY <1>1 DEF Process, Quiet
      <4>2. Written'
        BY <1>1, <2>2, <3>4, <3>6, <4>1 DEF Written
      <4>3. Quiet' /\ Creating' /\ Active'
        BY <1>1, <3>1, <3>2, <3>4 DEF Quiet, Creating, Active
      <4>4. QED
        BY <4>2, <4>3 DEF Process
    <3>8. QED
      BY <3>4, <3>6, <3>7 DEF IInv
  <2>5. QED
    BY <2>3, <2>4
<1>4. QED
  BY <1>2, <1>3

-----------------------------------------------------------------------------
(* Checkpoints                                                             *)

\* Nothing is pending, and nobody else is between submit and the end of a checkpoint.
LEMMA CheckpointAlone ==
  ASSUME IInv, NEW t \in Threads, pc[t] \in Rotating \cup {"ck_snapshot"}
  PROVE  /\ up = "up" /\ submitMu = t /\ ticket[t] = next /\ durable = next /\ Reach = durable
         /\ next \in Nat /\ next <= MaxOps /\ wpc \notin {"io", "publish"} /\ ~Pushing
         /\ \A u \in Threads \ {t} : pc[u] # "push" /\ ~Checkpointing(u)
         /\ \A u \in Threads \ {t} : pc[u] \notin Rotating \cup {"ck_snapshot"}
         /\ wals # <<>> /\ LastSeg \in DOMAIN wals /\ Newest \in WalFile
         /\ seg \in DOMAIN wals /\ wals[seg].hdr /\ wfd \in {0, seg} /\ LastSeg \in {seg, seg + 1}
         /\ (wfd # 0 => LastSeg = seg) /\ (\A s \in DOMAIN wals : ~wals[s].torn)
         /\ \A n \in 1..Reach : kv[n] = DiskId(n)
<1> USE InvParts
<1>1. up = "up"
  BY DEF Process, Quiet, Rotating
<1>2. submitMu = t /\ ticket[t] = next /\ durable = next
  BY DEF IInv, Callers, SubmitHeld, CheckpointSteps, Checkpointing
<1>3. \A u \in Threads \ {t} : pc[u] # "push" /\ ~Checkpointing(u)
  BY <1>2, OnlyOnePushes
<1>4. \A u \in Threads \ {t} : pc[u] \notin Rotating \cup {"ck_snapshot"}
  BY <1>3 DEF Checkpointing
<1>5. ~Pushing
  BY <1>3 DEF Pushing, Rotating
<1>6. wpc \notin {"io", "publish"}
  <2>1. Len(local) = 0
    BY <1>2, <1>5, Frontier
  <2>2. local = <<>>
    BY <2>1, Frontier, EmptySeq
  <2>3. QED
    BY <2>2 DEF IInv, WriterPhase
<1>7. /\ wals # <<>> /\ Reach = durable /\ (\A s \in DOMAIN wals : ~wals[s].torn)
      /\ \A n \in 1..Reach : kv[n] = DiskId(n)
  BY <1>1, <1>6, Frontier DEF Process, Written
<1>8. LastSeg \in DOMAIN wals /\ Newest \in WalFile
  BY <1>7, LastSegExists, WalsType DEF Disk, Newest
<1>9. /\ seg \in DOMAIN wals /\ wals[seg].hdr /\ wfd \in {0, seg} /\ LastSeg \in {seg, seg + 1}
      /\ (wfd # 0 => LastSeg = seg)
  BY <1>1 DEF Process, Active
<1>10. next \in Nat /\ next <= MaxOps
  BY V55Assumption DEF MemoryType
<1>11. QED
  BY <1>1, <1>2, <1>3, <1>4, <1>5, <1>6, <1>7, <1>8, <1>9, <1>10

LEMMA CheckpointMoves ==
  ASSUME IInv, NEW t \in Threads, pc[t] \in Rotating \cup {"ck_snapshot"},
         NEW p \in Rotating \cup {"idle"}, NEW c \in Calls \cup {"none"},
         pc' = [pc EXCEPT ![t] = p], call' = [call EXCEPT ![t] = c],
         submitMu' \in {t, NoOne}, p = "idle" \/ submitMu' = t, p # "idle" \/ c = "none",
         UNCHANGED <<kv, next, durable, queue, closed, stop, ticket, wpc, local, queueMu, up, fail,
                     ids, acked, late, calls>>,
         wfd' \in 0..MaxSeg, seg' \in 0..MaxSeg, faults' \in 0..MaxFault, DiskType'
  PROVE  /\ TypeOK' /\ SubmitHeld' /\ WriterPhase' /\ Numbering' /\ Pending'
         /\ Quiet' /\ Creating'
         /\ \A u \in Threads \ {t} : pc'[u] \notin Rotating \cup {"ck_snapshot"}
         /\ pc'[t] = p /\ \A u \in Threads : ticket'[u] <= next'
<1> USE InvParts
<1>1. /\ up = "up" /\ ticket[t] = next /\ ~Pushing
      /\ \A u \in Threads \ {t} : pc[u] # "push" /\ ~Checkpointing(u)
      /\ \A u \in Threads \ {t} : pc[u] \notin Rotating \cup {"ck_snapshot"}
  BY CheckpointAlone
<1>2. TypeOK'
  <2>1. MemoryType'
    BY DEF MemoryType
  <2>2. ThreadType'
    <3>1. p \in Steps
      BY DEF Rotating, Steps
    <3>2. QED
      BY <3>1 DEF ThreadType, Steps
  <2>3. HistoryType'
    BY DEF HistoryType
  <2>4. QED
    BY <2>1, <2>2, <2>3 DEF TypeOK
<1>3. \A u \in Threads \ {t} : pc'[u] = pc[u] /\ call'[u] = call[u]
  BY DEF ThreadType
<1>4. pc'[t] = p /\ call'[t] = c
  BY DEF ThreadType
<1>5. SubmitHeld'
  <2>1. \A u \in Threads \ {t} : pc'[u] # "push" /\ ~Checkpointing(u)'
    BY <1>1, <1>3 DEF Checkpointing
  <2>2. p # "push" /\ (p = "idle" => ~Checkpointing(t)')
    BY <1>4 DEF Checkpointing, Rotating, Sleeping
  <2>3. ticket'[t] = next'
    BY <1>1
  <2>4. QED
    BY <1>4, <2>1, <2>2, <2>3 DEF SubmitHeld
<1>6. WriterPhase' /\ Numbering'
  BY DEF IInv, WriterPhase, Numbering
<1>7. Pending'
  <2>1. p # "push"
    BY DEF Rotating
  <2>2. Pushing' = Pushing
    BY <1>1, <1>3, <1>4, <2>1 DEF Pushing
  <2>3. QED
    BY <2>2, SamePending
<1>8. Quiet' /\ Creating'
  BY <1>1 DEF Quiet, Creating
<1>9. \A u \in Threads \ {t} : pc'[u] \notin Rotating \cup {"ck_snapshot"}
  BY <1>1, <1>3
<1>10. \A u \in Threads : ticket'[u] <= next'
  BY DEF IInv, Callers, CheckpointSteps
<1>11. QED
  BY <1>2, <1>4, <1>5, <1>6, <1>7, <1>8, <1>9, <1>10

\* The snapshot has all that is durable: what the segments have becomes old.
LEMMA CkRenameStep ==
  ASSUME IInv, NEW t \in Threads, CkRename(t)
  PROVE  IInv'
<1> USE InvParts
<1>1. /\ pc[t] = "ck_snapshot" /\ snap' = [seq |-> ticket[t], kv |-> kv]
      /\ pc' = [pc EXCEPT ![t] = "ck_rotate"] /\ call' = call /\ wals' = wals /\ submitMu' = submitMu
      /\ UNCHANGED <<kv, next, durable, queue, wfd, seg, closed, stop, ticket, wpc, local,
                     queueMu, up, fail, ids, acked, late, calls, faults>>
  BY DEF CkRename, Goto, mem, wr, locks, proc, hist, bound
<1>2. pc[t] \in Rotating \cup {"ck_snapshot"}
  BY <1>1
<1>3. /\ up = "up" /\ submitMu = t /\ ticket[t] = next /\ durable = next /\ Reach = durable
      /\ next \in Nat /\ next <= MaxOps /\ wpc # "publish"
      /\ wals # <<>> /\ (\A s \in DOMAIN wals : ~wals[s].torn)
      /\ \A n \in 1..Reach : kv[n] = DiskId(n)
  BY <1>2, CheckpointAlone
<1>4. snap'.seq = next /\ snap'.kv = kv /\ Len(kv) = next
  BY <1>1, <1>3, Frontier
<1>5. snap.seq \in Nat /\ snap.seq <= next
  BY <1>3, SnapType, ReachType DEF Disk
<1>6. DiskType'
  <2>1. snap' \in Snap
    BY <1>1, <1>3, Frontier DEF Snap
  <2>2. QED
    BY <1>1, <2>1 DEF DiskType
<1>7. LastSeg' = LastSeg
  BY <1>1 DEF LastSeg
<1>8. Newest' = Newest
  BY <1>1, <1>7 DEF Newest
<1>9. Reach' = Reach
  BY <1>1, <1>3, <1>8 DEF Reach
<1>10. Disk'
  <2>1. Shape'
    BY <1>1, <1>3, <1>4 DEF Disk, Shape
  <2>2. Older'
    <3>1. SUFFICES ASSUME NEW s \in DOMAIN wals, s # LastSeg
                   PROVE  /\ wals[s].hdr /\ ~wals[s].torn
                          /\ \A i \in 1..Len(wals[s].recs) : wals[s].recs[i].seq <= next
      BY <1>1, <1>4, <1>7 DEF Older
    <3>2. /\ wals[s].hdr /\ ~wals[s].torn
          /\ \A i \in 1..Len(wals[s].recs) : wals[s].recs[i].seq <= snap.seq
      BY <3>1 DEF Disk, Older
    <3>3. \A i \in 1..Len(wals[s].recs) : wals[s].recs[i].seq \in Nat
      BY WalsType
    <3>4. QED
      BY <1>3, <1>5, <3>2, <3>3
  <2>3. Latest'
    <3>1. /\ Newest.first <= snap.seq + 1 /\ Newest.first \in Nat
          /\ \A i \in 1..Len(Newest.recs) : Newest.recs[i].seq = Newest.first + i - 1
          /\ ~Newest.hdr => Newest.recs = <<>>
      BY <1>3, LastSegExists, WalsType DEF Disk, Latest, Newest
    <3>2. Newest.first <= next + 1
      BY <1>3, <1>5, <3>1
    <3>3. QED
      BY <1>1, <1>3, <1>4, <1>8, <1>9, <3>1, <3>2 DEF Latest
  <2>4. QED
    BY <1>1, <1>9, <2>1, <2>2, <2>3 DEF Disk
<1>11. \A n \in 1..Reach : DiskId(n)' = kv[n]
  BY <1>3, <1>4 DEF DiskId
<1>12. AckedOnDisk'
  <2>1. Len(acked) <= Reach /\ Len(acked) \in Nat
    BY LenProperties DEF AckedOnDisk, HistoryType
  <2>2. \A i \in 1..Len(acked) : i \in 1..Reach
    BY <1>3, <2>1
  <2>3. \A i \in 1..Len(acked) : acked'[i] = DiskId(i)'
    BY <1>1, <1>3, <1>11, <2>2 DEF AckedOnDisk
  <2>4. QED
    BY <1>1, <1>9, <2>1, <2>3 DEF AckedOnDisk
<1>13. PICK c : c = call[t]
  OBVIOUS
<1>14. /\ c \in Calls \cup {"none"} /\ call' = [call EXCEPT ![t] = c] /\ submitMu' = t
       /\ "ck_rotate" \in Rotating /\ wfd' \in 0..MaxSeg /\ seg' \in 0..MaxSeg /\ faults' \in 0..MaxFault
  BY <1>1, <1>3, <1>13 DEF ThreadType, MemoryType, HistoryType, Rotating
<1>15. PICK p \in Rotating \cup {"idle"} : p = "ck_rotate"
  BY <1>14
<1>16. /\ TypeOK' /\ SubmitHeld' /\ WriterPhase' /\ Numbering' /\ Pending' /\ Quiet' /\ Creating'
       /\ \A u \in Threads \ {t} : pc'[u] \notin Rotating \cup {"ck_snapshot"}
       /\ pc'[t] = p /\ \A u \in Threads : ticket'[u] <= next'
  <2>1. pc' = [pc EXCEPT ![t] = p] /\ p # "idle"
    BY <1>1, <1>15
  <2>2. UNCHANGED <<kv, next, durable, queue, closed, stop, ticket, wpc, local, queueMu, up, fail,
                   ids, acked, late, calls>>
    BY <1>1
  <2>3. /\ t \in Threads /\ p \in Rotating \cup {"idle"} /\ c \in Calls \cup {"none"}
        /\ (p = "idle" \/ submitMu' = t) /\ (p # "idle" \/ c = "none") /\ submitMu' \in {t, NoOne}
    BY <1>14, <2>1
  <2>4. QED
    BY ONLY IInv, <1>2, <1>6, <1>14, <2>1, <2>2, <2>3, CheckpointMoves
<1>17. CheckpointSteps'
  BY <1>1, <1>3, <1>4, <1>15, <1>16 DEF CheckpointSteps, Rotating
<1>18. Process'
  <2>1. Active'
    BY <1>1, <1>7, <1>8 DEF Process, Active
  <2>2. \A n \in 1..Reach' : kv'[n] = DiskId(n)'
    BY <1>1, <1>9, <1>11
  <2>3. Reach' = durable' + (IF wpc' = "publish" THEN Len(local') ELSE 0)
    BY <1>1, <1>3, <1>9
  <2>4. Written'
    BY <1>1, <1>3, <2>2, <2>3 DEF Written
  <2>5. QED
    BY <1>16, <2>1, <2>4 DEF Process
<1>19. QED
  BY <1>10, <1>12, <1>16, <1>17, <1>18 DEF IInv, Callers

\* The next segment is created, or created again after a checkpoint that failed there.
LEMMA CkRotateStep ==
  ASSUME IInv, NEW t \in Threads, CkRotate(t)
  PROVE  IInv'
<1> USE InvParts
<1>1. /\ pc[t] = "ck_rotate" /\ seg < MaxSeg /\ wals' = Put(seg + 1, Created(ticket[t] + 1)) /\ wfd' = 0
      /\ pc' = [pc EXCEPT ![t] = "ck_header"] /\ call' = call /\ snap' = snap /\ submitMu' = submitMu
      /\ UNCHANGED <<kv, next, durable, queue, seg, closed, stop, ticket, wpc, local,
                     queueMu, up, fail, ids, acked, late, calls, faults>>
  BY DEF CkRotate, Goto, wr, locks, proc, hist, bound
<1>2. pc[t] \in Rotating \cup {"ck_snapshot"}
  BY <1>1 DEF Rotating
<1>3. /\ up = "up" /\ submitMu = t /\ ticket[t] = next /\ durable = next /\ Reach = durable
      /\ next \in Nat /\ next <= MaxOps /\ wpc # "publish"
      /\ wals # <<>> /\ (\A s \in DOMAIN wals : ~wals[s].torn)
      /\ seg \in DOMAIN wals /\ wals[seg].hdr /\ LastSeg \in {seg, seg + 1}
      /\ \A n \in 1..Reach : kv[n] = DiskId(n)
  BY <1>2, CheckpointAlone
<1>4. snap.seq = next
  BY <1>1 DEF IInv, Callers, CheckpointSteps, Rotating
<1>5. seg + 1 \in Segs /\ seg \in Nat /\ \A s \in DOMAIN wals : s \in Nat /\ s <= seg + 1
  <2>1. seg \in Nat /\ seg + 1 \in Segs
    BY <1>1, <1>3, WalsType, V55Assumption DEF Segs
  <2>2. \A s \in DOMAIN wals : s \in Nat /\ s <= LastSeg
    BY <1>3, LastSegExists, WalsType DEF Disk
  <2>3. QED
    BY <1>3, <2>1, <2>2
<1>6. PICK f : f = Created(next + 1)
  OBVIOUS
<1>7. /\ f \in WalFile /\ f.first = next + 1 /\ f.recs = <<>> /\ Len(f.recs) = 0
      /\ ~f.hdr /\ ~f.torn
  <2>1. next + 1 \in 1..(MaxOps + 1)
    BY <1>3, V55Assumption
  <2>2. PICK b : b = next + 1
    OBVIOUS
  <2>3. f = [hdr |-> FALSE, first |-> b, recs |-> <<>>, torn |-> FALSE]
    BY <1>6, <2>2 DEF Created
  <2>4. <<>> \in Seq(Rec)
    OBVIOUS
  <2>5. QED
    BY <2>1, <2>2, <2>3, <2>4 DEF WalFile
<1>8. PICK s : s = seg + 1
  OBVIOUS
<1>9. /\ DiskType' /\ wals' # <<>> /\ DOMAIN wals' = DOMAIN wals \cup {s} /\ wals'[s] = f
      /\ \A u \in DOMAIN wals \ {s} : wals'[u] = wals[u]
      /\ LastSeg' = s /\ Newest' = f /\ Reach' = f.first + Len(f.recs) - 1
  <2>1. s \in Segs /\ wals' = Put(s, f) /\ \A u \in DOMAIN wals : u <= s
    BY <1>1, <1>3, <1>5, <1>6, <1>8
  <2>2. QED
    BY <1>1, <1>7, <2>1, PutNewest
<1>10. Reach' = Reach
  BY <1>3, <1>7, <1>9
<1>11. \A n \in 1..Reach : DiskId(n)' = DiskId(n)
  BY <1>1, <1>3, <1>4 DEF DiskId
<1>12. Disk'
  <2>1. Shape'
    BY <1>1, <1>9 DEF Disk, Shape
  <2>2. Older'
    <3>1. SUFFICES ASSUME NEW u \in DOMAIN wals, u # s
                   PROVE  /\ wals[u].hdr /\ ~wals[u].torn
                          /\ \A i \in 1..Len(wals[u].recs) : wals[u].recs[i].seq <= snap.seq
      BY <1>1, <1>9 DEF Older
    <3>2. CASE u # LastSeg
      BY <3>2 DEF Disk, Older
    <3>3. CASE u = LastSeg
      <4>1. u = seg
        BY <1>3, <1>8, <3>1, <3>3
      <4>2. Newest = wals[u] /\ wals[u].recs \in Seq(Rec) /\ wals[u].first \in Nat /\ Len(wals[u].recs) \in Nat
        BY <3>3, WalsType DEF Newest
      <4>3. Reach = wals[u].first + Len(wals[u].recs) - 1
        BY <1>3, <4>2 DEF Reach
      <4>4. \A i \in 1..Len(wals[u].recs) : wals[u].recs[i].seq = wals[u].first + i - 1
        BY <1>3, <4>2 DEF Disk, Latest
      <4>5. \A i \in 1..Len(wals[u].recs) : wals[u].first + i - 1 <= snap.seq
        BY <1>3, <1>4, <4>2, <4>3
      <4>6. QED
        BY <1>3, <4>1, <4>4, <4>5
    <3>4. QED
      BY <3>2, <3>3
  <2>3. Latest'
    BY <1>1, <1>3, <1>4, <1>7, <1>9, <1>10 DEF Latest
  <2>4. QED
    BY <1>1, <1>10, <2>1, <2>2, <2>3 DEF Disk
<1>13. AckedOnDisk'
  <2>1. Len(acked) <= Reach /\ Len(acked) \in Nat
    BY LenProperties DEF AckedOnDisk, HistoryType
  <2>2. \A i \in 1..Len(acked) : i \in 1..Reach
    BY <1>3, <2>1
  <2>3. \A i \in 1..Len(acked) : acked'[i] = DiskId(i)'
    BY <1>1, <1>11, <2>2 DEF AckedOnDisk
  <2>4. QED
    BY <1>1, <1>10, <2>1, <2>3 DEF AckedOnDisk
<1>14. PICK c : c = call[t]
  OBVIOUS
<1>15. /\ c \in Calls \cup {"none"} /\ call' = [call EXCEPT ![t] = c] /\ submitMu' = t
       /\ wfd' \in 0..MaxSeg /\ seg' \in 0..MaxSeg /\ faults' \in 0..MaxFault
  BY <1>1, <1>3, <1>14, V55Assumption DEF ThreadType, MemoryType, HistoryType
<1>16. PICK p \in Rotating \cup {"idle"} : p = "ck_header"
  BY DEF Rotating
<1>17. /\ TypeOK' /\ SubmitHeld' /\ WriterPhase' /\ Numbering' /\ Pending' /\ Quiet' /\ Creating'
       /\ \A u \in Threads \ {t} : pc'[u] \notin Rotating \cup {"ck_snapshot"}
       /\ pc'[t] = p /\ \A u \in Threads : ticket'[u] <= next'
  <2>1. pc' = [pc EXCEPT ![t] = p] /\ p # "idle"
    BY <1>1, <1>16
  <2>2. UNCHANGED <<kv, next, durable, queue, closed, stop, ticket, wpc, local, queueMu, up, fail,
                   ids, acked, late, calls>>
    BY <1>1
  <2>3. /\ t \in Threads /\ p \in Rotating \cup {"idle"} /\ c \in Calls \cup {"none"}
        /\ (p = "idle" \/ submitMu' = t) /\ (p # "idle" \/ c = "none") /\ submitMu' \in {t, NoOne}
    BY <1>15, <2>1
  <2>4. QED
    BY ONLY IInv, <1>2, <1>9, <1>15, <2>1, <2>2, <2>3, CheckpointMoves
<1>18. CheckpointSteps'
  BY <1>1, <1>3, <1>4, <1>8, <1>9, <1>16, <1>17 DEF CheckpointSteps, Rotating
<1>19. Process'
  <2>1. Active'
    <3>1. seg # s
      BY <1>5, <1>8
    <3>2. QED
      BY <1>1, <1>3, <1>7, <1>8, <1>9, <3>1 DEF Active
  <2>2. \A n \in 1..Reach' : kv'[n] = DiskId(n)'
    BY <1>1, <1>3, <1>10, <1>11
  <2>3. Reach' = durable' + (IF wpc' = "publish" THEN Len(local') ELSE 0)
    BY <1>1, <1>3, <1>10
  <2>4. \A u \in DOMAIN wals' : ~wals'[u].torn
    BY <1>3, <1>7, <1>9
  <2>5. Written'
    BY <1>9, <2>2, <2>3, <2>4 DEF Written
  <2>6. QED
    BY <1>17, <2>1, <2>5 DEF Process
<1>20. QED
  BY <1>12, <1>13, <1>17, <1>18, <1>19 DEF IInv, Callers

\* The header of the newest file is written, or not: nothing else on disk changes.
LEMMA RotationHeader ==
  ASSUME IInv, NEW t \in Threads, pc[t] = "ck_header", NEW h \in BOOLEAN,
         wals' = Put(seg + 1, [wals[seg + 1] EXCEPT !.hdr = h]),
         snap' = snap, ids' = ids, acked' = acked
  PROVE  /\ LastSeg = seg + 1 /\ LastSeg \in Segs /\ wfd = 0
         /\ DiskType' /\ Disk' /\ AckedOnDisk'
         /\ wals' # <<>> /\ DOMAIN wals' = DOMAIN wals /\ wals'[LastSeg].hdr = h /\ Newest'.recs = <<>>
         /\ LastSeg \in DOMAIN wals /\ LastSeg' = LastSeg /\ Reach' = Reach
         /\ \A u \in DOMAIN wals \ {LastSeg} : wals'[u] = wals[u]
         /\ \A u \in DOMAIN wals' : ~wals'[u].torn
         /\ \A n \in 1..Reach : DiskId(n)' = DiskId(n)
<1> USE InvParts
<1>1. pc[t] \in Rotating \cup {"ck_snapshot"} /\ pc[t] \in Rotating
  BY DEF Rotating
<1>2. /\ durable = next /\ Reach = durable /\ Reach \in Nat /\ wals # <<>>
      /\ LastSeg \in DOMAIN wals /\ Newest \in WalFile
      /\ \A s \in DOMAIN wals : ~wals[s].torn
  BY <1>1, CheckpointAlone
<1>3. snap.seq = next /\ LastSeg = seg + 1 /\ wfd = 0
  BY <1>1 DEF IInv, Callers, CheckpointSteps
<1>4. Newest.recs = <<>>
  <2>1. up = "up" /\ seg \in Nat
    BY <1>1, CheckpointAlone, V55Assumption DEF MemoryType
  <2>2. LastSeg # seg
    BY <1>3, <2>1
  <2>3. QED
    BY <2>1, <2>2 DEF Process, Active
<1>5. Newest = wals[LastSeg] /\ ~Newest.torn
  BY <1>2 DEF Newest
<1>6. wals' = Put(LastSeg, [Newest EXCEPT !.hdr = h, !.torn = FALSE])
  <2>1. [Newest EXCEPT !.hdr = h] = [Newest EXCEPT !.hdr = h, !.torn = FALSE]
    BY <1>2, <1>5, HeaderAlone
  <2>2. PICK g : g = [wals[seg + 1] EXCEPT !.hdr = h]
    OBVIOUS
  <2>3. g = [Newest EXCEPT !.hdr = h, !.torn = FALSE]
    BY <1>3, <1>5, <2>1, <2>2
  <2>4. wals' = Put(LastSeg, g)
    BY <1>3, <2>2
  <2>5. QED
    BY ONLY <2>3, <2>4
<1>7. /\ DiskType' /\ Disk' /\ AckedOnDisk'
      /\ wals' # <<>> /\ DOMAIN wals' = DOMAIN wals
      /\ wals'[LastSeg].hdr = h /\ wals'[LastSeg].torn = FALSE /\ wals'[LastSeg].recs = Newest.recs
      /\ \A u \in DOMAIN wals \ {LastSeg} : wals'[u] = wals[u] /\ ~wals[u].torn
      /\ LastSeg' = LastSeg /\ LastSeg \in DOMAIN wals /\ Reach' = Reach
      /\ \A n \in 1..Reach : DiskId(n)' = DiskId(n)
  <2>1. FALSE \in BOOLEAN /\ (h \/ Newest.recs = <<>>)
    BY <1>4
  <2>2. QED
    BY <1>2, <1>6, <2>1, NewestHeader
<1>8. Newest' = wals'[LastSeg]
  BY <1>7 DEF Newest
<1>9. LastSeg \in Segs
  BY <1>2, WalsType
<1>10. \A u \in DOMAIN wals' : ~wals'[u].torn
  BY <1>7
<1>11. QED
  BY <1>2, <1>3, <1>4, <1>7, <1>8, <1>9, <1>10

\* What a checkpoint leaves to show once the files are known
LEMMA StillWritten ==
  ASSUME IInv, NEW t \in Threads, pc[t] \in Rotating \cup {"ck_snapshot"},
         snap' = snap, acked' = acked, ids' = ids, kv' = kv, durable' = durable, wpc' = wpc, local' = local,
         up' = up,
         DiskType', Disk', Reach' = Reach, wals' # <<>>, \A u \in DOMAIN wals' : ~wals'[u].torn,
         \A n \in 1..Reach : DiskId(n)' = DiskId(n)
  PROVE  Written'
<1>1. /\ up = "up" /\ Reach = durable /\ wpc # "publish" /\ \A n \in 1..Reach : kv[n] = DiskId(n)
  BY CheckpointAlone
<1>2. \A n \in 1..Reach' : kv'[n] = DiskId(n)'
  BY <1>1
<1>3. Reach' = durable' + (IF wpc' = "publish" THEN Len(local') ELSE 0)
  BY <1>1, Frontier
<1>4. QED
  BY <1>2, <1>3 DEF Written

LEMMA CkHeaderStep ==
  ASSUME IInv, NEW t \in Threads, CkHeader(t)
  PROVE  IInv'
<1> USE InvParts
<1>1. /\ pc[t] = "ck_header" /\ wals' = Put(seg + 1, [wals[seg + 1] EXCEPT !.hdr = TRUE])
      /\ wfd' = seg + 1 /\ seg' = seg + 1 /\ pc' = [pc EXCEPT ![t] = "ck_remove"]
      /\ call' = call /\ snap' = snap /\ submitMu' = submitMu
      /\ UNCHANGED <<kv, next, durable, queue, closed, stop, ticket, wpc, local,
                     queueMu, up, fail, ids, acked, late, calls, faults>>
  BY DEF CkHeader, Goto, wr, locks, proc, hist, bound
<1>2. pc[t] \in Rotating \cup {"ck_snapshot"} /\ pc[t] \in Rotating
  BY <1>1 DEF Rotating
<1>3. up = "up" /\ submitMu = t /\ ticket[t] = next /\ durable = next
  BY <1>2, CheckpointAlone
<1>4. snap.seq = next
  BY <1>2 DEF IInv, Callers, CheckpointSteps
<1>5. /\ LastSeg = seg + 1 /\ LastSeg \in Segs
      /\ DiskType' /\ Disk' /\ AckedOnDisk'
      /\ wals' # <<>> /\ DOMAIN wals' = DOMAIN wals /\ wals'[LastSeg].hdr = TRUE
      /\ LastSeg \in DOMAIN wals /\ LastSeg' = LastSeg /\ Reach' = Reach
      /\ \A u \in DOMAIN wals' : ~wals'[u].torn
      /\ \A n \in 1..Reach : DiskId(n)' = DiskId(n)
  <2>1. TRUE \in BOOLEAN
    OBVIOUS
  <2>2. QED
    BY <1>1, <2>1, RotationHeader
<1>6. seg + 1 \in 0..MaxSeg /\ seg \in Nat /\ wfd' # 0
  <2>1. seg \in Nat
    BY V55Assumption DEF MemoryType
  <2>2. QED
    BY <1>1, <1>5, <2>1, V55Assumption DEF Segs
<1>7. PICK c : c = call[t]
  OBVIOUS
<1>8. /\ c \in Calls \cup {"none"} /\ call' = [call EXCEPT ![t] = c] /\ submitMu' = t
      /\ wfd' \in 0..MaxSeg /\ seg' \in 0..MaxSeg /\ faults' \in 0..MaxFault
  BY <1>1, <1>3, <1>6, <1>7 DEF ThreadType, HistoryType
<1>9. PICK p \in Rotating \cup {"idle"} : p = "ck_remove"
  BY DEF Rotating
<1>10. /\ TypeOK' /\ SubmitHeld' /\ WriterPhase' /\ Numbering' /\ Pending' /\ Quiet' /\ Creating'
       /\ \A u \in Threads \ {t} : pc'[u] \notin Rotating \cup {"ck_snapshot"}
       /\ pc'[t] = p /\ \A u \in Threads : ticket'[u] <= next'
  <2>1. pc' = [pc EXCEPT ![t] = p] /\ p # "idle"
    BY <1>1, <1>9
  <2>2. UNCHANGED <<kv, next, durable, queue, closed, stop, ticket, wpc, local, queueMu, up, fail,
                   ids, acked, late, calls>>
    BY <1>1
  <2>3. /\ t \in Threads /\ p \in Rotating \cup {"idle"} /\ c \in Calls \cup {"none"}
        /\ (p = "idle" \/ submitMu' = t) /\ (p # "idle" \/ c = "none") /\ submitMu' \in {t, NoOne}
    BY <1>8, <2>1
  <2>4. QED
    BY ONLY IInv, <1>2, <1>5, <1>8, <2>1, <2>2, <2>3, CheckpointMoves
<1>11. CheckpointSteps'
  BY <1>1, <1>3, <1>4, <1>6, <1>9, <1>10 DEF CheckpointSteps, Rotating
<1>12. Process'
  <2>1. Active'
    BY <1>1, <1>5 DEF Active
  <2>2. Written'
    BY <1>1, <1>2, <1>5, StillWritten
  <2>3. QED
    BY <1>10, <2>1, <2>2 DEF Process
<1>13. QED
  BY <1>5, <1>10, <1>11, <1>12 DEF IInv, Callers

\* An older segment goes: it had nothing that the snapshot has not.
LEMMA SegmentRemoved ==
  ASSUME IInv, wals # <<>>, NEW s \in DOMAIN wals \ {LastSeg},
         wals' = [u \in DOMAIN wals \ {s} |-> wals[u]],
         snap' = snap, ids' = ids, acked' = acked
  PROVE  /\ DiskType' /\ Disk' /\ AckedOnDisk' /\ wals' # <<>>
         /\ DOMAIN wals' = DOMAIN wals \ {s} /\ (\A u \in DOMAIN wals' : wals'[u] = wals[u])
         /\ LastSeg' = LastSeg /\ Newest' = Newest /\ Reach' = Reach
         /\ \A n \in 1..Reach : DiskId(n)' = DiskId(n)
<1> USE InvParts
<1>1. /\ LastSeg \in DOMAIN wals /\ LastSeg \in Nat /\ DOMAIN wals \subseteq Nat
      /\ \A u \in DOMAIN wals : u <= LastSeg
  BY LastSegExists, WalsType DEF Disk
<1>2. DOMAIN wals' = DOMAIN wals \ {s} /\ \A u \in DOMAIN wals' : wals'[u] = wals[u]
  OBVIOUS
<1>3. LastSeg \in DOMAIN wals' /\ wals' # <<>>
  <2>1. LastSeg \in DOMAIN wals'
    BY <1>1, <1>2
  <2>2. QED
    BY <2>1
<1>4. LastSeg' = LastSeg
  <2>1. PICK D, l : D = DOMAIN wals' /\ l = LastSeg
    OBVIOUS
  <2>2. D \subseteq Nat /\ l \in D /\ \A u \in D : u <= l
    BY <1>1, <1>2, <1>3, <2>1
  <2>3. (CHOOSE u \in D : \A v \in D : v <= u) = l
    BY ONLY <2>2, LastOf
  <2>4. QED
    BY <2>1, <2>3 DEF LastSeg
<1>5. Newest' = Newest
  BY <1>2, <1>3, <1>4 DEF Newest
<1>6. Reach' = Reach
  BY <1>3, <1>5 DEF Reach
<1>7. \A n : DiskId(n)' = DiskId(n)
  BY <1>5 DEF DiskId
<1>8. DiskType'
  BY <1>2 DEF DiskType
<1>9. Disk'
  <2>1. Shape'
    BY <1>3 DEF Disk, Shape
  <2>2. Older'
    BY <1>2, <1>4 DEF Disk, Older
  <2>3. Latest'
    BY <1>5, <1>6 DEF Disk, Latest
  <2>4. QED
    BY <1>6, <2>1, <2>2, <2>3 DEF Disk
<1>10. AckedOnDisk'
  BY <1>6, <1>7 DEF AckedOnDisk
<1>11. QED
  BY <1>2, <1>3, <1>4, <1>5, <1>6, <1>7, <1>8, <1>9, <1>10

LEMMA CkRemoveStep ==
  ASSUME IInv, NEW t \in Threads, CkRemove(t)
  PROVE  IInv'
<1> USE InvParts
<1>1. /\ pc[t] = "ck_remove" /\ snap' = snap
      /\ UNCHANGED <<kv, next, durable, queue, wfd, seg, closed, stop, ticket, wpc, local,
                     queueMu, up, fail, ids, acked, late, calls, faults>>
  BY DEF CkRemove, mem, wr, proc, hist, bound
<1>2. pc[t] \in Rotating \cup {"ck_snapshot"}
  BY <1>1 DEF Rotating
<1>3. /\ up = "up" /\ submitMu = t /\ ticket[t] = next /\ durable = next /\ wals # <<>>
      /\ seg \in DOMAIN wals /\ wals[seg].hdr /\ wfd \in {0, seg} /\ LastSeg \in {seg, seg + 1}
      /\ (wfd # 0 => LastSeg = seg) /\ \A u \in DOMAIN wals : ~wals[u].torn
  BY <1>2, CheckpointAlone
<1>4. snap.seq = next /\ wfd # 0 /\ LastSeg = wfd /\ seg = wfd
  <2>1. snap.seq = next /\ wfd # 0
    BY <1>1 DEF IInv, Callers, CheckpointSteps, Rotating
  <2>2. QED
    BY <1>3, <2>1
<1>5. wfd' \in 0..MaxSeg /\ seg' \in 0..MaxSeg /\ faults' \in 0..MaxFault
  BY <1>1 DEF MemoryType, HistoryType
<1>6. CASE pc' = pc
  <2>1. PICK s \in DOMAIN wals \ {wfd} :
          wals' = [u \in DOMAIN wals \ {s} |-> wals[u]] /\ UNCHANGED <<pc, call, submitMu>>
    <3>1. Return(t) => pc'[t] = "idle"
      BY DEF Return, Goto, ThreadType
    <3>2. ~Return(t)
      BY <1>1, <1>6, <3>1
    <3>3. QED
      BY <3>2 DEF CkRemove
  <2>2. /\ DiskType' /\ Disk' /\ AckedOnDisk' /\ wals' # <<>>
        /\ DOMAIN wals' = DOMAIN wals \ {s} /\ (\A u \in DOMAIN wals' : wals'[u] = wals[u])
        /\ LastSeg' = LastSeg /\ Newest' = Newest /\ Reach' = Reach
        /\ \A n \in 1..Reach : DiskId(n)' = DiskId(n)
    <3>1. s \in DOMAIN wals \ {LastSeg}
      BY <1>4, <2>1
    <3>2. QED
      BY <1>1, <1>3, <2>1, <3>1, SegmentRemoved
  <2>3. PICK c : c = call[t]
    OBVIOUS
  <2>4. /\ c \in Calls \cup {"none"} /\ call' = [call EXCEPT ![t] = c] /\ submitMu' = t
    BY <1>3, <2>1, <2>3 DEF ThreadType
  <2>5. PICK p \in Rotating \cup {"idle"} : p = "ck_remove"
    BY DEF Rotating
  <2>6. /\ TypeOK' /\ SubmitHeld' /\ WriterPhase' /\ Numbering' /\ Pending' /\ Quiet' /\ Creating'
        /\ \A u \in Threads \ {t} : pc'[u] \notin Rotating \cup {"ck_snapshot"}
        /\ pc'[t] = p /\ \A u \in Threads : ticket'[u] <= next'
    <3>1. pc' = [pc EXCEPT ![t] = p] /\ p # "idle"
      BY <1>1, <2>1, <2>5 DEF ThreadType
    <3>2. UNCHANGED <<kv, next, durable, queue, closed, stop, ticket, wpc, local, queueMu, up, fail,
                     ids, acked, late, calls>>
      BY <1>1
    <3>3. /\ t \in Threads /\ p \in Rotating \cup {"idle"} /\ c \in Calls \cup {"none"}
          /\ (p = "idle" \/ submitMu' = t) /\ (p # "idle" \/ c = "none") /\ submitMu' \in {t, NoOne}
      BY <2>4, <3>1
    <3>4. QED
      BY ONLY IInv, <1>2, <1>5, <2>2, <2>4, <3>1, <3>2, <3>3, CheckpointMoves
  <2>7. CheckpointSteps'
    BY <1>1, <1>3, <1>4, <2>2, <2>5, <2>6 DEF CheckpointSteps, Rotating
  <2>8. Active'
    BY <1>1, <1>3, <1>4, <2>1, <2>2 DEF Active
  <2>9. Written'
    <3>1. \A u \in DOMAIN wals' : ~wals'[u].torn
      BY <1>3, <2>2
    <3>2. QED
      BY <1>1, <1>2, <2>2, <3>1, StillWritten
  <2>10. Process'
    BY <2>6, <2>8, <2>9 DEF Process
  <2>11. QED
    BY <2>2, <2>6, <2>7, <2>10 DEF IInv, Callers
<1>7. CASE pc' # pc
  <2>1. wals' = wals /\ Return(t) /\ submitMu' = NoOne
    BY <1>7 DEF CkRemove
  <2>2. DiskType' /\ Disk' /\ AckedOnDisk'
    BY <1>1, <2>1, SameDisk, SameHistory
  <2>3. PICK p \in Rotating \cup {"idle"}, c \in Calls \cup {"none"} : p = "idle" /\ c = "none"
    OBVIOUS
  <2>4. /\ TypeOK' /\ SubmitHeld' /\ WriterPhase' /\ Numbering' /\ Pending' /\ Quiet' /\ Creating'
        /\ \A u \in Threads \ {t} : pc'[u] \notin Rotating \cup {"ck_snapshot"}
        /\ pc'[t] = p /\ \A u \in Threads : ticket'[u] <= next'
    <3>1. pc' = [pc EXCEPT ![t] = p] /\ call' = [call EXCEPT ![t] = c]
      BY <2>1, <2>3 DEF Return, Goto
    <3>2. submitMu' \in {t, NoOne}
      BY <2>1
    <3>3. UNCHANGED <<kv, next, durable, queue, closed, stop, ticket, wpc, local, queueMu, up, fail,
                     ids, acked, late, calls>>
      BY <1>1
    <3>4. /\ t \in Threads /\ p \in Rotating \cup {"idle"} /\ c \in Calls \cup {"none"}
          /\ (p = "idle" \/ submitMu' = t) /\ (p # "idle" \/ c = "none") /\ submitMu' \in {t, NoOne}
      BY <2>3, <3>2
    <3>5. QED
      BY ONLY IInv, <1>2, <1>5, <2>2, <3>1, <3>3, <3>4, CheckpointMoves
  <2>5. CheckpointSteps'
    BY <1>1, <2>3, <2>4 DEF CheckpointSteps, Rotating
  <2>6. Process'
    BY <1>1, <1>3, <2>1, SameProcess
  <2>7. QED
    BY <2>2, <2>4, <2>5, <2>6 DEF IInv, Callers
<1>8. QED
  BY <1>6, <1>7

\* A checkpoint fails: what was written stays, the log may be closed.
LEMMA CkFailsStep ==
  ASSUME IInv, NEW t \in Threads, CkFails(t)
  PROVE  IInv'
<1> USE InvParts
<1>1. /\ Return(t) /\ submitMu' = NoOne /\ snap' = snap /\ faults < MaxFault /\ faults' = faults + 1
      /\ UNCHANGED <<kv, next, durable, queue, seg, closed, stop, ticket, wpc, local,
                     queueMu, up, fail, ids, acked, late, calls>>
  BY DEF CkFails, wr, proc, hist
<1>2. pc[t] \in Rotating \cup {"ck_snapshot"} /\ wfd' \in {wfd, 0}
  BY DEF CkFails, Rotating
<1>3. /\ up = "up" /\ wals # <<>>
      /\ seg \in DOMAIN wals /\ wals[seg].hdr /\ wfd \in {0, seg} /\ LastSeg \in {seg, seg + 1}
      /\ (wfd # 0 => LastSeg = seg) /\ (\A u \in DOMAIN wals : ~wals[u].torn)
      /\ seg \in Nat /\ (LastSeg # seg => Newest.recs = <<>>)
  BY <1>2, CheckpointAlone, V55Assumption DEF MemoryType, Process, Active
<1>4. wfd' \in 0..MaxSeg /\ seg' \in 0..MaxSeg /\ faults' \in 0..MaxFault
  BY <1>1, <1>2, V55Assumption DEF MemoryType, HistoryType
<1>5. /\ DiskType' /\ Disk' /\ AckedOnDisk' /\ wals' # <<>> /\ DOMAIN wals' = DOMAIN wals
      /\ wals'[seg].hdr /\ LastSeg' = LastSeg /\ Reach' = Reach
      /\ (LastSeg # seg => Newest'.recs = <<>>)
      /\ \A u \in DOMAIN wals' : ~wals'[u].torn
      /\ \A n \in 1..Reach : DiskId(n)' = DiskId(n)
  <2>1. CASE wals' = wals
    BY <1>1, <1>3, <2>1, SameDisk, SameHistory
  <2>2. CASE wals' # wals
    <3>1. PICK h \in BOOLEAN : wals' = Put(seg + 1, [wals[seg + 1] EXCEPT !.hdr = h])
      BY <2>2 DEF CkFails
    <3>2. pc[t] = "ck_header"
      BY <2>2 DEF CkFails
    <3>3. /\ LastSeg = seg + 1
          /\ DiskType' /\ Disk' /\ AckedOnDisk'
          /\ wals' # <<>> /\ DOMAIN wals' = DOMAIN wals /\ Newest'.recs = <<>>
          /\ LastSeg' = LastSeg /\ Reach' = Reach
          /\ \A u \in DOMAIN wals \ {LastSeg} : wals'[u] = wals[u]
          /\ \A u \in DOMAIN wals' : ~wals'[u].torn
          /\ \A n \in 1..Reach : DiskId(n)' = DiskId(n)
      BY <1>1, <3>1, <3>2, RotationHeader
    <3>4. wals'[seg].hdr
      BY <1>3, <3>3
    <3>5. QED
      BY <3>3, <3>4
  <2>3. QED
    BY <2>1, <2>2
<1>6. PICK p \in Rotating \cup {"idle"}, c \in Calls \cup {"none"} : p = "idle" /\ c = "none"
  OBVIOUS
<1>7. /\ TypeOK' /\ SubmitHeld' /\ WriterPhase' /\ Numbering' /\ Pending' /\ Quiet' /\ Creating'
      /\ \A u \in Threads \ {t} : pc'[u] \notin Rotating \cup {"ck_snapshot"}
      /\ pc'[t] = p /\ \A u \in Threads : ticket'[u] <= next'
  <2>1. pc' = [pc EXCEPT ![t] = p] /\ call' = [call EXCEPT ![t] = c]
    BY <1>1, <1>6 DEF Return, Goto
  <2>2. submitMu' \in {t, NoOne}
    BY <1>1
  <2>3. UNCHANGED <<kv, next, durable, queue, closed, stop, ticket, wpc, local, queueMu, up, fail,
                   ids, acked, late, calls>>
    BY <1>1
  <2>4. /\ t \in Threads /\ p \in Rotating \cup {"idle"} /\ c \in Calls \cup {"none"}
        /\ (p = "idle" \/ submitMu' = t) /\ (p # "idle" \/ c = "none") /\ submitMu' \in {t, NoOne}
    BY <1>6, <2>2
  <2>5. QED
    BY ONLY IInv, <1>2, <1>4, <1>5, <2>1, <2>3, <2>4, CheckpointMoves
<1>8. CheckpointSteps'
  BY <1>6, <1>7 DEF CheckpointSteps, Rotating
<1>9. Process'
  <2>1. Active'
    BY <1>1, <1>2, <1>3, <1>5 DEF Active
  <2>2. Written'
    BY <1>1, <1>2, <1>5, StillWritten
  <2>3. QED
    BY <1>7, <2>1, <2>2 DEF Process
<1>10. QED
  BY <1>5, <1>7, <1>8, <1>9 DEF IInv, Callers

-----------------------------------------------------------------------------
(* The invariant, and what it says                                         *)

LEMMA InitInv == Init => IInv
<1> SUFFICES ASSUME Init PROVE IInv
  OBVIOUS
<1>1. /\ snap = [seq |-> 0, kv |-> <<>>] /\ wals = <<>>
      /\ kv = <<>> /\ next = 0 /\ durable = 0 /\ queue = <<>>
      /\ wfd = 0 /\ seg = 0 /\ closed = FALSE /\ stop = FALSE
      /\ pc = [t \in Threads |-> "idle"] /\ call = [t \in Threads |-> "none"]
      /\ ticket = [t \in Threads |-> 0] /\ calls = [t \in Threads |-> 0]
      /\ wpc = "take" /\ local = <<>>
      /\ submitMu = NoOne /\ queueMu = NoOne /\ up = "down" /\ fail = "none"
      /\ ids = 0 /\ acked = <<>> /\ late = {} /\ faults = 0
  BY DEF Init, ForAll
<1>2. 0 \in 0..MaxOps /\ 0 \in 0..MaxSeg /\ 0 \in 0..MaxCalls /\ 0 \in 0..MaxFault
  BY V55Assumption
<1>3. /\ Len(kv) = 0 /\ Len(acked) = 0 /\ Len(local) = 0 /\ Len(queue) = 0 /\ Len(snap.kv) = 0
      /\ DOMAIN wals = {}
  BY <1>1
<1>4. DiskType
  <2>1. <<>> \in Seq(Ops)
    OBVIOUS
  <2>2. snap \in Snap
    BY <1>1, <1>2, <2>1 DEF Snap
  <2>3. QED
    BY <1>3, <2>2 DEF DiskType
<1>5. MemoryType
  <2>1. kv \in Seq(Ops) /\ queue \in Seq(Rec)
    BY <1>1
  <2>2. QED
    BY <1>1, <1>2, <2>1 DEF MemoryType
<1>6. ThreadType
  BY <1>1, <1>2 DEF ThreadType
<1>7. HistoryType
  <2>1. acked \in Seq(Ops) /\ late \subseteq Ops
    BY <1>1
  <2>2. QED
    BY <1>1, <1>2, <2>1 DEF HistoryType
<1>8. Reach = 0
  BY <1>1 DEF Reach
<1>9. Disk
  BY <1>1, <1>3, <1>8 DEF Disk, Shape, Older, Latest
<1>10. AckedOnDisk
  BY <1>1, <1>3, <1>8 DEF AckedOnDisk
<1>11. Process
  BY <1>1 DEF Process, Quiet, Creating, Written, Active
<1>12. Callers
  BY <1>1 DEF Callers, SubmitHeld, CheckpointSteps, Checkpointing, Rotating, Sleeping
<1>13. WriterPhase /\ Numbering
  BY <1>1, <1>3 DEF WriterPhase, Numbering
<1>14. Pending
  <2>1. ~Pushing
    BY <1>1 DEF Pushing
  <2>2. QED
    BY <1>1, <1>3, <2>1 DEF Pending, Continues
<1>15. QED
  BY <1>4, <1>5, <1>6, <1>7, <1>9, <1>10, <1>11, <1>12, <1>13, <1>14 DEF IInv, TypeOK

LEMMA Stutter ==
  ASSUME IInv, UNCHANGED vars
  PROVE  IInv'
<1> USE InvParts
<1>1. UNCHANGED <<snap, wals, kv, next, durable, queue, wfd, seg, closed, stop, pc, call, ticket, wpc,
                  local, submitMu, queueMu, up, fail, ids, acked, late, calls, faults>>
  BY DEF vars, disk, mem, thr, wr, locks, proc, hist, bound
<1>2. DiskType' /\ Disk' /\ AckedOnDisk' /\ LastSeg' = LastSeg
  BY <1>1, SameDisk, SameHistory
<1>3. TypeOK'
  <2>1. MemoryType'
    BY <1>1 DEF MemoryType
  <2>2. ThreadType' /\ HistoryType'
    BY <1>1 DEF ThreadType, HistoryType
  <2>3. QED
    BY <1>2, <2>1, <2>2 DEF TypeOK
<1>4. Pending'
  BY <1>1 DEF Pending, Continues, Pushing
<1>5. Callers' /\ WriterPhase' /\ Numbering'
  <2>1. Callers'
    BY <1>1, <1>2 DEF IInv, Callers, SubmitHeld, CheckpointSteps, Checkpointing
  <2>2. WriterPhase'
    BY <1>1, <1>2 DEF IInv, WriterPhase
  <2>3. Numbering'
    BY <1>1, <1>2 DEF IInv, Numbering
  <2>4. QED
    BY <2>1, <2>2, <2>3
<1>6. Process'
  <2>1. Quiet'
    BY <1>1 DEF Process, Quiet
  <2>2. Creating'
    BY <1>1 DEF Process, Creating
  <2>3. Active'
    BY <1>1, SameDisk DEF Process, Active
  <2>4. Written'
    BY <1>1, SameDisk DEF Process, Written
  <2>5. QED
    BY <2>1, <2>2, <2>3, <2>4 DEF Process
<1>7. QED
  BY <1>2, <1>3, <1>4, <1>5, <1>6 DEF IInv

LEMMA CallerStep ==
  ASSUME IInv, NEW t \in Threads, Caller(t)
  PROVE  IInv'
BY SubmitStep, PushStep, WaitReturnStep, WaitBlocksStep, CkLockStep, CkRenameStep, CkRotateStep,
   CkHeaderStep, CkRemoveStep, CloseStopStep, CloseJoinStep DEF Caller

LEMMA NextStep ==
  ASSUME IInv, [Next]_vars
  PROVE  IInv'
<1>1. CASE UNCHANGED vars
  BY <1>1, Stutter
<1>2. CASE Writer
  BY <1>2, WriterTakeStep, WriterIOStep, WriterPublishStep, WriterNotifyStep DEF Writer
<1>3. CASE Open \/ OpenCreates \/ WriterAborts \/ Crash \/ Destroy
  BY <1>3, OpenStep, OpenCreatesStep, EndStep, CrashStep
<1>4. ASSUME NEW t \in Threads, Caller(t) \/ CkFails(t) \/ \E c \in Calls : Begin(t, c)
      PROVE  IInv'
  BY <1>4, CallerStep, CkFailsStep, BeginStep
<1>5. QED
  BY <1>1, <1>2, <1>3, <1>4 DEF Next

\* The disk, the memory and the threads agree as IInv says in every reachable state.
THEOREM EngineAgrees == Spec => []IInv
BY InitInv, NextStep, PTL DEF Spec

\* durable_seq is exact: the batch and the queue hold the operations past it in order and
\* once each, and only a submit that holds submit_mu has one more.
THEOREM FrontierIsExact == Spec => []FrontierContiguous
<1>1. IInv => FrontierContiguous
  <2> SUFFICES ASSUME IInv PROVE FrontierContiguous
    OBVIOUS
  <2>1. TypeOK
    BY DEF IInv
  <2>2. PICK l, q, pending : l = local /\ q = queue /\ pending = l \o q
    OBVIOUS
  <2>3. /\ l \in Seq(Rec) /\ q \in Seq(Rec) /\ Len(l) \in Nat /\ Len(q) \in Nat /\ durable \in Nat
        /\ next = durable + Len(l) + Len(q) + (IF Pushing THEN 1 ELSE 0)
    BY <2>2, Frontier
  <2>4. /\ Len(pending) = Len(l) + Len(q)
        /\ \A i \in 1..(Len(l) + Len(q)) :
              pending[i] = IF i <= Len(l) THEN l[i] ELSE q[i - Len(l)]
    BY <2>2, <2>3, ConcatProperties
  <2>5. ASSUME NEW i \in 1..Len(pending)
        PROVE  pending[i].seq = durable + i /\ pending[i].id = kv[durable + i]
    <3>1. CASE i <= Len(l)
      <4>1. i \in 1..Len(l) /\ pending[i] = l[i]
        BY <2>3, <2>4, <3>1
      <4>2. QED
        BY <2>2, <4>1 DEF IInv, Pending, Continues
    <3>2. CASE i > Len(l)
      <4>1. PICK j : j = i - Len(l)
        OBVIOUS
      <4>2. j \in 1..Len(q) /\ pending[i] = q[j]
        BY <2>3, <2>4, <3>2, <4>1
      <4>3. q[j].seq = durable + Len(l) + j /\ q[j].id = kv[durable + Len(l) + j]
        BY <2>2, <4>2 DEF IInv, Pending, Continues
      <4>4. durable + Len(l) + j = durable + i
        BY <2>3, <4>1
      <4>5. QED
        BY <4>2, <4>3, <4>4
    <3>3. i <= Len(l) \/ i > Len(l)
      BY <2>3, <2>4
    <3>4. QED
      BY ONLY <3>1, <3>2, <3>3
  <2>6. next = durable + Len(pending) + (IF \E t \in Threads : pc[t] = "push" THEN 1 ELSE 0)
    <3>1. Pushing <=> \E t \in Threads : pc[t] = "push"
      BY DEF Pushing
    <3>2. CASE Pushing
      BY <2>3, <2>4, <3>1, <3>2
    <3>3. CASE ~Pushing
      BY <2>3, <2>4, <3>1, <3>3
    <3>4. QED
      BY <3>2, <3>3
  <2>7. QED
    BY <2>1, <2>2, <2>5, <2>6 DEF FrontierContiguous
<1>2. QED
  BY <1>1, EngineAgrees, PTL

\* A thread that the end of the writer leaves waiting waits for an operation that was queued
\* after close() had set `stop', or is about to be.
THEOREM OnlyCloseStrands == Spec => []StrandedOnlyByClose
<1>1. IInv => StrandedOnlyByClose
  <2> SUFFICES ASSUME IInv, NEW t \in Threads, wpc = "done", durable < ticket[t]
               PROVE  \E n \in late \cup {ticket[u] : u \in {v \in Threads : pc[v] = "push"}} :
                         n <= ticket[t]
    BY DEF StrandedOnlyByClose
  <2>1. /\ next \in Nat /\ durable \in Nat /\ Len(queue) \in Nat /\ local = <<>> /\ Len(local) = 0
        /\ next = durable + Len(queue) + (IF Pushing THEN 1 ELSE 0)
    <3>1. local = <<>> /\ Len(local) = 0
      BY DEF IInv, WriterPhase
    <3>2. QED
      BY <3>1, Frontier
  <2>2. ticket[t] \in Nat /\ ticket[t] <= next
    BY InvParts, V55Assumption DEF ThreadType, IInv, Callers, CheckpointSteps
  <2>3. CASE Len(queue) > 0
    <3>1. 1 \in 1..Len(queue)
      BY <2>1, <2>3
    <3>2. queue[1].seq \in late
      BY <3>1 DEF IInv, WriterPhase
    <3>3. queue[1].seq = durable + Len(local) + 1
      BY <3>1 DEF IInv, Pending, Continues
    <3>4. queue[1].seq <= ticket[t]
      BY <2>1, <2>2, <3>3
    <3>5. QED
      BY <3>2, <3>4
  <2>4. CASE Len(queue) = 0
    <3>1. Pushing
      BY <2>1, <2>2, <2>4
    <3>2. PICK u \in Threads : pc[u] = "push"
      BY <3>1 DEF Pushing
    <3>3. ticket[u] = next
      BY <3>2 DEF IInv, Callers, SubmitHeld
    <3>4. ticket[u] <= ticket[t]
      BY <2>1, <2>2, <2>4, <3>1, <3>3
    <3>5. QED
      BY <3>2, <3>4
  <2>5. QED
    BY <2>1, <2>3, <2>4
<1>2. QED
  BY <1>1, EngineAgrees, PTL

\* The one error of recover() is a newest segment without header, which has no records:
\* no crash and no failing checkpoint leaves a gap or a torn record behind.
THEOREM OnlyHeaderErrs == Spec => []OnlyHeaderMissing
<1>1. IInv => OnlyHeaderMissing
  <2> SUFFICES ASSUME IInv, Replayed.err # "none"
               PROVE  /\ Replayed.err = "header"
                      /\ \A s \in DOMAIN wals : ~wals[s].hdr => s = LastSeg /\ wals[s].recs = <<>>
    BY DEF OnlyHeaderMissing
  <2>1. Replayed.err = "header" /\ wals # <<>>
    BY InvParts, RecoverReads
  <2>2. ASSUME NEW s \in DOMAIN wals, ~wals[s].hdr PROVE s = LastSeg /\ wals[s].recs = <<>>
    <3>1. s = LastSeg
      BY <2>2 DEF IInv, Disk, Older
    <3>2. Newest = wals[s]
      BY <3>1 DEF Newest
    <3>3. QED
      BY <2>1, <2>2, <3>1, <3>2 DEF IInv, Disk, Latest
  <2>3. QED
    BY <2>1, <2>2
<1>2. QED
  BY <1>1, EngineAgrees, PTL

LEMMA PrefixIs ==
  ASSUME NEW S, NEW s \in Seq(S), NEW t \in Seq(S), Len(s) <= Len(t),
         \A i \in 1..Len(s) : s[i] = t[i]
  PROVE  IsPrefix(s, t)
<1>1. Len(s) \in Nat /\ Len(t) \in Nat /\ \A i \in 1..Len(s) : i \in 1..Len(t)
  OBVIOUS
<1>2. SubSeq(s, 1, Len(s)) = [i \in 1..Len(s) |-> s[i]]
  BY <1>1
<1>3. SubSeq(t, 1, Len(s)) = [i \in 1..Len(s) |-> t[i]]
  BY <1>1
<1>4. [i \in 1..Len(s) |-> s[i]] = [i \in 1..Len(s) |-> t[i]]
  OBVIOUS
<1>5. QED
  BY <1>2, <1>3, <1>4 DEF IsPrefix

\* Whatever the threads do, and in every later process, reading the directory gives all
\* that was acknowledged, and of a running database nothing that its map has not.
THEOREM AcknowledgedIsRecoverable == Spec => []AckedRecoverable
<1>1. IInv => AckedRecoverable
  <2> SUFFICES ASSUME IInv, Replayed.err = "none"
               PROVE  IsPrefix(acked, Replayed.kv) /\ (up = "up" => IsPrefix(Replayed.kv, kv))
    BY DEF AckedRecoverable
  <2>1. Replayed.kv = OnDisk
    BY InvParts, RecoverReads
  <2>2. /\ OnDisk \in Seq(Ops) /\ Len(OnDisk) = Reach /\ Reach \in Nat
        /\ \A n \in 1..Reach : OnDisk[n] = DiskId(n)
    BY InvParts, OnDiskType, ReachType
  <2>3. IsPrefix(acked, OnDisk)
    <3>1. acked \in Seq(Ops) /\ Len(acked) \in Nat /\ Len(acked) <= Reach
      BY InvParts DEF HistoryType, AckedOnDisk
    <3>2. \A i \in 1..Len(acked) : i \in 1..Reach
      BY <2>2, <3>1
    <3>3. \A i \in 1..Len(acked) : acked[i] = OnDisk[i]
      BY <2>2, <3>2, InvParts DEF AckedOnDisk
    <3>4. QED
      BY <2>2, <3>1, <3>3, PrefixIs
  <2>4. ASSUME up = "up" PROVE IsPrefix(OnDisk, kv)
    <3>1. kv \in Seq(Ops) /\ Reach <= Len(kv)
      BY <2>4, Frontier
    <3>2. \A n \in 1..Reach : OnDisk[n] = kv[n]
      BY <2>2, <2>4, InvParts DEF Process, Written
    <3>3. QED
      BY <2>2, <3>1, <3>2, PrefixIs
  <2>5. QED
    BY <2>1, <2>3, <2>4
<1>2. QED
  BY <1>1, EngineAgrees, PTL
=============================================================================
