------------------------- MODULE PersistentBDR_proofs -------------------------
(***************************************************************************)
(* What TLAPS proves about the Python engine, for every set of keys and      *)
(* values, segment size, group size and bound: what was called durable while *)
(* the active segment was on the medium is there after every order of        *)
(* crashes and power losses, the state is that of a prefix of the            *)
(* operations, and an open refuses only a log with bytes behind a cut record *)
(* or a skipped number.                                                      *)
(***************************************************************************)
EXTENDS PersistentBDR, SequenceTheorems, WellFoundedInduction, TLAPS

-----------------------------------------------------------------------------
(* The inductive invariant                                                 *)

Clean == faults \subseteq {"unapplied"}

\* The steps of put and delete behind the write
Putting == {"sync", "rotate", "rotate_dirsync", "return"}

\* A record is never further behind in its file than its number says.
Counted == \A s \in Segs : /\ file[s].synced <= Len(file[s].recs)
                           /\ \A i \in 1..Len(file[s].recs) : file[s].recs[i].seq >= i

\* The open object: its segment is the last one, and nothing outgrows the numbers given out.
Object == pc # "down" =>
    /\ cur \in segs /\ \A s \in segs : s <= cur
    /\ pending <= segCount /\ segCount <= seq /\ Len(file[cur].recs) <= seq
    /\ pc \in {"ck_replace", "ck_dirsync", "ck_segment"} => cur < MaxSeg
    /\ pc \in Putting => arg.rec \in Rec
    /\ pc = "sync" => pending > 0

Types == TypeOK /\ Counted /\ Object

\* Record number m is read from segment s; it is read there whatever a power loss takes.
In(s, j, m) == s \in segs /\ j \in 1..Len(file[s].recs) /\ file[s].recs[j].seq = m
Firm(s, j) == s \in segsD /\ j <= file[s].synced

\* Files that may be there after a power loss
Names == segs \cup segsD

Bounded(r) == /\ \A p \in snapMaybe : p.seq <= r
              /\ \A s \in Names : \A i \in 1..Len(file[s].recs) : file[s].recs[i].seq <= r

\* Up to r nothing is missing behind a snapshot; only in the last segment it can get lost.
Held(r) == \A p \in snapMaybe : \A m \in (p.seq + 1)..r :
    \E s \in segs, j \in 1..MaxSeq :
        In(s, j, m) /\ (Firm(s, j) \/ \A t \in segs : t <= s)

\* What stands between a snapshot and a record comes before it, in its file or in one that
\* a power loss leaves.
Gapless == \A p \in snapMaybe : \A s \in Names : \A i \in 1..Len(file[s].recs) :
    \A m \in (p.seq + 1)..file[s].recs[i].seq :
        \/ \E j \in 1..i : file[s].recs[j].seq = m
        \/ \E t \in segs, j \in 1..MaxSeq : t < s /\ In(t, j, m) /\ Firm(t, j)

AckedFirm == \A p \in snapMaybe : \A m \in (p.seq + 1)..acked :
    \E s \in segs, j \in 1..MaxSeq : In(s, j, m) /\ Firm(s, j)

\* Nothing is read behind a record that was cut short.
Tidy == \A s \in Segs : file[s].tail \in {"none", "cut"} /\ file[s].tailD \in {"none", "cut"}

Log(r) == Bounded(r) /\ Held(r) /\ Gapless /\ AckedFirm /\ acked <= r /\ Tidy

\* With nothing pending, the segment that put leaves is safe.
Settled ==
    /\ pc \in {"rotate", "return"} /\ pending = 0 =>
          cur \in segsD /\ file[cur].synced = Len(file[cur].recs)
    /\ pc = "rotate_dirsync" => pending = 0 /\ file[cur].recs = <<>>

\* How far the snapshot has come
Snapshot ==
    /\ pc = "ck_dirsync" => snap.seq = seq
    /\ pc \in {"ck_segment", "ck_segment_dirsync", "ck_unlink"} => snap.seq = seq /\ snapMaybe = {snap}

\* The files and snapshots are those of what happened.
Recorded(r) ==
    /\ r <= Len(hist)
    /\ \A i \in 1..Len(hist) : hist[i].seq = i
    /\ \A s \in Names : \A i \in 1..Len(file[s].recs) :
          file[s].recs[i] = hist[file[s].recs[i].seq]
    /\ \A p \in snapMaybe : p.st = StatesOf(hist)[p.seq]

\* So is the state; between the write and the end of a put, the one before it.
Applied ==
    /\ pc # "down" => Len(hist) = seq
    /\ pc \notin Putting \cup {"down"} => state = StatesOf(hist)[seq]
    /\ pc \in Putting => /\ seq > 0 /\ arg.rec = hist[seq]
                         /\ state = StatesOf(hist)[seq - 1]

Whole(r) == /\ pc # "down" => r = seq
            /\ Log(r) /\ Settled /\ Snapshot
            /\ faults = {} => Recorded(r) /\ Applied

Kept == Clean => \E r \in 0..MaxSeq : Whole(r)

IInv == Types /\ Kept

-----------------------------------------------------------------------------
(* Numbers, sets of segments, sequences                                     *)

\* Induction on the numbers up to n, for a set
LEMMA Upto ==
  ASSUME NEW n \in Nat, NEW P, 0 \in P, \A i \in 1..n : i - 1 \in P => i \in P
  PROVE  0..n \subseteq P
<1> DEFINE Bad == (0..n) \ P
<1>1. SUFFICES ASSUME Bad # {} PROVE FALSE
  OBVIOUS
<1>2. PICK e \in Bad : \A f \in Bad : ~(<<f, e>> \in OpToRel(<, Nat))
  <2>1. Bad \subseteq Nat
    OBVIOUS
  <2>2. QED
    BY <1>1, <2>1, NatLessThanWellFounded, WFMin
<1>3. e \in 1..n
  OBVIOUS
<1>4. e - 1 \notin Bad
  <2>1. ASSUME e - 1 \in Bad PROVE FALSE
    <3>1. e - 1 < e /\ e - 1 \in Nat /\ e \in Nat
      BY <1>3
    <3>2. PICK f \in Nat : f = e - 1
      BY <3>1
    <3>3. f < e /\ f \in Bad
      BY <2>1, <3>1, <3>2
    <3>4. <<f, e>> \in OpToRel(<, Nat)
      BY <3>1, <3>3, Zenon DEF OpToRel
    <3>5. QED
      BY <1>2, <3>3, <3>4
  <2>2. QED
    BY <2>1
<1>5. QED
  BY <1>3, <1>4

\* A set of segments has a last one and a first one.
LEMMA LastExists ==
  ASSUME NEW m \in Nat, NEW D, D \subseteq 0..m, D # {}
  PROVE  \E s \in D : \A t \in D : t <= s
<1> DEFINE U == {n \in Nat : \A t \in D : t <= n}
<1>1. U \subseteq Nat /\ U # {}
  <2>1. m \in U
    OBVIOUS
  <2>2. QED
    BY <2>1
<1>2. PICK n \in U : \A k \in U : ~(<<k, n>> \in OpToRel(<, Nat))
  BY <1>1, NatLessThanWellFounded, WFMin
<1>3. SUFFICES ASSUME n \notin D PROVE FALSE
  OBVIOUS
<1>4. PICK d \in D : TRUE
  OBVIOUS
<1>5. n \in Nat /\ n - 1 \in Nat /\ n - 1 < n
  <2>1. d \in Nat /\ d <= n /\ n \in Nat /\ d # n
    BY <1>3, <1>4
  <2>2. QED
    BY <2>1
<1>6. n - 1 \in U
  <2>1. \A t \in D : t \in Nat /\ t <= n /\ t # n
    BY <1>3
  <2>2. QED
    BY <1>5, <2>1
<1>7. <<n - 1, n>> \in OpToRel(<, Nat)
  BY <1>5, Zenon DEF OpToRel
<1>8. QED
  BY <1>2, <1>6, <1>7

LEMMA FirstExists ==
  ASSUME NEW D, D \subseteq Nat, D # {}
  PROVE  \E s \in D : \A t \in D : s <= t
<1>1. PICK s \in D : \A t \in D : ~(<<t, s>> \in OpToRel(<, Nat))
  BY NatLessThanWellFounded, WFMin
<1>2. ASSUME NEW t \in D PROVE s <= t
  <2>1. s \in Nat /\ t \in Nat
    OBVIOUS
  <2>2. CASE t < s
    <3>1. <<t, s>> \in OpToRel(<, Nat)
      BY <2>1, <2>2, Zenon DEF OpToRel
    <3>2. QED
      BY <1>1, <3>1
  <2>3. QED
    BY <2>1, <2>2
<1>3. QED
  BY <1>2

LEMMA AppendIs ==
  ASSUME NEW T, NEW s \in Seq(T), NEW e \in T
  PROVE  /\ Append(s, e) \in Seq(T) /\ Len(Append(s, e)) = Len(s) + 1
         /\ Append(s, e)[Len(s) + 1] = e
         /\ \A i \in 1..Len(s) : Append(s, e)[i] = s[i]
  BY AppendProperties, LenProperties

LEMMA SubSeqIs ==
  ASSUME NEW T, NEW s \in Seq(T), NEW n \in 0..Len(s)
  PROVE  /\ SubSeq(s, 1, n) \in Seq(T) /\ Len(SubSeq(s, 1, n)) = n
         /\ \A i \in 1..n : SubSeq(s, 1, n)[i] = s[i]
<1>1. Len(s) \in Nat
  BY LenProperties
<1>2. n \in Nat /\ n <= Len(s)
  BY <1>1
<1>3. \A i \in 1..n : s[i] \in T
  BY <1>1, <1>2, ElementOfSeq
<1>4. QED
  BY <1>1, <1>2, <1>3, SubSeqProperties

-----------------------------------------------------------------------------
(* The recursive functions exist: each value follows from the one before.   *)

LEMMA ReplayFileIs ==
  ASSUME NEW a, NEW recs \in Seq(Rec)
  PROVE  /\ ReplayFile(a, recs)[0] = a
         /\ \A i \in 1..Len(recs) : ReplayFile(a, recs)[i] = Replay(ReplayFile(a, recs)[i - 1], recs[i])
<1> DEFINE n == Len(recs)
           Step(x, i) == Replay(x, recs[i])
           F(f, m) == f = [i \in 0..m |-> IF i = 0 THEN a ELSE Replay(f[i - 1], recs[i])]
           P == {m \in 0..n : \E f : F(f, m)}
<1>1. n \in Nat
  BY LenProperties
<1>2. 0 \in P
  <2>1. F([i \in 0..0 |-> a], 0)
    OBVIOUS
  <2>2. 0 \in 0..n
    BY <1>1
  <2>3. \E f : F(f, 0)
    <3> HIDE DEF F
    <3>1. QED
      BY <2>1, Zenon
  <2>4. QED
    BY ONLY <2>2, <2>3
<1>3. ASSUME NEW m \in 1..n, m - 1 \in P PROVE m \in P
  <2>1. PICK f : F(f, m - 1)
    BY <1>3
  <2>2. PICK g : g = [i \in 0..m |-> IF i = m THEN Step(f[m - 1], m) ELSE f[i]]
    OBVIOUS
  <2>3. F(g, m)
    <3>1. \A i \in 0..(m - 1) : f[i] = IF i = 0 THEN a ELSE Step(f[i - 1], i)
      BY <2>1
    <3>2. \A i \in 0..m : g[i] = IF i = 0 THEN a ELSE Step(g[i - 1], i)
      <4> HIDE DEF Step
      <4>1. QED
        BY <1>1, <2>2, <3>1
    <3>3. QED
      BY <2>2, <3>2
  <2>4. QED
    BY <1>1, <2>3
<1>4. n \in P
  <2>1. 0..n \subseteq P
    BY ONLY <1>1, <1>2, <1>3, Upto
  <2>2. QED
    BY <1>1, <2>1
<1>5. PICK c : c = ReplayFile(a, recs)
  OBVIOUS
<1>6. F(c, n)
  BY <1>4, <1>5, Zenon DEF ReplayFile
<1>7. c[0] = a /\ \A i \in 1..n : c[i] = Step(c[i - 1], i)
  BY <1>1, <1>6
<1>8. QED
  BY <1>5, <1>7

LEMMA StatesOfIs ==
  ASSUME NEW rs \in Seq(Rec)
  PROVE  /\ StatesOf(rs)[0] = NoState
         /\ \A i \in 1..Len(rs) : StatesOf(rs)[i] = Apply(StatesOf(rs)[i - 1], rs[i])
<1> DEFINE n == Len(rs)
           Step(x, i) == Apply(x, rs[i])
           F(f, m) == f = [i \in 0..m |-> IF i = 0 THEN NoState ELSE Apply(f[i - 1], rs[i])]
           P == {m \in 0..n : \E f : F(f, m)}
<1>1. n \in Nat
  BY LenProperties
<1>2. 0 \in P
  <2>1. F([i \in 0..0 |-> NoState], 0)
    OBVIOUS
  <2>2. 0 \in 0..n
    BY <1>1
  <2>3. \E f : F(f, 0)
    <3> HIDE DEF F
    <3>1. QED
      BY <2>1, Zenon
  <2>4. QED
    BY ONLY <2>2, <2>3
<1>3. ASSUME NEW m \in 1..n, m - 1 \in P PROVE m \in P
  <2>1. PICK f : F(f, m - 1)
    BY <1>3
  <2>2. PICK g : g = [i \in 0..m |-> IF i = m THEN Step(f[m - 1], m) ELSE f[i]]
    OBVIOUS
  <2>3. F(g, m)
    <3>1. \A i \in 0..(m - 1) : f[i] = IF i = 0 THEN NoState ELSE Step(f[i - 1], i)
      BY <2>1
    <3>2. \A i \in 0..m : g[i] = IF i = 0 THEN NoState ELSE Step(g[i - 1], i)
      <4> HIDE DEF Step
      <4>1. QED
        BY <1>1, <2>2, <3>1
    <3>3. QED
      BY <2>2, <3>2
  <2>4. QED
    BY <1>1, <2>3
<1>4. n \in P
  <2>1. 0..n \subseteq P
    BY ONLY <1>1, <1>2, <1>3, Upto
  <2>2. QED
    BY <1>1, <2>1
<1>5. PICK c : c = StatesOf(rs)
  OBVIOUS
<1>6. F(c, n)
  BY <1>4, <1>5, Zenon DEF StatesOf
<1>7. c[0] = NoState /\ \A i \in 1..n : c[i] = Step(c[i - 1], i)
  BY <1>1, <1>6
<1>8. QED
  BY <1>5, <1>7

LEMMA ReplayFilesIs ==
  ASSUME NEW a
  PROVE  /\ ReplayFiles(a)[0] = a
         /\ \A i \in 1..(MaxSeg + 1) : ReplayFiles(a)[i] = IF i - 1 \in segs
                THEN ReplayFile(ReplayFiles(a)[i - 1], file[i - 1].recs)[Len(file[i - 1].recs)]
                ELSE ReplayFiles(a)[i - 1]
<1> DEFINE n == MaxSeg + 1
           Step(x, i) == IF i - 1 \in segs THEN ReplayFile(x, file[i - 1].recs)[Len(file[i - 1].recs)] ELSE x
           F(f, m) == f = [i \in 0..m |-> IF i = 0 THEN a ELSE IF i - 1 \in segs
                                           THEN ReplayFile(f[i - 1], file[i - 1].recs)[Len(file[i - 1].recs)]
                                           ELSE f[i - 1]]
           P == {m \in 0..n : \E f : F(f, m)}
<1>1. n \in Nat
  BY EngineAssumption
<1>2. 0 \in P
  <2>1. F([i \in 0..0 |-> a], 0)
    OBVIOUS
  <2>2. 0 \in 0..n
    BY <1>1
  <2>3. \E f : F(f, 0)
    <3> HIDE DEF F
    <3>1. QED
      BY <2>1, Zenon
  <2>4. QED
    BY ONLY <2>2, <2>3
<1>3. ASSUME NEW m \in 1..n, m - 1 \in P PROVE m \in P
  <2>1. PICK f : F(f, m - 1)
    BY <1>3
  <2>2. PICK g : g = [i \in 0..m |-> IF i = m THEN Step(f[m - 1], m) ELSE f[i]]
    OBVIOUS
  <2>3. F(g, m)
    <3>1. \A i \in 0..(m - 1) : f[i] = IF i = 0 THEN a ELSE Step(f[i - 1], i)
      BY <2>1
    <3>2. \A i \in 0..m : g[i] = IF i = 0 THEN a ELSE Step(g[i - 1], i)
      <4> HIDE DEF Step
      <4>1. QED
        BY <1>1, <2>2, <3>1
    <3>3. QED
      BY <2>2, <3>2
  <2>4. QED
    BY <1>1, <2>3
<1>4. n \in P
  <2>1. 0..n \subseteq P
    BY ONLY <1>1, <1>2, <1>3, Upto
  <2>2. QED
    BY <1>1, <2>1
<1>5. PICK c : c = ReplayFiles(a)
  OBVIOUS
<1>6. F(c, n)
  BY <1>4, <1>5, Zenon DEF ReplayFiles
<1>7. c[0] = a /\ \A i \in 1..n : c[i] = Step(c[i - 1], i)
  BY <1>1, <1>6
<1>8. QED
  BY <1>5, <1>7

-----------------------------------------------------------------------------
(* What _load reads                                                        *)

LEMMA FileIs ==
  ASSUME TypeOK, Counted, NEW s \in Segs
  PROVE  /\ file[s] \in FileType /\ file[s].recs \in Seq(Rec) /\ Len(file[s].recs) \in 0..MaxSeq
         /\ file[s].synced \in 0..Len(file[s].recs)
         /\ file[s].tail \in Tails /\ file[s].tailD \in Tails
         /\ file[s] = [recs |-> file[s].recs, synced |-> file[s].synced,
                       tail |-> file[s].tail, tailD |-> file[s].tailD]
         /\ \A i \in 1..Len(file[s].recs) : /\ file[s].recs[i] \in Rec
                                            /\ file[s].recs[i].seq \in 1..MaxSeq
                                            /\ file[s].recs[i].seq >= i
         /\ s \in Nat /\ s <= MaxSeg
<1>1. file[s] \in FileType
  BY DEF TypeOK
<1>2. /\ file[s].recs \in Seq(Rec) /\ file[s].synced \in 0..MaxSeq
      /\ file[s].tail \in Tails /\ file[s].tailD \in Tails
      /\ file[s] = [recs |-> file[s].recs, synced |-> file[s].synced,
                    tail |-> file[s].tail, tailD |-> file[s].tailD]
  BY <1>1 DEF FileType
<1>3. PICK q : q = file[s].recs
  OBVIOUS
<1>4. q \in Seq(Rec) /\ Len(q) \in Nat /\ MaxSeq \in Nat
  BY <1>2, <1>3, LenProperties, EngineAssumption
<1>5. \A i \in 1..Len(q) : q[i] \in Rec
  BY <1>4, ElementOfSeq
<1>6. \A i \in 1..Len(q) : q[i].seq \in 1..MaxSeq
  BY <1>5 DEF Rec
<1>7. \A i \in 1..Len(q) : q[i].seq >= i
  BY <1>3 DEF Counted
<1>8. Len(q) <= MaxSeq
  <2>1. CASE Len(q) = 0
    BY <1>4, <2>1
  <2>2. CASE Len(q) # 0
    <3>1. Len(q) \in 1..Len(q)
      BY <1>4, <2>2
    <3>2. q[Len(q)].seq \in 1..MaxSeq /\ q[Len(q)].seq >= Len(q)
      BY <1>6, <1>7, <3>1
    <3>3. QED
      BY <1>4, <3>2
  <2>3. QED
    BY <2>1, <2>2
<1>9. file[s].synced \in 0..Len(q)
  BY <1>2, <1>3, <1>4 DEF Counted
<1>10. s \in Nat /\ s <= MaxSeg
  BY EngineAssumption DEF Segs
<1>11. Len(q) \in 0..MaxSeq
  BY <1>4, <1>8
<1>12. QED
  BY ONLY <1>1, <1>2, <1>3, <1>5, <1>6, <1>7, <1>9, <1>10, <1>11

\* Two sequences of operations with the same beginning have the same states there.
LEMMA StatesAgree ==
  ASSUME NEW a \in Seq(Rec), NEW b \in Seq(Rec), NEW n \in Nat, n <= Len(a), n <= Len(b),
         \A i \in 1..n : a[i] = b[i]
  PROVE  \A i \in 0..n : StatesOf(a)[i] = StatesOf(b)[i]
<1> DEFINE P == {i \in 0..n : StatesOf(a)[i] = StatesOf(b)[i]}
<1>1. /\ Len(a) \in Nat /\ Len(b) \in Nat
      /\ StatesOf(a)[0] = NoState /\ StatesOf(b)[0] = NoState
      /\ \A i \in 1..Len(a) : StatesOf(a)[i] = Apply(StatesOf(a)[i - 1], a[i])
      /\ \A i \in 1..Len(b) : StatesOf(b)[i] = Apply(StatesOf(b)[i - 1], b[i])
  BY StatesOfIs, LenProperties
<1>2. 0 \in P
  BY <1>1
<1>3. ASSUME NEW i \in 1..n, i - 1 \in P PROVE i \in P
  <2>1. i \in 1..Len(a) /\ i \in 1..Len(b) /\ i \in 0..n
    BY <1>1
  <2>2. StatesOf(a)[i - 1] = StatesOf(b)[i - 1]
    BY <1>3
  <2>3. QED
    BY <1>1, <2>1, <2>2
<1>4. 0..n \subseteq P
  BY ONLY <1>2, <1>3, Upto, n \in Nat
<1>5. QED
  BY <1>4

Acc == [seq : 0..MaxSeq, st : State, ok : BOOLEAN]

LEMMA ReplayIs ==
  ASSUME NEW a \in Acc, NEW x \in Rec
  PROVE  /\ Replay(a, x) \in Acc
         /\ Replay(a, x).ok => a.ok /\ Replay(a, x).seq >= a.seq /\ Replay(a, x).seq >= x.seq
<1>1. /\ a.seq \in 0..MaxSeq /\ a.st \in State /\ a.ok \in BOOLEAN
      /\ x.seq \in 1..MaxSeq /\ x.key \in Keys /\ x.val \in Vals \cup {NoVal} /\ MaxSeq \in Nat
  BY EngineAssumption DEF Acc, Rec
<1>2. Apply(a.st, x) \in State
  BY <1>1 DEF Apply, State
<1>3. CASE ~a.ok \/ x.seq <= a.seq
  <2>1. Replay(a, x) = a
    BY <1>3 DEF Replay
  <2>2. QED
    BY <1>1, <1>3, <2>1
<1>4. CASE a.ok /\ ~(x.seq <= a.seq) /\ x.seq = a.seq + 1
  <2>1. Replay(a, x) = [seq |-> x.seq, st |-> Apply(a.st, x), ok |-> TRUE]
    BY <1>4 DEF Replay
  <2>2. x.seq \in 0..MaxSeq
    BY <1>1
  <2>3. QED
    BY <1>1, <1>2, <1>4, <2>1, <2>2 DEF Acc
<1>5. CASE a.ok /\ ~(x.seq <= a.seq) /\ x.seq # a.seq + 1
  <2>1. Replay(a, x) = [a EXCEPT !.ok = FALSE]
    BY <1>5 DEF Replay
  <2>2. [a EXCEPT !.ok = FALSE] \in Acc /\ ~[a EXCEPT !.ok = FALSE].ok
    BY DEF Acc
  <2>3. QED
    BY <2>1, <2>2
<1>6. QED
  BY <1>3, <1>4, <1>5

\* A file is read to its end: nothing in it has a later number than what is loaded.
LEMMA FileRead ==
  ASSUME NEW a \in Acc, NEW recs \in Seq(Rec), NEW end, end = ReplayFile(a, recs)[Len(recs)]
  PROVE  /\ end \in Acc
         /\ end.ok => /\ a.ok /\ end.seq >= a.seq
                      /\ \A i \in 1..Len(recs) : end.seq >= recs[i].seq
<1>1. PICK n : n = Len(recs)
  OBVIOUS
<1>2. PICK f : f = ReplayFile(a, recs)
  OBVIOUS
<1>3. /\ n \in Nat /\ f[0] = a /\ \A i \in 1..n : recs[i] \in Rec
      /\ \A i \in 1..n : f[i] = Replay(f[i - 1], recs[i])
  <2>1. n \in Nat /\ \A i \in 1..n : recs[i] \in Rec
    BY <1>1, LenProperties, ElementOfSeq
  <2>2. f[0] = a /\ \A i \in 1..n : f[i] = Replay(f[i - 1], recs[i])
    BY <1>1, <1>2, ReplayFileIs
  <2>3. QED
    BY <2>1, <2>2
<1> DEFINE Good(m) == /\ f[m] \in Acc
                      /\ f[m].ok => /\ a.ok /\ f[m].seq >= a.seq
                                    /\ \A i \in 1..m : f[m].seq >= recs[i].seq
           P == {m \in 0..n : Good(m)}
<1>4. 0 \in P
  <2>1. a.seq \in 0..MaxSeq /\ MaxSeq \in Nat
    BY EngineAssumption DEF Acc
  <2>2. f[0] \in Acc /\ f[0].seq >= a.seq
    BY <1>3, <2>1
  <2>3. QED
    BY <1>3, <2>2
<1>5. ASSUME NEW m \in 1..n, m - 1 \in P PROVE m \in P
  <2>1. Good(m - 1)
    BY <1>5
  <2>2. PICK b \in Acc : b = f[m - 1]
    BY <2>1
  <2>3. f[m] = Replay(b, recs[m]) /\ recs[m] \in Rec
    BY <1>3, <2>2
  <2>4. PICK c : c = Replay(b, recs[m])
    OBVIOUS
  <2>5. c \in Acc /\ c.ok => b.ok /\ c.seq >= b.seq /\ c.seq >= recs[m].seq
    BY <2>3, <2>4, ReplayIs
  <2>6. c \in Acc
    BY <2>3, <2>4, ReplayIs
  <2>7. c.seq \in Nat /\ b.seq \in Nat /\ a.seq \in Nat /\ m \in Nat
    BY <1>3, <2>6, EngineAssumption DEF Acc
  <2>8. \A i \in 1..n : recs[i].seq \in Nat
    BY <1>3, EngineAssumption DEF Rec
  <2>9. ASSUME c.ok PROVE a.ok /\ c.seq >= a.seq /\ \A i \in 1..m : c.seq >= recs[i].seq
    <3>1. b.ok /\ c.seq >= b.seq /\ c.seq >= recs[m].seq
      BY <2>5, <2>6, <2>9
    <3>2. a.ok /\ b.seq >= a.seq /\ \A i \in 1..(m - 1) : b.seq >= recs[i].seq
      BY <2>1, <2>2, <3>1
    <3>3. \A i \in 1..m : i \in 1..n /\ (i = m \/ i \in 1..(m - 1))
      BY <1>3
    <3>4. QED
      BY <2>7, <2>8, <3>1, <3>2, <3>3
  <2>10. QED
    BY <1>3, <2>3, <2>4, <2>6, <2>9
<1>6. 0..n \subseteq P
  BY ONLY <1>3, <1>4, <1>5, Upto
<1>7. n \in P
  BY <1>3, <1>6
<1>8. Good(n) /\ f[n] = end
  BY <1>1, <1>2, <1>7
<1>9. QED
  BY <1>1, <1>8

FromSnapshot == [seq |-> snap.seq, st |-> snap.st, ok |-> TRUE]

LEMMA FromSnapshotIs ==
  ASSUME TypeOK
  PROVE  /\ FromSnapshot \in Acc /\ FromSnapshot.ok
         /\ FromSnapshot.seq = snap.seq /\ FromSnapshot.st = snap.st
         /\ snap.seq \in 0..MaxSeq /\ snap.st \in State
<1>1. snap \in Snap
  BY DEF TypeOK
<1>2. snap.seq \in 0..MaxSeq /\ snap.st \in State
  BY <1>1 DEF Snap
<1>3. QED
  BY <1>2 DEF FromSnapshot, Acc

\* What is loaded has its type, and nothing in a segment has a later number.
LEMMA LoadedIs ==
  ASSUME TypeOK, Counted
  PROVE  /\ Loaded \in Acc
         /\ Loaded.ok => /\ Loaded.seq >= snap.seq
                         /\ \A s \in segs : \A i \in 1..Len(file[s].recs) :
                               Loaded.seq >= file[s].recs[i].seq
<1>1. PICK f : f = ReplayFiles(FromSnapshot)
  OBVIOUS
<1>2. /\ f[0] = FromSnapshot /\ MaxSeg \in Nat /\ MaxSeq \in Nat /\ segs \subseteq 0..MaxSeg
      /\ \A n \in 1..(MaxSeg + 1) :
            f[n] = IF n - 1 \in segs
                   THEN ReplayFile(f[n - 1], file[n - 1].recs)[Len(file[n - 1].recs)]
                   ELSE f[n - 1]
  <2>1. MaxSeg \in Nat /\ MaxSeq \in Nat /\ segs \subseteq 0..MaxSeg
    BY EngineAssumption DEF TypeOK, Segs
  <2>2. QED
    BY <1>1, <2>1, ReplayFilesIs
<1> DEFINE Good(n) == /\ f[n] \in Acc
                      /\ f[n].ok => /\ f[n].seq >= snap.seq
                                    /\ \A s \in segs : s < n =>
                                          \A i \in 1..Len(file[s].recs) :
                                             f[n].seq >= file[s].recs[i].seq
           P == {n \in 0..(MaxSeg + 1) : Good(n)}
<1>3. 0 \in P
  <2>1. f[0] \in Acc /\ f[0].seq >= snap.seq
    BY <1>2, FromSnapshotIs
  <2>2. \A s \in segs : ~(s < 0)
    BY <1>2
  <2>3. QED
    BY <1>2, <2>1, <2>2
<1>4. ASSUME NEW n \in 1..(MaxSeg + 1), n - 1 \in P PROVE n \in P
  <2>1. Good(n - 1)
    BY <1>4
  <2>2. PICK b \in Acc : b = f[n - 1]
    BY <2>1
  <2>3. PICK k : k = n - 1
    OBVIOUS
  <2>4. k \in 0..MaxSeg /\ n = k + 1 /\ n \in 0..(MaxSeg + 1) /\ k \in Nat
    BY <1>2, <2>3
  <2>5. b.seq \in Nat /\ snap.seq \in Nat
    BY EngineAssumption, FromSnapshotIs DEF Acc
  <2>6. \A s \in segs : s \in Segs /\ s \in Nat
    BY <1>2 DEF Segs
  <2>7. b.ok => /\ b.seq >= snap.seq
                /\ \A s \in segs : s < k =>
                      \A i \in 1..Len(file[s].recs) : b.seq >= file[s].recs[i].seq
    BY <2>1, <2>2, <2>3
  <2>8. \A s \in segs : s < n => s < k \/ s = k
    BY <2>4, <2>6
  <2>9. CASE k \in segs
    <3>1. PICK recs \in Seq(Rec) : recs = file[k].recs
      BY <2>6, <2>9, FileIs
    <3>2. PICK c : c = ReplayFile(b, recs)[Len(recs)]
      OBVIOUS
    <3>3. f[n] = c
      BY <1>2, <2>2, <2>3, <2>9, <3>1, <3>2
    <3>4. c \in Acc /\ (c.ok => b.ok /\ c.seq >= b.seq /\ \A i \in 1..Len(recs) : c.seq >= recs[i].seq)
      BY <3>2, FileRead
    <3>5. c.seq \in Nat
      BY <3>4, EngineAssumption DEF Acc
    <3>6. ASSUME c.ok, NEW s \in segs, s < n, NEW i \in 1..Len(file[s].recs)
          PROVE  c.seq >= file[s].recs[i].seq
      <4>1. CASE s = k
        BY <3>1, <3>4, <3>6, <4>1
      <4>2. CASE s < k
        <5>1. b.seq >= file[s].recs[i].seq /\ c.seq >= b.seq
          BY <2>7, <3>4, <3>6, <4>2
        <5>2. PICK x : x = file[s].recs[i].seq
          OBVIOUS
        <5>4. x \in Nat
          <6>1. s \in Segs /\ s \in Nat
            BY <2>6
          <6>2. x \in 1..MaxSeq
            BY <3>6, <5>2, <6>1, FileIs
          <6>3. QED
            BY <1>2, <6>2
        <5>3. QED
          BY <2>5, <3>5, <5>1, <5>2, <5>4
      <4>3. QED
        BY <2>8, <3>6, <4>1, <4>2
    <3>7. c.ok => c.seq >= snap.seq
      BY <2>5, <2>7, <3>4, <3>5
    <3>8. Good(n)
      BY <3>3, <3>4, <3>6, <3>7
    <3>9. QED
      BY <2>4, <3>8
  <2>10. CASE k \notin segs
    <3>1. f[n] = b
      BY <1>2, <2>2, <2>3, <2>10
    <3>2. \A s \in segs : s < n => s < k
      BY <2>8, <2>10
    <3>3. b.ok => /\ b.seq >= snap.seq
                  /\ \A s \in segs : s < n =>
                        \A i \in 1..Len(file[s].recs) : b.seq >= file[s].recs[i].seq
      BY ONLY <2>7, <3>2
    <3>5. Good(n)
      BY <3>1, <3>3
    <3>6. QED
      BY <2>4, <3>5
  <2>11. QED
    BY <2>9, <2>10
<1>5. 0..(MaxSeg + 1) \subseteq P
  <2>1. MaxSeg + 1 \in Nat
    BY <1>2
  <2>2. QED
    BY ONLY <1>3, <1>4, <2>1, Upto
<1>6. Good(MaxSeg + 1)
  BY <1>2, <1>5
<1>7. f[MaxSeg + 1] = Loaded
  BY <1>1 DEF Loaded, FromSnapshot
<1>8. \A s \in segs : s < MaxSeg + 1
  BY <1>2
<1>9. QED
  BY <1>6, <1>7, <1>8

\* A file without a gap behind what is loaded is read without one.
LEMMA FileContinues ==
  ASSUME NEW a \in Acc, a.ok, NEW recs \in Seq(Rec), NEW r \in 0..MaxSeq, a.seq <= r,
         \A i \in 1..Len(recs) : recs[i].seq <= r,
         \A i \in 1..Len(recs) : recs[i].seq > a.seq + 1 =>
            \E j \in 1..i : recs[j].seq = recs[i].seq - 1,
         NEW end, end = ReplayFile(a, recs)[Len(recs)]
  PROVE  end.ok /\ end.seq <= r
<1>1. PICK n : n = Len(recs)
  OBVIOUS
<1>2. PICK f : f = ReplayFile(a, recs)
  OBVIOUS
<1>3. /\ n \in Nat /\ f[0] = a /\ \A i \in 1..n : recs[i] \in Rec
      /\ \A i \in 1..n : f[i] = Replay(f[i - 1], recs[i])
  <2>1. n \in Nat /\ \A i \in 1..n : recs[i] \in Rec
    BY <1>1, LenProperties, ElementOfSeq
  <2>2. f[0] = a /\ \A i \in 1..n : f[i] = Replay(f[i - 1], recs[i])
    BY <1>1, <1>2, ReplayFileIs
  <2>3. QED
    BY <2>1, <2>2
<1>4. /\ \A i \in 1..n : recs[i].seq \in Nat
      /\ a.seq \in Nat /\ r \in Nat
  BY <1>3, EngineAssumption DEF Rec, Acc
<1> DEFINE Good(m) == /\ f[m] \in Acc /\ f[m].ok /\ f[m].seq <= r /\ f[m].seq >= a.seq
                      /\ \A i \in 1..m : f[m].seq >= recs[i].seq
           P == {m \in 0..n : Good(m)}
<1>5. 0 \in P
  BY <1>3, <1>4
<1>6. ASSUME NEW m \in 1..n, m - 1 \in P PROVE m \in P
  <2>1. Good(m - 1)
    BY <1>6
  <2>2. PICK b \in Acc : b = f[m - 1]
    BY <2>1
  <2>3. PICK x \in Rec : x = recs[m]
    BY <1>3
  <2>4. f[m] = Replay(b, x)
    BY <1>3, <2>2, <2>3
  <2>5. b.seq \in Nat /\ x.seq \in Nat /\ x.seq <= r /\ m \in Nat /\ m \in 0..n
    BY <1>1, <1>3, <2>3, EngineAssumption DEF Acc, Rec
  <2>6. b.ok /\ b.seq <= r /\ b.seq >= a.seq /\ \A i \in 1..(m - 1) : b.seq >= recs[i].seq
    BY <2>1, <2>2
  <2>7. CASE x.seq <= b.seq
    <3>1. f[m] = b
      BY <2>4, <2>7 DEF Replay
    <3>2. \A i \in 1..m : i \in 1..(m - 1) \/ i = m
      BY <2>5
    <3>3. \A i \in 1..m : b.seq >= recs[i].seq
      BY <2>3, <2>5, <2>6, <2>7, <3>2
    <3>4. QED
      BY <2>5, <2>6, <3>1, <3>3
  <2>8. CASE x.seq > b.seq
    <3>1. x.seq <= b.seq + 1
      <4>1. CASE x.seq > a.seq + 1
        <5>1. PICK j \in 1..m : recs[j].seq = x.seq - 1
          BY <1>1, <2>3, <4>1
        <5>2. j \in 1..(m - 1)
          BY <2>3, <2>5, <5>1
        <5>3. b.seq >= x.seq - 1
          BY <2>6, <5>1, <5>2
        <5>4. QED
          BY <2>5, <5>3
      <4>2. QED
        BY <1>4, <2>5, <2>6, <4>1
    <3>2. x.seq = b.seq + 1 /\ ~(x.seq <= b.seq)
      BY <2>5, <2>8, <3>1
    <3>3. PICK c : c = f[m]
      OBVIOUS
    <3>4. c = [seq |-> x.seq, st |-> Apply(b.st, x), ok |-> TRUE]
      BY <2>4, <2>6, <3>2, <3>3 DEF Replay
    <3>5. c.ok /\ c.seq = x.seq
      BY <3>4
    <3>6. c \in Acc
      BY <2>4, <3>3, ReplayIs
    <3>7. \A i \in 1..m : c.seq >= recs[i].seq
      <4> SUFFICES ASSUME NEW i \in 1..m PROVE c.seq >= recs[i].seq
        OBVIOUS
      <4>1. PICK y : y = recs[i].seq
        OBVIOUS
      <4>2. c.seq \in Nat /\ c.seq = b.seq + 1 /\ c.seq = x.seq
        BY <2>5, <3>2, <3>5
      <4>3. CASE i = m
        BY <2>3, <4>2, <4>3
      <4>4. CASE i # m
        <5>1. i \in 1..(m - 1) /\ i \in 1..n
          BY <1>3, <2>5, <4>4
        <5>2. y \in Nat /\ b.seq >= y
          BY <1>4, <2>6, <4>1, <5>1
        <5>3. QED
          BY <2>5, <4>1, <4>2, <5>2
      <4>5. QED
        BY <4>3, <4>4
    <3>8. c.seq <= r /\ c.seq >= a.seq
      BY <1>4, <2>5, <2>6, <3>2, <3>5
    <3>9. QED
      BY <2>5, <3>3, <3>5, <3>6, <3>7, <3>8
  <2>9. QED
    BY <2>5, <2>7, <2>8
<1>7. 0..n \subseteq P
  BY ONLY <1>3, <1>5, <1>6, Upto
<1>8. Good(n) /\ f[n] = end
  BY <1>1, <1>2, <1>3, <1>7
<1>9. QED
  BY <1>8

\* Records of a history h take a state of h to a later one.
LEMMA FileState ==
  ASSUME NEW a \in Acc, NEW recs \in Seq(Rec), NEW h \in Seq(Rec), a.st = StatesOf(h)[a.seq],
         \A i \in 1..Len(recs) : recs[i].seq <= Len(h) /\ recs[i] = h[recs[i].seq],
         NEW end, end = ReplayFile(a, recs)[Len(recs)]
  PROVE  end.st = StatesOf(h)[end.seq]
<1>1. PICK n : n = Len(recs)
  OBVIOUS
<1>2. PICK f : f = ReplayFile(a, recs)
  OBVIOUS
<1>3. /\ n \in Nat /\ f[0] = a /\ \A i \in 1..n : recs[i] \in Rec
      /\ \A i \in 1..n : f[i] = Replay(f[i - 1], recs[i])
  <2>1. n \in Nat /\ \A i \in 1..n : recs[i] \in Rec
    BY <1>1, LenProperties, ElementOfSeq
  <2>2. f[0] = a /\ \A i \in 1..n : f[i] = Replay(f[i - 1], recs[i])
    BY <1>1, <1>2, ReplayFileIs
  <2>3. QED
    BY <2>1, <2>2
<1> DEFINE P == {m \in 0..n : f[m] \in Acc /\ f[m].st = StatesOf(h)[f[m].seq]}
<1>4. 0 \in P
  BY <1>3
<1>5. ASSUME NEW m \in 1..n, m - 1 \in P PROVE m \in P
  <2>1. PICK b \in Acc : b = f[m - 1]
    BY <1>5
  <2>2. PICK x \in Rec : x = recs[m]
    BY <1>3
  <2>3. f[m] = Replay(b, x) /\ m \in 0..n
    BY <1>3, <2>1, <2>2
  <2>4. b.st = StatesOf(h)[b.seq]
    BY <1>5, <2>1
  <2>5. x.seq \in 1..Len(h) /\ x = h[x.seq] /\ x.seq \in Nat /\ b.seq \in Nat
    <3>1. x.seq \in 1..MaxSeq /\ b.seq \in Nat /\ MaxSeq \in Nat /\ Len(h) \in Nat
      BY EngineAssumption, LenProperties DEF Acc, Rec
    <3>2. x.seq <= Len(h) /\ x = h[x.seq]
      BY <1>1, <2>2
    <3>3. QED
      BY <3>1, <3>2
  <2>6. f[m] \in Acc
    BY <2>3, ReplayIs
  <2>7. Replay(b, x).st = StatesOf(h)[Replay(b, x).seq]
    <3>1. CASE ~b.ok \/ x.seq <= b.seq
      BY <2>4, <3>1 DEF Replay
    <3>2. CASE b.ok /\ ~(x.seq <= b.seq) /\ x.seq = b.seq + 1
      <4>1. Replay(b, x) = [seq |-> x.seq, st |-> Apply(b.st, x), ok |-> TRUE]
        BY <3>2 DEF Replay
      <4>2. StatesOf(h)[x.seq] = Apply(StatesOf(h)[x.seq - 1], h[x.seq])
        BY <2>5, StatesOfIs
      <4>3. x.seq - 1 = b.seq
        BY <2>5, <3>2
      <4>4. QED
        BY <2>4, <2>5, <4>1, <4>2, <4>3
    <3>3. CASE b.ok /\ ~(x.seq <= b.seq) /\ x.seq # b.seq + 1
      <4>1. Replay(b, x) = [b EXCEPT !.ok = FALSE]
        BY <3>3 DEF Replay
      <4>2. Replay(b, x).st = b.st /\ Replay(b, x).seq = b.seq
        BY <4>1 DEF Acc
      <4>3. QED
        BY <2>4, <4>2
    <3>4. QED
      BY <3>1, <3>2, <3>3
  <2>8. QED
    BY <2>3, <2>6, <2>7
<1>6. 0..n \subseteq P
  BY ONLY <1>3, <1>4, <1>5, Upto
<1>7. f[n].st = StatesOf(h)[f[n].seq]
  BY <1>3, <1>6
<1>8. QED
  BY <1>1, <1>2, <1>7

\* Without bytes behind a cut record, a log is read to its end.
LEMMA Recovers ==
  ASSUME TypeOK, Counted, NEW r \in 0..MaxSeq, Log(r)
  PROVE  Loaded.ok /\ Loaded.seq = r /\ Loaded \in Acc
<1>1. PICK f : f = ReplayFiles(FromSnapshot)
  OBVIOUS
<1>2. /\ f[0] = FromSnapshot /\ MaxSeg \in Nat /\ MaxSeq \in Nat /\ segs \subseteq 0..MaxSeg
      /\ \A n \in 1..(MaxSeg + 1) :
            f[n] = IF n - 1 \in segs
                   THEN ReplayFile(f[n - 1], file[n - 1].recs)[Len(file[n - 1].recs)]
                   ELSE f[n - 1]
  <2>1. MaxSeg \in Nat /\ MaxSeq \in Nat /\ segs \subseteq 0..MaxSeg
    BY EngineAssumption DEF TypeOK, Segs
  <2>2. QED
    BY <1>1, <2>1, ReplayFilesIs
<1>3. \A s \in segs : s \in Segs /\ s \in Nat /\ s \in Names
  BY <1>2 DEF Segs, Names
<1>4. /\ snap \in snapMaybe /\ snap.seq \in Nat /\ r \in Nat /\ snap.seq <= r
      /\ \A s \in segs : \A i \in 1..Len(file[s].recs) : file[s].recs[i].seq <= r
  <2>1. snap \in snapMaybe
    BY DEF TypeOK
  <2>2. snap.seq \in Nat /\ r \in Nat
    BY <1>2, FromSnapshotIs
  <2>3. Bounded(r)
    BY DEF Log
  <2>4. QED
    BY <1>3, <2>1, <2>2, <2>3 DEF Bounded
<1>5. \A s \in segs : \A i \in 1..Len(file[s].recs) : \A m \in (snap.seq + 1)..file[s].recs[i].seq :
          \/ \E j \in 1..i : file[s].recs[j].seq = m
          \/ \E t \in segs, j \in 1..MaxSeq : t < s /\ In(t, j, m)
  BY <1>3, <1>4 DEF Log, Gapless
<1> DEFINE Good(n) == /\ f[n] \in Acc /\ f[n].ok /\ f[n].seq <= r /\ f[n].seq >= snap.seq
                      /\ \A s \in segs : s < n =>
                            \A i \in 1..Len(file[s].recs) : f[n].seq >= file[s].recs[i].seq
           P == {n \in 0..(MaxSeg + 1) : Good(n)}
<1>6. 0 \in P
  <2>1. f[0] \in Acc /\ f[0].ok /\ f[0].seq = snap.seq
    BY <1>2, FromSnapshotIs
  <2>2. \A s \in segs : ~(s < 0)
    BY <1>3
  <2>3. QED
    BY <1>2, <1>4, <2>1, <2>2
<1>7. ASSUME NEW n \in 1..(MaxSeg + 1), n - 1 \in P PROVE n \in P
  <2>1. Good(n - 1)
    BY <1>7
  <2>2. PICK b \in Acc : b = f[n - 1]
    BY <2>1
  <2>3. PICK k : k = n - 1
    OBVIOUS
  <2>4. k \in 0..MaxSeg /\ n = k + 1 /\ n \in 0..(MaxSeg + 1) /\ k \in Nat
    BY <1>2, <2>3
  <2>5. b.seq \in Nat
    BY <1>2 DEF Acc
  <2>6. /\ b.ok /\ b.seq <= r /\ b.seq >= snap.seq
        /\ \A s \in segs : s < k =>
              \A i \in 1..Len(file[s].recs) : b.seq >= file[s].recs[i].seq
    BY <2>1, <2>2, <2>3
  <2>7. \A s \in segs : s < n => s < k \/ s = k
    BY <1>3, <2>4
  <2>8. CASE k \in segs
    <3>1. PICK recs \in Seq(Rec) : recs = file[k].recs
      BY <1>3, <2>8, FileIs
    <3>2. PICK c : c = ReplayFile(b, recs)[Len(recs)]
      OBVIOUS
    <3>3. f[n] = c
      BY <1>2, <2>2, <2>3, <2>8, <3>1, <3>2
    <3>4. c \in Acc /\ (c.ok => b.ok /\ c.seq >= b.seq /\ \A i \in 1..Len(recs) : c.seq >= recs[i].seq)
      BY <3>2, FileRead
    <3>5. \A i \in 1..Len(recs) : recs[i].seq \in Nat /\ recs[i].seq <= r
      <4>1. \A i \in 1..Len(recs) : recs[i].seq \in 1..MaxSeq
        BY <1>3, <2>8, <3>1, FileIs
      <4>2. \A i \in 1..Len(recs) : recs[i].seq <= r
        BY <1>4, <2>8, <3>1
      <4>3. \A y \in 1..MaxSeq : y \in Nat
        BY <1>2
      <4>4. QED
        BY ONLY <4>1, <4>2, <4>3
    <3>6. ASSUME NEW i \in 1..Len(recs), recs[i].seq > b.seq + 1
          PROVE  \E j \in 1..i : recs[j].seq = recs[i].seq - 1
      <4>1. PICK m : m = recs[i].seq - 1
        OBVIOUS
      <4>2. m \in (snap.seq + 1)..recs[i].seq /\ m > b.seq /\ m \in Nat
        <5>1. PICK y : y = recs[i].seq
          OBVIOUS
        <5>2. y \in Nat /\ y > b.seq + 1 /\ m = y - 1
          BY <3>5, <3>6, <4>1, <5>1
        <5>3. PICK z : z = b.seq
          OBVIOUS
        <5>4. z \in Nat /\ z >= snap.seq /\ snap.seq \in Nat
          BY <1>4, <2>5, <2>6, <5>3
        <5>5. m \in (snap.seq + 1)..y /\ m > z /\ m \in Nat
          BY <5>2, <5>3, <5>4
        <5>6. QED
          BY <5>1, <5>3, <5>5
      <4>3. CASE \E j \in 1..i : recs[j].seq = m
        BY <4>1, <4>3
      <4>4. CASE \E t \in segs, j \in 1..MaxSeq : t < k /\ In(t, j, m)
        <5>1. PICK t \in segs, j \in 1..MaxSeq : t < k /\ In(t, j, m)
          BY <4>4
        <5>2. j \in 1..Len(file[t].recs) /\ file[t].recs[j].seq = m
          BY <5>1 DEF In
        <5>3. b.seq >= m
          BY <2>6, <5>1, <5>2
        <5>4. QED
          BY <2>5, <4>2, <5>3
      <4>5. QED
        BY <1>5, <2>8, <3>1, <4>2, <4>3, <4>4
    <3>7. c.ok /\ c.seq <= r
      <4>1. \A i \in 1..Len(recs) : recs[i].seq <= r
        BY <3>5
      <4>2. b.ok /\ b.seq <= r
        BY <2>6
      <4>3. QED
        BY ONLY <3>2, <3>6, <4>1, <4>2, b \in Acc, recs \in Seq(Rec), r \in 0..MaxSeq, FileContinues
    <3>8. c.seq \in Nat /\ c.seq >= b.seq
      BY <1>2, <3>4, <3>7 DEF Acc
    <3>9. ASSUME NEW s \in segs, s < n, NEW i \in 1..Len(file[s].recs)
          PROVE  c.seq >= file[s].recs[i].seq
      <4>1. CASE s = k
        BY <3>1, <3>4, <3>7, <3>9, <4>1
      <4>2. CASE s < k
        <5>1. PICK x : x = file[s].recs[i].seq
          OBVIOUS
        <5>2. b.seq >= x
          BY <2>6, <4>2, <5>1
        <5>3. x \in 1..MaxSeq
          BY <1>3, <5>1, FileIs
        <5>4. x \in Nat
          BY <1>2, <5>3
        <5>5. c.seq >= x
          BY <2>5, <3>8, <5>2, <5>4
        <5>6. QED
          BY <5>1, <5>5
      <4>3. QED
        BY <2>7, <3>9, <4>1, <4>2
    <3>10. Good(n)
      <4>1. c.seq >= snap.seq
        BY <1>4, <2>5, <2>6, <3>8
      <4>2. QED
        BY <3>3, <3>4, <3>7, <3>9, <4>1
    <3>11. QED
      BY <2>4, <3>10
  <2>9. CASE k \notin segs
    <3>1. f[n] = b
      BY <1>2, <2>2, <2>3, <2>9
    <3>2. \A s \in segs : s < n => s < k
      BY <2>7, <2>9
    <3>3. \A s \in segs : s < n => \A i \in 1..Len(file[s].recs) : b.seq >= file[s].recs[i].seq
      BY ONLY <2>6, <3>2
    <3>4. Good(n)
      BY <2>6, <3>1, <3>3
    <3>5. QED
      BY <2>4, <3>4
  <2>10. QED
    BY <2>8, <2>9
<1>8. 0..(MaxSeg + 1) \subseteq P
  <2>1. MaxSeg + 1 \in Nat
    BY <1>2
  <2>2. QED
    BY ONLY <1>6, <1>7, <2>1, Upto
<1>9. Good(MaxSeg + 1)
  BY <1>2, <1>8
<1>10. f[MaxSeg + 1] = Loaded
  BY <1>1 DEF Loaded, FromSnapshot
<1>11. Loaded.seq \in Nat /\ Loaded.seq <= r /\ Loaded.seq >= snap.seq
  BY <1>2, <1>9, <1>10 DEF Acc
<1>12. r <= Loaded.seq
  <2>1. CASE r = snap.seq
    BY <1>11, <2>1
  <2>2. CASE r # snap.seq
    <3>1. r \in (snap.seq + 1)..r
      BY <1>4, <2>2
    <3>2. PICK s \in segs, j \in 1..MaxSeq : In(s, j, r)
      BY <1>4, <3>1 DEF Log, Held
    <3>3. j \in 1..Len(file[s].recs) /\ file[s].recs[j].seq = r /\ s < MaxSeg + 1
      BY <1>2, <3>2 DEF In
    <3>4. QED
      BY <1>9, <1>10, <3>3
  <2>3. QED
    BY <2>1, <2>2
<1>13. QED
  BY <1>4, <1>9, <1>10, <1>11, <1>12

\* Files and snapshot of a history give its state.
LEMMA RecoversState ==
  ASSUME TypeOK, Counted, snap.st = StatesOf(hist)[snap.seq],
         \A s \in segs : \A i \in 1..Len(file[s].recs) :
            /\ file[s].recs[i].seq <= Len(hist)
            /\ file[s].recs[i] = hist[file[s].recs[i].seq]
  PROVE  Loaded.st = StatesOf(hist)[Loaded.seq]
<1>1. PICK f : f = ReplayFiles(FromSnapshot)
  OBVIOUS
<1>2. PICK h \in Seq(Rec) : h = hist
  BY DEF TypeOK
<1>3. /\ f[0] = FromSnapshot /\ MaxSeg \in Nat /\ segs \subseteq Segs
      /\ \A n \in 1..(MaxSeg + 1) :
            f[n] = IF n - 1 \in segs
                   THEN ReplayFile(f[n - 1], file[n - 1].recs)[Len(file[n - 1].recs)]
                   ELSE f[n - 1]
  <2>1. MaxSeg \in Nat /\ segs \subseteq Segs
    BY EngineAssumption DEF TypeOK
  <2>2. QED
    BY <1>1, <2>1, ReplayFilesIs
<1> DEFINE P == {n \in 0..(MaxSeg + 1) : f[n] \in Acc /\ f[n].st = StatesOf(h)[f[n].seq]}
<1>4. 0 \in P
  BY <1>2, <1>3, FromSnapshotIs
<1>5. ASSUME NEW n \in 1..(MaxSeg + 1), n - 1 \in P PROVE n \in P
  <2>1. PICK b \in Acc : b = f[n - 1]
    BY <1>5
  <2>2. b.st = StatesOf(h)[b.seq] /\ n \in 0..(MaxSeg + 1)
    BY <1>3, <1>5, <2>1
  <2>3. PICK k : k = n - 1
    OBVIOUS
  <2>4. CASE k \in segs
    <3>1. PICK recs \in Seq(Rec) : recs = file[k].recs
      BY <1>3, <2>4, FileIs
    <3>2. PICK c : c = ReplayFile(b, recs)[Len(recs)]
      OBVIOUS
    <3>3. f[n] = c
      BY <1>3, <2>1, <2>3, <2>4, <3>1, <3>2
    <3>4. c \in Acc
      BY <3>2, FileRead
    <3>5. \A i \in 1..Len(recs) : recs[i].seq <= Len(h) /\ recs[i] = h[recs[i].seq]
      BY <1>2, <2>4, <3>1
    <3>6. c.st = StatesOf(h)[c.seq]
      BY ONLY <2>2, <3>2, <3>5, FileState, b \in Acc, recs \in Seq(Rec), h \in Seq(Rec)
    <3>7. QED
      BY <2>2, <3>3, <3>4, <3>6
  <2>5. CASE k \notin segs
    <3>1. f[n] = b
      BY <1>3, <2>1, <2>3, <2>5
    <3>2. QED
      BY <2>2, <3>1
  <2>6. QED
    BY <2>4, <2>5
<1>6. 0..(MaxSeg + 1) \subseteq P
  <2>1. MaxSeg + 1 \in Nat
    BY <1>3
  <2>2. QED
    BY ONLY <1>4, <1>5, <2>1, Upto
<1>7. f[MaxSeg + 1].st = StatesOf(h)[f[MaxSeg + 1].seq]
  BY <1>3, <1>6
<1>8. f[MaxSeg + 1] = Loaded
  BY <1>1 DEF Loaded, FromSnapshot
<1>9. QED
  BY <1>2, <1>7, <1>8

-----------------------------------------------------------------------------
(* Every step keeps the types                                              *)

LEMMA Constants == MaxSeq \in Nat /\ MaxSeg \in Nat /\ MaxCrash \in Nat /\ Segs \subseteq Nat
                   /\ NoState \in State /\ GroupCommit \in Nat
  BY EngineAssumption DEF Segs, NoState, State

\* The file that is written is synced.
LEMMA SyncedTypes ==
  ASSUME TypeOK, Counted, NEW s \in Segs, file' = [file EXCEPT ![s] = Synced(@)]
  PROVE  /\ file' \in [Segs -> FileType] /\ Counted'
         /\ \A t \in Segs : file'[t].recs = file[t].recs /\ (t # s => file'[t] = file[t])
         /\ file'[s].synced = Len(file[s].recs)
         /\ file'[s].tail = file[s].tail /\ file'[s].tailD = file[s].tail
<1>1. file \in [Segs -> FileType]
  BY DEF TypeOK
<1>2. /\ file[s] = [recs |-> file[s].recs, synced |-> file[s].synced,
                    tail |-> file[s].tail, tailD |-> file[s].tailD]
      /\ file[s].recs \in Seq(Rec) /\ Len(file[s].recs) \in 0..MaxSeq /\ file[s].tail \in Tails
  BY FileIs
<1>3. PICK n : n = Len(file[s].recs)
  OBVIOUS
<1>4. PICK g : g = Synced(file[s])
  OBVIOUS
<1>5. g = [recs |-> file[s].recs, synced |-> n, tail |-> file[s].tail, tailD |-> file[s].tail]
  BY <1>2, <1>3, <1>4 DEF Synced
<1>6. g \in FileType
  BY <1>2, <1>3, <1>5 DEF FileType
<1>7. file' = [file EXCEPT ![s] = g]
  BY <1>4
<1>8. file' \in [Segs -> FileType] /\ file'[s] = g /\ \A t \in Segs : t # s => file'[t] = file[t]
  BY <1>1, <1>6, <1>7
<1>9. \A t \in Segs : file'[t].recs = file[t].recs
  BY <1>5, <1>8
<1>10. Counted'
  <2> SUFFICES ASSUME NEW t \in Segs
               PROVE  /\ file'[t].synced <= Len(file'[t].recs)
                      /\ \A i \in 1..Len(file'[t].recs) : file'[t].recs[i].seq >= i
    BY DEF Counted
  <2>1. file'[t].synced <= Len(file'[t].recs)
    <3>1. CASE t = s
      BY <1>2, <1>3, <1>5, <1>8, <3>1, Constants
    <3>2. CASE t # s
      BY <1>8, <3>2 DEF Counted
    <3>3. QED
      BY <3>1, <3>2
  <2>2. QED
    BY <1>9, <2>1 DEF Counted
<1>11. QED
  BY <1>3, <1>5, <1>8, <1>9, <1>10

\* A file is written anew.
LEMMA NewTypes ==
  ASSUME NEW f \in [Segs -> FileType], NEW s \in Segs, file' = [f EXCEPT ![s] = NewFile],
         \A t \in Segs : /\ f[t].synced <= Len(f[t].recs)
                         /\ \A i \in 1..Len(f[t].recs) : f[t].recs[i].seq >= i
  PROVE  /\ file' \in [Segs -> FileType] /\ Counted'
         /\ file'[s] = NewFile /\ \A t \in Segs : t # s => file'[t] = f[t]
<1>1. NewFile \in FileType /\ NewFile.recs = <<>> /\ NewFile.synced = 0 /\ Len(NewFile.recs) = 0
  <2>1. <<>> \in Seq(Rec)
    OBVIOUS
  <2>2. 0 \in 0..MaxSeq
    BY Constants
  <2>3. QED
    BY <2>1, <2>2 DEF NewFile, FileType, Tails
<1>2. /\ file' \in [Segs -> FileType]
      /\ file'[s] = NewFile /\ \A t \in Segs : t # s => file'[t] = f[t]
  BY <1>1
<1>3. Counted'
  <2> SUFFICES ASSUME NEW t \in Segs
               PROVE  /\ file'[t].synced <= Len(file'[t].recs)
                      /\ \A i \in 1..Len(file'[t].recs) : file'[t].recs[i].seq >= i
    BY DEF Counted
  <2>1. CASE t = s
    BY <1>1, <1>2, <2>1
  <2>2. CASE t # s
    BY <1>2, <2>2
  <2>3. QED
    BY <2>1, <2>2
<1>4. QED
  BY <1>2, <1>3

LEMMA EncodeFailsTypes ==
  ASSUME Types, EncodeFails
  PROVE  Types'
<1> USE DEF Types
<1>1. TypeOK'
  BY Constants DEF TypeOK, Object, EncodeFails, disk, mem, ghosts
<1>2. Counted'
  BY DEF Counted, EncodeFails, disk, mem, ghosts
<1>3. Object'
  BY Constants DEF TypeOK, Object, Putting, EncodeFails, disk, mem, ghosts
<1>4. QED
  BY <1>1, <1>2, <1>3

LEMMA AppendNoSyncTypes ==
  ASSUME Types, AppendNoSync
  PROVE  Types'
<1> USE DEF Types
<1>1. TypeOK'
  BY Constants DEF TypeOK, Object, AppendNoSync, disk, mem, ghosts, MaybeRotate
<1>2. Counted'
  BY DEF Counted, AppendNoSync, disk, mem, ghosts
<1>3. Object'
  BY Constants DEF TypeOK, Object, Putting, AppendNoSync, disk, mem, ghosts, MaybeRotate
<1>4. QED
  BY <1>1, <1>2, <1>3

LEMMA SyncFailsTypes ==
  ASSUME Types, SyncFails
  PROVE  Types'
<1> USE DEF Types
<1>1. TypeOK'
  BY Constants DEF TypeOK, Object, SyncFails, disk, mem, ghosts, MustSync
<1>2. Counted'
  BY DEF Counted, SyncFails, disk, mem, ghosts
<1>3. Object'
  BY Constants DEF TypeOK, Object, Putting, SyncFails, disk, mem, ghosts, MustSync
<1>4. QED
  BY <1>1, <1>2, <1>3

LEMMA RotateDirSyncTypes ==
  ASSUME Types, RotateDirSync
  PROVE  Types'
<1> USE DEF Types
<1>1. TypeOK'
  BY Constants DEF TypeOK, Object, RotateDirSync, disk, mem, ghosts
<1>2. Counted'
  BY DEF Counted, RotateDirSync, disk, mem, ghosts
<1>3. Object'
  BY Constants DEF TypeOK, Object, Putting, RotateDirSync, disk, mem, ghosts
<1>4. QED
  BY <1>1, <1>2, <1>3

LEMMA CkReplaceTypes ==
  ASSUME Types, CkReplace
  PROVE  Types'
<1> USE DEF Types
<1>1. TypeOK'
  BY Constants DEF TypeOK, Object, CkReplace, disk, mem, ghosts, Snap
<1>2. Counted'
  BY DEF Counted, CkReplace, disk, mem, ghosts
<1>3. Object'
  BY Constants DEF TypeOK, Object, Putting, CkReplace, disk, mem, ghosts, Snap
<1>4. QED
  BY <1>1, <1>2, <1>3

LEMMA CkDirSyncTypes ==
  ASSUME Types, CkDirSync
  PROVE  Types'
<1> USE DEF Types
<1>1. TypeOK'
  BY Constants DEF TypeOK, Object, CkDirSync, disk, mem, ghosts
<1>2. Counted'
  BY DEF Counted, CkDirSync, disk, mem, ghosts
<1>3. Object'
  BY Constants DEF TypeOK, Object, Putting, CkDirSync, disk, mem, ghosts
<1>4. QED
  BY <1>1, <1>2, <1>3

LEMMA CkSegmentDirSyncTypes ==
  ASSUME Types, CkSegmentDirSync
  PROVE  Types'
<1> USE DEF Types
<1>1. TypeOK'
  BY Constants DEF TypeOK, Object, CkSegmentDirSync, disk, mem, ghosts
<1>2. Counted'
  BY DEF Counted, CkSegmentDirSync, disk, mem, ghosts
<1>3. Object'
  BY Constants DEF TypeOK, Object, Putting, CkSegmentDirSync, disk, mem, ghosts
<1>4. QED
  BY <1>1, <1>2, <1>3

LEMMA CkEndTypes ==
  ASSUME Types, CkEnd
  PROVE  Types'
<1> USE DEF Types
<1>1. TypeOK'
  BY Constants DEF TypeOK, Object, CkEnd, disk, mem, ghosts
<1>2. Counted'
  BY DEF Counted, CkEnd, disk, mem, ghosts
<1>3. Object'
  BY Constants DEF TypeOK, Object, Putting, CkEnd, disk, mem, ghosts
<1>4. QED
  BY <1>1, <1>2, <1>3

LEMMA CkFailsTypes ==
  ASSUME Types, CkFails
  PROVE  Types'
<1> USE DEF Types
<1>1. TypeOK'
  BY Constants DEF TypeOK, Object, CkFails, disk, mem, ghosts
<1>2. Counted'
  BY DEF Counted, CkFails, disk, mem, ghosts
<1>3. Object'
  BY Constants DEF TypeOK, Object, Putting, CkFails, disk, mem, ghosts
<1>4. QED
  BY <1>1, <1>2, <1>3

LEMMA ReturnTypes ==
  ASSUME Types, Return
  PROVE  Types'
<1> USE DEF Types
<1>1. state' \in State
  <2>1. PICK x \in Rec : x = arg.rec
    BY DEF Object, Return, Putting
  <2>2. x.key \in Keys /\ x.val \in Vals \cup {NoVal} /\ state \in State
    BY DEF Rec, TypeOK
  <2>3. Apply(state, x) \in State
    BY <2>2 DEF Apply, State
  <2>4. QED
    BY <2>1, <2>3 DEF Return
<1>2. acked' \in 0..MaxSeq
  BY DEF TypeOK, Return
<1>3. TypeOK'
  BY <1>1, <1>2 DEF TypeOK, Return, disk
<1>4. Counted'
  BY DEF Counted, Return, disk
<1>5. Object'
  BY DEF TypeOK, Object, Putting, Return, disk
<1>6. QED
  BY <1>3, <1>4, <1>5

LEMMA UnlinkKeepsCur ==
  ASSUME Types, CkUnlink
  PROVE  cur \in segs' /\ segs' \subseteq segs
<1>1. PICK s : s = CHOOSE u \in segs : \A t \in segs : u <= t
  OBVIOUS
<1>2. segs' = segs \ {s}
  BY <1>1 DEF CkUnlink
<1>3. segs \subseteq Nat /\ segs # {} /\ cur \in segs /\ \A t \in segs : t <= cur
  BY Constants DEF Types, TypeOK, Object, CkUnlink
<1>4. s \in segs /\ \A t \in segs : s <= t
  <2>1. \E u \in segs : \A t \in segs : u <= t
    BY ONLY <1>3, FirstExists
  <2>2. QED
    BY <1>1, <2>1
<1>5. s # cur
  <2>1. PICK u \in segs : u # cur
    BY <1>3 DEF CkUnlink
  <2>2. u <= cur /\ s <= u /\ u \in Nat /\ cur \in Nat /\ s \in Nat
    BY <1>3, <1>4, <2>1
  <2>3. QED
    BY <2>1, <2>2
<1>6. QED
  BY <1>2, <1>3, <1>5

LEMMA CkUnlinkTypes ==
  ASSUME Types, CkUnlink
  PROVE  Types'
<1> USE DEF Types
<1>1. cur \in segs' /\ segs' \subseteq segs
  BY UnlinkKeepsCur
<1>2. TypeOK'
  BY <1>1 DEF TypeOK, CkUnlink, mem, ghosts
<1>3. Counted'
  BY DEF Counted, CkUnlink
<1>4. Object'
  BY <1>1 DEF Object, Putting, CkUnlink, mem, ghosts
<1>5. QED
  BY <1>2, <1>3, <1>4

\* The end of the process leaves the files to the invariant.
LEMMA DownTypes ==
  ASSUME TypeOK, Down, crashes < MaxCrash, file' \in [Segs -> FileType], Counted', segs' \subseteq Segs,
         segsD' \subseteq Segs, snap' \in Snap, snapMaybe' \subseteq Snap, snap' \in snapMaybe',
         hist' = hist, acked' \in 0..MaxSeq,
         faults' \subseteq {"spliced", "skipped", "unapplied"}
  PROVE  Types'
<1>1. /\ pc' = "down" /\ crashes' = crashes + 1 /\ seq' = 0 /\ state' = NoState /\ cur' = 0
      /\ segCount' = 0 /\ pending' = 0
  BY DEF Down
<1>2. 0 \in 0..MaxSeq /\ 0 \in Segs /\ crashes' \in 0..MaxCrash /\ NoState \in State
  BY <1>1, Constants DEF TypeOK, Segs
<1>3. TypeOK'
  BY <1>1, <1>2 DEF TypeOK
<1>4. Object'
  BY <1>1 DEF Object
<1>5. QED
  BY <1>3, <1>4 DEF Types

LEMMA KillTypes ==
  ASSUME Types, Kill
  PROVE  Types'
<1>1. TypeOK /\ Counted
  BY DEF Types
<1>2. Counted'
  BY <1>1 DEF Counted, Kill, disk
<1>3. QED
  BY <1>1, <1>2, DownTypes DEF TypeOK, Kill, disk

\* Only the tail of a file changes.
LEMMA TailTypes ==
  ASSUME TypeOK, Counted, NEW s \in Segs, NEW t \in Tails, file' = [file EXCEPT ![s].tail = t]
  PROVE  /\ file' \in [Segs -> FileType] /\ Counted'
         /\ \A u \in Segs : file'[u].recs = file[u].recs /\ file'[u].synced = file[u].synced
                            /\ file'[u].tailD = file[u].tailD /\ (u # s => file'[u].tail = file[u].tail)
         /\ file'[s].tail = t
<1>1. file \in [Segs -> FileType] /\ file[s] \in FileType
  BY DEF TypeOK
<1>2. PICK g : g = [file[s] EXCEPT !.tail = t]
  OBVIOUS
<1>3. g \in FileType /\ g.recs = file[s].recs /\ g.synced = file[s].synced /\ g.tailD = file[s].tailD /\ g.tail = t
  BY <1>1, <1>2 DEF FileType
<1>4. file' = [file EXCEPT ![s] = g]
  BY <1>2
<1>5. file' \in [Segs -> FileType] /\ file'[s] = g /\ \A u \in Segs : u # s => file'[u] = file[u]
  BY <1>1, <1>3, <1>4
<1>6. \A u \in Segs : file'[u].recs = file[u].recs /\ file'[u].synced = file[u].synced
                      /\ file'[u].tailD = file[u].tailD /\ (u # s => file'[u].tail = file[u].tail)
  BY <1>3, <1>5
<1>7. Counted'
  BY <1>6 DEF Counted
<1>8. QED
  BY <1>3, <1>5, <1>6, <1>7

LEMMA TailsAfter ==
  ASSUME NEW t \in Tails
  PROVE  TailAfter(t) \subseteq Tails /\ PartAfter(t) \subseteq Tails
  BY DEF Tails, TailAfter, PartAfter

LEMMA KillInAppendTypes ==
  ASSUME Types, KillInAppend
  PROVE  Types'
<1>1. TypeOK /\ Counted /\ cur \in Segs
  BY DEF Types, TypeOK
<1>2. PICK t \in PartAfter(file[cur].tail) : file' = [file EXCEPT ![cur].tail = t]
  BY DEF KillInAppend
<1>3. t \in Tails
  BY <1>1, <1>2, FileIs, TailsAfter
<1>4. file' \in [Segs -> FileType] /\ Counted'
  BY <1>1, <1>2, <1>3, TailTypes
<1>5. QED
  BY <1>1, <1>4, DownTypes DEF TypeOK, KillInAppend

LEMMA CloseTypes ==
  ASSUME Types, Close
  PROVE  Types'
<1>1. TypeOK /\ Counted /\ cur \in Segs /\ seq \in 0..MaxSeq
  BY DEF Types, TypeOK
<1>2. /\ file' \in [Segs -> FileType] /\ Counted' /\ segsD' \subseteq Segs
      /\ acked' \in 0..MaxSeq
  <2>1. CASE pending > 0
    <3>1. file' = [file EXCEPT ![cur] = Synced(@)] /\ segsD' = segsD \cup {cur} /\ acked' = seq
      BY <2>1 DEF Close
    <3>2. file' \in [Segs -> FileType] /\ Counted'
      BY <1>1, <3>1, SyncedTypes
    <3>3. QED
      BY <1>1, <3>1, <3>2 DEF TypeOK
  <2>2. CASE ~(pending > 0)
    <3>1. file' = file /\ segsD' = segsD /\ (acked' = acked \/ acked' = seq)
      BY <2>2 DEF Close
    <3>2. QED
      BY <1>1, <3>1 DEF TypeOK, Counted
  <2>3. QED
    BY <2>1, <2>2
<1>3. QED
  BY <1>1, <1>2, DownTypes DEF TypeOK, Close

LEMMA FsyncTypes ==
  ASSUME Types, pc # "down", Fsync
  PROVE  /\ file' \in [Segs -> FileType] /\ Counted' /\ segsD' \subseteq Segs
         /\ \A t \in Segs : file'[t].recs = file[t].recs
         /\ pending' = 0 /\ segs' = segs /\ snap' = snap /\ snapMaybe' = snapMaybe
<1>1. TypeOK /\ Counted /\ cur \in Segs
  BY DEF Types, TypeOK
<1>2. file' = [file EXCEPT ![cur] = Synced(@)] /\ segsD' = segsD \cup {cur}
  BY DEF Fsync
<1>3. /\ file' \in [Segs -> FileType] /\ Counted'
      /\ \A t \in Segs : file'[t].recs = file[t].recs
  BY <1>1, <1>2, SyncedTypes
<1>4. QED
  BY <1>1, <1>2, <1>3 DEF TypeOK, Fsync

LEMMA AppendSyncTypes ==
  ASSUME Types, AppendSync
  PROVE  Types'
<1> USE DEF Types
<1>1. pc = "sync" /\ pc' \in {"rotate", "return"} /\ Fsync /\ UNCHANGED <<arg, seq, state, cur, segCount, ghosts>>
  BY DEF AppendSync, MaybeRotate
<1>2. /\ file' \in [Segs -> FileType] /\ Counted' /\ segsD' \subseteq Segs
      /\ \A t \in Segs : file'[t].recs = file[t].recs
      /\ pending' = 0 /\ segs' = segs /\ snap' = snap /\ snapMaybe' = snapMaybe
  BY <1>1, FsyncTypes
<1>3. TypeOK'
  BY <1>1, <1>2, Constants DEF TypeOK, ghosts
<1>4. Object'
  BY <1>1, <1>2, Constants DEF TypeOK, Object, Putting
<1>5. QED
  BY <1>2, <1>3, <1>4

LEMMA FlushTypes ==
  ASSUME Types, Flush
  PROVE  Types'
<1> USE DEF Types
<1>1. /\ pc = "idle" /\ UNCHANGED <<pc, arg, seq, state, cur, segCount, crashes, hist, faults>>
      /\ (acked' = acked \/ acked' = seq)
  BY DEF Flush
<1>2. /\ file' \in [Segs -> FileType] /\ Counted' /\ segsD' \subseteq Segs
      /\ \A t \in Segs : file'[t].recs = file[t].recs
      /\ (pending' = 0 \/ pending' = pending)
      /\ segs' = segs /\ snap' = snap /\ snapMaybe' = snapMaybe
  <2>1. CASE pending > 0
    <3>1. Fsync
      BY <2>1 DEF Flush
    <3>2. QED
      BY <1>1, <3>1, FsyncTypes
  <2>2. CASE ~(pending > 0)
    <3>1. UNCHANGED <<disk, pending>>
      BY <2>2 DEF Flush
    <3>2. QED
      BY <3>1 DEF TypeOK, Counted, disk
  <2>3. QED
    BY <2>1, <2>2
<1>3. pending' \in 0..MaxSeq /\ pending' <= segCount
  BY <1>1, <1>2, Constants DEF TypeOK, Object
<1>4. TypeOK'
  BY <1>1, <1>2, <1>3 DEF TypeOK
<1>5. Object'
  BY <1>1, <1>2, <1>3 DEF TypeOK, Object, Putting
<1>6. QED
  BY <1>2, <1>4, <1>5

LEMMA CkBeginTypes ==
  ASSUME Types, CkBegin
  PROVE  Types'
<1> USE DEF Types
<1>1. /\ pc = "idle" /\ pc' = "ck_replace" /\ cur < MaxSeg
      /\ UNCHANGED <<arg, seq, state, cur, segCount, ghosts>>
  BY DEF CkBegin
<1>2. /\ file' \in [Segs -> FileType] /\ Counted' /\ segsD' \subseteq Segs
      /\ \A t \in Segs : file'[t].recs = file[t].recs
      /\ pending' \in {0, pending} /\ segs' = segs /\ snap' = snap /\ snapMaybe' = snapMaybe
  <2>1. CASE pending > 0
    BY <1>1, <2>1, FsyncTypes DEF CkBegin
  <2>2. CASE ~(pending > 0)
    BY <2>2 DEF CkBegin, disk, TypeOK, Counted
  <2>3. QED
    BY <2>1, <2>2
<1>3. TypeOK'
  BY <1>1, <1>2, Constants DEF TypeOK, ghosts
<1>4. Object'
  BY <1>1, <1>2, Constants DEF TypeOK, Object, Putting
<1>5. QED
  BY <1>2, <1>3, <1>4

LEMMA CkSegmentTypes ==
  ASSUME Types, CkSegment
  PROVE  Types'
<1> USE DEF Types
<1>1. cur < MaxSeg /\ cur \in Nat /\ cur + 1 \in Segs /\ cur \in Segs
  BY Constants DEF Object, TypeOK, CkSegment, Segs
<1>2. PICK s \in Segs : s = cur + 1
  BY <1>1
<1>3. file' = [file EXCEPT ![s] = NewFile] /\ file \in [Segs -> FileType]
  BY <1>2 DEF CkSegment, TypeOK
<1>4. \A t \in Segs : /\ file[t].synced <= Len(file[t].recs)
                      /\ \A i \in 1..Len(file[t].recs) : file[t].recs[i].seq >= i
  BY DEF Counted
<1>5. file' \in [Segs -> FileType] /\ Counted' /\ file'[s] = NewFile
  BY ONLY <1>3, <1>4, NewTypes, s \in Segs
<1>6. TypeOK'
  BY <1>1, <1>2, <1>5, Constants DEF TypeOK, CkSegment, ghosts
<1>7. Len(file'[cur'].recs) = 0
  <2>1. cur' = s
    BY <1>2 DEF CkSegment
  <2>2. QED
    BY <1>5, <2>1 DEF NewFile
<1>8. Object'
  <2>1. \A t \in segs' : t <= cur'
    BY <1>1, Constants DEF TypeOK, Object, CkSegment
  <2>2. QED
    BY <1>1, <1>7, <2>1, Constants DEF TypeOK, Object, CkSegment, Putting
<1>9. QED
  BY <1>5, <1>6, <1>8

LEMMA RotateTypes ==
  ASSUME Types, Rotate
  PROVE  Types'
<1> USE DEF Types
<1>1. cur < MaxSeg /\ cur \in Nat /\ cur + 1 \in Segs /\ cur \in Segs
  BY Constants DEF Object, TypeOK, Rotate, Segs
<1>2. PICK s \in Segs : s = cur + 1
  BY <1>1
<1>3. PICK f : f = [file EXCEPT ![cur] = IF pending > 0 THEN Synced(@) ELSE @]
  OBVIOUS
<1>4. file' = [f EXCEPT ![s] = NewFile]
  BY <1>2, <1>3 DEF Rotate
<1>5. /\ f \in [Segs -> FileType]
      /\ \A t \in Segs : /\ f[t].synced <= Len(f[t].recs)
                         /\ \A i \in 1..Len(f[t].recs) : f[t].recs[i].seq >= i
  <2>1. CASE pending > 0
    <3>1. f = [file EXCEPT ![cur] = Synced(@)]
      BY <1>3, <2>1
    <3>2. PICK g : g = Synced(file[cur])
      OBVIOUS
    <3>3. /\ file[cur] = [recs |-> file[cur].recs, synced |-> file[cur].synced,
                    tail |-> file[cur].tail, tailD |-> file[cur].tailD]
          /\ file[cur].recs \in Seq(Rec) /\ Len(file[cur].recs) \in 0..MaxSeq
          /\ file[cur].tail \in Tails
      BY <1>1, FileIs
    <3>4. g = [recs |-> file[cur].recs, synced |-> Len(file[cur].recs),
               tail |-> file[cur].tail, tailD |-> file[cur].tail]
      BY <3>2, <3>3 DEF Synced
    <3>5. g \in FileType /\ g.recs = file[cur].recs /\ g.synced = Len(file[cur].recs)
      BY <3>3, <3>4 DEF FileType
    <3>6. f \in [Segs -> FileType] /\ f[cur] = g /\ \A t \in Segs : t # cur => f[t] = file[t]
      BY <1>1, <3>1, <3>2, <3>5 DEF TypeOK
    <3>7. \A t \in Segs : t # cur =>
             /\ f[t].synced <= Len(f[t].recs)
             /\ \A i \in 1..Len(f[t].recs) : f[t].recs[i].seq >= i
      BY <3>6 DEF Counted
    <3>8. /\ f[cur].synced <= Len(f[cur].recs)
          /\ \A i \in 1..Len(f[cur].recs) : f[cur].recs[i].seq >= i
      BY <1>1, <3>3, <3>5, <3>6, Constants DEF Counted
    <3>9. QED
      BY <3>6, <3>7, <3>8
  <2>2. CASE ~(pending > 0)
    <3>1. f = file
      BY <1>3, <2>2 DEF TypeOK
    <3>2. QED
      BY <3>1 DEF TypeOK, Counted
  <2>3. QED
    BY <2>1, <2>2
<1>6. file' \in [Segs -> FileType] /\ Counted' /\ file'[s] = NewFile
  BY ONLY <1>4, <1>5, NewTypes, s \in Segs
<1>7. segsD' \subseteq Segs
  BY <1>1 DEF Rotate, TypeOK
<1>8. TypeOK'
  BY <1>1, <1>2, <1>6, <1>7, Constants DEF TypeOK, Rotate, ghosts
<1>9. Len(file'[cur'].recs) = 0
  <2>1. cur' = s
    BY <1>2 DEF Rotate
  <2>2. QED
    BY <1>6, <2>1 DEF NewFile
<1>10. Object'
  <2>1. \A t \in segs' : t <= cur'
    BY <1>1, Constants DEF TypeOK, Object, Rotate
  <2>2. QED
    BY <1>1, <1>9, <2>1, Constants DEF TypeOK, Object, Rotate, Putting
<1>11. QED
  BY <1>6, <1>8, <1>10

\* What write does to the file, whatever becomes of the record
LEMMA WrittenFile ==
  ASSUME TypeOK, NEW s \in Segs, NEW t, NEW x,
         file' = [file EXCEPT ![s].tail = t, ![s].recs = IF t = "none" THEN Append(@, x) ELSE @]
  PROVE  /\ file'[s].tail = t /\ file'[s].tailD = file[s].tailD /\ file'[s].synced = file[s].synced
         /\ file'[s].recs = IF t = "none" THEN Append(file[s].recs, x) ELSE file[s].recs
         /\ \A u \in Segs : u # s => file'[u] = file[u]
         /\ file' = [u \in Segs |-> file'[u]]
         /\ file'[s] = [recs |-> file'[s].recs, synced |-> file'[s].synced,
                        tail |-> file'[s].tail, tailD |-> file'[s].tailD]
<1>1. file \in [Segs -> FileType] /\ file[s] \in FileType
  BY DEF TypeOK
<1>2. PICK g : g = [file[s] EXCEPT !.tail = t]
  OBVIOUS
<1>3. /\ g.recs = file[s].recs /\ g.synced = file[s].synced /\ g.tailD = file[s].tailD /\ g.tail = t
      /\ g = [recs |-> file[s].recs, synced |-> file[s].synced, tail |-> t, tailD |-> file[s].tailD]
  BY <1>1, <1>2 DEF FileType
<1>4. PICK q : q = IF t = "none" THEN Append(file[s].recs, x) ELSE file[s].recs
  OBVIOUS
<1>5. PICK h : h = [g EXCEPT !.recs = q]
  OBVIOUS
<1>6. /\ h.recs = q /\ h.synced = file[s].synced /\ h.tailD = file[s].tailD /\ h.tail = t
      /\ h = [recs |-> q, synced |-> file[s].synced, tail |-> t, tailD |-> file[s].tailD]
  BY <1>3, <1>5
<1>7. file' = [file EXCEPT ![s] = h]
  <2>1. PICK f1 : f1 = [file EXCEPT ![s] = g]
    OBVIOUS
  <2>2. f1 = [file EXCEPT ![s].tail = t] /\ f1[s] = g
    BY <1>1, <1>2, <2>1
  <2>3. file' = [f1 EXCEPT ![s].recs = IF t = "none" THEN Append(@, x) ELSE @]
    BY <2>2
  <2>4. file' = [f1 EXCEPT ![s] = h]
    BY <1>3, <1>4, <1>5, <2>2, <2>3
  <2>5. QED
    BY <1>1, <2>1, <2>4
<1>8. file'[s] = h /\ (\A u \in Segs : u # s => file'[u] = file[u]) /\ file' = [u \in Segs |-> file'[u]]
  BY <1>1, <1>7
<1>9. QED
  BY <1>4, <1>6, <1>8

LEMMA WriteTypes ==
  ASSUME Types, NEW k \in Keys, NEW v \in Vals \cup {NoVal}, NEW d \in BOOLEAN, Write(k, v, d)
  PROVE  Types'
<1> USE DEF Types
<1>1. PICK x : x = [seq |-> seq + 1, key |-> k, val |-> v]
  OBVIOUS
<1>2. /\ pc = "idle" /\ seq < MaxSeq /\ seq \in Nat /\ cur \in Segs /\ MaxSeq \in Nat
      /\ segCount \in Nat /\ pending \in Nat
      /\ pending <= segCount /\ segCount <= seq
  BY Constants DEF Write, TypeOK, Object
<1>3. x \in Rec /\ x.seq = seq + 1
  BY <1>1, <1>2 DEF Rec
<1>4. /\ seq' = seq + 1 /\ arg' = [rec |-> x, durable |-> d]
      /\ hist' = Append(hist, x) /\ segCount' = segCount + 1 /\ pending' = pending + 1 /\ pc' = "sync"
      /\ UNCHANGED <<segs, segsD, snap, snapMaybe, state, cur, crashes, acked>>
      /\ faults' \subseteq {"spliced", "skipped", "unapplied"}
  BY <1>1 DEF Write, TypeOK
<1>5. PICK t \in TailAfter(file[cur].tail) :
          file' = [file EXCEPT ![cur].tail = t, ![cur].recs = IF t = "none" THEN Append(@, x) ELSE @]
  BY <1>1 DEF Write
<1>6. t \in Tails
  BY <1>2, <1>5, FileIs, TailsAfter
<1>7. /\ file'[cur].tail = t /\ file'[cur].tailD = file[cur].tailD /\ file'[cur].synced = file[cur].synced
      /\ file'[cur].recs = IF t = "none" THEN Append(file[cur].recs, x) ELSE file[cur].recs
      /\ \A u \in Segs : u # cur => file'[u] = file[u]
      /\ file' = [u \in Segs |-> file'[u]]
      /\ file'[cur] = [recs |-> file'[cur].recs, synced |-> file'[cur].synced,
                       tail |-> file'[cur].tail, tailD |-> file'[cur].tailD]
  BY <1>2, <1>5, WrittenFile
<1>8. PICK q \in Seq(Rec) : q = file[cur].recs
  BY <1>2, FileIs
<1>9. /\ file[cur].synced \in 0..MaxSeq /\ file[cur].synced <= Len(q) /\ file[cur].tailD \in Tails
      /\ Len(q) \in Nat /\ Len(q) <= seq /\ \A i \in 1..Len(q) : q[i].seq >= i
  <2>1. /\ file[cur].synced \in 0..Len(q) /\ Len(q) \in 0..MaxSeq /\ file[cur].tailD \in Tails
        /\ \A i \in 1..Len(q) : q[i].seq >= i
    BY <1>2, <1>8, FileIs
  <2>2. Len(q) <= seq
    BY <1>2, <1>8 DEF Object
  <2>3. QED
    BY <1>2, <2>1, <2>2
<1>10. PICK p : p = file'[cur].recs
  OBVIOUS
<1>11. /\ p \in Seq(Rec) /\ Len(p) \in {Len(q), Len(q) + 1} /\ \A i \in 1..Len(p) : p[i].seq >= i
  <2>1. CASE t = "none"
    <3>1. p = Append(q, x)
      BY <1>7, <1>8, <1>10, <2>1
    <3>2. p \in Seq(Rec) /\ Len(p) = Len(q) + 1 /\ p[Len(q) + 1] = x /\ \A i \in 1..Len(q) : p[i] = q[i]
      BY <1>3, <3>1, AppendIs
    <3>3. \A i \in 1..Len(p) : i \in 1..Len(q) \/ i = Len(q) + 1
      BY <1>9, <3>2
    <3>4. x.seq >= Len(q) + 1
      BY <1>2, <1>3, <1>9
    <3>5. QED
      BY <1>9, <3>2, <3>3, <3>4
  <2>2. CASE t # "none"
    BY <1>7, <1>8, <1>9, <1>10, <2>2
  <2>3. QED
    BY <2>1, <2>2
<1>12. file' \in [Segs -> FileType]
  <2>1. file'[cur] \in FileType
    BY <1>6, <1>7, <1>9, <1>10, <1>11 DEF FileType
  <2>2. \A u \in Segs : file'[u] \in FileType
    BY <1>7, <2>1 DEF TypeOK
  <2>3. QED
    BY <1>7, <2>2
<1>13. Counted'
  <2> SUFFICES ASSUME NEW u \in Segs
               PROVE  /\ file'[u].synced <= Len(file'[u].recs)
                      /\ \A i \in 1..Len(file'[u].recs) : file'[u].recs[i].seq >= i
    BY DEF Counted
  <2>1. CASE u = cur
    <3>1. file'[cur].synced <= Len(p)
      BY <1>2, <1>7, <1>9, <1>11
    <3>2. QED
      BY <1>10, <1>11, <2>1, <3>1
  <2>2. CASE u # cur
    BY <1>7, <2>2 DEF Counted
  <2>3. QED
    BY <2>1, <2>2
<1>14. hist' \in Seq(Rec)
  BY <1>3, <1>4, AppendIs DEF TypeOK
<1>15. TypeOK'
  BY <1>2, <1>4, <1>12, <1>14, Constants DEF TypeOK
<1>16. Object'
  <2>1. Len(file'[cur'].recs) <= seq'
    BY <1>2, <1>4, <1>9, <1>10, <1>11
  <2>2. arg'.rec \in Rec
    BY <1>3, <1>4
  <2>3. pending' <= segCount' /\ segCount' <= seq' /\ pending' > 0
    BY <1>2, <1>4
  <2>4. QED
    BY <1>2, <1>4, <2>1, <2>2, <2>3 DEF Object
<1>17. QED
  BY <1>13, <1>15, <1>16

LEMMA WriteShortTypes ==
  ASSUME Types, NEW k \in Keys, NEW v \in Vals \cup {NoVal}, NEW d \in BOOLEAN, WriteShort(k, v, d)
  PROVE  Types'
<1> USE DEF Types
<1>1. PICK x : x = [seq |-> seq + 1, key |-> k, val |-> v]
  OBVIOUS
<1>2. /\ pc = "idle" /\ seq < MaxSeq /\ seq \in Nat /\ cur \in Segs /\ MaxSeq \in Nat
      /\ segCount \in Nat /\ pending \in Nat
      /\ pending <= segCount /\ segCount <= seq
  BY Constants DEF WriteShort, TypeOK, Object
<1>3. x \in Rec /\ x.seq = seq + 1
  BY <1>1, <1>2 DEF Rec
<1>4. /\ seq' = seq + 1 /\ arg' = [rec |-> x, durable |-> d]
      /\ hist' = Append(hist, x) /\ segCount' = segCount + 1 /\ pending' = pending + 1 /\ pc' = "sync"
      /\ UNCHANGED <<segs, segsD, snap, snapMaybe, state, cur, crashes, acked>>
      /\ faults' \subseteq {"spliced", "skipped", "unapplied"}
  BY <1>1 DEF WriteShort, TypeOK
<1>5. PICK t \in PartAfter(file[cur].tail) : file' = [file EXCEPT ![cur].tail = t]
  BY DEF WriteShort
<1>6. t \in Tails
  BY <1>2, <1>5, FileIs, TailsAfter
<1>7. /\ file' \in [Segs -> FileType] /\ Counted' /\ file'[cur].recs = file[cur].recs
  BY <1>2, <1>5, <1>6, TailTypes
<1>8. Len(file[cur].recs) <= seq /\ Len(file[cur].recs) \in Nat
  <2>1. Len(file[cur].recs) \in 0..MaxSeq
    BY <1>2, FileIs
  <2>2. QED
    BY <1>2, <2>1 DEF Object
<1>9. hist' \in Seq(Rec)
  BY <1>3, <1>4, AppendIs DEF TypeOK
<1>10. TypeOK'
  BY <1>2, <1>4, <1>7, <1>9, Constants DEF TypeOK
<1>11. Object'
  <2>1. Len(file'[cur'].recs) <= seq'
    BY <1>2, <1>4, <1>7, <1>8
  <2>2. arg'.rec \in Rec
    BY <1>3, <1>4
  <2>3. pending' <= segCount' /\ segCount' <= seq' /\ pending' > 0
    BY <1>2, <1>4
  <2>4. QED
    BY <1>2, <1>4, <2>1, <2>2, <2>3 DEF Object
<1>12. QED
  BY <1>7, <1>10, <1>11

\* A file after a power loss begins like the file before, and has all that was synced.
LEMMA LeftIs ==
  ASSUME TypeOK, Counted, NEW s \in Segs, NEW g \in Left(file[s])
  PROVE  /\ g \in FileType /\ g.synced = Len(g.recs) /\ g.tailD = g.tail
         /\ Len(g.recs) \in file[s].synced..Len(file[s].recs)
         /\ \A i \in 1..Len(g.recs) : g.recs[i] = file[s].recs[i] /\ g.recs[i].seq >= i
         /\ file[s].tail \in {"none", "cut"} /\ file[s].tailD \in {"none", "cut"} => g.tail \in {"none", "cut"}
<1>0. PICK n \in file[s].synced..Len(file[s].recs) : g \in {FileLeft(file[s], n, t) : t \in TailsLeft(file[s], n)}
  BY DEF Left
<1>1. PICK t \in TailsLeft(file[s], n) : g = FileLeft(file[s], n, t)
  BY <1>0
<1>2. /\ file[s].recs \in Seq(Rec) /\ Len(file[s].recs) \in 0..MaxSeq
      /\ file[s].synced \in 0..Len(file[s].recs)
      /\ \A i \in 1..Len(file[s].recs) : file[s].recs[i].seq >= i
  BY FileIs
<1>3. n \in 0..Len(file[s].recs) /\ n \in 0..MaxSeq /\ n \in Nat
  BY <1>1, <1>2, Constants
<1>4. PICK q : q = SubSeq(file[s].recs, 1, n)
  OBVIOUS
<1>5. q \in Seq(Rec) /\ Len(q) = n /\ \A i \in 1..n : q[i] = file[s].recs[i]
  BY <1>2, <1>3, <1>4, SubSeqIs
<1>6. t \in Tails /\ (file[s].tail \in {"none", "cut"} /\ file[s].tailD \in {"none", "cut"} => t \in {"none", "cut"})
  BY <1>1 DEF TailsLeft
<1>7. g = [recs |-> q, synced |-> n, tail |-> t, tailD |-> t]
  BY <1>1, <1>4 DEF FileLeft
<1>8. g.recs = q /\ g.synced = n /\ g.tail = t /\ g.tailD = t
  BY <1>7
<1>9. g \in FileType
  BY <1>3, <1>5, <1>6, <1>7 DEF FileType
<1>10. \A i \in 1..n : i \in 1..Len(file[s].recs)
  BY <1>2, <1>3
<1>11. QED
  BY <1>1, <1>2, <1>5, <1>6, <1>8, <1>9, <1>10

LEMMA PowerLossIs ==
  ASSUME TypeOK, Counted, PowerLoss
  PROVE  /\ segs \cap segsD \subseteq segs' /\ segs' \subseteq Names /\ segsD' = segs'
         /\ segs' \subseteq Segs
         /\ \A s \in segs' : file'[s] \in Left(file[s])
         /\ \A s \in Segs : s \notin segs' => file'[s] = NewFile
         /\ file' = [s \in Segs |-> file'[s]]
<1>1. PICK S \in SUBSET (segs \cup segsD) :
          /\ segs \cap segsD \subseteq S
          /\ segs' = S /\ segsD' = S
          /\ \E f \in [S -> UNION {Left(file[s]) : s \in S}] :
                /\ \A s \in S : f[s] \in Left(file[s])
                /\ file' = [s \in Segs |-> IF s \in S THEN f[s] ELSE NewFile]
  BY DEF PowerLoss
<1>2. PICK f : /\ \A s \in S : f[s] \in Left(file[s])
               /\ file' = [s \in Segs |-> IF s \in S THEN f[s] ELSE NewFile]
  BY <1>1
<1>3. S \subseteq Segs
  BY <1>1 DEF TypeOK
<1>4. QED
  BY <1>1, <1>2, <1>3 DEF Names

LEMMA PowerLossTypes ==
  ASSUME Types, PowerLoss
  PROVE  Types'
<1>0. TypeOK /\ Counted
  BY DEF Types
<1>1. /\ segs' \subseteq Segs /\ segsD' = segs'
      /\ \A s \in segs' : file'[s] \in Left(file[s])
      /\ \A s \in Segs : s \notin segs' => file'[s] = NewFile
      /\ file' = [s \in Segs |-> file'[s]]
  BY <1>0, PowerLossIs
<1>2. NewFile \in FileType /\ NewFile.synced = 0 /\ NewFile.recs = <<>>
  <2>1. <<>> \in Seq(Rec)
    OBVIOUS
  <2>2. 0 \in 0..MaxSeq
    BY Constants
  <2>3. QED
    BY <2>1, <2>2 DEF NewFile, FileType, Tails
<1>3. ASSUME NEW s \in Segs
      PROVE  /\ file'[s] \in FileType /\ file'[s].synced <= Len(file'[s].recs)
             /\ \A i \in 1..Len(file'[s].recs) : file'[s].recs[i].seq >= i
  <2>1. CASE s \in segs'
    <3>1. PICK g \in Left(file[s]) : g = file'[s]
      BY <1>1, <2>1
    <3>2. /\ g \in FileType /\ g.synced = Len(g.recs)
          /\ \A i \in 1..Len(g.recs) : g.recs[i].seq >= i
      BY <1>0, LeftIs
    <3>3. Len(g.recs) \in Nat
      BY <3>2, LenProperties DEF FileType
    <3>4. QED
      BY <3>1, <3>2, <3>3
  <2>2. CASE s \notin segs'
    BY <1>1, <1>2, <2>2
  <2>3. QED
    BY <2>1, <2>2
<1>4. file' \in [Segs -> FileType] /\ Counted'
  BY <1>1, <1>3 DEF Counted
<1>5. /\ Down /\ crashes < MaxCrash /\ UNCHANGED <<hist, acked, faults>>
      /\ snap' \in snapMaybe /\ snapMaybe' = {snap'}
  BY DEF PowerLoss
<1>6. snap' \in Snap /\ snapMaybe' \subseteq Snap /\ snap' \in snapMaybe'
  BY <1>0, <1>5 DEF TypeOK
<1>7. QED
  BY <1>0, <1>1, <1>4, <1>5, <1>6, DownTypes DEF TypeOK

LEMMA OpenIs ==
  ASSUME TypeOK, Counted, Open
  PROVE  /\ cur' \in Segs /\ segs' = segs \cup {cur'} /\ \A s \in segs' : s <= cur'
         /\ segs # {} => cur' \in segs /\ segs' = segs /\ file' = file
         /\ segs = {} => segs' = {cur'} /\ file'[cur'] = NewFile /\ \A s \in Segs : s # cur' => file'[s] = file[s]
         /\ file' \in [Segs -> FileType] /\ Counted'
<1>1. segs \subseteq Nat /\ segs \subseteq 0..MaxSeg /\ MaxSeg \in Nat /\ segs \subseteq Segs
  BY Constants DEF TypeOK, Segs
<1>2. segs' = segs \cup {cur'}
  BY DEF Open
<1>3. CASE segs = {}
  <2>1. cur' = 0 /\ file' = [file EXCEPT ![0] = NewFile] /\ 0 \in Segs
    BY <1>3, Constants DEF Open, Segs
  <2>2. file \in [Segs -> FileType] /\ \A t \in Segs :
           /\ file[t].synced <= Len(file[t].recs)
           /\ \A i \in 1..Len(file[t].recs) : file[t].recs[i].seq >= i
    BY DEF TypeOK, Counted
  <2>3. PICK z \in Segs : z = 0
    BY <2>1
  <2>4. file' = [file EXCEPT ![z] = NewFile]
    BY <2>1, <2>3
  <2>5. /\ file' \in [Segs -> FileType] /\ Counted'
        /\ file'[z] = NewFile /\ \A t \in Segs : t # z => file'[t] = file[t]
    BY ONLY <2>2, <2>4, NewTypes, z \in Segs
  <2>6. QED
    BY <1>2, <1>3, <2>1, <2>3, <2>5
<1>4. CASE segs # {}
  <2>1. PICK s \in segs : \A t \in segs : t <= s
    BY ONLY <1>1, <1>4, LastExists
  <2>2. LastSeg(segs) \in segs /\ \A t \in segs : t <= LastSeg(segs)
    BY <2>1 DEF LastSeg
  <2>3. cur' = LastSeg(segs) /\ file' = file
    BY <1>4 DEF Open
  <2>4. segs' = segs
    BY <1>2, <2>2, <2>3
  <2>5. QED
    BY <1>1, <1>4, <2>2, <2>3, <2>4 DEF TypeOK, Counted
<1>5. QED
  BY <1>3, <1>4

LEMMA OpenTypes ==
  ASSUME Types, Open
  PROVE  Types'
<1>0. TypeOK /\ Counted
  BY DEF Types
<1>1. Loaded.ok /\ Loaded \in Acc
  BY <1>0, LoadedIs DEF Open, Rejects
<1>2. PICK a \in Acc : a = Loaded
  BY <1>1
<1>3. a.seq \in 0..MaxSeq /\ a.st \in State /\ a.seq \in Nat
  BY Constants DEF Acc
<1>4. /\ cur' \in Segs /\ segs' = segs \cup {cur'} /\ \A s \in segs' : s <= cur'
      /\ segs # {} => cur' \in segs /\ segs' = segs /\ file' = file
      /\ segs = {} => segs' = {cur'} /\ file'[cur'] = NewFile
      /\ file' \in [Segs -> FileType] /\ Counted'
  BY <1>0, OpenIs
<1>5. Len(file'[cur'].recs) \in 0..a.seq
  <2>1. CASE segs = {}
    <3>1. file'[cur'].recs = <<>>
      BY <1>4, <2>1 DEF NewFile
    <3>2. QED
      BY <1>3, <3>1
  <2>2. CASE segs # {}
    <3>1. cur' \in segs /\ file' = file
      BY <1>4, <2>2
    <3>2. PICK c \in segs : c = cur'
      BY <3>1
    <3>3. PICK q : q = file[c].recs
      OBVIOUS
    <3>4. Len(q) \in Nat /\ \A i \in 1..Len(q) : q[i].seq \in 1..MaxSeq /\ q[i].seq >= i
      <4>1. c \in Segs
        BY <1>4, <3>2
      <4>2. Len(q) \in 0..MaxSeq /\ \A i \in 1..Len(q) : q[i].seq \in 1..MaxSeq /\ q[i].seq >= i
        BY <1>0, <3>3, <4>1, FileIs
      <4>3. QED
        BY <4>2, Constants
    <3>5. \A i \in 1..Len(q) : a.seq >= q[i].seq
      BY <1>0, <1>1, <1>2, <3>3, LoadedIs
    <3>6. CASE Len(q) = 0
      BY <1>3, <3>1, <3>2, <3>3, <3>6
    <3>7. CASE Len(q) # 0
      <4>1. Len(q) \in 1..Len(q)
        BY <3>4, <3>7
      <4>2. a.seq >= q[Len(q)].seq /\ q[Len(q)].seq >= Len(q) /\ q[Len(q)].seq \in 1..MaxSeq
        BY <3>4, <3>5, <4>1
      <4>3. Len(q) <= a.seq
        BY <1>3, <3>4, <4>2, Constants
      <4>4. QED
        BY <1>3, <3>1, <3>2, <3>3, <3>4, <4>3
    <3>8. QED
      BY <3>6, <3>7
  <2>3. QED
    BY <2>1, <2>2
<1>6. /\ seq' = a.seq /\ state' = a.st /\ pc' = "idle" /\ segCount' = Len(file'[cur'].recs) /\ pending' = 0
      /\ hist' = SubSeq(hist, 1, IF a.seq < Len(hist) THEN a.seq ELSE Len(hist))
      /\ UNCHANGED <<segsD, snap, snapMaybe, arg, crashes, acked, faults>>
  BY <1>2 DEF Open
<1>7. hist' \in Seq(Rec)
  <2>1. PICK n : n = IF a.seq < Len(hist) THEN a.seq ELSE Len(hist)
    OBVIOUS
  <2>2. hist \in Seq(Rec) /\ Len(hist) \in Nat
    BY <1>0, LenProperties DEF TypeOK
  <2>3. n \in 0..Len(hist)
    BY <1>3, <2>1, <2>2
  <2>4. QED
    BY <1>6, <2>1, <2>2, <2>3, SubSeqIs
<1>8. segCount' \in 0..MaxSeq /\ pending' \in 0..MaxSeq /\ segs' \subseteq Segs
  BY <1>0, <1>3, <1>4, <1>5, <1>6, Constants DEF TypeOK
<1>9. TypeOK'
  BY <1>0, <1>3, <1>4, <1>6, <1>7, <1>8 DEF TypeOK
<1>10. Object'
  <2>1. Len(file'[cur'].recs) <= seq' /\ segCount' <= seq' /\ pending' <= segCount'
    BY <1>3, <1>5, <1>6
  <2>2. QED
    BY <1>4, <1>6, <2>1 DEF Object, Putting
<1>11. QED
  BY <1>4, <1>9, <1>10 DEF Types

LEMMA InitTypes == Init => Types
<1> SUFFICES ASSUME Init PROVE Types
  OBVIOUS
<1>1. NewFile \in FileType /\ NewFile.synced = 0 /\ NewFile.recs = <<>>
  <2>1. <<>> \in Seq(Rec)
    OBVIOUS
  <2>2. 0 \in 0..MaxSeq
    BY Constants
  <2>3. QED
    BY <2>1, <2>2 DEF NewFile, FileType, Tails
<1>2. snap \in Snap /\ snapMaybe = {snap}
  BY Constants DEF Init, Snap
<1>3. hist \in Seq(Rec)
  <2>1. <<>> \in Seq(Rec)
    OBVIOUS
  <2>2. QED
    BY <2>1 DEF Init
<1>4. 0 \in Segs /\ 0 \in 0..MaxSeq /\ 0 \in 0..MaxCrash
  BY Constants DEF Segs
<1>5. TypeOK
  BY <1>1, <1>2, <1>3, <1>4, Constants DEF Init, TypeOK
<1>6. Counted
  BY <1>1 DEF Init, Counted
<1>7. Object
  BY DEF Init, Object
<1>8. QED
  BY <1>5, <1>6, <1>7 DEF Types

LEMMA StepTypes ==
  ASSUME Types, [Next]_vars
  PROVE  Types'
<1>1. CASE UNCHANGED vars
  BY <1>1 DEF vars, disk, mem, ghosts, Types, TypeOK, Counted, Object
<1>2. CASE Next
  <2>1. CASE \E k \in Keys, v \in Vals \cup {NoVal}, d \in BOOLEAN : Put(k, v, d)
    BY <2>1, WriteTypes, WriteShortTypes DEF Put
  <2>2. CASE Open
    BY <2>2, OpenTypes
  <2>3. CASE EncodeFails \/ AppendSync \/ AppendNoSync \/ SyncFails
    BY <2>3, EncodeFailsTypes, AppendSyncTypes, AppendNoSyncTypes, SyncFailsTypes
  <2>4. CASE Rotate \/ RotateDirSync \/ Return \/ Flush
    BY <2>4, RotateTypes, RotateDirSyncTypes, ReturnTypes, FlushTypes
  <2>5. CASE CkBegin \/ CkReplace \/ CkDirSync \/ CkSegment
    BY <2>5, CkBeginTypes, CkReplaceTypes, CkDirSyncTypes, CkSegmentTypes
  <2>6. CASE CkSegmentDirSync \/ CkUnlink \/ CkEnd \/ CkFails
    BY <2>6, CkSegmentDirSyncTypes, CkUnlinkTypes, CkEndTypes, CkFailsTypes
  <2>7. CASE Close \/ Kill \/ KillInAppend \/ PowerLoss
    BY <2>7, CloseTypes, KillTypes, KillInAppendTypes, PowerLossTypes
  <2>8. QED
    BY <1>2, <2>1, <2>2, <2>3, <2>4, <2>5, <2>6, <2>7 DEF Next
<1>3. QED
  BY <1>1, <1>2

-----------------------------------------------------------------------------
(* The log.  r is the last sequence on disk.                                *)

\* The records of the new files were in the files before, at the same place.
Older == \A s \in Names' : \A i \in 1..Len(file'[s].recs) :
            s \in Names /\ i \in 1..Len(file[s].recs) /\ file'[s].recs[i] = file[s].recs[i]

LEMMA NamesAre ==
  ASSUME TypeOK, Counted, NEW r \in 0..MaxSeq, Log(r)
  PROVE  /\ r \in Nat /\ MaxSeq \in Nat /\ acked \in Nat /\ acked <= r
         /\ Names \subseteq Segs /\ segs \subseteq Segs /\ segs \subseteq Names
         /\ \A p \in snapMaybe : p.seq \in Nat /\ p.seq <= r
         /\ \A s \in Names : /\ s \in Nat /\ Len(file[s].recs) \in Nat
                             /\ \A i \in 1..Len(file[s].recs) :
                                   file[s].recs[i].seq \in Nat /\ file[s].recs[i].seq <= r
<1>1. Names \subseteq Segs /\ segs \subseteq Segs /\ segs \subseteq Names
  BY DEF TypeOK, Names
<1>2. r \in Nat /\ MaxSeq \in Nat /\ acked \in Nat /\ acked <= r /\ Bounded(r)
  BY Constants DEF TypeOK, Log
<1>3. \A p \in snapMaybe : p.seq \in Nat /\ p.seq <= r
  BY <1>2 DEF TypeOK, Snap, Bounded
<1>4. ASSUME NEW s \in Names
      PROVE  /\ s \in Nat /\ Len(file[s].recs) \in Nat
             /\ \A i \in 1..Len(file[s].recs) :
                   file[s].recs[i].seq \in Nat /\ file[s].recs[i].seq <= r
  <2>1. s \in Segs
    BY <1>1
  <2>2. /\ s \in Nat /\ Len(file[s].recs) \in 0..MaxSeq
        /\ \A i \in 1..Len(file[s].recs) : file[s].recs[i].seq \in 1..MaxSeq
    BY <2>1, FileIs
  <2>3. QED
    BY <1>2, <2>2 DEF Bounded
<1>5. QED
  BY ONLY <1>1, <1>2, <1>3, <1>4

LEMMA SyncedNat ==
  ASSUME TypeOK, NEW s \in Segs
  PROVE  file[s].synced \in Nat
  BY Constants DEF TypeOK, FileType

LEMMA OlderBounded ==
  ASSUME NEW r, Bounded(r), Older, snapMaybe' \subseteq snapMaybe
  PROVE  Bounded(r)'
  BY DEF Bounded, Older

\* Nothing in the log is lost: it may only get safer.
LEMMA SaferLog ==
  ASSUME TypeOK, Counted, NEW r \in 0..MaxSeq, Log(r),
         segs' = segs, segsD' \subseteq Names, snapMaybe' \subseteq snapMaybe,
         \A s \in Segs : file'[s].recs = file[s].recs,
         \A s \in segs \cap segsD : s \in segsD' /\ file'[s].synced >= file[s].synced
                                    /\ file'[s].synced \in Nat,
         Tidy',
         \/ acked' = acked
         \/ /\ acked' = r
            /\ \A p \in snapMaybe' : \A m \in (p.seq + 1)..r :
                  \E s \in segs, j \in 1..MaxSeq : In(s, j, m) /\ Firm(s, j)'
  PROVE  Log(r)'
<1>1. /\ Names' \subseteq Names /\ Names \subseteq Segs /\ segs \subseteq Segs
      /\ Bounded(r) /\ Held(r) /\ Gapless /\ AckedFirm /\ acked <= r
  BY DEF Names, Log, TypeOK
<1>2. Older /\ Bounded(r)'
  <2>1. Older
    BY <1>1 DEF Older
  <2>2. QED
    BY <1>1, <2>1, OlderBounded
<1>3. \A s, j, m : In(s, j, m) => In(s, j, m)'
  BY <1>1 DEF In
<1>4. ASSUME NEW s \in segs, NEW j \in 1..MaxSeq, Firm(s, j) PROVE Firm(s, j)'
  <2>1. s \in Segs /\ s \in segsD /\ j <= file[s].synced
    BY <1>1, <1>4 DEF Firm
  <2>2. file[s].synced \in Nat /\ j \in Nat
    BY <2>1, SyncedNat, Constants
  <2>3. s \in segsD' /\ j <= file'[s].synced
    BY <2>1, <2>2
  <2>4. QED
    BY <2>3 DEF Firm
<1>5. Held(r)'
  <2> SUFFICES ASSUME NEW p \in snapMaybe', NEW m \in (p.seq + 1)..r
               PROVE  \E s \in segs', j \in 1..MaxSeq :
                         In(s, j, m)' /\ (Firm(s, j)' \/ \A t \in segs' : t <= s)
    BY DEF Held
  <2>1. PICK s \in segs, j \in 1..MaxSeq : In(s, j, m) /\ (Firm(s, j) \/ \A t \in segs : t <= s)
    BY <1>1 DEF Held
  <2>2. QED
    BY <1>3, <1>4, <2>1
<1>6. Gapless'
  <2> SUFFICES ASSUME NEW p \in snapMaybe', NEW s \in Names', NEW i \in 1..Len(file'[s].recs),
                      NEW m \in (p.seq + 1)..file'[s].recs[i].seq
               PROVE  \/ \E j \in 1..i : file'[s].recs[j].seq = m
                      \/ \E t \in segs', j \in 1..MaxSeq : t < s /\ In(t, j, m)' /\ Firm(t, j)'
    BY DEF Gapless
  <2>1. s \in Names /\ s \in Segs /\ file'[s].recs = file[s].recs /\ p \in snapMaybe
    BY <1>1
  <2>2. \/ \E j \in 1..i : file[s].recs[j].seq = m
        \/ \E t \in segs, j \in 1..MaxSeq : t < s /\ In(t, j, m) /\ Firm(t, j)
    BY <1>1, <2>1 DEF Gapless
  <2>3. CASE \E t \in segs, j \in 1..MaxSeq : t < s /\ In(t, j, m) /\ Firm(t, j)
    BY <1>3, <1>4, <2>3
  <2>4. CASE \E j \in 1..i : file[s].recs[j].seq = m
    BY <2>1, <2>4
  <2>5. QED
    BY <2>2, <2>3, <2>4
<1>7. AckedFirm'
  <2> SUFFICES ASSUME NEW p \in snapMaybe', NEW m \in (p.seq + 1)..acked'
               PROVE  \E s \in segs', j \in 1..MaxSeq : In(s, j, m)' /\ Firm(s, j)'
    BY DEF AckedFirm
  <2>1. CASE acked' = acked
    <3>1. PICK s \in segs, j \in 1..MaxSeq : In(s, j, m) /\ Firm(s, j)
      BY <1>1, <2>1 DEF AckedFirm
    <3>2. QED
      BY <1>3, <1>4, <3>1
  <2>2. CASE acked' # acked
    <3>1. PICK s \in segs, j \in 1..MaxSeq : In(s, j, m) /\ Firm(s, j)'
      BY <2>2
    <3>2. QED
      BY <1>3, <3>1
  <2>3. QED
    BY <2>1, <2>2
<1>8. acked' <= r
  BY <1>1, Constants
<1>9. QED
  BY <1>2, <1>5, <1>6, <1>7, <1>8 DEF Log

\* What only the last segment can lose
LEMMA FirmOrLast ==
  ASSUME TypeOK, NEW r, Held(r), NEW c \in segs, \A t \in segs : t <= c
  PROVE  \A p \in snapMaybe : \A m \in (p.seq + 1)..r :
            \E s \in segs, j \in 1..MaxSeq : In(s, j, m) /\ (Firm(s, j) \/ s = c)
<1> SUFFICES ASSUME NEW p \in snapMaybe, NEW m \in (p.seq + 1)..r
             PROVE  \E s \in segs, j \in 1..MaxSeq : In(s, j, m) /\ (Firm(s, j) \/ s = c)
  OBVIOUS
<1>1. PICK s \in segs, j \in 1..MaxSeq : In(s, j, m) /\ (Firm(s, j) \/ \A t \in segs : t <= s)
  BY DEF Held
<1>2. CASE \A t \in segs : t <= s
  <2>1. s <= c /\ c <= s /\ s \in Nat /\ c \in Nat
    BY <1>2, Constants DEF TypeOK
  <2>2. QED
    BY <1>1, <2>1
<1>3. QED
  BY <1>1, <1>2

\* A new segment behind segments in which nothing can get lost
LEMMA NewSegmentLog ==
  ASSUME TypeOK, Counted, NEW r \in 0..MaxSeq, Log(r), NEW n \in Segs, \A s \in segs : s < n,
         segs' = segs \cup {n}, segsD \subseteq segsD', segsD' \subseteq Names,
         snapMaybe' = snapMaybe, acked' = acked,
         file'[n] = NewFile, \A s \in Segs : s # n => file'[s].recs = file[s].recs,
         \A s \in segs : file'[s].synced >= file[s].synced /\ file'[s].synced \in Nat,
         \A p \in snapMaybe : \A m \in (p.seq + 1)..r :
            \E s \in segs, j \in 1..MaxSeq : In(s, j, m) /\ Firm(s, j)',
         Tidy'
  PROVE  Log(r)'
<1>1. /\ Names' \subseteq Names \cup {n} /\ Names \subseteq Segs /\ segs \subseteq Segs
      /\ Bounded(r) /\ Held(r) /\ Gapless /\ AckedFirm /\ acked <= r
  BY DEF Names, Log, TypeOK
<1>2. file'[n].recs = <<>> /\ Len(file'[n].recs) = 0
  BY DEF NewFile
<1>3. Older /\ Bounded(r)'
  <2>1. Older
    <3> SUFFICES ASSUME NEW s \in Names', NEW i \in 1..Len(file'[s].recs)
                 PROVE  s \in Names /\ i \in 1..Len(file[s].recs) /\ file'[s].recs[i] = file[s].recs[i]
      BY DEF Older
    <3>1. s # n
      BY <1>2
    <3>2. s \in Names /\ s \in Segs
      BY <1>1, <3>1
    <3>3. QED
      BY <3>1, <3>2
  <2>2. QED
    BY <1>1, <2>1, OlderBounded
<1>4. \A s \in segs : s # n
  BY <1>1, Constants
<1>5. \A s, j, m : In(s, j, m) => In(s, j, m)'
  BY <1>1, <1>4 DEF In
<1>6. ASSUME NEW s \in segs, NEW j \in 1..MaxSeq, Firm(s, j) PROVE Firm(s, j)'
  <2>1. s \in Segs /\ s \in segsD /\ j <= file[s].synced
    BY <1>1, <1>6 DEF Firm
  <2>2. file[s].synced \in Nat /\ j \in Nat
    BY <2>1, SyncedNat, Constants
  <2>3. s \in segsD' /\ j <= file'[s].synced
    BY <2>1, <2>2
  <2>4. QED
    BY <2>3 DEF Firm
<1>7. Held(r)'
  <2> SUFFICES ASSUME NEW p \in snapMaybe', NEW m \in (p.seq + 1)..r
               PROVE  \E s \in segs', j \in 1..MaxSeq :
                         In(s, j, m)' /\ (Firm(s, j)' \/ \A t \in segs' : t <= s)
    BY DEF Held
  <2>1. PICK s \in segs, j \in 1..MaxSeq : In(s, j, m) /\ Firm(s, j)'
    OBVIOUS
  <2>2. QED
    BY <1>5, <2>1
<1>8. Gapless'
  <2> SUFFICES ASSUME NEW p \in snapMaybe', NEW s \in Names', NEW i \in 1..Len(file'[s].recs),
                      NEW m \in (p.seq + 1)..file'[s].recs[i].seq
               PROVE  \/ \E j \in 1..i : file'[s].recs[j].seq = m
                      \/ \E t \in segs', j \in 1..MaxSeq : t < s /\ In(t, j, m)' /\ Firm(t, j)'
    BY DEF Gapless
  <2>1. s # n
    BY <1>2
  <2>2. s \in Names /\ s \in Segs /\ file'[s].recs = file[s].recs /\ p \in snapMaybe
    BY <1>1, <2>1
  <2>3. \/ \E j \in 1..i : file[s].recs[j].seq = m
        \/ \E t \in segs, j \in 1..MaxSeq : t < s /\ In(t, j, m) /\ Firm(t, j)
    BY <1>1, <2>2 DEF Gapless
  <2>4. CASE \E t \in segs, j \in 1..MaxSeq : t < s /\ In(t, j, m) /\ Firm(t, j)
    BY <1>5, <1>6, <2>4
  <2>5. CASE \E j \in 1..i : file[s].recs[j].seq = m
    BY <2>2, <2>5
  <2>6. QED
    BY <2>3, <2>4, <2>5
<1>9. AckedFirm'
  <2> SUFFICES ASSUME NEW p \in snapMaybe', NEW m \in (p.seq + 1)..acked
               PROVE  \E s \in segs', j \in 1..MaxSeq : In(s, j, m)' /\ Firm(s, j)'
    BY DEF AckedFirm
  <2>1. PICK s \in segs, j \in 1..MaxSeq : In(s, j, m) /\ Firm(s, j)
    BY <1>1 DEF AckedFirm
  <2>2. QED
    BY <1>5, <1>6, <2>1
<1>10. QED
  BY <1>1, <1>3, <1>7, <1>8, <1>9 DEF Log

\* A snapshot that cannot be lost and has everything
LEMMA CoveredLog ==
  ASSUME TypeOK, TypeOK', Counted', NEW r \in 0..MaxSeq, Log(r), Older,
         snapMaybe' = {snap'}, snap'.seq = r, acked' \in Nat, acked' <= r, Tidy'
  PROVE  Log(r)'
<1>1. r \in Nat /\ Bounded(r) /\ Names' \subseteq Segs
  BY Constants DEF Log, TypeOK, Names
<1>2. Bounded(r)'
  <2>1. \A s \in Names' : \A i \in 1..Len(file'[s].recs) : file'[s].recs[i].seq <= r
    BY <1>1 DEF Bounded, Older
  <2>2. \A p \in snapMaybe' : p.seq <= r
    BY <1>1
  <2>3. QED
    BY <2>1, <2>2 DEF Bounded
<1>3. \A p \in snapMaybe' : p.seq = r
  OBVIOUS
<1>4. \A m : m \notin (r + 1)..r /\ m \notin (r + 1)..acked'
  BY <1>1
<1>5. Held(r)'
  BY <1>3, <1>4 DEF Held
<1>6. AckedFirm'
  BY <1>3, <1>4 DEF AckedFirm
<1>7. Gapless'
  <2> SUFFICES ASSUME NEW p \in snapMaybe', NEW s \in Names', NEW i \in 1..Len(file'[s].recs),
                      NEW m \in (p.seq + 1)..file'[s].recs[i].seq
               PROVE  FALSE
    BY DEF Gapless
  <2>1. PICK q \in Seq(Rec) : q = file'[s].recs
    BY <1>1 DEF TypeOK, FileType
  <2>2. q[i] \in Rec
    BY <2>1, ElementOfSeq
  <2>3. q[i].seq \in Nat /\ q[i].seq <= r
    BY <1>2, <2>1, <2>2, Constants DEF Rec, Bounded
  <2>4. QED
    BY <1>1, <1>3, <2>1, <2>3
<1>8. QED
  BY <1>2, <1>5, <1>6, <1>7 DEF Log

\* One more record in the last segment
LEMMA WriteLog ==
  ASSUME TypeOK, Counted, NEW r \in 0..MaxSeq, Log(r), r < MaxSeq, NEW c \in segs, \A s \in segs : s <= c,
         Len(file[c].recs) <= r, NEW x \in Rec, x.seq = r + 1,
         file'[c].recs = Append(file[c].recs, x), file'[c].synced = file[c].synced,
         \A s \in Segs : s # c => file'[s] = file[s],
         segs' = segs, segsD' = segsD, snapMaybe' = snapMaybe, acked' = acked, Tidy'
  PROVE  Log(r + 1)'
<1>1. /\ Names' = Names /\ Names \subseteq Segs /\ segs \subseteq Segs /\ c \in Names /\ c \in Segs
      /\ Bounded(r) /\ Held(r) /\ Gapless /\ AckedFirm /\ acked <= r
      /\ r \in Nat /\ MaxSeq \in Nat /\ acked \in Nat
  BY Constants DEF Names, Log, TypeOK
<1>2. PICK q \in Seq(Rec) : q = file[c].recs
  BY <1>1, FileIs
<1>3. PICK q2 : q2 = file'[c].recs
  OBVIOUS
<1>4. PICK n \in Nat : n = Len(q)
  BY <1>2, LenProperties
<1>5. Len(q2) = n + 1 /\ q2[n + 1] = x /\ \A i \in 1..n : q2[i] = q[i]
  BY <1>2, <1>3, <1>4, AppendIs
<1>6. n + 1 \in 1..MaxSeq
  BY <1>1, <1>2, <1>4
<1>7. \A s, j, m : In(s, j, m) => In(s, j, m)'
  <2> SUFFICES ASSUME NEW s, NEW j, NEW m, In(s, j, m) PROVE In(s, j, m)'
    OBVIOUS
  <2>1. s \in segs /\ s \in Segs /\ j \in 1..Len(file[s].recs) /\ file[s].recs[j].seq = m
    BY <1>1 DEF In
  <2>2. CASE s = c
    <3>1. j \in 1..n /\ q[j].seq = m
      BY <1>2, <1>4, <2>1, <2>2
    <3>2. j \in 1..(n + 1)
      BY <3>1
    <3>3. j \in 1..Len(q2) /\ q2[j].seq = m
      BY <1>5, <3>1, <3>2
    <3>4. QED
      BY <1>3, <2>1, <2>2, <3>3 DEF In
  <2>3. CASE s # c
    BY <2>1, <2>3 DEF In
  <2>4. QED
    BY <2>2, <2>3
<1>8. \A s \in segs, j \in 1..MaxSeq : Firm(s, j) => Firm(s, j)'
  BY <1>1 DEF Firm
<1>9. In(c, n + 1, r + 1)'
  <2>1. n + 1 \in 1..Len(q2) /\ q2[n + 1].seq = r + 1
    BY <1>5
  <2>2. QED
    BY <1>3, <2>1 DEF In
<1>10. Bounded(r + 1)'
  <2>1. \A p \in snapMaybe' : p.seq <= r + 1
    BY <1>1, NamesAre DEF Bounded
  <2>2. ASSUME NEW s \in Names', NEW i \in 1..Len(file'[s].recs)
        PROVE  file'[s].recs[i].seq <= r + 1
    <3>1. CASE s = c
      <4>1. i \in 1..(n + 1) /\ (i = n + 1 \/ i \in 1..n)
        BY <1>3, <1>5, <2>2, <3>1
      <4>2. \A k \in 1..n : q[k].seq \in Nat /\ q[k].seq <= r
        BY <1>1, <1>2, <1>4, NamesAre
      <4>3. q2[i].seq <= r + 1
        BY <1>1, <1>5, <4>1, <4>2
      <4>4. QED
        BY <1>3, <3>1, <4>3
    <3>2. CASE s # c
      <4>1. s \in Names /\ file'[s] = file[s]
        BY <1>1, <3>2
      <4>2. PICK y : y = file[s].recs[i].seq
        OBVIOUS
      <4>3. y \in Nat /\ y <= r
        BY <2>2, <4>1, <4>2, NamesAre
      <4>4. QED
        BY <1>1, <4>1, <4>2, <4>3
    <3>3. QED
      BY <3>1, <3>2
  <2>3. QED
    BY <2>1, <2>2 DEF Bounded
<1>11. Held(r + 1)'
  <2> SUFFICES ASSUME NEW p \in snapMaybe', NEW m \in (p.seq + 1)..(r + 1)
               PROVE  \E s \in segs', j \in 1..MaxSeq :
                         In(s, j, m)' /\ (Firm(s, j)' \/ \A t \in segs' : t <= s)
    BY DEF Held
  <2>1. p \in snapMaybe /\ p.seq \in Nat
    BY NamesAre
  <2>2. CASE m = r + 1
    BY <1>6, <1>9, <2>2
  <2>3. CASE m # r + 1
    <3>1. m \in (p.seq + 1)..r
      BY <1>1, <2>1, <2>3
    <3>2. PICK s \in segs, j \in 1..MaxSeq : In(s, j, m) /\ (Firm(s, j) \/ \A t \in segs : t <= s)
      BY <1>1, <2>1, <3>1 DEF Held
    <3>3. QED
      BY <1>7, <1>8, <3>2
  <2>4. QED
    BY <2>2, <2>3
<1>12. Gapless'
  <2> SUFFICES ASSUME NEW p \in snapMaybe', NEW s \in Names', NEW i \in 1..Len(file'[s].recs),
                      NEW m \in (p.seq + 1)..file'[s].recs[i].seq
               PROVE  \/ \E j \in 1..i : file'[s].recs[j].seq = m
                      \/ \E t \in segs', j \in 1..MaxSeq : t < s /\ In(t, j, m)' /\ Firm(t, j)'
    BY DEF Gapless
  <2>1. p \in snapMaybe /\ p.seq \in Nat /\ s \in Names /\ s \in Segs
    BY <1>1, NamesAre
  <2>2. CASE s = c /\ i = n + 1
    <3>1. m \in (p.seq + 1)..(r + 1)
      BY <1>3, <1>5, <2>2
    <3>2. CASE m = r + 1
      <4>1. i \in 1..i /\ q2[i].seq = m
        BY <1>5, <2>2, <3>2
      <4>2. QED
        BY <1>3, <2>2, <4>1
    <3>3. CASE m # r + 1
      <4>1. m \in (p.seq + 1)..r
        BY <1>1, <2>1, <3>1, <3>3
      <4>2. PICK t \in segs, j \in 1..MaxSeq : In(t, j, m) /\ (Firm(t, j) \/ t = c)
        <5>1. \A u \in snapMaybe : \A k \in (u.seq + 1)..r :
                 \E t \in segs, j \in 1..MaxSeq : In(t, j, k) /\ (Firm(t, j) \/ t = c)
          BY <1>1, FirmOrLast
        <5>2. QED
          BY <2>1, <4>1, <5>1
      <4>3. CASE t = c
        <5>1. j \in 1..n /\ q[j].seq = m
          BY <1>2, <1>4, <4>2, <4>3 DEF In
        <5>2. j \in 1..i /\ q2[j].seq = m
          BY <1>5, <2>2, <5>1
        <5>3. QED
          BY <1>3, <2>2, <5>2
      <4>4. CASE t # c
        <5>1. t < s
          <6>1. t \in Nat /\ c \in Nat /\ t <= c
            BY <1>1, Constants
          <6>2. QED
            BY <2>2, <4>4, <6>1
        <5>2. QED
          BY <1>7, <1>8, <4>2, <4>4, <5>1
      <4>5. QED
        BY <4>3, <4>4
    <3>4. QED
      BY <3>2, <3>3
  <2>3. CASE ~(s = c /\ i = n + 1)
    <3>1. /\ i \in 1..Len(file[s].recs) /\ \A j \in 1..i : file'[s].recs[j] = file[s].recs[j]
      <4>1. CASE s = c
        <5>1. i \in 1..(n + 1) /\ i # n + 1
          BY <1>3, <1>5, <2>3, <4>1
        <5>2. i \in 1..n /\ \A j \in 1..i : j \in 1..n
          BY <5>1
        <5>3. QED
          BY <1>2, <1>3, <1>4, <1>5, <4>1, <5>2
      <4>2. CASE s # c
        BY <2>1, <4>2
      <4>3. QED
        BY <4>1, <4>2
    <3>2. i \in 1..i
      BY <3>1
    <3>3. m \in (p.seq + 1)..file[s].recs[i].seq
      BY <3>1, <3>2
    <3>4. \/ \E j \in 1..i : file[s].recs[j].seq = m
          \/ \E t \in segs, j \in 1..MaxSeq : t < s /\ In(t, j, m) /\ Firm(t, j)
      BY <1>1, <2>1, <3>1, <3>3 DEF Gapless
    <3>5. CASE \E j \in 1..i : file[s].recs[j].seq = m
      BY <3>1, <3>5
    <3>6. CASE \E t \in segs, j \in 1..MaxSeq : t < s /\ In(t, j, m) /\ Firm(t, j)
      BY <1>7, <1>8, <3>6
    <3>7. QED
      BY <3>4, <3>5, <3>6
  <2>4. QED
    BY <2>2, <2>3
<1>13. AckedFirm'
  <2> SUFFICES ASSUME NEW p \in snapMaybe', NEW m \in (p.seq + 1)..acked
               PROVE  \E s \in segs', j \in 1..MaxSeq : In(s, j, m)' /\ Firm(s, j)'
    BY DEF AckedFirm
  <2>1. PICK s \in segs, j \in 1..MaxSeq : In(s, j, m) /\ Firm(s, j)
    BY <1>1 DEF AckedFirm
  <2>2. QED
    BY <1>7, <1>8, <2>1
<1>14. acked' <= r + 1
  BY <1>1
<1>15. QED
  BY <1>10, <1>11, <1>12, <1>13, <1>14 DEF Log

\* A snapshot of everything, which a power loss may still take
LEMMA SnapshotLog ==
  ASSUME TypeOK, Counted, NEW r \in 0..MaxSeq, Log(r), NEW q, q.seq = r, snapMaybe' = snapMaybe \cup {q},
         file' = file, segs' = segs, segsD' = segsD, acked' = acked
  PROVE  Log(r)'
<1>1. /\ Names' = Names /\ Bounded(r) /\ Held(r) /\ Gapless /\ AckedFirm /\ acked <= r /\ Tidy
      /\ r \in Nat /\ acked \in Nat
  BY NamesAre DEF Names, Log
<1>2. Bounded(r)'
  BY <1>1 DEF Bounded
<1>3. \A m : m \notin (r + 1)..r /\ m \notin (r + 1)..acked
  BY <1>1
<1>4. /\ \A s, j, m : In(s, j, m)' <=> In(s, j, m)
      /\ \A s, j : Firm(s, j)' <=> Firm(s, j)
  BY DEF In, Firm
<1>5. Held(r)'
  <2> SUFFICES ASSUME NEW p \in snapMaybe', NEW m \in (p.seq + 1)..r
               PROVE  \E s \in segs', j \in 1..MaxSeq :
                         In(s, j, m)' /\ (Firm(s, j)' \/ \A t \in segs' : t <= s)
    BY DEF Held
  <2>1. p \in snapMaybe
    BY <1>3
  <2>2. QED
    BY <1>1, <1>4, <2>1 DEF Held
<1>6. Gapless'
  <2> SUFFICES ASSUME NEW p \in snapMaybe', NEW s \in Names', NEW i \in 1..Len(file'[s].recs),
                      NEW m \in (p.seq + 1)..file'[s].recs[i].seq
               PROVE  \/ \E j \in 1..i : file'[s].recs[j].seq = m
                      \/ \E t \in segs', j \in 1..MaxSeq : t < s /\ In(t, j, m)' /\ Firm(t, j)'
    BY DEF Gapless
  <2>1. CASE p \in snapMaybe
    BY <1>1, <1>4, <2>1 DEF Gapless
  <2>2. CASE p.seq = r
    <3>1. PICK y : y = file[s].recs[i].seq
      OBVIOUS
    <3>2. y \in Nat /\ y <= r
      BY <1>1, <3>1, NamesAre
    <3>3. m \in (r + 1)..y
      BY <2>2, <3>1
    <3>4. QED
      BY <1>1, <3>2, <3>3
  <2>3. QED
    BY <2>1, <2>2
<1>7. AckedFirm'
  <2> SUFFICES ASSUME NEW p \in snapMaybe', NEW m \in (p.seq + 1)..acked
               PROVE  \E s \in segs', j \in 1..MaxSeq : In(s, j, m)' /\ Firm(s, j)'
    BY DEF AckedFirm
  <2>1. p \in snapMaybe
    BY <1>3
  <2>2. QED
    BY <1>1, <1>4, <2>1 DEF AckedFirm
<1>8. Tidy'
  BY <1>1 DEF Tidy
<1>9. QED
  BY <1>1, <1>2, <1>5, <1>6, <1>7, <1>8 DEF Log

\* A power loss leaves a log that ends at some r2.
LEMMA PowerLossLog ==
  ASSUME Types, Types', PowerLoss, NEW r \in 0..MaxSeq, Log(r)
  PROVE  Older /\ \E r2 \in 0..r : Log(r2)'
<1>0. TypeOK /\ Counted /\ TypeOK' /\ Counted'
  BY DEF Types
<1>1. /\ segs \cap segsD \subseteq segs' /\ segs' \subseteq Names /\ segsD' = segs'
      /\ segs' \subseteq Segs
      /\ \A s \in segs' : file'[s] \in Left(file[s])
      /\ \A s \in Segs : s \notin segs' => file'[s] = NewFile
  BY <1>0, PowerLossIs
<1>2. /\ Names' = segs' /\ Names \subseteq Segs /\ segs \subseteq Segs /\ segs \subseteq Names
      /\ Bounded(r) /\ Gapless /\ AckedFirm /\ acked <= r /\ Tidy
      /\ r \in Nat /\ MaxSeq \in Nat /\ acked \in Nat /\ acked' = acked
  BY <1>0, <1>1, NamesAre DEF Names, Log, PowerLoss
<1>3. /\ snap' \in snapMaybe /\ snapMaybe' = {snap'} /\ snap'.seq \in Nat /\ snap'.seq <= r
  BY <1>0, NamesAre DEF PowerLoss
<1>4. \A s \in segs' : /\ Len(file'[s].recs) \in file[s].synced..Len(file[s].recs)
                       /\ file'[s].synced = Len(file'[s].recs)
                       /\ \A i \in 1..Len(file'[s].recs) : file'[s].recs[i] = file[s].recs[i]
                       /\ file'[s].tail \in {"none", "cut"} /\ file'[s].tailD = file'[s].tail
  <2> SUFFICES ASSUME NEW s \in segs'
               PROVE  /\ Len(file'[s].recs) \in file[s].synced..Len(file[s].recs)
                      /\ file'[s].synced = Len(file'[s].recs)
                      /\ \A i \in 1..Len(file'[s].recs) : file'[s].recs[i] = file[s].recs[i]
                      /\ file'[s].tail \in {"none", "cut"} /\ file'[s].tailD = file'[s].tail
    OBVIOUS
  <2>1. s \in Segs /\ file[s].tail \in {"none", "cut"} /\ file[s].tailD \in {"none", "cut"}
    BY <1>1, <1>2 DEF Tidy
  <2>2. PICK g \in Left(file[s]) : g = file'[s]
    BY <1>1
  <2>3. /\ g.synced = Len(g.recs) /\ g.tailD = g.tail
        /\ Len(g.recs) \in file[s].synced..Len(file[s].recs)
        /\ \A i \in 1..Len(g.recs) : g.recs[i] = file[s].recs[i]
        /\ g.tail \in {"none", "cut"}
    BY <1>0, <2>1, LeftIs
  <2>4. QED
    BY <2>2, <2>3
<1>5. \A s \in segs' : \A i \in 1..Len(file'[s].recs) :
         /\ s \in Names /\ i \in 1..Len(file[s].recs) /\ i \in 1..MaxSeq
         /\ file'[s].recs[i] = file[s].recs[i]
         /\ file'[s].recs[i].seq \in Nat /\ file'[s].recs[i].seq <= r
  <2> SUFFICES ASSUME NEW s \in segs', NEW i \in 1..Len(file'[s].recs)
               PROVE  /\ s \in Names /\ i \in 1..Len(file[s].recs) /\ i \in 1..MaxSeq
                      /\ file'[s].recs[i] = file[s].recs[i]
                      /\ file'[s].recs[i].seq \in Nat /\ file'[s].recs[i].seq <= r
    OBVIOUS
  <2>1. s \in Names /\ s \in Segs /\ file'[s].recs[i] = file[s].recs[i]
    BY <1>1, <1>4
  <2>2. PICK n : n = Len(file[s].recs)
    OBVIOUS
  <2>3. PICK k : k = file[s].synced
    OBVIOUS
  <2>4. n \in 0..MaxSeq /\ k \in 0..n
    BY <1>0, <2>1, <2>2, <2>3, FileIs
  <2>5. PICK l : l = Len(file'[s].recs)
    OBVIOUS
  <2>6. l \in k..n /\ i \in 1..l
    BY <1>4, <2>2, <2>3, <2>5
  <2>7. i \in 1..n /\ i \in 1..MaxSeq
    BY <1>2, <2>4, <2>6
  <2>8. file[s].recs[i].seq \in Nat /\ file[s].recs[i].seq <= r
    BY <1>0, <2>1, <2>2, <2>7, NamesAre
  <2>9. QED
    BY <2>1, <2>2, <2>7, <2>8
<1>6. Older
  BY <1>2, <1>5 DEF Older
<1>7. \A s \in segs', j \in 1..MaxSeq : \A m :
         j \in 1..Len(file'[s].recs) /\ file'[s].recs[j].seq = m => In(s, j, m)' /\ Firm(s, j)'
  <2> SUFFICES ASSUME NEW s \in segs', NEW j \in 1..MaxSeq, NEW m,
                      j \in 1..Len(file'[s].recs), file'[s].recs[j].seq = m
               PROVE  In(s, j, m)' /\ Firm(s, j)'
    OBVIOUS
  <2>1. PICK l : l = Len(file'[s].recs)
    OBVIOUS
  <2>2. l = file'[s].synced
    BY <1>4, <2>1
  <2>3. l \in Nat
    BY <1>0, <1>1, <2>2, Constants DEF TypeOK, FileType
  <2>4. j <= l
    BY <2>1, <2>3
  <2>5. QED
    BY <1>1, <2>2, <2>4 DEF In, Firm
<1>8. \A t \in segs, j \in 1..MaxSeq : \A m : In(t, j, m) /\ Firm(t, j) =>
         t \in segs' /\ In(t, j, m)' /\ Firm(t, j)'
  <2> SUFFICES ASSUME NEW t \in segs, NEW j \in 1..MaxSeq, NEW m, In(t, j, m), Firm(t, j)
               PROVE  t \in segs' /\ In(t, j, m)' /\ Firm(t, j)'
    OBVIOUS
  <2>1. t \in segs' /\ t \in Segs /\ j <= file[t].synced /\ file[t].recs[j].seq = m
    BY <1>1 DEF In, Firm
  <2>2. PICK k : k = file[t].synced
    OBVIOUS
  <2>3. PICK l : l = Len(file'[t].recs)
    OBVIOUS
  <2>4. k \in Nat
    BY <1>0, <2>1, <2>2, SyncedNat
  <2>5. l \in k..Len(file[t].recs)
    BY <1>4, <2>1, <2>2, <2>3
  <2>6. Len(file[t].recs) \in Nat
    BY <1>0, <2>1, FileIs
  <2>7. j \in 1..l
    BY <1>2, <2>1, <2>2, <2>4, <2>5, <2>6
  <2>8. file'[t].recs[j].seq = m
    BY <1>4, <2>1, <2>3, <2>7
  <2>9. QED
    BY <1>7, <2>1, <2>3, <2>7, <2>8
<1> DEFINE D == {snap'.seq} \cup {n \in 0..r : \E s \in segs' : \E i \in 1..Len(file'[s].recs) :
                                                  n = file'[s].recs[i].seq}
<1>9. PICK r2 \in D : \A n \in D : n <= r2
  <2>1. D \subseteq 0..r /\ D # {}
    BY <1>2, <1>3
  <2>2. QED
    BY ONLY <1>2, <2>1, LastExists
<1>10. r2 \in 0..r /\ r2 \in Nat /\ snap'.seq <= r2
  BY <1>2, <1>3, <1>9
<1>11. \A s \in segs' : \A i \in 1..Len(file'[s].recs) : file'[s].recs[i].seq <= r2
  <2> SUFFICES ASSUME NEW s \in segs', NEW i \in 1..Len(file'[s].recs) PROVE file'[s].recs[i].seq <= r2
    OBVIOUS
  <2>1. PICK n : n = file'[s].recs[i].seq
    OBVIOUS
  <2>2. n \in 0..r
    BY <1>2, <1>5, <2>1
  <2>3. n \in D
    BY <2>1, <2>2
  <2>4. QED
    BY <1>9, <2>1, <2>3
<1>12. Bounded(r2)'
  BY <1>2, <1>3, <1>10, <1>11 DEF Bounded
<1>13. ASSUME NEW s \in segs', NEW i \in 1..Len(file'[s].recs),
              NEW m \in (snap'.seq + 1)..file'[s].recs[i].seq
       PROVE  \/ \E j \in 1..i : file'[s].recs[j].seq = m /\ In(s, j, m)' /\ Firm(s, j)' /\ j \in 1..MaxSeq
              \/ \E t \in segs', j \in 1..MaxSeq : t < s /\ In(t, j, m)' /\ Firm(t, j)'
  <2>1. s \in Names /\ i \in 1..Len(file[s].recs) /\ file'[s].recs[i] = file[s].recs[i]
    BY <1>5
  <2>2. m \in (snap'.seq + 1)..file[s].recs[i].seq
    BY <2>1
  <2>3. \/ \E j \in 1..i : file[s].recs[j].seq = m
        \/ \E t \in segs, j \in 1..MaxSeq : t < s /\ In(t, j, m) /\ Firm(t, j)
    BY <1>2, <1>3, <2>1, <2>2 DEF Gapless
  <2>4. CASE \E j \in 1..i : file[s].recs[j].seq = m
    <3>1. PICK j \in 1..i : file[s].recs[j].seq = m
      BY <2>4
    <3>2. j \in 1..Len(file'[s].recs)
      <4>1. PICK l : l = Len(file'[s].recs)
        OBVIOUS
      <4>2. i \in 1..l /\ j \in 1..i
        BY <3>1, <4>1
      <4>3. l \in Nat
        BY <1>0, <1>1, <1>4, <4>1, Constants DEF TypeOK, FileType
      <4>4. QED
        BY <4>1, <4>2, <4>3
    <3>3. file'[s].recs[j].seq = m /\ j \in 1..MaxSeq
      BY <1>5, <3>1, <3>2
    <3>4. QED
      BY <1>7, <3>1, <3>2, <3>3
  <2>5. CASE \E t \in segs, j \in 1..MaxSeq : t < s /\ In(t, j, m) /\ Firm(t, j)
    BY <1>8, <2>5
  <2>6. QED
    BY <2>3, <2>4, <2>5
<1>14. Held(r2)'
  <2> SUFFICES ASSUME NEW p \in snapMaybe', NEW m \in (p.seq + 1)..r2
               PROVE  \E s \in segs', j \in 1..MaxSeq :
                         In(s, j, m)' /\ (Firm(s, j)' \/ \A t \in segs' : t <= s)
    BY DEF Held
  <2>1. m \in (snap'.seq + 1)..r2 /\ r2 # snap'.seq
    BY <1>3, <1>10
  <2>2. PICK s \in segs' : \E i \in 1..Len(file'[s].recs) : r2 = file'[s].recs[i].seq
    BY <1>9, <2>1
  <2>3. PICK i \in 1..Len(file'[s].recs) : r2 = file'[s].recs[i].seq
    BY <2>2
  <2>4. QED
    BY <1>13, <2>1, <2>3
<1>15. Gapless'
  BY <1>2, <1>3, <1>13 DEF Gapless
<1>16. AckedFirm'
  <2> SUFFICES ASSUME NEW p \in snapMaybe', NEW m \in (p.seq + 1)..acked
               PROVE  \E s \in segs', j \in 1..MaxSeq : In(s, j, m)' /\ Firm(s, j)'
    BY <1>2 DEF AckedFirm
  <2>1. PICK s \in segs, j \in 1..MaxSeq : In(s, j, m) /\ Firm(s, j)
    BY <1>2, <1>3 DEF AckedFirm
  <2>2. QED
    BY <1>8, <2>1
<1>17. acked' <= r2
  <2>1. CASE acked <= snap'.seq
    BY <1>2, <1>3, <1>10, <2>1
  <2>2. CASE acked > snap'.seq
    <3>1. acked \in (snap'.seq + 1)..acked
      BY <1>2, <1>3, <2>2
    <3>2. PICK a : a = acked /\ a = acked'
      BY <1>2
    <3>3. \A p \in snapMaybe' : \A m \in (p.seq + 1)..a :
             \E s \in segs', j \in 1..MaxSeq : In(s, j, m)'
      BY <1>16, <3>2 DEF AckedFirm
    <3>4. PICK s \in segs', j \in 1..MaxSeq : In(s, j, a)'
      BY <1>3, <3>1, <3>2, <3>3
    <3>5. j \in 1..Len(file'[s].recs) /\ file'[s].recs[j].seq = a
      BY <3>4 DEF In
    <3>6. QED
      BY <1>2, <1>11, <3>2, <3>5
  <2>3. QED
    BY <1>2, <1>3, <2>1, <2>2
<1>18. Tidy'
  <2> SUFFICES ASSUME NEW s \in Segs
               PROVE  file'[s].tail \in {"none", "cut"} /\ file'[s].tailD \in {"none", "cut"}
    BY DEF Tidy
  <2>1. CASE s \in segs'
    BY <1>4, <2>1
  <2>2. CASE s \notin segs'
    BY <1>1, <2>2 DEF NewFile
  <2>3. QED
    BY <2>1, <2>2
<1>19. Log(r2)'
  BY <1>12, <1>14, <1>15, <1>16, <1>17, <1>18 DEF Log
<1>20. QED
  BY <1>6, <1>10, <1>19

-----------------------------------------------------------------------------
(* Every step keeps the log                                                *)

LEMMA OlderRecorded ==
  ASSUME TypeOK, NEW r \in Nat, Recorded(r), Older, hist' = hist, NEW r2 \in Nat, r2 <= r,
         \A p \in snapMaybe' : p \in snapMaybe \/ p.st = StatesOf(hist)[p.seq]
  PROVE  Recorded(r2)'
<1>1. Len(hist) \in Nat
  BY LenProperties DEF TypeOK
<1>2. r2 <= Len(hist') /\ \A i \in 1..Len(hist') : hist'[i].seq = i
  BY <1>1 DEF Recorded
<1>3. \A p \in snapMaybe' : p.st = StatesOf(hist')[p.seq]
  BY DEF Recorded
<1>4. ASSUME NEW s \in Names', NEW i \in 1..Len(file'[s].recs)
      PROVE  file'[s].recs[i] = hist'[file'[s].recs[i].seq]
  <2>1. s \in Names /\ i \in 1..Len(file[s].recs) /\ file'[s].recs[i] = file[s].recs[i]
    BY <1>4 DEF Older
  <2>2. file[s].recs[i] = hist[file[s].recs[i].seq]
    BY <2>1 DEF Recorded
  <2>3. QED
    BY <2>1, <2>2
<1>5. QED
  BY <1>2, <1>3, <1>4 DEF Recorded

LEMMA SameLog ==
  ASSUME Types, NEW r \in 0..MaxSeq, Log(r), file' = file, segs' = segs, segsD' = segsD,
         snapMaybe' = snapMaybe, acked' = acked
  PROVE  Log(r)' /\ Older
<1>1. TypeOK /\ Counted /\ Tidy' /\ Names \subseteq Segs /\ segsD' \subseteq Names
  BY DEF Types, Log, Tidy, Names, TypeOK
<1>2. \A s \in segs \cap segsD : s \in segsD' /\ file'[s].synced >= file[s].synced /\ file'[s].synced \in Nat
  <2> SUFFICES ASSUME NEW s \in segs \cap segsD PROVE file'[s].synced >= file[s].synced /\ file'[s].synced \in Nat
    OBVIOUS
  <2>1. file[s].synced \in Nat
    BY <1>1, SyncedNat DEF Names
  <2>2. QED
    BY <2>1
<1>3. Log(r)'
  BY <1>1, <1>2, SaferLog
<1>4. QED
  BY <1>3 DEF Older, Names

LEMMA WholeOpen ==
  ASSUME IInv, Clean, pc # "down"
  PROVE  /\ seq \in 0..MaxSeq /\ Whole(seq) /\ Log(seq) /\ Settled /\ Snapshot
         /\ faults = {} => Recorded(seq) /\ Applied
         /\ Types /\ TypeOK /\ Counted /\ Object
         /\ cur \in segs /\ cur \in Segs /\ \A s \in segs : s <= cur
<1>1. PICK r \in 0..MaxSeq : Whole(r)
  BY DEF IInv, Kept
<1>2. r = seq
  BY <1>1 DEF Whole
<1>3. Types /\ TypeOK /\ Counted /\ Object
  BY DEF IInv, Types
<1>4. cur \in segs /\ cur \in Segs /\ \A s \in segs : s <= cur
  BY <1>3 DEF Object, TypeOK
<1>5. QED
  BY <1>1, <1>2, <1>3, <1>4 DEF Whole

LEMMA AppendNoSyncKept ==
  ASSUME IInv, AppendNoSync, Clean'
  PROVE  Kept'
<1>1. /\ pc = "sync" /\ pc' \in {"rotate", "return"} /\ UNCHANGED <<disk, arg, mem, ghosts>>
  BY DEF AppendNoSync, MaybeRotate
<1>2. Clean /\ faults' = faults
  BY <1>1 DEF Clean, ghosts
<1>3. PICK r \in 0..MaxSeq : r = seq /\ Whole(seq)
  BY <1>1, <1>2, WholeOpen
<1>4. Types /\ TypeOK /\ Log(r) /\ Object /\ (faults = {} => Recorded(r) /\ Applied) /\ r \in Nat
  BY <1>1, <1>2, <1>3, WholeOpen, Constants
<1>5. Log(r)' /\ Older
  BY <1>1, <1>4, SameLog DEF disk, ghosts
<1>6. Settled' /\ Snapshot'
  BY <1>1, <1>4 DEF Settled, Snapshot, Object, mem, TypeOK
<1>7. ASSUME faults = {} PROVE Recorded(r)' /\ Applied'
  <2>1. Recorded(r)'
    BY <1>1, <1>4, <1>5, <1>7, OlderRecorded DEF disk, ghosts
  <2>2. Applied'
    BY <1>1, <1>4, <1>7 DEF Applied, Putting, mem, ghosts
  <2>3. QED
    BY <2>1, <2>2
<1>8. Whole(r)'
  BY <1>1, <1>2, <1>3, <1>5, <1>6, <1>7 DEF Whole, mem
<1>9. QED
  BY <1>8 DEF Kept

LEMMA SyncFailsKept ==
  ASSUME IInv, SyncFails, Clean'
  PROVE  Kept'
<1>1. /\ pc # "down" /\ pc' = "idle" /\ faults' = faults \cup {"unapplied"}
      /\ UNCHANGED <<disk, mem, crashes, hist, acked>>
  BY DEF SyncFails
<1>2. Clean /\ faults' # {}
  BY <1>1 DEF Clean
<1>3. PICK r \in 0..MaxSeq : r = seq /\ Whole(seq)
  BY <1>1, <1>2, WholeOpen
<1>4. Types /\ Log(r)
  BY <1>1, <1>2, <1>3, WholeOpen
<1>5. Log(r)'
  BY <1>1, <1>4, SameLog DEF disk
<1>6. Settled' /\ Snapshot'
  BY <1>1 DEF Settled, Snapshot
<1>7. Whole(r)'
  BY <1>1, <1>2, <1>3, <1>5, <1>6 DEF Whole, mem
<1>8. QED
  BY <1>7 DEF Kept

LEMMA CkFailsKept ==
  ASSUME IInv, CkFails, Clean'
  PROVE  Kept'
<1>1. /\ pc \in {"ck_replace", "ck_dirsync", "ck_segment_dirsync", "ck_unlink"} /\ pc' = "idle"
      /\ UNCHANGED <<disk, arg, mem, ghosts>>
  BY DEF CkFails
<1>2. Clean /\ faults' = faults
  BY <1>1 DEF Clean, ghosts
<1>3. PICK r \in 0..MaxSeq : r = seq /\ Whole(seq)
  BY <1>1, <1>2, WholeOpen
<1>4. Types /\ TypeOK /\ Log(r) /\ (faults = {} => Recorded(r) /\ Applied) /\ r \in Nat
  BY <1>1, <1>2, <1>3, WholeOpen, Constants
<1>5. Log(r)' /\ Older
  BY <1>1, <1>4, SameLog DEF disk, ghosts
<1>6. Settled' /\ Snapshot'
  BY <1>1 DEF Settled, Snapshot
<1>7. ASSUME faults = {} PROVE Recorded(r)' /\ Applied'
  <2>1. Recorded(r)'
    BY <1>1, <1>4, <1>5, <1>7, OlderRecorded DEF disk, ghosts
  <2>2. Applied'
    BY <1>1, <1>4, <1>7 DEF Applied, Putting, mem, ghosts
  <2>3. QED
    BY <2>1, <2>2
<1>8. Whole(r)'
  BY <1>1, <1>2, <1>3, <1>5, <1>6, <1>7 DEF Whole, mem
<1>9. QED
  BY <1>8 DEF Kept

LEMMA KillKept ==
  ASSUME IInv, Kill, Clean'
  PROVE  Kept'
<1>1. /\ pc # "down" /\ pc' = "down" /\ UNCHANGED <<disk, hist, acked, faults>>
  BY DEF Kill, Down
<1>2. Clean
  BY <1>1 DEF Clean
<1>3. PICK r \in 0..MaxSeq : r = seq /\ Whole(seq)
  BY <1>1, <1>2, WholeOpen
<1>4. Types /\ TypeOK /\ Log(r) /\ (faults = {} => Recorded(r) /\ Applied) /\ r \in Nat
  BY <1>1, <1>2, <1>3, WholeOpen, Constants
<1>5. Log(r)' /\ Older
  BY <1>1, <1>4, SameLog DEF disk
<1>6. Settled' /\ Snapshot' /\ Applied'
  BY <1>1 DEF Settled, Snapshot, Applied, Putting
<1>7. faults = {} => Recorded(r)'
  BY <1>1, <1>4, <1>5, OlderRecorded DEF disk
<1>8. Whole(r)'
  BY <1>1, <1>5, <1>6, <1>7 DEF Whole
<1>9. QED
  BY <1>8 DEF Kept

\* Behind a cut record a write cannot be clean.
LEMMA KillInAppendKept ==
  ASSUME IInv, KillInAppend, Clean'
  PROVE  Kept'
<1>1. /\ pc = "idle" /\ pc' = "down" /\ UNCHANGED <<segs, segsD, snap, snapMaybe, hist, acked>>
      /\ faults' = IF file[cur].tail = "none" THEN faults ELSE faults \cup {"spliced"}
  BY DEF KillInAppend, Down
<1>2. Clean /\ file[cur].tail = "none" /\ faults' = faults
  BY <1>1 DEF Clean
<1>3. PICK r \in 0..MaxSeq : r = seq /\ Whole(seq)
  BY <1>1, <1>2, WholeOpen
<1>4. /\ Types /\ TypeOK /\ Counted /\ Log(r) /\ (faults = {} => Recorded(r) /\ Applied) /\ r \in Nat
      /\ cur \in Segs
  BY <1>1, <1>2, <1>3, WholeOpen, Constants
<1>5. PICK t \in {"cut"} : file' = [file EXCEPT ![cur].tail = t]
  BY <1>2 DEF KillInAppend, PartAfter
<1>6. /\ \A u \in Segs : file'[u].recs = file[u].recs /\ file'[u].synced = file[u].synced
                         /\ file'[u].tailD = file[u].tailD /\ (u # cur => file'[u].tail = file[u].tail)
      /\ file'[cur].tail = t
  <2>1. t \in Tails
    BY DEF Tails
  <2>2. QED
    BY <1>4, <1>5, <2>1, TailTypes
<1>7. Tidy'
  BY <1>4, <1>6 DEF Tidy, Log
<1>8. Names' = Names /\ Names \subseteq Segs /\ segsD' \subseteq Names
  BY <1>1, <1>4 DEF Names, TypeOK
<1>9. \A s \in segs \cap segsD : s \in segsD' /\ file'[s].synced >= file[s].synced /\ file'[s].synced \in Nat
  <2> SUFFICES ASSUME NEW s \in segs \cap segsD
               PROVE  s \in segsD' /\ file'[s].synced >= file[s].synced /\ file'[s].synced \in Nat
    OBVIOUS
  <2>1. file[s].synced \in Nat /\ file'[s].synced = file[s].synced
    BY <1>4, <1>6, <1>8, SyncedNat DEF Names
  <2>2. QED
    BY <1>1, <2>1
<1>10. \A s \in Segs : file'[s].recs = file[s].recs
  BY <1>6
<1>11. Log(r)'
  BY <1>1, <1>4, <1>7, <1>8, <1>9, <1>10, SaferLog
<1>12. Older
  BY <1>8, <1>10 DEF Older
<1>13. Settled' /\ Snapshot' /\ Applied'
  BY <1>1 DEF Settled, Snapshot, Applied, Putting
<1>14. faults = {} => Recorded(r)'
  BY <1>1, <1>4, <1>12, OlderRecorded
<1>15. Whole(r)'
  BY <1>1, <1>2, <1>11, <1>13, <1>14 DEF Whole
<1>16. QED
  BY <1>15 DEF Kept

\* With the files as they are, what the open object has is safe once its segment is on
\* the medium.
LEMMA PromiseLog ==
  ASSUME Types, NEW r \in 0..MaxSeq, Log(r), NEW c \in segs, \A s \in segs : s <= c,
         file' = file, segs' = segs, segsD' = segsD, snapMaybe' = snapMaybe,
         acked' = acked \/ (acked' = r /\ c \in segsD /\ file[c].synced = Len(file[c].recs))
  PROVE  Log(r)' /\ Older
<1>1. TypeOK /\ Counted /\ Tidy' /\ Held(r) /\ Names \subseteq Segs /\ segsD' \subseteq Names /\ c \in Segs
  BY DEF Types, Log, Tidy, Names, TypeOK
<1>2. \A s \in segs \cap segsD : s \in segsD' /\ file'[s].synced >= file[s].synced /\ file'[s].synced \in Nat
  <2> SUFFICES ASSUME NEW s \in segs \cap segsD PROVE file[s].synced >= file[s].synced /\ file[s].synced \in Nat
    OBVIOUS
  <2>1. file[s].synced \in Nat
    BY <1>1, SyncedNat DEF Names
  <2>2. QED
    BY <2>1
<1>3. ASSUME acked' # acked
      PROVE  \A p \in snapMaybe : \A m \in (p.seq + 1)..r :
                \E s \in segs, j \in 1..MaxSeq : In(s, j, m) /\ Firm(s, j)'
  <2>1. c \in segsD /\ file[c].synced = Len(file[c].recs)
    BY <1>3
  <2>2. \A j \in 1..Len(file[c].recs) : Firm(c, j)
    <3>1. Len(file[c].recs) \in 0..MaxSeq
      BY <1>1, FileIs
    <3>2. QED
      BY <2>1, <3>1, Constants DEF Firm
  <2>3. \A p \in snapMaybe : \A m \in (p.seq + 1)..r :
           \E s \in segs, j \in 1..MaxSeq : In(s, j, m) /\ (Firm(s, j) \/ s = c)
    BY <1>1, FirmOrLast
  <2>4. \A s \in segs, j \in 1..MaxSeq : \A m :
           In(s, j, m) /\ (Firm(s, j) \/ s = c) => In(s, j, m) /\ Firm(s, j)
    BY <2>2 DEF In
  <2>5. \A s, j : Firm(s, j)' <=> Firm(s, j)
    BY DEF Firm
  <2> SUFFICES ASSUME NEW p \in snapMaybe, NEW m \in (p.seq + 1)..r
               PROVE  \E s \in segs, j \in 1..MaxSeq : In(s, j, m) /\ Firm(s, j)'
    OBVIOUS
  <2>6. PICK s \in segs, j \in 1..MaxSeq : In(s, j, m) /\ (Firm(s, j) \/ s = c)
    BY <2>3
  <2>7. In(s, j, m) /\ Firm(s, j)
    BY <2>4, <2>6
  <2>8. QED
    BY <2>5, <2>7
<1>4. Log(r)'
  <2>1. \A s \in Segs : file'[s].recs = file[s].recs
    OBVIOUS
  <2>2. CASE acked' = acked
    BY <1>1, <1>2, <2>1, <2>2, SaferLog
  <2>3. CASE acked' # acked
    <3>1. /\ acked' = r
          /\ \A p \in snapMaybe' : \A m \in (p.seq + 1)..r :
                \E s \in segs, j \in 1..MaxSeq : In(s, j, m) /\ Firm(s, j)'
      BY <1>3, <2>3
    <3>2. QED
      BY <1>1, <1>2, <2>1, <3>1, SaferLog
  <2>4. QED
    BY <2>2, <2>3
<1>5. QED
  BY <1>4 DEF Older, Names

\* The open segment is synced; then nothing can get lost.
LEMMA SyncLog ==
  ASSUME Types, NEW r \in 0..MaxSeq, Log(r), NEW c \in segs, \A s \in segs : s <= c,
         file' = [file EXCEPT ![c] = Synced(@)], segsD' = segsD \cup {c}, segs' = segs,
         snapMaybe' = snapMaybe, acked' = acked \/ acked' = r
  PROVE  /\ Log(r)' /\ Older /\ c \in segsD' /\ file'[c].synced = Len(file'[c].recs)
         /\ \A p \in snapMaybe : \A m \in (p.seq + 1)..r :
               \E s \in segs, j \in 1..MaxSeq : In(s, j, m) /\ Firm(s, j)'
<1>1. TypeOK /\ Counted /\ Tidy /\ Held(r) /\ c \in Segs /\ segs \subseteq Segs
  BY DEF Types, Log, TypeOK
<1>2. /\ \A t \in Segs : file'[t].recs = file[t].recs /\ (t # c => file'[t] = file[t])
      /\ file'[c].synced = Len(file[c].recs)
      /\ file'[c].tail = file[c].tail /\ file'[c].tailD = file[c].tail
  BY <1>1, SyncedTypes
<1>3. Names' = Names /\ Names \subseteq Segs /\ segsD' \subseteq Names
  BY <1>1 DEF Names, TypeOK
<1>4. Tidy'
  BY <1>1, <1>2 DEF Tidy
<1>5. \A s \in segs \cap segsD : s \in segsD' /\ file'[s].synced >= file[s].synced /\ file'[s].synced \in Nat
  <2> SUFFICES ASSUME NEW s \in segs \cap segsD
               PROVE  file'[s].synced >= file[s].synced /\ file'[s].synced \in Nat
    OBVIOUS
  <2>1. s \in Segs
    BY <1>1
  <2>2. file[s].synced \in 0..Len(file[s].recs) /\ Len(file[s].recs) \in 0..MaxSeq
    BY <1>1, <2>1, FileIs
  <2>3. Len(file[s].recs) \in Nat /\ file[s].synced \in Nat /\ file[s].synced <= Len(file[s].recs)
    BY <2>2, Constants
  <2>4. QED
    BY <1>2, <2>1, <2>3
<1>6. ASSUME NEW p \in snapMaybe, NEW m \in (p.seq + 1)..r
      PROVE  \E s \in segs, j \in 1..MaxSeq : In(s, j, m) /\ Firm(s, j)'
  <2>1. PICK s \in segs, j \in 1..MaxSeq : In(s, j, m) /\ (Firm(s, j) \/ s = c)
    <3>1. \A q \in snapMaybe : \A k \in (q.seq + 1)..r :
             \E s \in segs, j \in 1..MaxSeq : In(s, j, k) /\ (Firm(s, j) \/ s = c)
      BY <1>1, FirmOrLast
    <3>2. QED
      BY <3>1
  <2>2. CASE s = c
    <3>1. j \in 1..Len(file[c].recs) /\ Len(file[c].recs) \in 0..MaxSeq
      BY <1>1, <2>1, <2>2, FileIs DEF In
    <3>2. j <= file'[c].synced
      BY <1>2, <3>1, Constants
    <3>3. QED
      BY <2>1, <2>2, <3>2 DEF Firm
  <2>3. CASE s # c
    BY <1>1, <1>2, <2>1, <2>3 DEF Firm
  <2>4. QED
    BY <2>2, <2>3
<1>7. \A s \in Segs : file'[s].recs = file[s].recs
  BY <1>2
<1>8. Log(r)'
  BY <1>1, <1>3, <1>4, <1>5, <1>6, <1>7, SaferLog
<1>9. Older
  BY <1>3, <1>7 DEF Older
<1>10. QED
  BY <1>1, <1>2, <1>6, <1>8, <1>9

LEMMA AppendSyncKept ==
  ASSUME IInv, AppendSync, Clean'
  PROVE  Kept'
<1>1. /\ pc = "sync" /\ pc' \in {"rotate", "return"} /\ UNCHANGED <<arg, seq, state, cur, segCount, ghosts>>
      /\ file' = [file EXCEPT ![cur] = Synced(@)] /\ segsD' = segsD \cup {cur} /\ pending' = 0
      /\ UNCHANGED <<segs, snap, snapMaybe>>
  BY DEF AppendSync, MaybeRotate, Fsync
<1>2. Clean /\ faults' = faults
  BY <1>1 DEF Clean, ghosts
<1>3. PICK r \in 0..MaxSeq : r = seq /\ Whole(seq)
  BY <1>1, <1>2, WholeOpen
<1>4. /\ Types /\ TypeOK /\ Log(r) /\ (faults = {} => Recorded(r) /\ Applied) /\ r \in Nat
      /\ cur \in segs /\ \A s \in segs : s <= cur
  BY <1>1, <1>2, <1>3, WholeOpen, Constants
<1>5. Log(r)' /\ Older /\ cur \in segsD' /\ file'[cur].synced = Len(file'[cur].recs)
  BY <1>1, <1>4, SyncLog DEF ghosts
<1>6. Settled' /\ Snapshot'
  BY <1>1, <1>5 DEF Settled, Snapshot
<1>7. ASSUME faults = {} PROVE Recorded(r)' /\ Applied'
  <2>1. Recorded(r)'
    BY <1>1, <1>4, <1>5, <1>7, OlderRecorded DEF ghosts
  <2>2. Applied'
    BY <1>1, <1>4, <1>7 DEF Applied, Putting, ghosts
  <2>3. QED
    BY <2>1, <2>2
<1>8. Whole(r)'
  BY <1>1, <1>2, <1>3, <1>5, <1>6, <1>7 DEF Whole
<1>9. QED
  BY <1>8 DEF Kept

LEMMA FlushKept ==
  ASSUME IInv, Flush, Clean'
  PROVE  Kept'
<1>1. /\ pc = "idle" /\ UNCHANGED <<pc, arg, seq, state, cur, segCount, crashes, hist, faults>>
      /\ UNCHANGED <<segs, snap, snapMaybe>>
      /\ IF pending > 0
         THEN /\ file' = [file EXCEPT ![cur] = Synced(@)] /\ segsD' = segsD \cup {cur}
              /\ acked' = seq
         ELSE UNCHANGED <<file, segsD>> /\ acked' = IF ActiveOnMedium THEN seq ELSE acked
  BY DEF Flush, Fsync, disk
<1>2. Clean /\ faults' = faults
  BY <1>1 DEF Clean
<1>3. PICK r \in 0..MaxSeq : r = seq /\ Whole(seq)
  BY <1>1, <1>2, WholeOpen
<1>4. /\ Types /\ TypeOK /\ Log(r) /\ (faults = {} => Recorded(r) /\ Applied) /\ r \in Nat
      /\ cur \in segs /\ \A s \in segs : s <= cur
  BY <1>1, <1>2, <1>3, WholeOpen, Constants
<1>5. Log(r)' /\ Older
  <2>1. CASE pending > 0
    <3>1. /\ file' = [file EXCEPT ![cur] = Synced(@)] /\ segsD' = segsD \cup {cur}
          /\ segs' = segs /\ snapMaybe' = snapMaybe /\ acked' = r
      BY <1>1, <1>3, <2>1
    <3>2. QED
      BY <1>4, <3>1, SyncLog
  <2>2. CASE ~(pending > 0)
    <3>1. /\ file' = file /\ segsD' = segsD
          /\ segs' = segs /\ snapMaybe' = snapMaybe
          /\ \/ acked' = acked
             \/ acked' = r /\ cur \in segsD /\ file[cur].synced = Len(file[cur].recs)
      BY <1>1, <1>3, <2>2 DEF ActiveOnMedium
    <3>2. QED
      BY <1>4, <3>1, PromiseLog
  <2>3. QED
    BY <2>1, <2>2
<1>6. Settled' /\ Snapshot'
  BY <1>1 DEF Settled, Snapshot
<1>7. ASSUME faults = {} PROVE Recorded(r)' /\ Applied'
  <2>1. Recorded(r)'
    BY <1>1, <1>4, <1>5, <1>7, OlderRecorded
  <2>2. Applied'
    BY <1>1, <1>4, <1>7 DEF Applied, Putting
  <2>3. QED
    BY <2>1, <2>2
<1>8. Whole(r)'
  BY <1>1, <1>2, <1>3, <1>5, <1>6, <1>7 DEF Whole
<1>9. QED
  BY <1>8 DEF Kept

LEMMA CkBeginKept ==
  ASSUME IInv, CkBegin, Clean'
  PROVE  Kept'
<1>1. /\ pc = "idle" /\ pc' = "ck_replace" /\ UNCHANGED <<arg, seq, state, cur, segCount, ghosts>>
      /\ IF pending > 0 THEN Fsync ELSE UNCHANGED <<disk, pending>>
  BY DEF CkBegin
<1>2. Clean /\ faults' = faults
  BY <1>1 DEF Clean, ghosts
<1>3. PICK r \in 0..MaxSeq : r = seq /\ Whole(seq)
  BY <1>1, <1>2, WholeOpen
<1>4. /\ Types /\ TypeOK /\ Log(r) /\ (faults = {} => Recorded(r) /\ Applied) /\ r \in Nat
      /\ cur \in segs /\ \A s \in segs : s <= cur
  BY <1>1, <1>2, <1>3, WholeOpen, Constants
<1>5. Log(r)' /\ Older /\ snapMaybe' = snapMaybe
  <2>1. CASE pending > 0
    <3>1. /\ file' = [file EXCEPT ![cur] = Synced(@)] /\ segsD' = segsD \cup {cur}
          /\ segs' = segs /\ snapMaybe' = snapMaybe /\ acked' = acked
      BY <1>1, <2>1 DEF Fsync, ghosts
    <3>2. QED
      BY <1>4, <3>1, SyncLog
  <2>2. CASE ~(pending > 0)
    <3>1. /\ file' = file /\ segsD' = segsD
          /\ segs' = segs /\ snapMaybe' = snapMaybe /\ acked' = acked
      BY <1>1, <2>2 DEF disk, ghosts
    <3>2. QED
      BY <1>4, <3>1, SameLog
  <2>3. QED
    BY <2>1, <2>2
<1>6. Settled' /\ Snapshot'
  BY <1>1 DEF Settled, Snapshot
<1>7. ASSUME faults = {} PROVE Recorded(r)' /\ Applied'
  <2>1. Recorded(r)'
    BY <1>1, <1>4, <1>5, <1>7, OlderRecorded DEF ghosts
  <2>2. Applied'
    BY <1>1, <1>4, <1>7 DEF Applied, Putting, ghosts
  <2>3. QED
    BY <2>1, <2>2
<1>8. Whole(r)'
  BY <1>1, <1>2, <1>3, <1>5, <1>6, <1>7 DEF Whole
<1>9. QED
  BY <1>8 DEF Kept

LEMMA CloseKept ==
  ASSUME IInv, Close, Clean'
  PROVE  Kept'
<1>1. /\ pc = "idle" /\ pc' = "down" /\ UNCHANGED <<segs, snap, snapMaybe, hist, faults>>
      /\ IF pending > 0
         THEN /\ file' = [file EXCEPT ![cur] = Synced(@)] /\ segsD' = segsD \cup {cur}
              /\ acked' = seq
         ELSE UNCHANGED <<file, segsD>> /\ acked' = IF ActiveOnMedium THEN seq ELSE acked
  BY DEF Close, Down
<1>2. Clean
  BY <1>1 DEF Clean
<1>3. PICK r \in 0..MaxSeq : r = seq /\ Whole(seq)
  BY <1>1, <1>2, WholeOpen
<1>4. /\ Types /\ TypeOK /\ Log(r) /\ (faults = {} => Recorded(r) /\ Applied) /\ r \in Nat
      /\ cur \in segs /\ \A s \in segs : s <= cur
  BY <1>1, <1>2, <1>3, WholeOpen, Constants
<1>5. Log(r)' /\ Older
  <2>1. CASE pending > 0
    <3>1. /\ file' = [file EXCEPT ![cur] = Synced(@)] /\ segsD' = segsD \cup {cur}
          /\ segs' = segs /\ snapMaybe' = snapMaybe /\ acked' = r
      BY <1>1, <1>3, <2>1
    <3>2. QED
      BY <1>4, <3>1, SyncLog
  <2>2. CASE ~(pending > 0)
    <3>1. /\ file' = file /\ segsD' = segsD
          /\ segs' = segs /\ snapMaybe' = snapMaybe
          /\ \/ acked' = acked
             \/ acked' = r /\ cur \in segsD /\ file[cur].synced = Len(file[cur].recs)
      BY <1>1, <1>3, <2>2 DEF ActiveOnMedium
    <3>2. QED
      BY <1>4, <3>1, PromiseLog
  <2>3. QED
    BY <2>1, <2>2
<1>6. Settled' /\ Snapshot' /\ Applied'
  BY <1>1 DEF Settled, Snapshot, Applied, Putting
<1>7. faults = {} => Recorded(r)'
  BY <1>1, <1>4, <1>5, OlderRecorded
<1>8. Whole(r)'
  BY <1>1, <1>5, <1>6, <1>7 DEF Whole
<1>9. QED
  BY <1>8 DEF Kept

LEMMA ReturnKept ==
  ASSUME IInv, Return, Clean'
  PROVE  Kept'
<1>1. /\ pc = "return" /\ pc' = "idle" /\ state' = Apply(state, arg.rec)
      /\ acked' = IF pending = 0 THEN seq ELSE acked
      /\ UNCHANGED <<disk, seq, cur, segCount, pending, crashes, hist, faults>>
  BY DEF Return
<1>2. Clean
  BY <1>1 DEF Clean
<1>3. PICK r \in 0..MaxSeq : r = seq /\ Whole(seq)
  BY <1>1, <1>2, WholeOpen
<1>4. /\ Types /\ TypeOK /\ Counted /\ Log(r) /\ Settled /\ (faults = {} => Recorded(r) /\ Applied) /\ r \in Nat
      /\ cur \in segs /\ cur \in Segs /\ \A s \in segs : s <= cur
  BY <1>1, <1>2, <1>3, WholeOpen, Constants
<1>5. /\ file' = file /\ segs' = segs /\ segsD' = segsD /\ snapMaybe' = snapMaybe
      /\ \/ acked' = acked
         \/ acked' = r /\ cur \in segsD /\ file[cur].synced = Len(file[cur].recs)
  BY <1>1, <1>3, <1>4 DEF disk, Settled
<1>6. Log(r)' /\ Older
  BY <1>4, <1>5, PromiseLog
<1>7. Settled' /\ Snapshot'
  BY <1>1 DEF Settled, Snapshot
<1>8. ASSUME faults = {} PROVE Recorded(r)' /\ Applied'
  <2>1. Recorded(r)'
    BY <1>1, <1>4, <1>5, <1>6, <1>8, OlderRecorded
  <2>2. seq > 0 /\ arg.rec = hist[seq] /\ state = StatesOf(hist)[seq - 1] /\ Len(hist) = seq
    BY <1>1, <1>4, <1>8 DEF Applied, Putting
  <2>3. PICK h \in Seq(Rec) : h = hist
    BY <1>4 DEF TypeOK
  <2>4. r \in 1..Len(h)
    BY <1>3, <1>4, <2>2, <2>3
  <2>5. StatesOf(h)[r] = Apply(StatesOf(h)[r - 1], h[r])
    BY <2>4, StatesOfIs
  <2>6. state' = StatesOf(h)[r]
    BY <1>1, <1>3, <2>2, <2>3, <2>5
  <2>7. Applied'
    BY <1>1, <1>3, <2>2, <2>3, <2>6 DEF Applied, Putting
  <2>8. QED
    BY <2>1, <2>7
<1>9. Whole(r)'
  BY <1>1, <1>3, <1>6, <1>7, <1>8 DEF Whole
<1>10. QED
  BY <1>9 DEF Kept

LEMMA RotateDirSyncKept ==
  ASSUME IInv, RotateDirSync, Clean'
  PROVE  Kept'
<1>1. /\ pc = "rotate_dirsync" /\ pc' = "return" /\ segsD' = segs /\ snapMaybe' = {snap}
      /\ UNCHANGED <<file, segs, snap, arg, mem, ghosts>>
  BY DEF RotateDirSync
<1>2. Clean /\ faults' = faults
  BY <1>1 DEF Clean, ghosts
<1>3. PICK r \in 0..MaxSeq : r = seq /\ Whole(seq)
  BY <1>1, <1>2, WholeOpen
<1>4. /\ Types /\ TypeOK /\ Counted /\ Log(r) /\ Settled /\ (faults = {} => Recorded(r) /\ Applied) /\ r \in Nat
      /\ cur \in segs /\ cur \in Segs /\ \A s \in segs : s <= cur
  BY <1>1, <1>2, <1>3, WholeOpen, Constants
<1>5. Tidy' /\ segsD' \subseteq Names /\ Names' \subseteq Names /\ snapMaybe' \subseteq snapMaybe /\ acked' = acked
  BY <1>1, <1>4 DEF Log, Tidy, Names, TypeOK, ghosts
<1>6. \A s \in segs \cap segsD : s \in segsD' /\ file'[s].synced >= file[s].synced /\ file'[s].synced \in Nat
  <2> SUFFICES ASSUME NEW s \in segs \cap segsD PROVE file[s].synced >= file[s].synced /\ file[s].synced \in Nat
    BY <1>1
  <2>1. file[s].synced \in Nat
    BY <1>4, SyncedNat DEF TypeOK
  <2>2. QED
    BY <2>1
<1>7. \A s \in Segs : file'[s].recs = file[s].recs
  BY <1>1
<1>8. Log(r)'
  BY <1>1, <1>4, <1>5, <1>6, <1>7, SaferLog
<1>9. Older
  BY <1>1, <1>5 DEF Older
<1>10. Settled' /\ Snapshot'
  <2>1. pending = 0 /\ file[cur].recs = <<>>
    BY <1>1, <1>4 DEF Settled
  <2>2. file[cur].synced = Len(file[cur].recs)
    <3>1. file[cur].synced \in 0..Len(file[cur].recs)
      BY <1>4, FileIs
    <3>2. QED
      BY <2>1, <3>1
  <2>3. QED
    BY <1>1, <1>4, <2>2 DEF Settled, Snapshot, mem
<1>11. ASSUME faults = {} PROVE Recorded(r)' /\ Applied'
  <2>1. Recorded(r)'
    BY <1>1, <1>4, <1>5, <1>9, <1>11, OlderRecorded DEF ghosts
  <2>2. Applied'
    BY <1>1, <1>4, <1>11 DEF Applied, Putting, mem, ghosts
  <2>3. QED
    BY <2>1, <2>2
<1>12. Whole(r)'
  BY <1>1, <1>2, <1>3, <1>8, <1>10, <1>11 DEF Whole, mem
<1>13. QED
  BY <1>12 DEF Kept

\* A rotation leaves a segment that is safe.
LEMMA RotateKept ==
  ASSUME IInv, Rotate, Clean'
  PROVE  Kept'
<1>1. /\ pc = "rotate" /\ cur < MaxSeg /\ pc' = "rotate_dirsync"
      /\ cur' = cur + 1 /\ segs' = segs \cup {cur + 1} /\ pending' = 0
      /\ file' = [file EXCEPT ![cur] = IF pending > 0 THEN Synced(@) ELSE @, ![cur + 1] = NewFile]
      /\ segsD' = (IF pending > 0 THEN segsD \cup {cur} ELSE segsD)
      /\ UNCHANGED <<snap, snapMaybe, arg, seq, state, ghosts>>
  BY DEF Rotate
<1>2. Clean /\ faults' = faults
  BY <1>1 DEF Clean, ghosts
<1>3. PICK r \in 0..MaxSeq : r = seq /\ Whole(seq)
  BY <1>1, <1>2, WholeOpen
<1>4. /\ Types /\ TypeOK /\ Counted /\ Log(r) /\ Settled /\ (faults = {} => Recorded(r) /\ Applied) /\ r \in Nat
      /\ cur \in segs /\ cur \in Segs /\ \A s \in segs : s <= cur
  BY <1>1, <1>2, <1>3, WholeOpen, Constants
<1>5. PICK n \in Segs : n = cur + 1
  BY <1>1, <1>4, Constants DEF Segs
<1>6. /\ \A s \in segs : s < n /\ s \in Nat /\ s \in Segs /\ s # n
      /\ cur # n /\ pending \in Nat
  <2>1. segs \subseteq Segs /\ pending \in Nat
    BY <1>4, Constants DEF TypeOK
  <2>2. \A s \in segs : s \in Nat
    BY <2>1, Constants
  <2>3. QED
    BY <1>4, <1>5, <2>1, <2>2
<1>7. PICK g : g = IF pending > 0 THEN Synced(file[cur]) ELSE file[cur]
  OBVIOUS
<1>8. /\ file'[n] = NewFile /\ file'[cur] = g
      /\ \A s \in Segs : s # n /\ s # cur => file'[s] = file[s]
  <2>1. file' = [[file EXCEPT ![cur] = g] EXCEPT ![n] = NewFile]
    BY <1>1, <1>5, <1>7
  <2>2. QED
    BY <1>4, <1>5, <1>6, <2>1 DEF TypeOK
<1>9. PICK q \in Seq(Rec) : q = file[cur].recs
  BY <1>4, FileIs
<1>10. /\ Len(q) \in Nat /\ Len(q) <= MaxSeq /\ file[cur].synced \in Nat /\ file[cur].synced <= Len(q)
       /\ file[cur].tail \in {"none", "cut"} /\ file[cur].tailD \in {"none", "cut"}
  <2>1. Len(q) \in 0..MaxSeq /\ file[cur].synced \in 0..Len(q)
    BY <1>4, <1>9, FileIs
  <2>2. QED
    BY <1>4, <2>1, Constants DEF Log, Tidy
<1>11. /\ g.recs = q /\ g.synced = Len(q) /\ cur \in segsD'
       /\ g.tail \in {"none", "cut"} /\ g.tailD \in {"none", "cut"}
  <2>1. CASE pending > 0
    <3>1. g = Synced(file[cur]) /\ file[cur] = [recs |-> file[cur].recs, synced |-> file[cur].synced,
                       tail |-> file[cur].tail, tailD |-> file[cur].tailD]
      BY <1>4, <1>7, <2>1, FileIs
    <3>2. g = [recs |-> q, synced |-> Len(q), tail |-> file[cur].tail, tailD |-> file[cur].tail]
      BY <1>9, <3>1 DEF Synced
    <3>3. QED
      BY <1>1, <1>10, <2>1, <3>2
  <2>2. CASE ~(pending > 0)
    <3>1. pending = 0 /\ g = file[cur]
      BY <1>6, <1>7, <2>2
    <3>2. cur \in segsD /\ file[cur].synced = Len(q)
      BY <1>1, <1>4, <1>9, <3>1 DEF Settled
    <3>3. QED
      BY <1>1, <1>9, <1>10, <2>2, <3>1, <3>2
  <2>3. QED
    BY <2>1, <2>2
<1>12. \A s \in Segs : s # n => file'[s].recs = file[s].recs
  BY <1>8, <1>9, <1>11
<1>13. \A s \in segs : file'[s].synced >= file[s].synced /\ file'[s].synced \in Nat
  <2> SUFFICES ASSUME NEW s \in segs PROVE file'[s].synced >= file[s].synced /\ file'[s].synced \in Nat
    OBVIOUS
  <2>1. CASE s = cur
    BY <1>8, <1>10, <1>11, <2>1
  <2>2. CASE s # cur
    <3>1. file'[s] = file[s] /\ file[s].synced \in Nat
      BY <1>4, <1>6, <1>8, <2>2, SyncedNat
    <3>2. QED
      BY <3>1
  <2>3. QED
    BY <2>1, <2>2
<1>14. /\ segs' = segs \cup {n} /\ segsD \subseteq segsD' /\ segsD' \subseteq Names
       /\ snapMaybe' = snapMaybe /\ acked' = acked
  BY <1>1, <1>4, <1>5 DEF Names, ghosts
<1>15. Tidy'
  <2> SUFFICES ASSUME NEW s \in Segs
               PROVE  file'[s].tail \in {"none", "cut"} /\ file'[s].tailD \in {"none", "cut"}
    BY DEF Tidy
  <2>1. CASE s = n
    BY <1>8, <2>1 DEF NewFile
  <2>2. CASE s = cur
    BY <1>8, <1>11, <2>2
  <2>3. CASE s # n /\ s # cur
    BY <1>4, <1>8, <2>3 DEF Log, Tidy
  <2>4. QED
    BY <2>1, <2>2, <2>3
<1>16. ASSUME NEW p \in snapMaybe, NEW m \in (p.seq + 1)..r
       PROVE  \E s \in segs, j \in 1..MaxSeq : In(s, j, m) /\ Firm(s, j)'
  <2>1. PICK s \in segs, j \in 1..MaxSeq : In(s, j, m) /\ (Firm(s, j) \/ s = cur)
    <3>1. \A u \in snapMaybe : \A k \in (u.seq + 1)..r :
             \E s \in segs, j \in 1..MaxSeq : In(s, j, k) /\ (Firm(s, j) \/ s = cur)
      BY <1>4, FirmOrLast DEF Log
    <3>2. QED
      BY <3>1
  <2>2. CASE s = cur
    <3>1. j \in 1..Len(q)
      BY <1>9, <2>1, <2>2 DEF In
    <3>2. j <= file'[cur].synced
      BY <1>8, <1>10, <1>11, <3>1
    <3>3. QED
      BY <1>11, <2>1, <2>2, <3>2 DEF Firm
  <2>3. CASE s # cur
    <3>1. s \in segsD' /\ j <= file[s].synced /\ file'[s] = file[s]
      BY <1>6, <1>8, <1>14, <2>1, <2>3 DEF Firm
    <3>2. QED
      BY <2>1, <3>1 DEF Firm
  <2>4. QED
    BY <2>2, <2>3
<1>17. \A s \in segs : s < n
  BY <1>6
<1>18. Log(r)'
  BY <1>4, <1>8, <1>12, <1>13, <1>14, <1>15, <1>16, <1>17, NewSegmentLog
<1>19. Older
  <2> SUFFICES ASSUME NEW s \in Names', NEW i \in 1..Len(file'[s].recs)
               PROVE  s \in Names /\ i \in 1..Len(file[s].recs) /\ file'[s].recs[i] = file[s].recs[i]
    BY DEF Older
  <2>1. s # n
    BY <1>8 DEF NewFile
  <2>2. s \in Names /\ s \in Segs
    BY <1>4, <1>14, <2>1 DEF Names, TypeOK
  <2>3. QED
    BY <1>12, <2>1, <2>2
<1>20. Settled' /\ Snapshot'
  <2>1. file'[cur'].recs = <<>>
    BY <1>1, <1>5, <1>8 DEF NewFile
  <2>2. QED
    BY <1>1, <2>1 DEF Settled, Snapshot
<1>21. ASSUME faults = {} PROVE Recorded(r)' /\ Applied'
  <2>1. Recorded(r)'
    BY <1>1, <1>4, <1>19, <1>21, OlderRecorded DEF ghosts
  <2>2. Applied'
    BY <1>1, <1>4, <1>21 DEF Applied, Putting, ghosts
  <2>3. QED
    BY <2>1, <2>2
<1>22. Whole(r)'
  BY <1>1, <1>2, <1>3, <1>18, <1>20, <1>21 DEF Whole
<1>23. QED
  BY <1>22 DEF Kept


\* The new snapshot may be there after a power loss, or not.
LEMMA CkReplaceKept ==
  ASSUME IInv, CkReplace, Clean'
  PROVE  Kept'
<1>1. /\ pc = "ck_replace" /\ pc' = "ck_dirsync" /\ snap' = [seq |-> seq, st |-> state]
      /\ snapMaybe' = snapMaybe \cup {snap'} /\ UNCHANGED <<file, segs, segsD, arg, mem, ghosts>>
  BY DEF CkReplace
<1>2. Clean /\ faults' = faults
  BY <1>1 DEF Clean, ghosts
<1>3. PICK r \in 0..MaxSeq : r = seq /\ Whole(seq)
  BY <1>1, <1>2, WholeOpen
<1>4. /\ Types /\ TypeOK /\ Counted /\ Log(r) /\ (faults = {} => Recorded(r) /\ Applied) /\ r \in Nat
  BY <1>1, <1>2, <1>3, WholeOpen, Constants
<1>5. PICK q : q = snap' /\ q.seq = r /\ q.st = state
  BY <1>1, <1>3
<1>6. Log(r)' /\ Older
  <2>1. Log(r)'
    BY <1>1, <1>4, <1>5, SnapshotLog DEF ghosts
  <2>2. Older
    BY <1>1 DEF Older, Names
  <2>3. QED
    BY <2>1, <2>2
<1>7. Settled' /\ Snapshot'
  BY <1>1, <1>3, <1>5 DEF Settled, Snapshot, mem
<1>8. ASSUME faults = {} PROVE Recorded(r)' /\ Applied'
  <2>1. state = StatesOf(hist)[r]
    BY <1>1, <1>3, <1>4, <1>8 DEF Applied, Putting
  <2>2. \A p \in snapMaybe' : p \in snapMaybe \/ p.st = StatesOf(hist)[p.seq]
    BY <1>1, <1>5, <2>1
  <2>3. Recorded(r)'
    BY <1>1, <1>4, <1>6, <1>8, <2>2, OlderRecorded DEF ghosts
  <2>4. Applied'
    BY <1>1, <1>4, <1>8 DEF Applied, Putting, mem, ghosts
  <2>5. QED
    BY <2>3, <2>4
<1>9. Whole(r)'
  BY <1>1, <1>2, <1>3, <1>6, <1>7, <1>8 DEF Whole, mem
<1>10. QED
  BY <1>9 DEF Kept

\* Behind the sync of the directory the snapshot has everything.
LEMMA CoveredKept ==
  ASSUME IInv, Types', Clean, pc \notin Putting \cup {"down"}, pc' \notin Putting \cup {"down"},
         Older, snap.seq = seq, snap' = snap, snapMaybe' = {snap},
         UNCHANGED <<seq, state, hist, faults>>, acked' = acked \/ acked' = seq, Tidy'
  PROVE  Kept'
<1>1. pc # "down" /\ pc' # "down" /\ pc' \notin {"rotate", "return", "rotate_dirsync"}
  BY DEF Putting
<1>2. PICK r \in 0..MaxSeq : r = seq /\ Whole(seq)
  BY <1>1, WholeOpen
<1>3. /\ TypeOK /\ TypeOK' /\ Counted' /\ Log(r) /\ (faults = {} => Recorded(r) /\ Applied) /\ r \in Nat
      /\ acked \in Nat /\ acked <= r
  <2>1. TypeOK /\ Log(r) /\ (faults = {} => Recorded(r) /\ Applied)
    BY <1>1, <1>2, WholeOpen
  <2>2. TypeOK' /\ Counted'
    BY DEF Types
  <2>3. acked \in Nat /\ r \in Nat
    BY <2>1, Constants DEF TypeOK
  <2>4. acked <= r
    BY <2>1 DEF Log
  <2>5. QED
    BY <2>1, <2>2, <2>3, <2>4
<1>4. snapMaybe' = {snap'} /\ snap'.seq = r /\ acked' \in Nat /\ acked' <= r
  BY <1>2, <1>3
<1>5. Log(r)'
  BY <1>3, <1>4, CoveredLog
<1>6. Settled' /\ Snapshot'
  BY <1>1, <1>2, <1>4 DEF Settled, Snapshot
<1>7. ASSUME faults = {} PROVE Recorded(r)' /\ Applied'
  <2>1. Recorded(r)'
    <3>1. \A p \in snapMaybe' : p \in snapMaybe
      BY <1>3 DEF TypeOK
    <3>2. QED
      BY <1>3, <1>7, <3>1, OlderRecorded
  <2>2. Applied'
    BY <1>1, <1>3, <1>7 DEF Applied, Putting
  <2>3. QED
    BY <2>1, <2>2
<1>8. Whole(r)'
  BY <1>1, <1>2, <1>5, <1>6, <1>7 DEF Whole
<1>9. QED
  BY <1>8 DEF Kept

LEMMA CheckpointKept ==
  ASSUME IInv, Types', Clean', CkDirSync \/ CkSegmentDirSync \/ CkUnlink \/ CkEnd
  PROVE  Kept'
<1>1. /\ pc \in {"ck_dirsync", "ck_segment_dirsync", "ck_unlink"}
      /\ pc' \in {"ck_segment", "ck_unlink", "idle"}
      /\ file' = file /\ snap' = snap /\ UNCHANGED <<seq, state, hist, faults>>
      /\ acked' = acked \/ acked' = seq
  BY DEF CkDirSync, CkSegmentDirSync, CkUnlink, CkEnd, mem, ghosts
<1>2. Clean
  BY <1>1 DEF Clean
<1>3. TypeOK /\ Tidy /\ Snapshot
  <2>1. pc # "down"
    BY <1>1
  <2>2. QED
    BY <1>2, <2>1, WholeOpen DEF Log
<1>4. segs' \subseteq Names /\ segsD' \subseteq Names
  BY DEF CkDirSync, CkSegmentDirSync, CkUnlink, CkEnd, Names
<1>5. Older
  BY <1>1, <1>4 DEF Older, Names
<1>6. snap.seq = seq /\ snapMaybe' = {snap}
  BY <1>3 DEF CkDirSync, CkSegmentDirSync, CkUnlink, CkEnd, Snapshot
<1>7. Tidy'
  BY <1>1, <1>3 DEF Tidy
<1>8. pc \notin Putting \cup {"down"} /\ pc' \notin Putting \cup {"down"}
  BY <1>1 DEF Putting
<1>9. QED
  BY <1>1, <1>2, <1>5, <1>6, <1>7, <1>8, CoveredKept

LEMMA CkSegmentKept ==
  ASSUME IInv, Types', Clean', CkSegment
  PROVE  Kept'
<1>1. /\ pc = "ck_segment" /\ pc' = "ck_segment_dirsync" /\ segs' = segs \cup {cur + 1}
      /\ file' = [file EXCEPT ![cur + 1] = NewFile]
      /\ UNCHANGED <<segsD, snap, snapMaybe, arg, seq, state, ghosts>>
  BY DEF CkSegment
<1>2. Clean /\ UNCHANGED <<seq, state, hist, faults>> /\ acked' = acked
  BY <1>1 DEF Clean, ghosts
<1>3. TypeOK /\ Tidy /\ Snapshot /\ Object
  BY <1>1, <1>2, WholeOpen DEF Log
<1>4. PICK n \in Segs : n = cur + 1
  BY <1>1, <1>3, Constants DEF Object, TypeOK, Segs
<1>5. file'[n] = NewFile /\ \A s \in Segs : s # n => file'[s] = file[s]
  BY <1>1, <1>3, <1>4 DEF TypeOK
<1>6. Older
  <2> SUFFICES ASSUME NEW s \in Names', NEW i \in 1..Len(file'[s].recs)
               PROVE  s \in Names /\ i \in 1..Len(file[s].recs) /\ file'[s].recs[i] = file[s].recs[i]
    BY DEF Older
  <2>1. s # n
    BY <1>5 DEF NewFile
  <2>2. s \in Names /\ s \in Segs
    BY <1>1, <1>3, <1>4, <2>1 DEF Names, TypeOK
  <2>3. QED
    BY <1>5, <2>1, <2>2
<1>7. snap.seq = seq /\ snapMaybe' = {snap} /\ snap' = snap
  BY <1>1, <1>3 DEF Snapshot
<1>8. Tidy'
  BY <1>3, <1>5 DEF Tidy, NewFile
<1>9. pc \notin Putting \cup {"down"} /\ pc' \notin Putting \cup {"down"}
  BY <1>1 DEF Putting
<1>10. QED
  BY <1>2, <1>6, <1>7, <1>8, <1>9, CoveredKept

\* Another history that agrees with the one so far: longer by a put, or shortened by an open.
LEMMA HistoryRecorded ==
  ASSUME TypeOK, Counted, NEW r \in 0..MaxSeq, Log(r), Recorded(r),
         NEW h \in Seq(Rec), hist' = h, r <= Len(h), \A i \in 1..Len(h) : h[i].seq = i,
         \A i \in 1..r : h[i] = hist[i],
         \A s \in Names' : \A i \in 1..Len(file'[s].recs) :
            \/ /\ s \in Names /\ i \in 1..Len(file[s].recs)
               /\ file'[s].recs[i] = file[s].recs[i]
            \/ file'[s].recs[i] = h[file'[s].recs[i].seq],
         snapMaybe' = snapMaybe, NEW r2 \in Nat, r2 <= Len(h)
  PROVE  Recorded(r2)' /\ \A i \in 0..r : StatesOf(h)[i] = StatesOf(hist)[i]
<1>1. hist \in Seq(Rec) /\ r \in Nat /\ r <= Len(hist)
  BY Constants DEF TypeOK, Recorded
<1>2. \A i \in 0..r : StatesOf(h)[i] = StatesOf(hist)[i]
  <2>1. \A i \in 1..r : hist[i] = h[i]
    OBVIOUS
  <2>2. \A i \in 0..r : StatesOf(hist)[i] = StatesOf(h)[i]
    BY ONLY <1>1, <2>1, StatesAgree, h \in Seq(Rec), r <= Len(h)
  <2>3. QED
    BY <2>2
<1>3. \A s \in Names' : \A i \in 1..Len(file'[s].recs) : file'[s].recs[i] = h[file'[s].recs[i].seq]
  <2> SUFFICES ASSUME NEW s \in Names', NEW i \in 1..Len(file'[s].recs),
                      s \in Names, i \in 1..Len(file[s].recs), file'[s].recs[i] = file[s].recs[i]
               PROVE  file'[s].recs[i] = h[file'[s].recs[i].seq]
    OBVIOUS
  <2>1. PICK x : x = file[s].recs[i]
    OBVIOUS
  <2>2. x.seq \in Nat /\ x.seq <= r /\ x = hist[x.seq]
    BY <2>1, NamesAre DEF Recorded
  <2>3. x.seq \in 1..MaxSeq
    <3>1. s \in Segs
      BY NamesAre
    <3>2. QED
      BY <2>1, <3>1, FileIs
  <2>4. x.seq \in 1..r
    BY <1>1, <2>2, <2>3, Constants
  <2>5. QED
    BY <2>1, <2>2, <2>4
<1>4. \A p \in snapMaybe' : p.st = StatesOf(h)[p.seq]
  <2> SUFFICES ASSUME NEW p \in snapMaybe PROVE p.st = StatesOf(h)[p.seq]
    OBVIOUS
  <2>1. p.seq \in 0..r
    BY <1>1, NamesAre
  <2>2. p.st = StatesOf(hist)[p.seq]
    BY DEF Recorded
  <2>3. QED
    BY <1>2, <2>1, <2>2
<1>5. Recorded(r2)'
  BY <1>3, <1>4 DEF Recorded
<1>6. QED
  BY <1>2, <1>5

LEMMA WriteKept ==
  ASSUME IInv, NEW k \in Keys, NEW v \in Vals \cup {NoVal}, NEW d \in BOOLEAN, Write(k, v, d), Clean'
  PROVE  Kept'
<1>1. PICK x : x = [seq |-> seq + 1, key |-> k, val |-> v]
  OBVIOUS
<1>2. /\ pc = "idle" /\ pc' = "sync" /\ seq < MaxSeq /\ seq' = seq + 1 /\ arg'.rec = x
      /\ hist' = Append(hist, x)
      /\ UNCHANGED <<segs, segsD, snap, snapMaybe, state, cur, crashes, acked>>
      /\ faults' = IF file[cur].tail = "none" THEN faults ELSE faults \cup {"spliced"}
  BY <1>1 DEF Write
<1>3. Clean /\ file[cur].tail = "none" /\ faults' = faults
  BY <1>2 DEF Clean
<1>4. PICK r \in 0..MaxSeq : r = seq /\ Whole(seq)
  BY <1>2, <1>3, WholeOpen
<1>5. /\ TypeOK /\ Counted /\ Log(r) /\ (faults = {} => Recorded(r) /\ Applied) /\ r \in Nat /\ MaxSeq \in Nat
      /\ cur \in segs /\ cur \in Segs /\ \A s \in segs : s <= cur
  BY <1>2, <1>3, <1>4, WholeOpen, Constants
<1>6. PICK c \in segs : c = cur
  BY <1>5
<1>7. c \in Segs /\ (\A s \in segs : s <= c) /\ Len(file[c].recs) <= r
  <2>1. Object
    BY <1>2, <1>3, WholeOpen
  <2>2. QED
    BY <1>2, <1>4, <1>5, <1>6, <2>1 DEF Object
<1>8. x \in Rec /\ x.seq = r + 1 /\ r < MaxSeq /\ r + 1 \in 0..MaxSeq /\ r + 1 \in Nat
  BY <1>1, <1>2, <1>4, <1>5 DEF Rec
<1>9. PICK t \in TailAfter(file[cur].tail) :
         file' = [file EXCEPT ![cur].tail = t, ![cur].recs = IF t = "none" THEN Append(@, x) ELSE @]
  BY <1>1 DEF Write
<1>10. /\ file'[c].tail = "none" /\ file'[c].tailD = file[c].tailD /\ file'[c].synced = file[c].synced
       /\ file'[c].recs = Append(file[c].recs, x)
       /\ \A u \in Segs : u # c => file'[u] = file[u]
  <2>1. /\ file'[cur].tail = t /\ file'[cur].tailD = file[cur].tailD /\ file'[cur].synced = file[cur].synced
        /\ file'[cur].recs = IF t = "none" THEN Append(file[cur].recs, x) ELSE file[cur].recs
        /\ \A u \in Segs : u # cur => file'[u] = file[u]
        /\ file' = [u \in Segs |-> file'[u]]
        /\ file'[cur] = [recs |-> file'[cur].recs, synced |-> file'[cur].synced,
                         tail |-> file'[cur].tail, tailD |-> file'[cur].tailD]
    <3>1. TypeOK /\ cur \in Segs
      BY <1>5
    <3>2. QED
      BY <1>9, <3>1, WrittenFile
  <2>2. t = "none"
    BY <1>3, <1>9 DEF TailAfter
  <2>3. QED
    BY <1>6, <2>1, <2>2
<1>11. Tidy'
  BY <1>5, <1>7, <1>10 DEF Tidy, Log
<1>12. Log(r + 1)'
  BY <1>2, <1>5, <1>7, <1>8, <1>10, <1>11, WriteLog
<1>13. Settled' /\ Snapshot'
  BY <1>2 DEF Settled, Snapshot
<1>14. ASSUME faults = {} PROVE Recorded(r + 1)' /\ Applied'
  <2>1. hist \in Seq(Rec) /\ Len(hist) = r /\ state = StatesOf(hist)[r]
        /\ \A i \in 1..Len(hist) : hist[i].seq = i
    BY <1>2, <1>4, <1>5, <1>14 DEF TypeOK, Applied, Putting, Recorded
  <2>2. PICK h : h = Append(hist, x)
    OBVIOUS
  <2>3. h \in Seq(Rec) /\ Len(h) = r + 1 /\ h[r + 1] = x /\ \A i \in 1..r : h[i] = hist[i]
    BY <1>8, <2>1, <2>2, AppendIs
  <2>4. \A i \in 1..Len(h) : h[i].seq = i
    <3>1. \A i \in 1..Len(h) : i \in 1..r \/ i = r + 1
      BY <1>5, <2>3
    <3>2. QED
      BY <1>8, <2>1, <2>3, <3>1
  <2>5. \A s \in Names' : \A i \in 1..Len(file'[s].recs) :
            \/ /\ s \in Names /\ i \in 1..Len(file[s].recs)
               /\ file'[s].recs[i] = file[s].recs[i]
            \/ file'[s].recs[i] = h[file'[s].recs[i].seq]
    <3> SUFFICES ASSUME NEW s \in Names', NEW i \in 1..Len(file'[s].recs)
                 PROVE  \/ /\ s \in Names /\ i \in 1..Len(file[s].recs)
                           /\ file'[s].recs[i] = file[s].recs[i]
                        \/ file'[s].recs[i] = h[file'[s].recs[i].seq]
      OBVIOUS
    <3>1. s \in Names /\ s \in Segs
      BY <1>2, <1>5 DEF Names, TypeOK
    <3>2. CASE s # c
      BY <1>10, <3>1, <3>2
    <3>3. CASE s = c
      <4>1. PICK q \in Seq(Rec) : q = file[c].recs
        BY <1>5, <1>7, FileIs
      <4>2. PICK q2 : q2 = Append(q, x)
        OBVIOUS
      <4>3. PICK n \in Nat : n = Len(q)
        BY <4>1, LenProperties
      <4>4. Len(q2) = n + 1 /\ q2[n + 1] = x /\ \A j \in 1..n : q2[j] = q[j]
        BY <1>8, <4>1, <4>2, <4>3, AppendIs
      <4>5. file'[s].recs = q2 /\ i \in 1..(n + 1)
        BY <1>10, <3>3, <4>1, <4>2, <4>4
      <4>6. CASE i = n + 1
        BY <1>8, <2>3, <4>4, <4>5, <4>6
      <4>7. CASE i # n + 1
        <5>1. i \in 1..n
          BY <4>5, <4>7
        <5>2. QED
          BY <3>1, <3>3, <4>1, <4>3, <4>4, <4>5, <5>1
      <4>8. QED
        BY <4>6, <4>7
    <3>4. QED
      BY <3>2, <3>3
  <2>6. hist' = h /\ r <= Len(h) /\ r + 1 <= Len(h) /\ snapMaybe' = snapMaybe
    BY <1>2, <1>5, <2>2, <2>3
  <2>7. Recorded(r + 1)' /\ \A i \in 0..r : StatesOf(h)[i] = StatesOf(hist)[i]
    BY <1>5, <1>8, <1>14, <2>3, <2>4, <2>5, <2>6, HistoryRecorded
  <2>8. state' = StatesOf(h)[r] /\ seq' = r + 1 /\ seq' - 1 = r
    BY <1>2, <1>4, <1>5, <2>1, <2>7
  <2>9. Applied'
    BY <1>2, <1>5, <2>3, <2>6, <2>8 DEF Applied, Putting
  <2>10. QED
    BY <2>7, <2>9
<1>15. Whole(r + 1)'
  BY <1>2, <1>3, <1>4, <1>12, <1>13, <1>14 DEF Whole
<1>16. QED
  BY <1>8, <1>15 DEF Kept

LEMMA OpenKept ==
  ASSUME IInv, Open, Clean'
  PROVE  Kept'
<1>1. /\ pc = "down" /\ pc' = "idle" /\ seq' = Loaded.seq /\ state' = Loaded.st
      /\ hist' = SubSeq(hist, 1, IF Loaded.seq < Len(hist) THEN Loaded.seq ELSE Len(hist))
      /\ UNCHANGED <<segsD, snap, snapMaybe, arg, crashes, acked, faults>>
  BY DEF Open
<1>2. Clean
  BY <1>1 DEF Clean
<1>3. PICK r \in 0..MaxSeq : Whole(r)
  BY <1>2 DEF IInv, Kept
<1>4. Types /\ TypeOK /\ Counted /\ Log(r) /\ (faults = {} => Recorded(r)) /\ r \in Nat
  BY <1>3, Constants DEF IInv, Types, Whole
<1>5. Loaded.seq = r
  BY <1>4, Recovers
<1>6. /\ cur' \in Segs
      /\ segs # {} => segs' = segs /\ file' = file
      /\ segs = {} => segs' = {cur'} /\ file'[cur'] = NewFile /\ \A s \in Segs : s # cur' => file'[s] = file[s]
  BY <1>4, OpenIs
<1>7. Older
  <2>1. CASE segs # {}
    BY <1>1, <1>6, <2>1 DEF Older, Names
  <2>2. CASE segs = {}
    <3> SUFFICES ASSUME NEW s \in Names', NEW i \in 1..Len(file'[s].recs)
                 PROVE  s \in Names /\ i \in 1..Len(file[s].recs) /\ file'[s].recs[i] = file[s].recs[i]
      BY DEF Older
    <3>1. s # cur'
      BY <1>6, <2>2 DEF NewFile
    <3>2. s \in Names /\ s \in Segs
      BY <1>1, <1>4, <1>6, <2>2, <3>1 DEF Names, TypeOK
    <3>3. QED
      BY <1>6, <2>2, <3>1, <3>2
  <2>3. QED
    BY <2>1, <2>2
<1>8. Log(r)'
  <2>1. CASE segs # {}
    BY <1>1, <1>4, <1>6, <2>1, SameLog
  <2>2. CASE segs = {}
    <3>1. PICK n \in Segs : n = cur'
      BY <1>6
    <3>2. /\ segs' = segs \cup {n} /\ file'[n] = NewFile
          /\ \A s \in Segs : s # n => file'[s] = file[s]
      BY <1>6, <2>2, <3>1
    <3>3. \A s \in Segs : s # n => file'[s].recs = file[s].recs
      BY <3>2
    <3>4. Tidy'
      BY <1>4, <3>2 DEF Tidy, Log, NewFile
    <3>5. segsD \subseteq segsD' /\ segsD' \subseteq Names /\ snapMaybe' = snapMaybe /\ acked' = acked
      BY <1>1 DEF Names
    <3>6. \A p \in snapMaybe : \A m \in (p.seq + 1)..r :
             \E s \in segs, j \in 1..MaxSeq : In(s, j, m) /\ Firm(s, j)'
      BY <1>4, <2>2 DEF Log, Held
    <3>7. /\ \A s \in segs : s < n
          /\ \A s \in segs : file'[s].synced >= file[s].synced /\ file'[s].synced \in Nat
      BY <2>2
    <3>8. QED
      BY <1>4, <3>2, <3>3, <3>4, <3>5, <3>6, <3>7, NewSegmentLog
  <2>3. QED
    BY <2>1, <2>2
<1>9. Settled' /\ Snapshot'
  BY <1>1 DEF Settled, Snapshot
<1>10. ASSUME faults = {} PROVE Recorded(r)' /\ Applied'
  <2>1. Recorded(r) /\ hist \in Seq(Rec) /\ Len(hist) \in Nat /\ r <= Len(hist)
        /\ \A i \in 1..Len(hist) : hist[i].seq = i
    BY <1>4, <1>10, LenProperties DEF TypeOK, Recorded
  <2>2. PICK h : h = SubSeq(hist, 1, r)
    OBVIOUS
  <2>3. hist' = h
    BY <1>1, <1>4, <1>5, <2>1, <2>2
  <2>4. h \in Seq(Rec) /\ Len(h) = r /\ \A i \in 1..r : h[i] = hist[i]
    BY <1>4, <2>1, <2>2, SubSeqIs
  <2>5. \A i \in 1..Len(h) : h[i].seq = i
    BY <1>4, <2>1, <2>4
  <2>6. Recorded(r)' /\ \A i \in 0..r : StatesOf(h)[i] = StatesOf(hist)[i]
    <3>1. \A s \in Names' : \A i \in 1..Len(file'[s].recs) :
            \/ /\ s \in Names /\ i \in 1..Len(file[s].recs)
               /\ file'[s].recs[i] = file[s].recs[i]
            \/ file'[s].recs[i] = h[file'[s].recs[i].seq]
      BY <1>7 DEF Older
    <3>2. r <= Len(h) /\ snapMaybe' = snapMaybe
      BY <1>1, <1>4, <2>4
    <3>3. QED
      BY <1>4, <2>1, <2>3, <2>4, <2>5, <3>1, <3>2, HistoryRecorded
  <2>7. Loaded.st = StatesOf(hist)[r]
    <3>1. snap.st = StatesOf(hist)[snap.seq]
      BY <1>4, <2>1 DEF TypeOK, Recorded
    <3>2. \A s \in segs : \A i \in 1..Len(file[s].recs) :
            /\ file[s].recs[i].seq <= Len(hist)
            /\ file[s].recs[i] = hist[file[s].recs[i].seq]
      <4> SUFFICES ASSUME NEW s \in segs, NEW i \in 1..Len(file[s].recs)
                   PROVE  /\ file[s].recs[i].seq <= Len(hist)
                          /\ file[s].recs[i] = hist[file[s].recs[i].seq]
        OBVIOUS
      <4>1. s \in Names
        BY DEF Names
      <4>2. file[s].recs[i].seq \in Nat /\ file[s].recs[i].seq <= r
        BY <1>4, <4>1, NamesAre
      <4>3. QED
        BY <1>4, <2>1, <4>1, <4>2 DEF Recorded
    <3>3. QED
      BY <1>4, <1>5, <3>1, <3>2, RecoversState
  <2>8. state' = StatesOf(h)[r]
    <3>1. r \in 0..r
      BY <1>4
    <3>2. QED
      BY <1>1, <2>6, <2>7, <3>1
  <2>9. Applied'
    BY <1>1, <1>5, <2>3, <2>4, <2>8 DEF Applied, Putting
  <2>10. QED
    BY <2>6, <2>9
<1>11. Whole(r)'
  BY <1>1, <1>5, <1>8, <1>9, <1>10 DEF Whole
<1>12. QED
  BY <1>11 DEF Kept

LEMMA PowerLossKept ==
  ASSUME IInv, Types', PowerLoss, Clean'
  PROVE  Kept'
<1>1. /\ pc' = "down" /\ hist' = hist /\ acked' = acked /\ faults' = faults
      /\ snap' \in snapMaybe /\ snapMaybe' = {snap'}
  BY DEF PowerLoss, Down
<1>2. Clean
  BY <1>1 DEF Clean
<1>3. PICK r \in 0..MaxSeq : Whole(r)
  BY <1>2 DEF IInv, Kept
<1>4. Types /\ TypeOK /\ Counted /\ Log(r) /\ (faults = {} => Recorded(r)) /\ r \in Nat /\ MaxSeq \in Nat
  BY <1>3, Constants DEF IInv, Types, Whole
<1>5. Older /\ \E r2 \in 0..r : Log(r2)'
  BY <1>4, PowerLossLog
<1>6. PICK r2 \in 0..r : Log(r2)'
  BY <1>5
<1>7. r2 \in Nat /\ r2 <= r /\ r2 \in 0..MaxSeq
  BY <1>4, <1>6
<1>8. Settled' /\ Snapshot' /\ Applied'
  BY <1>1 DEF Settled, Snapshot, Applied, Putting
<1>9. faults = {} => Recorded(r2)'
  BY <1>1, <1>4, <1>5, <1>7, OlderRecorded
<1>10. Whole(r2)'
  BY <1>1, <1>6, <1>8, <1>9 DEF Whole
<1>11. QED
  BY <1>7, <1>10 DEF Kept

LEMMA InitInv == Init => IInv
<1> SUFFICES ASSUME Init PROVE IInv
  OBVIOUS
<1>1. Types
  BY InitTypes
<1>2. /\ file = [s \in Segs |-> NewFile] /\ segs = {} /\ segsD = {} /\ acked = 0 /\ hist = <<>>
      /\ pc = "down" /\ faults = {} /\ snapMaybe = {snap} /\ snap.seq = 0 /\ snap.st = NoState
      /\ Names = {}
  BY DEF Init, Names
<1>3. Log(0)
  <2>1. Bounded(0) /\ Held(0) /\ Gapless /\ AckedFirm /\ acked <= 0
    BY <1>2 DEF Bounded, Held, Gapless, AckedFirm
  <2>2. Tidy
    BY <1>2 DEF Tidy, NewFile
  <2>3. QED
    BY <2>1, <2>2 DEF Log
<1>4. Settled /\ Snapshot /\ Applied
  BY <1>2 DEF Settled, Snapshot, Applied, Putting
<1>5. Recorded(0)
  <2>1. <<>> \in Seq(Rec) /\ Len(<<>>) = 0
    OBVIOUS
  <2>2. PICK h \in Seq(Rec) : h = hist /\ Len(h) = 0
    BY <1>2, <2>1
  <2>3. StatesOf(h)[0] = NoState
    BY StatesOfIs
  <2>4. QED
    BY <1>2, <2>2, <2>3 DEF Recorded
<1>6. Whole(0)
  BY <1>2, <1>3, <1>4, <1>5 DEF Whole
<1>7. 0 \in 0..MaxSeq
  BY Constants
<1>8. QED
  BY <1>1, <1>6, <1>7 DEF IInv, Kept

LEMMA StutterKept ==
  ASSUME IInv, UNCHANGED vars
  PROVE  Kept'
<1> SUFFICES ASSUME Clean' PROVE Kept'
  BY DEF Kept
<1>1. UNCHANGED <<file, segs, segsD, snap, snapMaybe, pc, arg, seq, state, cur, segCount, pending,
                  crashes, hist, acked, faults>>
  BY DEF vars, disk, mem, ghosts
<1>2. Clean
  BY <1>1 DEF Clean
<1>3. PICK r \in 0..MaxSeq : Whole(r)
  BY <1>2 DEF IInv, Kept
<1>4. Types /\ TypeOK /\ Log(r) /\ Settled /\ Snapshot /\ (faults = {} => Recorded(r) /\ Applied) /\ r \in Nat
  BY <1>3, Constants DEF IInv, Types, Whole
<1>5. Log(r)' /\ Older
  BY <1>1, <1>4, SameLog
<1>6. Settled' /\ Snapshot' /\ (faults = {} => Applied')
  BY <1>1, <1>4 DEF Settled, Snapshot, Applied
<1>7. faults = {} => Recorded(r)'
  BY <1>1, <1>4, <1>5, OlderRecorded
<1>8. Whole(r)'
  BY <1>1, <1>3, <1>5, <1>6, <1>7 DEF Whole
<1>9. QED
  BY <1>8 DEF Kept

LEMMA NextInv == IInv /\ [Next]_vars => IInv'
<1> SUFFICES ASSUME IInv, [Next]_vars PROVE IInv'
  OBVIOUS
<1>1. Types'
  BY StepTypes DEF IInv
<1>2. Kept'
  <2> SUFFICES ASSUME Clean' PROVE Kept'
    BY DEF Kept
  <2>1. CASE UNCHANGED vars
    BY <2>1, StutterKept
  <2>2. CASE Open \/ PowerLoss
    BY <1>1, <2>2, OpenKept, PowerLossKept
  <2>3. ASSUME NEW k \in Keys, NEW v \in Vals \cup {NoVal}, NEW d \in BOOLEAN, Put(k, v, d)
        PROVE  Kept'
    <3>1. CASE Write(k, v, d)
      BY <3>1, WriteKept
    <3>2. ~WriteShort(k, v, d)
      <4>1. WriteShort(k, v, d) => faults' = faults \cup {"spliced"}
        BY DEF WriteShort
      <4>2. QED
        BY <4>1 DEF Clean
    <3>3. QED
      BY <2>3, <3>1, <3>2 DEF Put
  <2>4. ~EncodeFails
    BY DEF EncodeFails, Clean
  <2>5. CASE AppendSync \/ AppendNoSync \/ SyncFails
    BY <2>5, AppendSyncKept, AppendNoSyncKept, SyncFailsKept
  <2>6. CASE Rotate \/ RotateDirSync \/ Return \/ Flush
    BY <2>6, RotateKept, RotateDirSyncKept, ReturnKept, FlushKept
  <2>7. CASE CkBegin \/ CkReplace \/ CkSegment \/ CkFails
    BY <1>1, <2>7, CkBeginKept, CkReplaceKept, CkSegmentKept, CkFailsKept
  <2>8. CASE CkDirSync \/ CkSegmentDirSync \/ CkUnlink \/ CkEnd
    BY <1>1, <2>8, CheckpointKept
  <2>9. CASE Close \/ Kill \/ KillInAppend
    BY <2>9, CloseKept, KillKept, KillInAppendKept
  <2>10. QED
    BY <2>1, <2>2, <2>3, <2>4, <2>5, <2>6, <2>7, <2>8, <2>9 DEF Next
<1>3. QED
  BY <1>1, <1>2 DEF IInv

-----------------------------------------------------------------------------
(* The theorems                                                            *)

\* Through every write, rotation, checkpoint, kill and power loss, the snapshot and the
\* segments hold the operations up to one number without a gap, and everything that was
\* called durable while the active segment was on the medium where a power loss cannot take it.
THEOREM LogStaysWhole == Spec => []IInv
<1>1. Init => IInv
  BY InitInv
<1>2. IInv /\ [Next]_vars => IInv'
  BY NextInv
<1>3. QED
  BY <1>1, <1>2, PTL DEF Spec

\* The open database has every operation that put(durable=True), a completed group, flush,
\* checkpoint or close has called durable while the active segment was on the medium: _load
\* finds no less, unless bytes went behind a cut record or a number was skipped.  Every call
\* but a flush or close with nothing pending behind an open is of this kind.
THEOREM AcknowledgedIsRecovered == Spec => []AckedRecovered
<1>1. IInv => AckedRecovered
  <2> SUFFICES ASSUME IInv, pc = "idle", Clean PROVE seq >= acked
    BY DEF AckedRecovered, Clean
  <2>1. seq \in 0..MaxSeq /\ Log(seq) /\ TypeOK
    BY WholeOpen
  <2>2. QED
    BY <2>1, Constants DEF Log, TypeOK
<1>2. QED
  BY <1>1, LogStaysWhole, PTL

\* Without faults the state of the open database is that of the operations up to seq, none
\* missing and none applied twice.
THEOREM StateIsExact == Spec => []ExactPrefix
<1>1. IInv => ExactPrefix
  <2> SUFFICES ASSUME IInv PROVE ExactPrefix
    OBVIOUS
  <2>1. TypeOK
    BY DEF IInv, Types
  <2>2. ASSUME pc = "idle", faults = {}
        PROVE  /\ Len(hist) = seq /\ \A i \in 1..seq : hist[i].seq = i
               /\ state = StatesOf(hist)[seq]
    <3>1. Recorded(seq) /\ Applied
      BY <2>2, WholeOpen DEF Clean
    <3>2. QED
      BY <2>2, <3>1 DEF Recorded, Applied, Putting
  <2>3. QED
    BY <2>1, <2>2 DEF ExactPrefix
<1>2. QED
  BY <1>1, LogStaysWhole, PTL

\* The constructor raises RecoveryError only on a log with bytes behind a cut record or with
\* a skipped number; crashes and power losses alone never make one.
THEOREM RejectsOnlyAfterFaults == Spec => []RejectsOnlyFaults
<1>1. IInv => RejectsOnlyFaults
  <2> SUFFICES ASSUME IInv, Rejects, faults \cap {"spliced", "skipped"} = {} PROVE FALSE
    BY DEF RejectsOnlyFaults
  <2>1. Types /\ TypeOK /\ Counted
    BY DEF IInv, Types
  <2>2. Clean
    BY <2>1 DEF Clean, TypeOK
  <2>3. PICK r \in 0..MaxSeq : Whole(r)
    BY <2>2 DEF IInv, Kept
  <2>4. Log(r) /\ Tidy
    BY <2>3 DEF Whole, Log
  <2>5. Loaded.ok
    BY <2>1, <2>4, Recovers
  <2>6. \A s \in segs : file[s].tail # "bad"
    BY <2>1, <2>4 DEF Tidy, TypeOK
  <2>7. QED
    BY <2>5, <2>6 DEF Rejects
<1>2. QED
  BY <1>1, LogStaysWhole, PTL

=============================================================================
