------------------------- MODULE AtomicDatabase_proofs -------------------------
(***************************************************************************)
(* Theorems about AtomicDatabase, for every set of keys and values, every  *)
(* v1 state to start from and every bound.                                 *)
(***************************************************************************)
EXTENDS AtomicDatabase, SequenceTheorems, WellFoundedInduction, TLAPS

Item == [whole : BOOLEAN, seq : Nat, ops : Batch \cup {<<>>}]

-----------------------------------------------------------------------------
(* Operators                                                               *)

\* A set of positions has a last one.
LEMMA LastPosition ==
  ASSUME NEW n \in Nat, NEW T \in SUBSET (1..n), T # {}
  PROVE  \E i \in T : \A j \in T : j <= i
<1> DEFINE D == {d \in Nat : n - d \in T}
<1>1. PICK i \in T : TRUE
  OBVIOUS
<1>2. n - i \in D
  BY <1>1
<1>3. PICK d \in D : \A e \in D : ~(<<e, d>> \in OpToRel(<, Nat))
  BY <1>2, NatLessThanWellFounded, WFMin
<1>4. ASSUME NEW e \in D, e < d PROVE FALSE
  <2>1. <<e, d>> \in Nat \X Nat /\ <<e, d>>[1] < <<e, d>>[2]
    BY <1>4
  <2>2. <<e, d>> \in OpToRel(<, Nat)
    BY <2>1, Zenon DEF OpToRel
  <2>3. QED
    BY <1>3, <2>2, Zenon
<1>5. ASSUME NEW j \in T PROVE j <= n - d
  <2>1. n - j \in D
    OBVIOUS
  <2>2. ~(n - j < d)
    BY <1>4, <2>1, Zenon
  <2>3. QED
    BY <2>2
<1>6. QED
  BY <1>3, <1>5

LEMMA OpsType ==
  ASSUME NEW ops \in Batch \cup {<<>>}
  PROVE  \E n \in Nat : ops \in [1..n -> Op]
<1>1. CASE ops \in Batch
  BY <1>1, AtomicAssumption DEF Batch
<1>2. CASE ops = <<>>
  <2>1. ops \in [1..0 -> Op]
    BY <1>2
  <2>2. QED
    BY <2>1
<1>3. QED
  BY <1>1, <1>2

\* A batch turns a map into a map: where it names a key it also has a last value for it.
LEMMA ApplyType ==
  ASSUME NEW m \in Map, NEW ops \in Batch \cup {<<>>}
  PROVE  Apply(m, ops) \in Map
<1>1. PICK n \in Nat : ops \in [1..n -> Op]
  BY OpsType
<1>2. ASSUME NEW k \in Keys PROVE Apply(m, ops)[k] \in Value
  <2> DEFINE T == {i \in 1..n : ops[i].key = k}
             Ends(i) == /\ i \in DOMAIN ops /\ ops[i].key = k
                        /\ \A l \in DOMAIN ops : ops[l].key = k => l <= i
  <2>1. CASE T = {}
    <3>1. ~\E i \in DOMAIN ops : ops[i].key = k
      BY <1>1, <2>1
    <3>2. QED
      BY <3>1 DEF Apply, Map
  <2>2. CASE T # {}
    <3>1. PICK i \in T : \A j \in T : j <= i
      BY <2>2, LastPosition
    <3>2. Ends(i) /\ \E j \in DOMAIN ops : ops[j].key = k
      BY <1>1, <3>1
    <3>3. PICK j \in 1..n : Apply(m, ops)[k] = ops[j].val
      BY <1>1, <3>2 DEF Apply
    <3>4. QED
      BY <1>1, <3>3 DEF Op
  <2>3. QED
    BY <2>1, <2>2
<1>3. QED
  BY <1>2 DEF Apply, Map

LEMMA CutProperties ==
  ASSUME NEW S, NEW s \in Seq(S), NEW n \in Nat
  PROVE  /\ Cut(s, n) \in Seq(S)
         /\ Len(Cut(s, n)) = IF n <= Len(s) THEN n ELSE Len(s)
         /\ \A i \in 1..Len(Cut(s, n)) : Cut(s, n)[i] = s[i]
<1> DEFINE m == IF n <= Len(s) THEN n ELSE Len(s)
<1>1. m \in 0..Len(s) /\ \A i \in 1..m : s[i] \in S
  OBVIOUS
<1>2. /\ SubSeq(s, 1, m) \in Seq(S)
      /\ Len(SubSeq(s, 1, m)) = m
      /\ \A i \in 1..m : SubSeq(s, 1, m)[i] = s[i]
  BY <1>1, SubSeqProperties
<1>3. QED
  BY <1>2 DEF Cut
-----------------------------------------------------------------------------
(* The invariants                                                          *)

Working == {"append", "fdatasync", "apply"}

\* Where a call is
Phase ==
    /\ pc # "down" => last >= LegacySeq /\ fail = "none"
    /\ pc \in Working => cur.ops \in Batch
    /\ pc = "replay" => pos \in 1..(Len(items) + 1) /\ \A i \in 1..(pos - 1) : items[i].whole

\* No trace of a failed append before frame n
Reused(i) == ~items[i].whole \/ (items[i + 1].whole /\ items[i + 1].seq <= items[i].seq)
Clean(n) == \A i \in 1..(n - 1) : ~Reused(i)

FramesNumbered ==
    \A n \in 1..Len(items) : Clean(n) /\ items[n].whole => items[n].seq = LegacySeq + n

\* Up to the first such trace frames are numbered without gap, and the number the process
\* goes on with is that of the last frame, or of the one before when its fdatasync failed.
Numbered ==
    /\ FramesNumbered
    /\ pc = "replay" /\ Clean(pos - 1) => last = LegacySeq + pos - 1
    /\ pc \in {"idle", "append"} /\ Clean(Len(items)) =>
          IF Len(items) = 0 THEN last = LegacySeq
          ELSE items[Len(items)].whole => last - LegacySeq \in {Len(items), Len(items) - 1}
    /\ pc \in {"fdatasync", "apply"} /\ Clean(Len(items)) => last = LegacySeq + Len(items) - 1

\* Only the last frame can be incomplete, and none is while the database runs or when the
\* medium may still have a tail that was cut off.
Contiguous ==
    /\ fail = "none"
    /\ \A i \in 1..Len(items) : items[i].whole => items[i].seq = LegacySeq + i
    /\ \A i \in 1..(Len(items) - 1) : items[i].whole
    /\ Up \/ cut => \A i \in 1..Len(items) : items[i].whole
    /\ pc = "replay" => last = LegacySeq + pos - 1
    /\ pc \in {"idle", "append"} => last = LegacySeq + Len(items)
    /\ pc \in {"fdatasync", "apply"} => last = LegacySeq + Len(items) - 1

\* The frames make the maps of the history one from the other; the map in memory is one
\* of them.
Traced ==
    /\ Len(hist) >= 1 /\ hist[1] = LegacyMap
    /\ \A i \in 1..Len(items) : items[i].whole =>
          i < Len(hist) /\ hist[i + 1] = Apply(hist[i], items[i].ops)
    /\ pc # "down" => state = hist[Batches + 1]
    /\ Up => Len(hist) = Len(items) + 1
    /\ pc \in {"fdatasync", "apply"} => items[Len(items)].ops = cur.ops

\* What was acknowledged, or is about to be, is on the medium.
OnMedium ==
    /\ AckedStable
    /\ Up => acked <= Batches /\ base <= Batches
    /\ pc = "apply" /\ cur.sync => link = "durable" /\ synced = Len(items)

TypeInv == TypeOK /\ Phase
ReuseInv == TypeInv /\ Numbered /\ RejectsOnlyReuse
LogInv == TypeInv /\ Contiguous
StoreInv == LogInv /\ Traced /\ OnMedium
-----------------------------------------------------------------------------
(* Types                                                                   *)

LEMMA EmptyType == Empty \in Map
  BY DEF Empty, Map, Value

LEMMA ItemsType == TypeOK => items \in Seq(Item)
  BY DEF TypeOK, Item

LEMMA FrameType ==
  ASSUME NEW n \in Nat, NEW ops \in Batch
  PROVE  Frame(n, ops) \in Item
  BY DEF Frame, Item

LEMMA PartialType == Partial \in Item
  BY DEF Partial, Item

LEMMA DeletesType ==
  ASSUME NEW m, NEW ops \in Deletes(m) PROVE ops \in Batch
  BY DEF Deletes

\* The file after an append, and after the end of a process or of the host
LEMMA Appended ==
  ASSUME TypeOK, NEW x \in Item
  PROVE  /\ Append(items, x) \in Seq(Item)
         /\ Len(Append(items, x)) = Len(items) + 1
         /\ \A i \in 1..Len(items) : Append(items, x)[i] = items[i]
         /\ Append(items, x)[Len(items) + 1] = x
  BY ItemsType, AppendProperties

\* What a power loss leaves: a prefix with everything that was synced, and perhaps an
\* incomplete frame behind it, or nothing when the directory entry may be lost.
LEMMA PowerLossItems ==
  ASSUME TypeOK, PowerLoss
  PROVE  /\ items' \in Seq(Item) /\ synced' = Len(items')
         /\ link' \in {"none", "durable"}
         /\ \/ link # "durable" /\ items' = <<>>
            \/ \E n \in synced..Len(items) :
                 /\ link' = "durable" /\ Len(items') \in {n, n + 1}
                 /\ \A i \in 1..n : items'[i] = items[i]
                 /\ Len(items') = n + 1 => items'[n + 1] = Partial /\ (n < Len(items) \/ cut)
<1>1. CASE link # "durable" /\ items' = <<>> /\ synced' = 0 /\ link' = "none"
  BY <1>1
<1>2. CASE /\ link' = "durable"
           /\ \E n \in synced..Len(items), partial \in BOOLEAN :
                /\ partial => n < Len(items) \/ cut
                /\ items' = IF partial THEN Append(Cut(items, n), Partial) ELSE Cut(items, n)
                /\ synced' = Len(items')
  <2>1. PICK n \in synced..Len(items), partial \in BOOLEAN :
          /\ partial => n < Len(items) \/ cut
          /\ items' = IF partial THEN Append(Cut(items, n), Partial) ELSE Cut(items, n)
          /\ synced' = Len(items')
    BY <1>2
  <2>2. n \in Nat /\ n <= Len(items) /\ items \in Seq(Item)
    BY ItemsType DEF TypeOK
  <2> DEFINE c == Cut(items, n)
  <2>3. c \in Seq(Item) /\ Len(c) = n /\ \A i \in 1..n : c[i] = items[i]
    BY <2>2, CutProperties
  <2> HIDE DEF c
  <2>4. CASE partial
    <3>1. Partial \in Item
      BY DEF Partial, Item
    <3>2. items' = Append(c, Partial)
      BY <2>1, <2>4 DEF c
    <3>3. items' \in Seq(Item) /\ Len(items') = n + 1 /\ items'[n + 1] = Partial
          /\ \A i \in 1..n : items'[i] = c[i]
      BY <2>3, <3>1, <3>2, AppendProperties
    <3>4. QED
      <4>1. link' = "durable" /\ synced' = Len(items') /\ (n < Len(items) \/ cut)
        BY <1>2, <2>1, <2>4
      <4>2. QED
        BY <2>2, <2>3, <3>3, <4>1
  <2>5. CASE ~partial
    <3>1. items' = c
      BY <2>1, <2>5 DEF c
    <3>2. link' = "durable" /\ synced' = Len(items')
      BY <1>2, <2>1
    <3>3. items' \in Seq(Item) /\ Len(items') = n /\ Len(items') # n + 1
          /\ \A i \in 1..n : items'[i] = items[i]
      BY <2>2, <2>3, <3>1
    <3>4. QED
      BY <3>2, <3>3
  <2>6. QED
    BY <2>4, <2>5
<1>3. QED
  BY <1>1, <1>2 DEF PowerLoss

LEMMA PowerLossPrefix ==
  ASSUME TypeOK, PowerLoss
  PROVE  \E m \in 0..Len(items) :
           /\ \A i \in 1..m : items'[i] = items[i]
           /\ \/ Len(items') = m
              \/ /\ Len(items') = m + 1 /\ ~items'[m + 1].whole
                 /\ m < Len(items) \/ cut
<1>1. \/ items' = <<>>
      \/ \E n \in synced..Len(items) :
           /\ Len(items') \in {n, n + 1}
           /\ \A i \in 1..n : items'[i] = items[i]
           /\ Len(items') = n + 1 => items'[n + 1] = Partial /\ (n < Len(items) \/ cut)
  BY PowerLossItems, Zenon
<1>2. ~Partial.whole /\ Len(items) \in Nat
  BY ItemsType DEF Partial
<1>3. CASE items' = <<>>
  BY <1>2, <1>3
<1>4. QED
  BY <1>1, <1>2, <1>3 DEF TypeOK

LEMMA LostType ==
  ASSUME Lost, items' \in Seq(Item), synced' \in 0..Len(items'), cut' \in BOOLEAN,
         link' \in {"none", "cached", "durable"}, fail' \in {"none", "gap", "corrupt", "io"},
         hist' \in Seq(Map), base' \in Nat, acked' \in Nat, crashes' \in 0..MaxCrash
  PROVE  TypeInv'
<1>1. dup' \in BOOLEAN
  BY Zenon DEF Lost
<1>2. cur' \in [ops : Batch \cup {<<>>}, sync : BOOLEAN]
  BY DEF Lost, NoBatch
<1>3. state' \in Map /\ last' \in Nat /\ durable' \in 0..last' /\ pc' = "down"
      /\ pos' \in Nat /\ committed' \in Nat
  BY EmptyType DEF Lost
<1>4. TypeOK'
  BY <1>1, <1>2, <1>3 DEF TypeOK, Item
<1>5. QED
  BY <1>3, <1>4 DEF TypeInv, Phase, Working

LEMMA TypeInit == Init => TypeInv
<1> SUFFICES ASSUME Init PROVE TypeInv
  OBVIOUS
<1>1. cut \in BOOLEAN /\ dup \in BOOLEAN
  BY Zenon DEF Init
<1>2. cur \in [ops : Batch \cup {<<>>}, sync : BOOLEAN]
  BY DEF Init, NoBatch
<1>3. TypeOK
  BY <1>1, <1>2, EmptyType, AtomicAssumption DEF Init, TypeOK
<1>4. QED
  BY <1>3 DEF Init, TypeInv, Phase, Working

LEMMA TypeOpenFails ==
  ASSUME TypeInv, NEW why \in {"none", "gap", "corrupt", "io"}, OpenFails(why)
  PROVE  TypeInv'
  BY LostType DEF OpenFails, TypeInv, TypeOK, fileVars, Item

LEMMA TypeStep == TypeInv /\ [Next]_vars => TypeInv'
<1> SUFFICES ASSUME TypeInv, [Next]_vars PROVE TypeInv'
  OBVIOUS
<1> USE AtomicAssumption
<1>0. TypeOK /\ items \in Seq(Item)
  BY ItemsType DEF TypeInv
<1>1. CASE Open
  <2>1. TypeOK'
    BY <1>0, <1>1 DEF Open, TypeOK, fileVars
  <2>2. QED
    BY <1>1, <2>1 DEF Open, TypeInv, Phase, Working, fileVars
<1>2. CASE ReplayFrame
  <2> DEFINE f == items[pos]
  <2>1. pc = "replay" /\ pos \in 1..Len(items) /\ f.whole /\ f \in Item
    BY <1>0, <1>2 DEF ReplayFrame, TypeInv, Phase, TypeOK
  <2>2. CASE ~SequenceAccepted(f.seq)
    BY <1>2, <2>2, TypeOpenFails DEF ReplayFrame
  <2>3. CASE SequenceAccepted(f.seq)
    <3>1. f.seq \in Nat /\ f.seq >= last /\ f.ops \in Batch \cup {<<>>}
      BY <1>0, <2>1, <2>3 DEF SequenceAccepted, IsLegacyDuplicate, Item, TypeOK
    <3>2. Apply(state, f.ops) \in Map
      BY <1>0, <3>1, ApplyType DEF TypeOK
    <3>3. dup' \in BOOLEAN
      BY <1>0, <1>2, <2>3, Zenon DEF ReplayFrame, IsLegacyDuplicate, TypeOK
    <3>4. TypeOK'
      BY <1>0, <1>2, <2>3, <3>1, <3>2, <3>3 DEF ReplayFrame, TypeOK, fileVars
    <3>5. Phase'
      BY SMTT(30), <1>0, <1>2, <2>1, <2>3, <3>1 DEF ReplayFrame, TypeInv, Phase, Working, fileVars, TypeOK
    <3>6. QED
      BY <3>4, <3>5 DEF TypeInv
  <2>4. QED
    BY <2>2, <2>3
<1>3. CASE ReplayGarbage
  BY <1>3, TypeOpenFails DEF ReplayGarbage
<1>4. CASE ReplayEnd
  <2>1. pc = "replay" /\ pos \in 1..(Len(items) + 1) /\ last >= LegacySeq /\ last \in Nat
    BY <1>0, <1>4 DEF ReplayEnd, TypeInv, Phase, TypeOK
  <2>2. items' \in Seq(Item) /\ Len(items') = pos - 1
    BY <1>0, <1>4, <2>1, CutProperties DEF ReplayEnd
  <2>3. synced' \in 0..Len(items')
    BY <1>0, <1>4, <2>1, <2>2 DEF ReplayEnd, TypeOK
  <2>4. Batches \in Nat /\ hist' \in Seq(Map)
    BY <1>0, <1>4, <2>1, CutProperties DEF ReplayEnd, Batches, TypeOK
  <2>5. cut' \in BOOLEAN /\ dup' \in BOOLEAN
    BY <1>0, <1>4, Zenon DEF ReplayEnd, TypeOK
  <2>6. TypeOK'
    BY <1>0, <1>4, <2>1, <2>2, <2>3, <2>4, <2>5 DEF ReplayEnd, TypeOK, Item
  <2>7. QED
    BY <1>4, <2>1, <2>6 DEF ReplayEnd, TypeInv, Phase, Working
<1>5. CASE RepairFails
  BY <1>5, TypeOpenFails DEF RepairFails
<1>6. ASSUME NEW mode \in Modes, NEW ops \in Batch,
             \/ WriteBatch(ops, mode)
             \/ Clear(mode) /\ cur' = [ops |-> ops, sync |-> mode # "Async"]
      PROVE  TypeInv'
  <2>1. cur' \in [ops : Batch \cup {<<>>}, sync : BOOLEAN] /\ cur'.ops \in Batch
    <3>1. cur' = [ops |-> ops, sync |-> mode # "Async"]
      BY <1>6 DEF WriteBatch
    <3>2. (mode # "Async") \in BOOLEAN
      BY Zenon
    <3>3. QED
      BY <3>1, <3>2
  <2>2. TypeOK'
    BY <1>0, <1>6, <2>1 DEF WriteBatch, Clear, TypeOK, fileVars, memVars, repVars
  <2>3. QED
    BY <1>6, <2>1, <2>2 DEF WriteBatch, Clear, TypeInv, Phase, Working, fileVars, memVars, repVars
<1>7. ASSUME NEW mode \in Modes, Clear(mode) PROVE TypeInv'
  <2>1. PICK ops \in Deletes(state) : cur' = [ops |-> ops, sync |-> mode # "Async"]
    BY <1>7 DEF Clear
  <2>2. QED
    BY <1>6, <1>7, <2>1, DeletesType
<1>8. CASE AppendFrame
  <2>1. pc = "append" /\ cur.ops \in Batch /\ last + 1 \in Nat /\ cur.sync \in BOOLEAN
    BY <1>0, <1>8 DEF AppendFrame, TypeInv, Phase, Working, TypeOK
  <2>2. items' \in Seq(Item) /\ Len(items') = Len(items) + 1
    BY <1>0, <1>8, <2>1, FrameType, Appended DEF AppendFrame
  <2>3. hist' \in Seq(Map)
    <3>1. Apply(state, cur.ops) \in Map
      BY <1>0, <2>1, ApplyType DEF TypeOK
    <3>2. QED
      BY <1>0, <1>8, <3>1, AppendProperties DEF AppendFrame, TypeOK
  <2>4. cut' \in BOOLEAN
    BY <1>8, Zenon DEF AppendFrame
  <2>5. TypeOK'
    BY <1>0, <1>8, <2>2, <2>3, <2>4 DEF AppendFrame, TypeOK, memVars, repVars, Item
  <2>6. QED
    BY <1>8, <2>1, <2>5 DEF AppendFrame, TypeInv, Phase, Working, memVars, repVars
<1>9. CASE FrameSync
  <2>1. cut' \in BOOLEAN
    BY <1>9, Zenon DEF FrameSync, FileSynced
  <2>2. TypeOK'
    BY <1>0, <1>9, <2>1 DEF FrameSync, FileSynced, TypeOK, memVars, repVars
  <2>3. QED
    BY <1>9, <2>2 DEF FrameSync, TypeInv, Phase, Working, memVars, repVars
<1>10. CASE ApplyBatch
  <2>1. pc = "apply" /\ cur.ops \in Batch /\ last >= LegacySeq /\ last \in Nat
    BY <1>0, <1>10 DEF ApplyBatch, TypeInv, Phase, Working, TypeOK
  <2>2. state' \in Map
    BY <1>0, <1>10, <2>1, ApplyType DEF ApplyBatch, TypeOK
  <2>3. cur' \in [ops : Batch \cup {<<>>}, sync : BOOLEAN]
    BY <1>10 DEF ApplyBatch, NoBatch
  <2>4. last' = last + 1 /\ durable' \in 0..last' /\ acked' \in Nat
    BY <1>0, <1>10, <2>1 DEF ApplyBatch, Batches, TypeOK
  <2>5. TypeOK'
    BY <1>0, <1>10, <2>1, <2>2, <2>3, <2>4 DEF ApplyBatch, TypeOK, fileVars, repVars
  <2>6. QED
    BY <1>10, <2>1, <2>5 DEF ApplyBatch, TypeInv, Phase, Working, fileVars, repVars
<1>11. CASE Sync
  <2>1. cut' \in BOOLEAN
    BY <1>11, Zenon DEF Sync, FileSynced
  <2>2. TypeOK'
    BY <1>0, <1>11, <2>1 DEF Sync, FileSynced, Batches, TypeOK, repVars, TypeInv, Phase
  <2>3. QED
    BY <1>11, <2>2 DEF Sync, TypeInv, Phase, Working, repVars
<1>12. ASSUME NEW partial \in BOOLEAN, AppendFails(partial) PROVE TypeInv'
  <2>1. items' \in Seq(Item) /\ Len(items') >= Len(items)
    <3>1. CASE partial
      BY <1>0, <1>12, <3>1, Appended, PartialType DEF AppendFails
    <3>2. CASE ~partial
      BY <1>0, <1>12, <3>2 DEF AppendFails
    <3>3. QED
      BY <3>1, <3>2
  <2>2. cur' \in [ops : Batch \cup {<<>>}, sync : BOOLEAN]
    BY <1>12 DEF AppendFails, NoBatch
  <2>3. cut' \in BOOLEAN
    BY <1>12, Zenon DEF AppendFails
  <2>4. TypeOK'
    BY <1>0, <1>12, <2>1, <2>2, <2>3 DEF AppendFails, TypeOK, memVars, repVars, Item
  <2>5. QED
    BY <1>12, <2>4 DEF AppendFails, TypeInv, Phase, Working, memVars, repVars
<1>13. ASSUME NEW partial \in BOOLEAN, ProcessCrash(partial) PROVE TypeInv'
  <2>1. items' \in Seq(Item) /\ Len(items') >= Len(items)
    <3>1. CASE partial
      BY <1>0, <1>13, <3>1, Appended, PartialType DEF ProcessCrash
    <3>2. CASE ~partial
      BY <1>0, <1>13, <3>2 DEF ProcessCrash
    <3>3. QED
      BY <3>1, <3>2
  <2>2. synced' \in 0..Len(items') /\ crashes' \in 0..MaxCrash
    BY <1>0, <1>13, <2>1 DEF ProcessCrash, TypeOK
  <2>3. cut' \in BOOLEAN
    BY <1>13, Zenon DEF ProcessCrash
  <2>4. QED
    BY <1>0, <1>13, <2>1, <2>2, <2>3, LostType DEF ProcessCrash, TypeOK
<1>14. CASE FrameSyncFails
  <2>1. Len(hist) - 1 \in Nat \/ Cut(hist, Len(hist) - 1) = <<>>
    BY <1>0, SubSeqEmpty DEF TypeOK, Cut
  <2>2. hist' \in Seq(Map)
    BY <1>0, <1>14, <2>1, CutProperties DEF FrameSyncFails, TypeOK
  <2>3. cur' \in [ops : Batch \cup {<<>>}, sync : BOOLEAN]
    BY <1>14 DEF FrameSyncFails, NoBatch
  <2>4. TypeOK'
    BY <1>0, <1>14, <2>2, <2>3 DEF FrameSyncFails, TypeOK, fileVars, memVars, repVars
  <2>5. QED
    BY <1>14, <2>4 DEF FrameSyncFails, TypeInv, Phase, Working, fileVars, memVars, repVars
<1>15. CASE Close
  BY <1>0, <1>15, LostType DEF Close, TypeOK, fileVars
<1>16. CASE PowerLoss
  <2>1. items' \in Seq(Item) /\ synced' \in 0..Len(items') /\ link' \in {"none", "cached", "durable"}
    <3>1. items' \in Seq(Item) /\ synced' = Len(items') /\ link' \in {"none", "durable"}
      BY <1>0, <1>16, PowerLossItems, Zenon
    <3>2. QED
      BY <3>1
  <2>2. crashes' \in 0..MaxCrash
    BY <1>0, <1>16 DEF PowerLoss, TypeOK
  <2>3. cut' \in BOOLEAN
    BY <1>16, Zenon DEF PowerLoss
  <2>4. QED
    BY <1>0, <1>16, <2>1, <2>2, <2>3, LostType DEF PowerLoss, TypeOK
<1>17. CASE UNCHANGED vars
  BY <1>17 DEF TypeInv, TypeOK, Phase, vars, fileVars, memVars, repVars
<1>18. QED
  BY <1>1, <1>2, <1>3, <1>4, <1>5, <1>6, <1>7, <1>8, <1>9, <1>10, <1>11, <1>12, <1>13, <1>14,
     <1>15, <1>16, <1>17 DEF Next

\* Every variable keeps its type: positions, sequences and counters stay in range, and
\* what replay and write_batch compute stays a map of the keys.
THEOREM TypeCorrect == Spec => []TypeOK
<1>1. TypeInv => TypeOK
  BY DEF TypeInv
<1>2. QED
  BY <1>1, TypeInit, TypeStep, PTL DEF Spec
-----------------------------------------------------------------------------
(* What open() rejects                                                     *)

LEMMA RejectsClean ==
  RejectsOnlyReuse <=> (fail \in {"gap", "corrupt"} => ~Clean(Len(items)))
  BY DEF RejectsOnlyReuse, Clean, Reused

LEMMA CleanPrefix ==
  ASSUME NEW m \in Nat, NEW n \in Int, n <= m, \A i \in 1..m : items'[i] = items[i]
  PROVE  Clean(n)' <=> Clean(n)
  BY DEF Clean, Reused

LEMMA CleanShorter ==
  ASSUME NEW m \in Int, NEW n \in Int, n <= m, Clean(m) PROVE Clean(n)
  BY DEF Clean

\* A prefix of the file, and perhaps an incomplete frame behind it
LEMMA PrefixNumbered ==
  ASSUME FramesNumbered, NEW m \in 0..Len(items), TypeOK, items' \in Seq(Item),
         \A i \in 1..m : items'[i] = items[i],
         Len(items') \in {m, m + 1}, Len(items') = m + 1 => ~items'[m + 1].whole
  PROVE  FramesNumbered'
<1> SUFFICES ASSUME NEW n \in 1..Len(items'), Clean(n)', items'[n].whole
             PROVE  items'[n].seq = LegacySeq + n
  BY DEF FramesNumbered
<1>1. n \in 1..m /\ m \in Nat /\ items \in Seq(Item)
  BY ItemsType
<1>2. Clean(n)
  BY <1>1, CleanPrefix
<1>3. QED
  BY <1>1, <1>2 DEF FramesNumbered

LEMMA ReuseLost ==
  ASSUME ReuseInv, TypeInv', Lost, NEW m \in 0..Len(items),
         \A i \in 1..m : items'[i] = items[i],
         Len(items') \in {m, m + 1}, Len(items') = m + 1 => ~items'[m + 1].whole,
         fail' = "none" \/ (fail' = fail /\ pc # "down")
  PROVE  ReuseInv'
<1>1. FramesNumbered'
  <2>1. items' \in Seq(Item)
    BY DEF TypeInv, TypeOK, Item
  <2>2. QED
    BY <2>1, PrefixNumbered DEF ReuseInv, TypeInv, Numbered
<1>2. Numbered'
  BY <1>1 DEF Numbered, Lost
<1>3. fail' = "none"
  BY DEF ReuseInv, TypeInv, Phase
<1>4. QED
  BY <1>2, <1>3 DEF ReuseInv, RejectsOnlyReuse

\* The file stays as it is, and open() does not throw.
LEMMA ReuseSame ==
  ASSUME ReuseInv, items' = items, pc # "down" \/ fail' = "none", fail' = fail \/ fail' = "none"
  PROVE  FramesNumbered' /\ RejectsOnlyReuse' /\ \A n \in Int : Clean(n)' <=> Clean(n)
  BY DEF ReuseInv, TypeInv, Phase, Numbered, FramesNumbered, RejectsOnlyReuse, Clean, Reused

LEMMA ReuseStep == ReuseInv /\ [Next]_vars => ReuseInv'
<1> SUFFICES ASSUME ReuseInv, [Next]_vars PROVE ReuseInv'
  OBVIOUS
<1> USE AtomicAssumption
<1>0. /\ TypeInv /\ TypeInv' /\ TypeOK /\ items \in Seq(Item) /\ Len(items) \in Nat
      /\ last \in Nat /\ pos \in Nat /\ FramesNumbered /\ Numbered
  BY TypeStep, ItemsType DEF ReuseInv, TypeInv, TypeOK, Numbered
<1>1. CASE Open
  <2>1. FramesNumbered' /\ RejectsOnlyReuse'
    BY <1>1, ReuseSame DEF Open, fileVars
  <2>2. Numbered'
    BY <1>1, <2>1 DEF Open, Numbered
  <2>3. QED
    BY <1>0, <2>1, <2>2 DEF ReuseInv
<1>2. CASE ReplayFrame
  <2> DEFINE f == items[pos]
  <2>1. pc = "replay" /\ pos \in 1..Len(items) /\ f.whole /\ f \in Item
    BY SMTT(30), <1>0, <1>2 DEF ReplayFrame, TypeInv, Phase, TypeOK
  <2>2. CASE ~SequenceAccepted(f.seq)
    <3>1. Lost /\ items' = items
      BY <1>2, <2>2 DEF ReplayFrame, OpenFails, fileVars
    <3>2. ASSUME Clean(Len(items)) PROVE FALSE
      <4>1. Clean(pos) /\ Clean(pos - 1)
        BY <1>0, <2>1, <3>2, CleanShorter
      <4>2. f.seq = last + 1
        BY <1>0, <2>1, <4>1 DEF Numbered, FramesNumbered
      <4>3. QED
        BY <2>2, <4>2 DEF SequenceAccepted
    <3>3. RejectsOnlyReuse'
      BY <3>1, <3>2 DEF RejectsOnlyReuse, Clean, Reused
    <3>4. Numbered'
      BY <1>0, <3>1 DEF Lost, Numbered, FramesNumbered, Clean, Reused
    <3>5. QED
      BY <1>0, <3>3, <3>4 DEF ReuseInv
  <2>3. CASE SequenceAccepted(f.seq)
    <3>1. /\ items' = items /\ pc' = pc /\ pos' = pos + 1 /\ last' = f.seq /\ fail' = fail
      BY <1>2, <2>3 DEF ReplayFrame, fileVars
    <3>2. FramesNumbered' /\ RejectsOnlyReuse' /\ \A n \in Int : Clean(n)' <=> Clean(n)
      BY <2>1, <3>1, ReuseSame
    <3>3. Clean(pos) => last' = LegacySeq + pos
      BY <1>0, <2>1, <3>1 DEF FramesNumbered
    <3>4. Numbered'
      BY <1>0, <2>1, <3>1, <3>2, <3>3 DEF Numbered
    <3>5. QED
      BY <1>0, <3>2, <3>4 DEF ReuseInv
  <2>4. QED
    BY <2>2, <2>3
<1>3. CASE ReplayGarbage
  <2>1. Lost /\ items' = items /\ pos \in 1..(Len(items) - 1) /\ ~items[pos].whole
    BY <1>0, <1>3 DEF ReplayGarbage, OpenFails, fileVars, TypeInv, Phase
  <2>2. RejectsOnlyReuse'
    BY <2>1 DEF RejectsOnlyReuse
  <2>3. Numbered'
    BY <1>0, <2>1 DEF Lost, Numbered, FramesNumbered, Clean, Reused
  <2>4. QED
    BY <1>0, <2>2, <2>3 DEF ReuseInv
<1>4. CASE ReplayEnd
  <2>1. /\ pos \in 1..(Len(items) + 1) /\ pc = "replay" /\ fail' = fail /\ fail = "none"
        /\ pc' = "idle" /\ last' = last
    BY <1>0, <1>4 DEF ReplayEnd, TypeInv, Phase
  <2>2. /\ items' \in Seq(Item) /\ Len(items') = pos - 1
        /\ \A i \in 1..(pos - 1) : items'[i] = items[i]
    BY <1>0, <1>4, <2>1, CutProperties DEF ReplayEnd
  <2>3. FramesNumbered'
    BY SMTT(30), <1>0, <2>1, <2>2, PrefixNumbered
  <2>4. Clean(Len(items))' => Clean(pos - 1)
    BY <2>1, <2>2 DEF Clean, Reused
  <2>5. Numbered'
    BY <1>0, <2>1, <2>2, <2>3, <2>4 DEF Numbered
  <2>6. QED
    BY <1>0, <2>1, <2>5 DEF ReuseInv, RejectsOnlyReuse
<1>5. CASE RepairFails
  <2>1. Lost /\ items' = items /\ fail' = "io"
    BY <1>5 DEF RepairFails, OpenFails, fileVars
  <2>2. Numbered'
    BY <1>0, <2>1 DEF Lost, Numbered, FramesNumbered, Clean, Reused
  <2>3. QED
    BY <1>0, <2>1, <2>2 DEF ReuseInv, RejectsOnlyReuse
<1>6. ASSUME pc = "idle", pc' = "append", items' = items, last' = last, fail' = fail
      PROVE  ReuseInv'
  <2>1. FramesNumbered' /\ RejectsOnlyReuse' /\ \A n \in Int : Clean(n)' <=> Clean(n)
    BY <1>6, ReuseSame
  <2>2. Numbered'
    BY <1>0, <1>6, <2>1 DEF Numbered
  <2>3. QED
    BY <1>0, <2>1, <2>2 DEF ReuseInv
<1>7. ASSUME NEW mode \in Modes, Clear(mode) \/ \E ops \in Batch : WriteBatch(ops, mode)
      PROVE  ReuseInv'
  BY <1>6, <1>7 DEF Clear, WriteBatch, fileVars, memVars
<1>8. CASE AppendFrame
  <2> DEFINE x == Frame(last + 1, cur.ops)
  <2>0. PICK N \in Nat : N = Len(items)
    BY <1>0
  <2>1. pc = "append" /\ cur.ops \in Batch /\ fail = "none" /\ fail' = fail /\ last' = last
        /\ pc' \in {"fdatasync", "apply"}
    BY <1>0, <1>8 DEF AppendFrame, TypeInv, Phase, Working, memVars
  <2>2. x \in Item /\ x.whole /\ x.seq = last + 1
    BY <1>0, <2>0, <2>1, FrameType DEF Frame
  <2>3. /\ items' \in Seq(Item) /\ Len(items') = N + 1 /\ items'[N + 1] = x
        /\ \A i \in 1..N : items'[i] = items[i]
    BY <1>0, <1>8, <2>0, <2>2, Appended DEF AppendFrame
  <2> HIDE DEF x
  <2>4. ASSUME Clean(Len(items))' PROVE last = LegacySeq + N
    <3>1. Clean(N)
      BY <2>0, <2>1, <2>3, <2>4 DEF Clean, Reused
    <3>2. CASE N = 0
      BY <1>0, <2>0, <2>1, <3>1, <3>2 DEF Numbered
    <3>3. CASE N > 0
      <4>1. items[N].whole /\ items'[N + 1].seq > items[N].seq
        <5>1. ~Reused(N)'
          BY <2>0, <2>3, <2>4, <3>3 DEF Clean
        <5>2. items'[N] = items[N] /\ items[N] \in Item /\ items'[N + 1] \in Item
          BY <1>0, <2>0, <2>2, <2>3, <3>3
        <5>3. QED
          BY <2>2, <2>3, <5>1, <5>2 DEF Reused, Item
      <4>2. items[N].seq = LegacySeq + N
        BY <1>0, <2>0, <3>1, <3>3, <4>1 DEF FramesNumbered
      <4>3. last - LegacySeq \in {N, N - 1}
        BY <1>0, <2>0, <2>1, <3>1, <3>3, <4>1 DEF Numbered
      <4>4. QED
        BY <1>0, <2>0, <2>1, <2>2, <2>3, <4>1, <4>2, <4>3
    <3>4. QED
      BY <2>0, <2>1, <3>2, <3>3
  <2>5. FramesNumbered'
    <3> SUFFICES ASSUME NEW n \in 1..Len(items'), Clean(n)', items'[n].whole
                 PROVE  items'[n].seq = LegacySeq + n
      BY DEF FramesNumbered
    <3>1. CASE n = N + 1
      <4>1. Clean(Len(items))'
        BY <2>3, <3>1 DEF Clean, Reused
      <4>2. QED
        BY <1>0, <2>2, <2>3, <2>4, <3>1, <4>1
    <3>2. CASE n <= N
      <4>1. Clean(n)
        BY <2>0, <2>1, <2>3, <3>2, CleanPrefix
      <4>2. QED
        BY <1>0, <2>0, <2>1, <2>3, <3>2, <4>1 DEF FramesNumbered
    <3>3. QED
      BY <2>0, <2>1, <2>3, <3>1, <3>2
  <2>6. Numbered'
    BY <1>0, <2>0, <2>1, <2>3, <2>4, <2>5 DEF Numbered
  <2>7. QED
    BY <1>0, <2>0, <2>1, <2>6 DEF ReuseInv, RejectsOnlyReuse
<1>9. ASSUME pc \in {"idle", "append", "fdatasync", "apply"}, items' = items, fail' = fail,
             pc' \in {"idle", "append", "fdatasync", "apply"},
             \/ last' = last /\ pc' = pc
             \/ last' = last /\ pc = "append" /\ pc' = "idle"
             \/ last' = last /\ pc = "fdatasync"
             \/ last' = last + 1 /\ pc = "apply" /\ pc' = "idle"
      PROVE  pc' = "append" \/ ReuseInv'
  <2>1. FramesNumbered' /\ RejectsOnlyReuse' /\ \A n \in Int : Clean(n)' <=> Clean(n)
    BY <1>9, ReuseSame
  <2>2. last >= LegacySeq
    BY <1>0, <1>9 DEF TypeInv, Phase
  <2>3. Clean(Len(items))' <=> Clean(Len(items))
    BY <1>0, <1>9, <2>1
  <2>4. pc' # "append" => Numbered'
    BY <1>0, <1>9, <2>1, <2>2, <2>3 DEF Numbered
  <2>5. QED
    BY <1>0, <2>1, <2>4 DEF ReuseInv
<1>10. CASE FrameSync \/ ApplyBatch \/ Sync \/ FrameSyncFails \/ AppendFails(FALSE)
  BY <1>9, <1>10 DEF FrameSync, ApplyBatch, Sync, FrameSyncFails, AppendFails, fileVars, memVars
<1>11. CASE AppendFails(TRUE)
  <2>1. pc = "append" /\ fail = "none" /\ fail' = fail /\ pc' = "idle"
    BY <1>0, <1>11 DEF AppendFails, TypeInv, Phase
  <2>2. /\ items' \in Seq(Item) /\ Len(items') = Len(items) + 1
        /\ ~items'[Len(items) + 1].whole
        /\ \A i \in 1..Len(items) : items'[i] = items[i]
    <3>1. ~Partial.whole
      BY DEF Partial
    <3>2. QED
      BY <1>0, <1>11, <3>1, PartialType, Appended DEF AppendFails
  <2>3. FramesNumbered'
    BY <1>0, <2>2, PrefixNumbered
  <2>4. Numbered'
    BY <1>0, <2>1, <2>2, <2>3 DEF Numbered
  <2>5. QED
    BY <1>0, <2>1, <2>4 DEF ReuseInv, RejectsOnlyReuse
<1>12. ASSUME NEW partial \in BOOLEAN, ProcessCrash(partial) PROVE ReuseInv'
  <2>1. Lost /\ fail' = fail /\ pc # "down"
    BY <1>12 DEF ProcessCrash
  <2>2. /\ Len(items') \in {Len(items), Len(items) + 1}
        /\ Len(items') = Len(items) + 1 => ~items'[Len(items) + 1].whole
        /\ \A i \in 1..Len(items) : items'[i] = items[i]
    <3>1. ~Partial.whole
      BY DEF Partial
    <3>2. CASE partial
      BY <1>0, <1>12, <3>1, <3>2, PartialType, Appended DEF ProcessCrash
    <3>3. CASE ~partial
      BY <1>0, <1>12, <3>3 DEF ProcessCrash
    <3>4. QED
      BY <3>2, <3>3
  <2>3. Len(items) \in 0..Len(items) /\ (fail' = fail /\ pc # "down")
    BY <1>0, <2>1
  <2>4. QED
    BY ONLY <1>0, <2>1, <2>2, <2>3, ReuseInv, ReuseLost, Zenon
<1>13. CASE Close
  BY <1>0, <1>13, ReuseLost DEF Close, fileVars
<1>14. CASE PowerLoss
  <2>1. Lost /\ fail' = "none"
    BY <1>14 DEF PowerLoss
  <2>2. PICK m \in 0..Len(items) :
          /\ \A i \in 1..m : items'[i] = items[i]
          /\ Len(items') \in {m, m + 1}
          /\ Len(items') = m + 1 => ~items'[m + 1].whole
    <3>1. PICK m \in 0..Len(items) :
            /\ \A i \in 1..m : items'[i] = items[i]
            /\ \/ Len(items') = m
               \/ Len(items') = m + 1 /\ ~items'[m + 1].whole
      BY <1>0, <1>14, PowerLossPrefix, Zenon
    <3>2. QED
      BY <1>0, <3>1
  <2>3. QED
    BY <1>0, <2>1, <2>2, ReuseLost
<1>15. CASE UNCHANGED vars
  BY <1>15 DEF ReuseInv, TypeInv, TypeOK, Phase, Numbered, FramesNumbered, Clean, Reused,
     RejectsOnlyReuse, vars, fileVars, memVars, repVars
<1>16. QED
  <2>1. ASSUME NEW partial \in BOOLEAN, AppendFails(partial) PROVE ReuseInv'
    BY <1>10, <1>11, <2>1
  <2>2. QED
    BY <1>1, <1>2, <1>3, <1>4, <1>5, <1>7, <1>8, <1>10, <1>12, <1>13, <1>14, <1>15, <2>1 DEF Next

\* open() throws "sequence is not contiguous" or "CRC mismatch" only on a file in which a
\* failed append left a trace: an incomplete frame with bytes behind it, or a sequence
\* written twice.  It never rejects what crashes and power losses make of sound appends.
THEOREM RejectsOnlyAfterReuse == Spec => []RejectsOnlyReuse
<1>1. Init => ReuseInv
  BY TypeInit DEF Init, ReuseInv, Numbered, FramesNumbered, RejectsOnlyReuse
<1>2. ReuseInv => RejectsOnlyReuse
  BY DEF ReuseInv
<1>3. QED
  BY <1>1, <1>2, ReuseStep, PTL DEF Spec
-----------------------------------------------------------------------------
(* Without failing appends                                                 *)

\* The process or the host ends: a prefix of the file, with at most an incomplete frame
\* behind complete ones.
LEMMA LogLost ==
  ASSUME LogInv, TypeInv', Lost, fail' = "none", NEW m \in 0..Len(items),
         \A i \in 1..m : items'[i] = items[i],
         \/ Len(items') = m
         \/ /\ Len(items') = m + 1 /\ ~items'[m + 1].whole
            /\ m < Len(items) \/ Up \/ cut,
         cut' => cut /\ m = Len(items) /\ Len(items') = m
  PROVE  LogInv'
<1>1. Len(items) \in Nat /\ Len(items') \in Nat
  BY LenProperties DEF LogInv, TypeInv, TypeOK
<1>2. \A i \in 1..m : items[i].whole => items[i].seq = LegacySeq + i
  BY <1>1 DEF LogInv, Contiguous
<1>3. \A i \in 1..(Len(items') - 1) : items'[i].whole
  BY <1>1 DEF LogInv, Contiguous
<1>4. \A i \in 1..Len(items') : items'[i].whole => items'[i].seq = LegacySeq + i
  BY <1>1, <1>2
<1>5. cut' => \A i \in 1..Len(items') : items'[i].whole
  BY <1>1 DEF LogInv, Contiguous
<1>6. Contiguous'
  BY <1>3, <1>4, <1>5 DEF Lost, Contiguous, Up
<1>7. QED
  BY <1>6 DEF LogInv

LEMMA LogStep == ~AppendMayFail /\ LogInv /\ [Next]_vars => LogInv'
<1> SUFFICES ASSUME ~AppendMayFail, LogInv, [Next]_vars PROVE LogInv'
  OBVIOUS
<1> USE AtomicAssumption
<1>0. /\ TypeInv /\ TypeInv' /\ TypeOK /\ items \in Seq(Item) /\ Len(items) \in Nat
      /\ last \in Nat /\ pos \in Nat /\ Contiguous
  BY TypeStep, ItemsType DEF LogInv, TypeInv, TypeOK
<1>1. CASE Open
  <2>1. Contiguous'
    BY <1>0, <1>1 DEF Open, Contiguous, Up, fileVars
  <2>2. QED
    BY <1>0, <2>1 DEF LogInv
<1>2. CASE ReplayFrame
  <2> DEFINE f == items[pos]
  <2>1. pc = "replay" /\ pos \in 1..Len(items) /\ f.whole
    BY <1>0, <1>2 DEF ReplayFrame, TypeInv, Phase
  <2>2. f.seq = last + 1 /\ f.seq = LegacySeq + pos
    BY <1>0, <2>1 DEF Contiguous
  <2>3. /\ items' = items /\ cut' = cut /\ pc' = pc /\ pos' = pos + 1 /\ last' = f.seq
        /\ fail' = fail
    BY <1>2, <2>2 DEF ReplayFrame, SequenceAccepted, fileVars
  <2>4. Contiguous'
    BY <1>0, <2>1, <2>2, <2>3 DEF Contiguous, Up
  <2>5. QED
    BY <1>0, <2>4 DEF LogInv
<1>3. CASE ReplayGarbage
  BY <1>0, <1>3 DEF ReplayGarbage, Contiguous, TypeInv, Phase
<1>4. CASE ReplayEnd
  <2>1. /\ pos \in 1..(Len(items) + 1) /\ pc = "replay" /\ fail' = "none"
        /\ pc' = "idle" /\ last' = last
        /\ \A i \in 1..(pos - 1) : items[i].whole
    BY <1>0, <1>4 DEF ReplayEnd, TypeInv, Phase
  <2>2. /\ items' \in Seq(Item) /\ Len(items') = pos - 1
        /\ \A i \in 1..(pos - 1) : items'[i] = items[i]
    <3>1. items' = Cut(items, pos - 1) /\ pos - 1 \in Nat /\ pos - 1 <= Len(items)
      BY <1>0, <1>4, <2>1 DEF ReplayEnd
    <3>2. PICK m \in Nat : m = pos - 1
      BY <3>1
    <3>3. /\ Cut(items, m) \in Seq(Item)
          /\ Len(Cut(items, m)) = IF m <= Len(items) THEN m ELSE Len(items)
          /\ \A i \in 1..Len(Cut(items, m)) : Cut(items, m)[i] = items[i]
      BY ONLY <1>0, m \in Nat, CutProperties, Zenon
    <3>4. Len(Cut(items, m)) = m
      BY ONLY <3>1, <3>2, <3>3, Zenon
    <3>5. QED
      BY ONLY <3>1, <3>2, <3>3, <3>4, Zenon
  <2>3. Len(items') = pos - 1 /\ pos - 1 \in Nat /\ \A i \in 1..(pos - 1) : items'[i].whole
    BY <2>1, <2>2
  <2>4. /\ \A i \in 1..Len(items) : items[i].whole => items[i].seq = LegacySeq + i
        /\ last = LegacySeq + pos - 1
    BY <1>0, <2>1 DEF Contiguous
  <2>5. \A i \in 1..(pos - 1) : items'[i].seq = LegacySeq + i
    <3>1. \A i \in 1..(pos - 1) : i \in 1..Len(items)
      BY <1>0, <2>1
    <3>2. \A i \in 1..(pos - 1) : items[i].seq = LegacySeq + i
      BY ONLY <2>1, <2>4, <3>1, Zenon
    <3>3. QED
      BY ONLY <2>2, <3>2, Zenon
  <2>6. last' = LegacySeq + (pos - 1)
    BY <1>0, <2>1, <2>4
  <2>7. Contiguous'
    BY ONLY <2>1, <2>3, <2>5, <2>6 DEF Contiguous
  <2>8. QED
    BY <1>0, <2>7 DEF LogInv
<1>5. ASSUME Up, items' = items, cut' => cut, fail' = fail,
             \/ last' = last /\ pc \in {"idle", "append"} /\ pc' \in {"idle", "append"}
             \/ last' = last /\ pc = "fdatasync" /\ pc' = "apply"
             \/ last' = last + 1 /\ pc = "apply" /\ pc' = "idle"
      PROVE  LogInv'
  <2>1. Contiguous'
    BY <1>0, <1>5 DEF Contiguous, Up
  <2>2. QED
    BY <1>0, <2>1 DEF LogInv
<1>6. ASSUME NEW mode \in Modes, Clear(mode) \/ \E ops \in Batch : WriteBatch(ops, mode)
      PROVE  LogInv'
  BY <1>5, <1>6 DEF Clear, WriteBatch, fileVars, memVars, Up
<1>7. CASE FrameSync \/ ApplyBatch \/ Sync
  BY <1>5, <1>7 DEF FrameSync, ApplyBatch, Sync, FileSynced, fileVars, memVars, Up
<1>8. CASE AppendFrame
  <2> DEFINE x == Frame(last + 1, cur.ops)
  <2>0. PICK N \in Nat : N = Len(items)
    BY <1>0
  <2>1. pc = "append" /\ cur.ops \in Batch /\ fail' = fail /\ last' = last
        /\ pc' \in {"fdatasync", "apply"} /\ last = LegacySeq + N
    BY <1>0, <1>8, <2>0 DEF AppendFrame, TypeInv, Phase, Working, memVars, Contiguous
  <2>2. x \in Item /\ x.whole /\ x.seq = LegacySeq + (N + 1)
    BY <1>0, <2>1, FrameType DEF Frame
  <2>3. /\ items' \in Seq(Item) /\ Len(items') = N + 1 /\ items'[N + 1] = x
        /\ \A i \in 1..N : items'[i] = items[i]
    BY <1>0, <1>8, <2>0, <2>2, Appended DEF AppendFrame
  <2> HIDE DEF x
  <2>4. \A i \in 1..N : items[i].whole /\ items[i].seq = LegacySeq + i
    BY <1>0, <2>0, <2>1 DEF Contiguous, Up
  <2>5. \A i \in 1..Len(items') : items'[i].whole /\ items'[i].seq = LegacySeq + i
    BY <2>2, <2>3, <2>4
  <2>6. Contiguous'
    BY <1>0, <2>1, <2>3, <2>5 DEF Contiguous
  <2>7. QED
    BY <1>0, <2>6 DEF LogInv
<1>9. ASSUME NEW partial \in BOOLEAN, ProcessCrash(partial) PROVE LogInv'
  <2>1. Lost /\ fail' = "none" /\ cut' = (cut /\ ~partial) /\ (partial => Up)
    BY <1>0, <1>9 DEF ProcessCrash, Contiguous, Up
  <2>2. CASE partial
    <3>1. /\ Len(items') = Len(items) + 1 /\ ~items'[Len(items) + 1].whole
          /\ \A i \in 1..Len(items) : items'[i] = items[i]
      <4>1. ~Partial.whole
        BY DEF Partial
      <4>2. QED
        BY <1>0, <1>9, <2>2, <4>1, PartialType, Appended DEF ProcessCrash
    <3>2. QED
      BY <1>0, <2>1, <2>2, <3>1, LogLost
  <2>3. CASE ~partial
    <3>1. items' = items
      BY <1>9, <2>3 DEF ProcessCrash
    <3>2. QED
      BY <1>0, <2>1, <3>1, LogLost
  <2>4. QED
    BY <2>2, <2>3
<1>10. CASE Close
  BY <1>0, <1>10, LogLost DEF Close, fileVars, Contiguous
<1>11. CASE PowerLoss
  <2>1. Lost /\ fail' = "none" /\ ~cut'
    BY <1>11 DEF PowerLoss
  <2>2. PICK m \in 0..Len(items) :
          /\ \A i \in 1..m : items'[i] = items[i]
          /\ \/ Len(items') = m
             \/ /\ Len(items') = m + 1 /\ ~items'[m + 1].whole
                /\ m < Len(items) \/ cut
    BY <1>0, <1>11, PowerLossPrefix
  <2>3. QED
    BY <1>0, <2>1, <2>2, LogLost
<1>12. CASE UNCHANGED vars
  BY <1>0, <1>12 DEF LogInv, Contiguous, Up, vars, fileVars, memVars, repVars
<1>13. QED
  BY <1>1, <1>2, <1>3, <1>4, <1>6, <1>7, <1>8, <1>9, <1>10, <1>11, <1>12
  DEF Next, RepairFails, AppendFails, FrameSyncFails

\* When write and fdatasync return no error, every open() accepts the file, after any
\* number of process crashes, power losses and torn tails, and frame i has sequence i.
THEOREM LogStaysSound == ~AppendMayFail => (Spec => []LogSound)
<1> SUFFICES ASSUME ~AppendMayFail PROVE Spec => []LogSound
  OBVIOUS
<1>1. Init => LogInv
  BY TypeInit DEF Init, LogInv, Contiguous, Up
<1>2. LogInv /\ [Next]_vars => LogInv'
  BY LogStep
<1>3. LogInv => LogSound
  BY DEF LogInv, TypeInv, Contiguous, LogSound
<1>4. QED
  BY <1>1, <1>2, <1>3, PTL DEF Spec
-----------------------------------------------------------------------------
(* Durability: without failing appends, and when syncing a file also makes *)
(* its directory entry durable                                             *)

\* What is on the medium stays there as long as the synced frames do.
LEMMA StableKept ==
  ASSUME NEW n \in Nat, Stable(n), synced \in Nat, synced' \in Nat,
         link = "durable" => link' = "durable",
         n <= synced => n <= synced' /\ \A i \in 1..n : items'[i] = items[i]
  PROVE  Stable(n)'
  BY DEF Stable

LEMMA StoreLost ==
  ASSUME StoreInv, LogInv', Lost, NEW m \in 0..Len(items),
         \A i \in 1..m : items'[i] = items[i],
         Len(items') \in {m, m + 1}, Len(items') = m + 1 => ~items'[m + 1].whole,
         hist' = hist, acked' = acked, base' = base, Stable(acked)'
  PROVE  StoreInv'
<1>1. pc' = "down" /\ ~Up'
  BY DEF Lost, Up
<1>2. Len(items) \in Nat /\ Len(items') \in Nat
  BY LenProperties DEF StoreInv, LogInv, TypeInv, TypeOK
<1>3. Traced'
  BY <1>1, <1>2 DEF StoreInv, Traced
<1>4. OnMedium'
  BY <1>1 DEF OnMedium, AckedStable
<1>5. QED
  BY <1>3, <1>4 DEF StoreInv

\* At the end of a replay the frames read are those the history has, and every
\* acknowledged one is among them.
LEMMA ReplayEndFacts ==
  ASSUME StoreInv, LogInv', ReplayEnd
  PROVE  /\ pos \in 1..(Len(items) + 1) /\ Batches = pos - 1 /\ pos <= Len(hist)
         /\ acked < pos
         /\ items' \in Seq(Item) /\ Len(items') = pos - 1
         /\ \A i \in 1..(pos - 1) : items'[i] = items[i] /\ items[i].whole
         /\ hist' \in Seq(Map) /\ Len(hist') = pos
         /\ \A i \in 1..pos : hist'[i] = hist[i]
         /\ state = hist[pos]
<1> USE AtomicAssumption
<1>0. /\ TypeInv /\ TypeOK /\ items \in Seq(Item) /\ Len(items) \in Nat /\ hist \in Seq(Map)
      /\ last \in Nat /\ pos \in Nat /\ acked \in Nat /\ synced \in 0..Len(items)
      /\ Len(hist) \in Nat /\ Contiguous /\ Traced /\ Stable(acked)
  BY SMTT(30), ItemsType DEF StoreInv, LogInv, TypeInv, TypeOK, OnMedium, AckedStable
<1>1. /\ pos \in 1..(Len(items) + 1) /\ pc = "replay" /\ Batches = pos - 1
      /\ \A i \in 1..(pos - 1) : items[i].whole
  BY <1>0 DEF ReplayEnd, TypeInv, Phase, Contiguous, Batches
<1>2. pos <= Len(hist)
  <2>1. CASE pos = 1
    BY <1>0, <2>1 DEF Traced
  <2>2. CASE pos > 1
    <3>1. pos - 1 \in 1..Len(items) /\ items[pos - 1].whole
      BY <1>0, <1>1, <2>2
    <3>2. QED
      BY <1>0, <3>1 DEF Traced
  <2>3. QED
    BY <1>1, <2>1, <2>2
<1>3. acked < pos
  <2>1. CASE pos = Len(items) + 1
    BY <1>0, <2>1 DEF Stable
  <2>2. CASE pos <= Len(items)
    <3>1. ~items[pos].whole
      BY <2>2 DEF ReplayEnd
    <3>2. QED
      BY <1>0, <1>1, <2>2, <3>1 DEF Stable
  <2>3. QED
    BY <1>0, <1>1, <2>1, <2>2
<1>4. /\ items' \in Seq(Item) /\ Len(items') = pos - 1
      /\ \A i \in 1..(pos - 1) : items'[i] = items[i]
  <2>1. items' = Cut(items, pos - 1) /\ pos - 1 \in Nat /\ pos - 1 <= Len(items)
    BY <1>0, <1>1 DEF ReplayEnd
  <2>2. PICK m \in Nat : m = pos - 1
    BY <2>1
  <2>3. /\ Cut(items, m) \in Seq(Item)
        /\ Len(Cut(items, m)) = IF m <= Len(items) THEN m ELSE Len(items)
        /\ \A i \in 1..Len(Cut(items, m)) : Cut(items, m)[i] = items[i]
    BY ONLY <1>0, m \in Nat, CutProperties, Zenon
  <2>4. Len(Cut(items, m)) = m
    BY ONLY <2>1, <2>2, <2>3, Zenon
  <2>5. QED
    BY ONLY <2>1, <2>2, <2>3, <2>4, Zenon
<1>5. /\ hist' \in Seq(Map) /\ Len(hist') = pos
      /\ \A i \in 1..pos : hist'[i] = hist[i]
  <2>1. hist' = Cut(hist, pos) /\ pos \in Nat
    BY <1>0, <1>1 DEF ReplayEnd
  <2>2. hist \in Seq(Map) /\ Len(hist) \in Nat
    BY <1>0
  <2>3. /\ hist' \in Seq(Map) /\ Len(hist') = IF pos <= Len(hist) THEN pos ELSE Len(hist)
        /\ \A i \in 1..Len(hist') : hist'[i] = hist[i]
    BY ONLY <2>1, <2>2, CutProperties, Zenon
  <2>4. Len(hist') = pos
    BY ONLY <2>3, <1>2, Zenon
  <2>5. QED
    BY ONLY <2>3, <2>4, Zenon
<1>6. state = hist[pos]
  BY <1>0, <1>1 DEF Traced
<1>7. QED
  BY <1>1, <1>2, <1>3, <1>4, <1>5, <1>6

\* The frame being written makes the next map of the history.
LEMMA AppendFrameFacts ==
  ASSUME StoreInv, AppendFrame
  PROVE  \E N \in Nat :
           /\ N = Len(items) /\ last = LegacySeq + N /\ Len(hist) = N + 1 /\ pc = "append"
           /\ pc' \in {"fdatasync", "apply"} /\ (cur.sync => pc' = "fdatasync")
           /\ Len(items') = N + 1 /\ items'[N + 1].ops = cur.ops
           /\ \A i \in 1..N : items'[i] = items[i]
           /\ Len(hist') = N + 2 /\ hist'[N + 2] = Apply(state, cur.ops)
           /\ \A i \in 1..(N + 1) : hist'[i] = hist[i]
           /\ state = hist[N + 1]
<1> USE AtomicAssumption
<1>0. /\ TypeInv /\ TypeOK /\ items \in Seq(Item) /\ hist \in Seq(Map)
      /\ last \in Nat /\ state \in Map /\ Len(hist) \in Nat /\ Contiguous /\ Traced
      /\ cur.sync \in BOOLEAN
  BY ItemsType DEF StoreInv, LogInv, TypeInv, TypeOK
<1>1. PICK N \in Nat : N = Len(items)
  BY <1>0
<1>2. /\ pc = "append" /\ last = LegacySeq + N /\ Len(hist) = N + 1 /\ cur.ops \in Batch
      /\ state = hist[N + 1]
  BY <1>0, <1>1 DEF AppendFrame, Contiguous, Traced, Up, TypeInv, Phase, Working, Batches
<1>3. pc' \in {"fdatasync", "apply"} /\ (cur.sync => pc' = "fdatasync")
  BY DEF AppendFrame
<1>4. /\ Len(items') = N + 1 /\ items'[N + 1].ops = cur.ops
      /\ \A i \in 1..N : items'[i] = items[i]
  <2>1. Frame(last + 1, cur.ops) \in Item /\ Frame(last + 1, cur.ops).ops = cur.ops
    BY <1>0, <1>2, FrameType DEF Frame
  <2>2. QED
    BY <1>0, <1>1, <2>1, Appended DEF AppendFrame
<1>5. /\ Len(hist') = N + 2 /\ hist'[N + 2] = Apply(state, cur.ops)
      /\ \A i \in 1..(N + 1) : hist'[i] = hist[i]
  <2>1. Apply(state, cur.ops) \in Map
    BY <1>0, <1>2, ApplyType
  <2> DEFINE y == Apply(state, cur.ops)
  <2>2. y \in Map /\ hist' = Append(hist, y)
    BY <2>1 DEF AppendFrame
  <2> HIDE DEF y
  <2>3. Len(hist') = N + 2 /\ hist'[N + 2] = y /\ \A i \in 1..(N + 1) : hist'[i] = hist[i]
    BY <1>0, <1>2, <2>2, AppendProperties
  <2>4. QED
    BY <2>3 DEF y
<1>6. QED
  BY <1>1, <1>2, <1>3, <1>4, <1>5

\* The frame at the end of the file makes the map that ends the history.
LEMMA ApplyBatchFacts ==
  ASSUME StoreInv, pc \in {"fdatasync", "apply"}
  PROVE  \E N \in Nat \ {0} :
           /\ N = Len(items) /\ last = LegacySeq + N - 1 /\ Len(hist) = N + 1
           /\ hist[N + 1] = Apply(state, cur.ops)
           /\ \A i \in 1..N : items[i].whole /\ items[i].seq = LegacySeq + i
<1> USE AtomicAssumption
<1>0. /\ TypeInv /\ items \in Seq(Item) /\ last \in Nat /\ Contiguous /\ Traced /\ Up
      /\ last >= LegacySeq
  BY ItemsType DEF StoreInv, LogInv, TypeInv, TypeOK, Up, Phase
<1>1. PICK N \in Nat : N = Len(items)
  BY <1>0
<1>2. /\ last = LegacySeq + N - 1 /\ Len(hist) = N + 1 /\ N > 0 /\ state = hist[N]
      /\ items[N].ops = cur.ops
  BY <1>0, <1>1 DEF Contiguous, Traced, Batches
<1>3. \A i \in 1..N : items[i].whole /\ items[i].seq = LegacySeq + i
  BY <1>0, <1>1 DEF Contiguous
<1>4. hist[N + 1] = Apply(state, cur.ops)
  BY <1>0, <1>1, <1>2, <1>3 DEF Traced
<1>5. QED
  BY <1>1, <1>2, <1>3, <1>4

LEMMA StoreStep ==
  ~AppendMayFail /\ FileSyncLinks /\ StoreInv /\ [Next]_vars => StoreInv'
<1> SUFFICES ASSUME ~AppendMayFail, FileSyncLinks, StoreInv, [Next]_vars PROVE StoreInv'
  OBVIOUS
<1> USE AtomicAssumption
<1>0. /\ LogInv /\ LogInv' /\ TypeInv /\ TypeOK /\ TypeOK' /\ items \in Seq(Item)
      /\ Len(items) \in Nat /\ last \in Nat /\ pos \in Nat /\ acked \in Nat /\ base \in Nat
      /\ durable \in Nat /\ synced \in Nat /\ synced' \in Nat /\ synced <= Len(items)
      /\ Contiguous /\ Traced /\ OnMedium
  BY LogStep, ItemsType DEF StoreInv, LogInv, TypeInv, TypeOK
<1>1. ASSUME ~Up', items' = items, synced' = synced, link' = link, hist' = hist, acked' = acked,
             base' = base, pc' # "down" => state' = hist[Batches' + 1]
      PROVE  StoreInv'
  <2>1. Traced'
    BY <1>0, <1>1 DEF Traced, Up
  <2>2. OnMedium'
    BY <1>0, <1>1 DEF OnMedium, AckedStable, Stable, Up
  <2>3. QED
    BY <1>0, <2>1, <2>2 DEF StoreInv
<1>2. CASE Open
  <2>1. hist[Batches' + 1] = LegacyMap
    BY <1>0, <1>2 DEF Open, Batches, Traced
  <2>2. QED
    BY <1>1, <1>2, <2>1 DEF Open, fileVars, Up
<1>3. CASE ReplayFrame
  <2> DEFINE f == items[pos]
  <2>1. pc = "replay" /\ pos \in 1..Len(items) /\ f.whole
    BY <1>0, <1>3 DEF ReplayFrame, TypeInv, Phase
  <2>2. f.seq = last + 1 /\ f.seq = LegacySeq + pos
    <3>1. last = LegacySeq + pos - 1 /\ f.seq = LegacySeq + pos
      BY <1>0, <2>1 DEF Contiguous
    <3>2. LegacySeq \in Nat /\ pos \in Nat /\ last \in Nat
      BY <1>0
    <3>3. QED
      BY <3>1, <3>2
  <2>3. /\ state' = Apply(state, f.ops) /\ last' = f.seq /\ pc' = pc
        /\ UNCHANGED <<fileVars, hist, base, acked>>
    BY <1>3, <2>2 DEF ReplayFrame, SequenceAccepted
  <2>4. state = hist[pos] /\ hist[pos + 1] = Apply(hist[pos], f.ops)
    BY <1>0, <2>1, <2>2 DEF Traced, Batches
  <2>5. Batches' = pos
    BY <1>0, <2>2, <2>3 DEF Batches
  <2>6. QED
    BY <1>1, <2>1, <2>3, <2>4, <2>5 DEF fileVars, Up
<1>4. CASE ReplayGarbage
  BY <1>0, <1>4 DEF ReplayGarbage, Contiguous, TypeInv, Phase
<1>5. CASE ReplayEnd
  <2>1. PICK p \in Nat \ {0} :
          /\ p = pos /\ p <= Len(items) + 1 /\ Batches = p - 1 /\ acked < p
          /\ Len(items') = p - 1 /\ Len(hist') = p /\ p <= Len(hist)
          /\ \A i \in 1..(p - 1) : items'[i] = items[i] /\ items[i].whole
          /\ \A i \in 1..p : hist'[i] = hist[i]
          /\ state = hist[p]
    BY <1>0, <1>5, ReplayEndFacts
  <2>2. /\ pc' = "idle" /\ state' = state /\ last' = last /\ durable' = last /\ acked' = acked
        /\ base' = p - 1 /\ link' = link /\ synced' = IF synced < p THEN synced ELSE p - 1
    BY <1>5, <2>1 DEF ReplayEnd
  <2>3. Batches' = p - 1 /\ last = LegacySeq + (p - 1)
    <3>1. LegacySeq \in Nat /\ last \in Nat /\ last - LegacySeq = p - 1
      BY <1>0, <2>1 DEF Batches
    <3>2. QED
      BY <2>2, <3>1 DEF Batches
  <2>4. Traced'
    <3>1. hist'[1] = LegacyMap /\ Len(hist') >= 1
      BY <1>0, <2>1 DEF Traced
    <3>2. ASSUME NEW i \in 1..Len(items')
          PROVE  i < Len(hist') /\ hist'[i + 1] = Apply(hist'[i], items'[i].ops)
      <4>1. i \in 1..(p - 1) /\ items[i].whole
        BY <2>1
      <4>2. i \in 1..p /\ i + 1 \in 1..p /\ i \in 1..Len(items)
        BY <2>1, <4>1, <1>0
      <4>3. hist[i + 1] = Apply(hist[i], items[i].ops)
        BY <1>0, <4>1, <4>2 DEF Traced
      <4>4. QED
        BY <2>1, <4>1, <4>2, <4>3
    <3>3. QED
      BY <2>1, <2>2, <2>3, <3>1, <3>2 DEF Traced
  <2>5. OnMedium'
    <3>1. Stable(acked)'
      BY <1>0, <2>1, <2>2 DEF OnMedium, AckedStable, Stable
    <3>2. QED
      BY <1>0, <2>1, <2>2, <2>3, <3>1 DEF OnMedium, AckedStable
  <2>6. QED
    BY <1>0, <2>4, <2>5 DEF StoreInv
<1>6. ASSUME pc = "idle", pc' = "append", UNCHANGED <<fileVars, memVars, hist, base, acked>>
      PROVE  StoreInv'
  <2>1. Traced'
    BY <1>0, <1>6 DEF Traced, Up, Batches, fileVars, memVars
  <2>2. OnMedium'
    BY <1>0, <1>6 DEF OnMedium, AckedStable, Stable, Up, Batches, fileVars, memVars
  <2>3. QED
    BY <1>0, <2>1, <2>2 DEF StoreInv
<1>7. ASSUME NEW mode \in Modes, Clear(mode) \/ \E ops \in Batch : WriteBatch(ops, mode)
      PROVE  StoreInv'
  BY <1>6, <1>7 DEF Clear, WriteBatch
<1>8. CASE AppendFrame
  <2>1. PICK N \in Nat :
           /\ N = Len(items) /\ last = LegacySeq + N /\ Len(hist) = N + 1 /\ pc = "append"
           /\ pc' \in {"fdatasync", "apply"} /\ (cur.sync => pc' = "fdatasync")
           /\ Len(items') = N + 1 /\ items'[N + 1].ops = cur.ops
           /\ \A i \in 1..N : items'[i] = items[i]
           /\ Len(hist') = N + 2 /\ hist'[N + 2] = Apply(state, cur.ops)
           /\ \A i \in 1..(N + 1) : hist'[i] = hist[i]
           /\ state = hist[N + 1]
    BY <1>8, AppendFrameFacts
  <2>2. /\ state' = state /\ last' = last /\ durable' = durable /\ acked' = acked /\ base' = base
        /\ cur' = cur /\ synced' = synced /\ (link = "durable" => link' = "durable")
    BY <1>8 DEF AppendFrame, memVars
  <2>3. Batches = N /\ Batches' = N
    BY <1>0, <2>1, <2>2 DEF Batches
  <2>4. Traced'
    <3>1. ASSUME NEW i \in 1..Len(items'), items'[i].whole
          PROVE  i < Len(hist') /\ hist'[i + 1] = Apply(hist'[i], items'[i].ops)
      <4>1. CASE i = N + 1
        BY <2>1, <4>1
      <4>2. CASE i \in 1..N
        BY <1>0, <2>1, <3>1, <4>2 DEF Traced
      <4>3. QED
        BY <2>1, <4>1, <4>2
    <3>2. hist'[1] = LegacyMap /\ state' = hist'[N + 1]
      BY <1>0, <2>1, <2>2 DEF Traced
    <3>3. QED
      BY <2>1, <2>2, <2>3, <3>1, <3>2 DEF Traced
  <2>5. OnMedium'
    <3>1. Up
      BY <2>1 DEF Up
    <3>2. Stable(acked)'
      BY SMTT(30), <1>0, <2>1, <2>2 DEF OnMedium, AckedStable, Stable
    <3>3. durable > LegacySeq + base => Stable(durable - LegacySeq)'
      BY SMTT(30), <1>0, <2>1, <2>2, <3>1 DEF OnMedium, AckedStable, Stable
    <3>4. QED
      BY <1>0, <2>1, <2>2, <2>3, <3>1, <3>2, <3>3 DEF OnMedium, AckedStable
  <2>6. QED
    BY <1>0, <2>4, <2>5 DEF StoreInv
<1>9. CASE FrameSync
  <2>1. PICK N \in Nat \ {0} :
           /\ N = Len(items) /\ last = LegacySeq + N - 1 /\ Len(hist) = N + 1
           /\ \A i \in 1..N : items[i].whole /\ items[i].seq = LegacySeq + i
    BY <1>9, ApplyBatchFacts DEF FrameSync
  <2>2. /\ synced' = N /\ link' = "durable" /\ pc' = "apply" /\ pc = "fdatasync"
        /\ UNCHANGED <<items, state, last, durable, cur, hist, base, acked>>
    BY <1>9, <2>1 DEF FrameSync, FileSynced, memVars
  <2>3. Traced'
    BY <1>0, <2>1, <2>2 DEF Traced, Up, Batches
  <2>4. OnMedium'
    BY <1>0, <2>1, <2>2 DEF OnMedium, AckedStable, Stable, Up, Batches
  <2>5. QED
    BY <1>0, <2>3, <2>4 DEF StoreInv
<1>10. CASE ApplyBatch
  <2>1. PICK N \in Nat \ {0} :
           /\ N = Len(items) /\ last = LegacySeq + N - 1 /\ Len(hist) = N + 1
           /\ hist[N + 1] = Apply(state, cur.ops)
           /\ \A i \in 1..N : items[i].whole /\ items[i].seq = LegacySeq + i
    BY <1>10, ApplyBatchFacts DEF ApplyBatch
  <2>2. /\ pc = "apply" /\ pc' = "idle" /\ state' = hist[N + 1] /\ last' = last + 1
        /\ UNCHANGED <<items, synced, link, hist, base>>
        /\ cur.sync => durable' = last + 1 /\ acked' = N
        /\ ~cur.sync => durable' = durable /\ acked' = acked
    BY <1>0, <1>10, <2>1 DEF ApplyBatch, Batches, fileVars
  <2>3. Batches = N - 1 /\ Batches' = N /\ cur.sync \in BOOLEAN
    BY <1>0, <2>1, <2>2 DEF Batches, TypeOK
  <2>4. Traced'
    BY <1>0, <2>1, <2>2, <2>3 DEF Traced
  <2>5. OnMedium'
    <3>1. CASE cur.sync
      <4>1. link = "durable" /\ synced = N
        BY <1>0, <2>1, <2>2, <3>1 DEF OnMedium
      <4>2. acked' = N /\ durable' = LegacySeq + N
        BY <1>0, <2>1, <2>2, <3>1
      <4>3. base <= N
        BY <1>0, <2>2, <2>3 DEF OnMedium, Up
      <4>4. QED
        BY <1>0, <2>1, <2>2, <2>3, <4>1, <4>2, <4>3 DEF OnMedium, AckedStable, Stable
    <3>2. CASE ~cur.sync
      <4>1. durable' = durable /\ acked' = acked /\ Up
        BY <2>2, <3>2 DEF Up
      <4>2. AckedStable'
        BY <1>0, <2>2, <4>1 DEF OnMedium, AckedStable, Stable
      <4>3. acked <= N /\ base <= N
        BY <1>0, <2>3, <4>1 DEF OnMedium
      <4>4. QED
        BY <2>2, <2>3, <4>1, <4>2, <4>3 DEF OnMedium
    <3>3. QED
      BY <2>3, <3>1, <3>2
  <2>6. QED
    BY <1>0, <2>4, <2>5 DEF StoreInv
<1>11. CASE Sync
  <2>1. PICK N \in Nat : N = Len(items)
    BY <1>0
  <2>2. /\ pc = "idle" /\ synced' = N /\ link' = "durable" /\ durable' = last
        /\ acked' = Batches /\ UNCHANGED <<items, state, last, pc, cur, hist, base>>
    BY <1>11, <2>1 DEF Sync, FileSynced
  <2>3. Batches = N /\ Batches' = N /\ last = LegacySeq + N
    BY <1>0, <2>1, <2>2 DEF Batches, Contiguous
  <2>4. \A i \in 1..N : items[i].whole /\ items[i].seq = LegacySeq + i
    BY <1>0, <2>1, <2>2 DEF Contiguous, Up
  <2>5. Traced'
    BY <1>0, <2>1, <2>2, <2>3 DEF Traced, Up
  <2>6. OnMedium'
    BY <1>0, <2>1, <2>2, <2>3, <2>4 DEF OnMedium, AckedStable, Stable, Up
  <2>7. QED
    BY <1>0, <2>5, <2>6 DEF StoreInv
<1>12. ASSUME NEW partial \in BOOLEAN, ProcessCrash(partial) PROVE StoreInv'
  <2>1. /\ Lost /\ UNCHANGED <<synced, hist, base, acked>>
        /\ link = "durable" => link' = "durable"
    BY <1>12 DEF ProcessCrash
  <2>2. /\ Len(items') \in {Len(items), Len(items) + 1}
        /\ Len(items') = Len(items) + 1 => ~items'[Len(items) + 1].whole
        /\ \A i \in 1..Len(items) : items'[i] = items[i]
    <3>1. ~Partial.whole
      BY DEF Partial
    <3>2. CASE partial
      BY <1>0, <1>12, <3>1, <3>2, PartialType, Appended DEF ProcessCrash
    <3>3. CASE ~partial
      BY <1>0, <1>12, <3>3 DEF ProcessCrash
    <3>4. QED
      BY <3>2, <3>3
  <2>3. Stable(acked)'
    BY <1>0, <2>1, <2>2 DEF OnMedium, AckedStable, Stable
  <2>4. Len(items) \in 0..Len(items)
    BY <1>0
  <2>5. QED
    BY ONLY <1>0, <2>1, <2>2, <2>3, <2>4, StoreInv, StoreLost, Zenon
<1>13. CASE Close
  <2>1. Stable(acked)'
    BY <1>0, <1>13 DEF Close, fileVars, OnMedium, AckedStable, Stable
  <2>2. QED
    BY <1>0, <1>13, <2>1, StoreLost DEF Close, fileVars
<1>14. CASE PowerLoss
  <2>1. Lost /\ hist' = hist /\ acked' = acked /\ base' = base
    BY <1>14 DEF PowerLoss
  <2>2. /\ synced' = Len(items')
        /\ \/ link # "durable" /\ items' = <<>>
           \/ \E n \in synced..Len(items) :
                /\ link' = "durable" /\ Len(items') \in {n, n + 1}
                /\ \A i \in 1..n : items'[i] = items[i]
                /\ Len(items') = n + 1 => items'[n + 1] = Partial
    <3>1. /\ synced' = Len(items')
          /\ \/ link # "durable" /\ items' = <<>>
             \/ \E n \in synced..Len(items) :
                /\ link' = "durable" /\ Len(items') \in {n, n + 1}
                /\ \A i \in 1..n : items'[i] = items[i]
                /\ Len(items') = n + 1 => items'[n + 1] = Partial /\ (n < Len(items) \/ cut)
      BY <1>0, <1>14, PowerLossItems, Zenon
    <3>2. QED
      BY <3>1
  <2>3. CASE link # "durable" /\ items' = <<>>
    <3>1. acked = 0 /\ Stable(acked)'
      BY <1>0, <2>1, <2>3 DEF OnMedium, AckedStable, Stable
    <3>2. QED
      BY <1>0, <2>1, <2>3, <3>1, StoreLost
  <2>4. ASSUME NEW n \in synced..Len(items), link' = "durable", Len(items') \in {n, n + 1},
               \A i \in 1..n : items'[i] = items[i],
               Len(items') = n + 1 => items'[n + 1] = Partial
        PROVE  StoreInv'
    <3>1. n \in 0..Len(items) /\ ~Partial.whole
      BY <1>0 DEF Partial
    <3>2. Stable(acked)'
      BY <1>0, <2>1, <2>2, <2>4, <3>1 DEF OnMedium, AckedStable, Stable
    <3>3. QED
      BY <1>0, <2>1, <2>4, <3>1, <3>2, StoreLost
  <2>5. QED
    BY <2>2, <2>3, <2>4
<1>15. CASE UNCHANGED vars
  BY <1>0, <1>15 DEF StoreInv, Traced, OnMedium, AckedStable, Stable, Up, Batches, vars,
     fileVars, memVars, repVars
<1>16. QED
  BY <1>2, <1>3, <1>4, <1>5, <1>7, <1>8, <1>9, <1>10, <1>11, <1>12, <1>13, <1>14, <1>15
  DEF Next, RepairFails, AppendFails, FrameSyncFails

LEMMA StoreInit == Init => StoreInv
<1> SUFFICES ASSUME Init PROVE StoreInv
  OBVIOUS
<1>1. LogInv
  BY TypeInit DEF Init, LogInv, Contiguous, Up
<1>2. Traced /\ OnMedium
  BY DEF Init, Traced, OnMedium, AckedStable, Stable, Up
<1>3. QED
  BY <1>1, <1>2 DEF StoreInv

\* When write_batch returned a durable result, or a later sync() did, every batch up to it
\* is on the medium as a complete frame, in order and under a durable directory entry, and
\* stays there through crashes, power losses, repairs of the tail and further batches.
THEOREM AcknowledgedIsStable ==
  ~AppendMayFail /\ FileSyncLinks => (Spec => []AckedStable)
<1> SUFFICES ASSUME ~AppendMayFail, FileSyncLinks PROVE Spec => []AckedStable
  OBVIOUS
<1>1. StoreInv /\ [Next]_vars => StoreInv'
  BY StoreStep
<1>2. StoreInv => AckedStable
  BY DEF StoreInv, OnMedium
<1>3. QED
  BY <1>1, <1>2, StoreInit, PTL DEF Spec
-----------------------------------------------------------------------------
(* The refinement                                                          *)

\* The map of the store under the refinement mapping
Shown == IF ~Up THEN Empty
         ELSE IF pc \in {"fdatasync", "apply"} THEN Apply(state, cur.ops) ELSE state

LEMMA RefineStutter ==
  ASSUME hist' = hist, acked' = acked, Up' <=> Up, Shown' = Shown
  PROVE  [Store!Next]_(Store!vars)
<1>1. Up' = Up
  BY Zenon DEF Up
<1>2. QED
  BY <1>1 DEF Store!vars, Shown

LEMMA RefineStop ==
  ASSUME Lost, hist' = hist, acked' = acked
  PROVE  [Store!Next]_(Store!vars)
<1>1. ~Up' /\ Shown' = Empty
  BY DEF Lost, Up, Shown
<1>2. CASE Up
  <2>1. Store!Stop
    BY <1>1, <1>2 DEF Store!Stop, Store!Empty, Empty, Shown
  <2>2. QED
    BY <2>1 DEF Store!Next
<1>3. CASE ~Up
  <2>1. Shown = Empty
    BY <1>3 DEF Shown
  <2>2. QED
    BY <1>1, <1>3, <2>1, RefineStutter
<1>4. QED
  BY <1>2, <1>3

LEMMA RefineStep ==
  ASSUME ~AppendMayFail, FileSyncLinks, StoreInv, [Next]_vars
  PROVE  [Store!Next]_(Store!vars)
<1> USE AtomicAssumption
<1>0. /\ StoreInv' /\ LogInv' /\ TypeInv /\ TypeOK /\ Len(items) \in Nat /\ last \in Nat
      /\ acked \in Nat /\ hist \in Seq(Map) /\ Len(hist) \in Nat /\ state \in Map
      /\ Contiguous /\ Traced /\ OnMedium
  BY StoreStep, ItemsType DEF StoreInv, LogInv, TypeInv, TypeOK
<1>1. CASE Open
  BY <1>1, RefineStutter DEF Open, Up, Shown
<1>2. CASE ReplayFrame
  <2>1. CASE OpenFails("gap")
    BY <2>1, RefineStop DEF OpenFails
  <2>2. CASE ~OpenFails("gap")
    BY <1>2, <2>2, RefineStutter DEF ReplayFrame, Up, Shown
  <2>3. QED
    BY <2>1, <2>2
<1>3. CASE ReplayGarbage
  BY <1>3, RefineStop DEF ReplayGarbage, OpenFails
<1>4. CASE ReplayEnd
  <2>1. PICK p \in Nat \ {0} :
          /\ p = pos /\ Batches = p - 1 /\ acked < p /\ p <= Len(hist) /\ state = hist[p]
    BY <1>0, <1>4, ReplayEndFacts
  <2>2. /\ ~Up /\ Up' /\ Shown' = state /\ acked' = acked /\ hist' = SubSeq(hist, 1, p)
    <3>1. hist' = Cut(hist, p)
      BY <1>4, <2>1 DEF ReplayEnd
    <3>2. Cut(hist, p) = SubSeq(hist, 1, p)
      BY <1>0, <2>1 DEF Cut
    <3>3. QED
      BY <1>4, <3>1, <3>2 DEF ReplayEnd, Up, Shown
  <2>3. PICK n \in Nat : n = p - 1 /\ n + 1 = p
    BY <2>1
  <2>4. n \in acked..(Len(hist) - 1)
    BY <1>0, <2>1, <2>3
  <2>5. Store!Reopen
    BY <2>1, <2>2, <2>3, <2>4 DEF Store!Reopen, Shown
  <2>6. QED
    BY <2>5 DEF Store!Next
<1>5. ASSUME NEW mode \in Modes, Clear(mode) \/ \E ops \in Batch : WriteBatch(ops, mode)
      PROVE  [Store!Next]_(Store!vars)
  BY <1>5, RefineStutter DEF Clear, WriteBatch, memVars, Up, Shown
<1>6. CASE AppendFrame
  <2> DEFINE new == Apply(state, cur.ops)
  <2>1. pc = "append" /\ cur.ops \in Batch
    BY <1>0, <1>6 DEF AppendFrame, TypeInv, Phase, Working
  <2>2. new \in [Keys -> Vals \cup {Absent}]
    BY <1>0, <2>1, ApplyType DEF Map, Value
  <2>3. /\ Up /\ Up' /\ Shown' = new /\ hist' = Append(hist, new) /\ acked' = acked
    BY <1>6, <2>1 DEF AppendFrame, Up, Shown, memVars
  <2>4. new = [k \in Keys |-> IF k \in Keys THEN new[k] ELSE Shown[k]]
    BY <2>2
  <2> HIDE DEF new
  <2>5. Up' = Up
    BY <2>3, Zenon DEF Up
  <2>6. Store!Accept(Keys, new)
    BY <2>3, <2>4, <2>5 DEF Store!Accept, Shown
  <2>7. QED
    BY <2>2, <2>6 DEF Store!Next
<1>7. CASE FrameSync
  BY <1>7, RefineStutter DEF FrameSync, memVars, Up, Shown
<1>8. CASE ApplyBatch \/ Sync
  <2>1. Up /\ Up' /\ Shown' = Shown /\ hist' = hist
    BY <1>8 DEF ApplyBatch, Sync, Up, Shown
  <2>2. acked' \in acked..(Len(hist) - 1)
    <3>1. Len(hist) = Len(items) + 1 /\ Batches \in Nat /\ acked <= Batches
      BY <1>0, <2>1 DEF Traced, OnMedium, TypeInv, Phase, Up, Batches
    <3>2. CASE ApplyBatch
      <4>1. Batches + 1 = Len(items)
        BY <1>0, <3>2 DEF ApplyBatch, Contiguous, Batches
      <4>2. acked' \in {acked, Batches + 1}
        BY <3>2 DEF ApplyBatch
      <4>3. QED
        BY <1>0, <3>1, <4>1, <4>2
    <3>3. CASE Sync
      <4>1. Batches = Len(items) /\ acked' = Batches
        BY <1>0, <3>3 DEF Sync, Contiguous, Batches
      <4>2. QED
        BY <1>0, <3>1, <4>1
    <3>4. QED
      BY <1>8, <3>2, <3>3
  <2>3. Up' = Up
    BY <2>1, Zenon DEF Up
  <2>4. Store!Acknowledge
    BY <2>1, <2>2, <2>3 DEF Store!Acknowledge, Shown
  <2>5. QED
    BY <2>4 DEF Store!Next
<1>9. ASSUME NEW partial \in BOOLEAN, ProcessCrash(partial) PROVE [Store!Next]_(Store!vars)
  BY <1>9, RefineStop DEF ProcessCrash
<1>10. CASE Close \/ PowerLoss
  BY <1>10, RefineStop DEF Close, PowerLoss
<1>11. CASE UNCHANGED vars
  BY <1>11, RefineStutter DEF vars, memVars, Up, Shown
<1>12. QED
  BY <1>1, <1>2, <1>3, <1>4, <1>5, <1>6, <1>7, <1>8, <1>9, <1>10, <1>11
  DEF Next, RepairFails, AppendFails, FrameSyncFails

\* AtomicDatabase implements DurableStore: a batch takes effect as one operation or not at
\* all, acknowledgements cover prefixes, and every open() comes back with exactly a prefix
\* of the batches that has all acknowledged ones.
THEOREM ImplementsStore ==
  ~AppendMayFail /\ FileSyncLinks => (Spec => RefinesStore)
<1> SUFFICES ASSUME ~AppendMayFail, FileSyncLinks PROVE Spec => RefinesStore
  OBVIOUS
<1>1. Init => Store!Init
  BY DEF Init, Store!Init, Store!Empty, Empty, Up
<1>2. StoreInv /\ [Next]_vars => StoreInv'
  BY StoreStep
<1>3. StoreInv /\ [Next]_vars => [Store!Next]_(Store!vars)
  BY RefineStep
<1>4. QED
  BY <1>1, <1>2, <1>3, StoreInit, PTL DEF Spec, RefinesStore, Store!Spec
=============================================================================
