----------------------------- MODULE CompactIndex -----------------------------
(***************************************************************************)
(* One partition of bdr::CompactIndex                                       *)
(* (experimental/api_v86/include/bdr/compact_index.hpp), the index that      *)
(* database_v1.cpp is built with: a Robin Hood table whose slots point into  *)
(* one arena of bytes.  Overwritten and erased records stay in the arena as  *)
(* garbage until a compaction moves what is live.                           *)
(*                                                                         *)
(* put and erase hold the mutex of the partition to their end, get and      *)
(* snapshot_items share it: an operation is one step.  (ResolutiveIndex has  *)
(* the loops one turn at a time, and the counter size_.)  A loop that only   *)
(* looks for a slot is the number of turns it makes; one that moves slots or *)
(* bytes is a function of that number.  Keys and values are sequences of     *)
(* bytes.                                                                  *)
(***************************************************************************)
EXTENDS Integers, Sequences, FiniteSets, FiniteSetsExt

CONSTANTS
    Bytes,
    KeyStrings, ValueStrings,  \* byte strings; submit_impl refuses empty keys
    Absent,                    \* std::nullopt
    Fingerprints,              \* what fingerprints can be, mix64 applied
    InitialSlots,              \* slots of a new partition, a power of two (8 in the code)
    MaxLoadNum, MaxLoadDen,    \* max_load = MaxLoadNum / MaxLoadDen
    MinGarbage,                \* 8192 in the code
    MaxOffset                  \* 0xffffffff in the code: offsets have 32 bits

ASSUME CompactAssumption ==
    /\ KeyStrings \subseteq Seq(Bytes) /\ <<>> \notin KeyStrings
    /\ ValueStrings \subseteq Seq(Bytes) /\ Absent \notin ValueStrings
    /\ Fingerprints \subseteq Nat
    /\ InitialSlots \in Nat \ {0, 1} /\ MinGarbage \in Nat \ {0} /\ MaxOffset \in Nat
    /\ MaxLoadNum \in Nat \ {0} /\ MaxLoadDen \in Nat /\ MaxLoadNum < MaxLoadDen

VARIABLES
    fingerprint,  \* of each key, any function
    part,         \* slots, arena, records, garbage; err: what the last operation threw
    content       \* what a map would hold (not in the code)

partVars == <<fingerprint, part, content>>

Vacant == [used |-> FALSE, fp |-> 0, koff |-> 0, klen |-> 0, voff |-> 0, vlen |-> 0, dist |-> 0]
Vacants(n) == [i \in 0..(n - 1) |-> Vacant]
Capacity(t) == Cardinality(DOMAIN t)

\* start(fp, mask), slots.size() being a power of two, and the d-th slot after it
Nth(f, d, n) == (f + d) % n

KeyView(a, s) == SubSeq(a, s.koff + 1, s.koff + s.klen)
ValueCopy(a, s) == SubSeq(a, s.voff + 1, s.voff + s.vlen)
Size(s) == s.klen + s.vlen

\* slot.fingerprint==fp && key_view(slot)==k
IsSlotOf(a, s, f, k) == s.used /\ s.fp = f /\ KeyView(a, s) = k

PartInit ==
    /\ fingerprint \in [KeyStrings -> Fingerprints]
    /\ part = [slots |-> Vacants(InitialSlots), arena |-> <<>>, records |-> 0, garbage |-> 0, err |-> "none"]
    /\ content = [k \in KeyStrings |-> Absent]

-----------------------------------------------------------------------------
(* The arena                                                               *)

\* append() throws before it changes anything.
OffsetOverflow(p, k, v) == Len(p.arena) + Len(k) + Len(v) > MaxOffset

\* append(): the bytes of key and value go behind the others, and a slot that knows where.
NewSlot(a, f, k, v) ==
    [used |-> TRUE, fp |-> f, koff |-> Len(a), klen |-> Len(k),
     voff |-> Len(a) + Len(k), vlen |-> Len(v), dist |-> 0]

\* Mutant: the length of the key is forgotten.
RelocatedWithoutKey(next, s) == [s EXCEPT !.koff = Len(next), !.voff = Len(next)]

\* A live slot whose bytes go behind those in `next'
Relocated(next, s) == [s EXCEPT !.koff = Len(next), !.voff = Len(next) + s.klen]

\* The arena that is being built, after each slot
Swept(t, a) ==
    LET next[j \in 0..Capacity(t)] ==
            IF j = 0 THEN <<>>
            ELSE IF t[j - 1].used THEN next[j - 1] \o KeyView(a, t[j - 1]) \o ValueCopy(a, t[j - 1])
            ELSE next[j - 1]
    IN next

CompactArena(p) ==
    LET next == Swept(p.slots, p.arena) IN
    [p EXCEPT !.slots = [i \in DOMAIN @ |-> IF @[i].used THEN Relocated(next[i], @[i]) ELSE @[i]],
              !.arena = next[Capacity(p.slots)], !.garbage = 0]

NeedsCompaction(p) == p.garbage >= MinGarbage /\ p.garbage * 2 >= Len(p.arena)
MaybeCompact(p) == IF NeedsCompaction(p) THEN CompactArena(p) ELSE p

-----------------------------------------------------------------------------
(* put                                                                     *)

\* A turn of the loops of insert_nolock and rehash at slot i: a slot that is closer to its
\* start gives way to the one in hand.
Turn(r, i) ==
    IF r.slots[i].dist < r.cur.dist
    THEN [slots |-> [r.slots EXCEPT ![i] = r.cur], cur |-> [r.slots[i] EXCEPT !.dist = @ + 1]]
    ELSE [slots |-> r.slots, cur |-> [r.cur EXCEPT !.dist = @ + 1]]

\* The table and the slot in hand after each turn, from the start of slot c on
Probe(t, c) ==
    LET n == Capacity(t)
        r[j \in 0..n] == IF j = 0 THEN [slots |-> t, cur |-> c] ELSE Turn(r[j - 1], Nth(c.fp, j - 1, n))
    IN r

\* The loop ends at its j-th slot, which takes the one in hand.
Filled(t, c, j) ==
    LET r == Probe(t, c)[j] IN [r.slots EXCEPT ![Nth(c.fp, j, Capacity(t))] = r.cur]

\* insert_nolock of key k with the slot c that append() made.  The loop ends at a free slot, at
\* the slot of the key, or with the overflow (at the latest when it has seen every slot).
Insert(p, k, c) ==
    LET n == Capacity(p.slots)
        s(j) == p.slots[Nth(c.fp, j, n)]
        same(j) == IsSlotOf(p.arena, s(j), c.fp, k)
        over(j) == Probe(p.slots, c)[j + 1].cur.dist >= n
        ends == {j \in 0..(n - 1) : ~s(j).used \/ same(j) \/ over(j)}
        e == IF ends = {} THEN n - 1 ELSE Min(ends)
    IN  IF ~s(e).used THEN [p EXCEPT !.slots = Filled(@, c, e), !.records = @ + 1]
        ELSE IF same(e) THEN MaybeCompact([p EXCEPT !.slots = Filled(@, c, e), !.garbage = @ + Size(s(e))])
        ELSE [p EXCEPT !.slots = Probe(@, c)[e + 1].slots, !.err = "overflow"]

\* rehash(): the used slots, one after the other, go into a larger table; the arena stays.
Settle(t, c) ==
    Filled(t, c, Min({j \in 0..(Capacity(t) - 1) : ~t[Nth(c.fp, j, Capacity(t))].used}))

Grown(t, n) ==
    LET new[j \in 0..Capacity(t)] ==
            IF j = 0 THEN Vacants(n)
            ELSE IF t[j - 1].used THEN Settle(new[j - 1], [t[j - 1] EXCEPT !.dist = 0])
            ELSE new[j - 1]
    IN new

Rehash(t, n) == Grown(t, n)[Capacity(t)]

\* double(records + 1) / double(slots.size()) > max_load
OverLoad(p) == (p.records + 1) * MaxLoadDen > MaxLoadNum * Capacity(p.slots)

\* put(): the table may grow before the arena refuses the record.
Put(k, v) ==
    LET p == IF OverLoad(part) THEN [part EXCEPT !.slots = Rehash(@, 2 * Capacity(@))] ELSE part
        f == fingerprint[k] IN
    /\ part' = IF OffsetOverflow(p, k, v) THEN [p EXCEPT !.err = "offset"]
               ELSE Insert([p EXCEPT !.arena = @ \o k \o v, !.err = "none"], k, NewSlot(p.arena, f, k, v))
    /\ content' = IF part'.err = "none" THEN [content EXCEPT ![k] = v] ELSE content
    /\ UNCHANGED fingerprint

-----------------------------------------------------------------------------
(* get and erase                                                           *)

\* The search ends at a slot that is free or closer to its start than the search has come, or
\* at the slot of the key, or when it has seen every slot: where the key is, or -1.
SlotOf(p, k) ==
    LET n == Capacity(p.slots)  f == fingerprint[k]
        s(d) == p.slots[Nth(f, d, n)]
        miss(d) == ~s(d).used \/ s(d).dist < d
        ends == {d \in 0..(n - 1) : miss(d) \/ IsSlotOf(p.arena, s(d), f, k)}
    IN  IF ends = {} \/ miss(Min(ends)) THEN -1 ELSE Nth(f, Min(ends), n)

Lookup(p, k) == IF SlotOf(p, k) = -1 THEN Absent ELSE ValueCopy(p.arena, p.slots[SlotOf(p, k)])

\* The number of slots behind the hole that move up: until one is free or at its start
ShiftLength(t, hole) ==
    LET n == Capacity(t) IN
    Min({d \in 0..(n - 1) : LET next == t[(hole + d + 1) % n] IN ~next.used \/ next.dist = 0})

\* Mutant: the last slot of the chain is not cleared.
CloseGapKeepingLast(t, hole) ==
    LET n == Capacity(t)  m == ShiftLength(t, hole) IN
    [i \in DOMAIN t |-> IF (i + n - hole) % n < m THEN [t[(i + 1) % n] EXCEPT !.dist = @ - 1] ELSE t[i]]

\* Backward shift: the slots behind the hole move up, and the last of them is free.
CloseGap(t, hole) ==
    LET n == Capacity(t)  m == ShiftLength(t, hole) IN
    [i \in DOMAIN t |-> LET d == (i + n - hole) % n IN
        IF d < m THEN [t[(i + 1) % n] EXCEPT !.dist = @ - 1] ELSE IF d = m THEN Vacant ELSE t[i]]

\* Mutant: the bytes of the key are not counted as garbage.
ErasedValueOnly(p, i) ==
    MaybeCompact([p EXCEPT !.slots = CloseGap(@, i), !.records = @ - 1,
                           !.garbage = @ + p.slots[i].vlen, !.err = "none"])

Erased(p, i) ==
    MaybeCompact([p EXCEPT !.slots = CloseGap(@, i), !.records = @ - 1,
                           !.garbage = @ + Size(p.slots[i]), !.err = "none"])

Erase(k) ==
    /\ SlotOf(part, k) # -1
    /\ part' = Erased(part, SlotOf(part, k))
    /\ content' = [content EXCEPT ![k] = Absent]
    /\ UNCHANGED fingerprint

PartNext == \E k \in KeyStrings : Erase(k) \/ \E v \in ValueStrings : Put(k, v)
PartSpec == PartInit /\ [][PartNext]_partVars

-----------------------------------------------------------------------------
LiveSlots == {i \in DOMAIN part.slots : part.slots[i].used}

\* The places in the arena of the bytes of a slot
Places(s) == (s.koff + 1)..(s.koff + s.klen) \cup (s.voff + 1)..(s.voff + s.vlen)

PartTypeOK ==
    /\ fingerprint \in [KeyStrings -> Fingerprints]
    /\ \A i \in LiveSlots : LET s == part.slots[i] IN
          /\ s.fp \in Fingerprints /\ s.dist \in 0..(Capacity(part.slots) - 1)
          /\ s.koff \in 0..MaxOffset /\ s.voff \in 0..MaxOffset
    /\ Len(part.arena) \in 0..MaxOffset /\ part.records \in 0..Capacity(part.slots)
    /\ part.garbage \in 0..MaxOffset /\ part.err \in {"none", "offset", "overflow"}
    /\ content \in [KeyStrings -> ValueStrings \cup {Absent}]

\* get returns what the last put stored, through displacement, growth, backward shift and
\* compaction, also for keys with one fingerprint and keys that are prefixes of others; and
\* a put that throws leaves every key as it was, as submit_impl assumes when it takes the
\* operation back from the queue.
LookupAgrees == \A k \in KeyStrings : Lookup(part, k) = content[k]

\* snapshot_items, which a checkpoint writes, has every record once and nothing else, and
\* `records' counts them.  `throw "compact partition overflow"', which would lose the
\* displaced record, is never reached: growth comes first.
SnapshotAgrees ==
    /\ PartTypeOK /\ part.err # "overflow"
    /\ part.records = Cardinality(LiveSlots)
    /\ part.records = Cardinality({k \in KeyStrings : content[k] # Absent})
    /\ \A i \in LiveSlots : \E k \in KeyStrings : /\ KeyView(part.arena, part.slots[i]) = k
                                                  /\ ValueCopy(part.arena, part.slots[i]) = content[k]

\* garbage_bytes, which is kept by hand, is the number of bytes that no slot points to, and no
\* byte belongs to two slots, over any sequence of overwrites, erases, compactions and puts
\* that threw.  Garbage is less than the threshold or than half of the arena: a put is
\* refused for the width of offsets only when the partition is really full to a half.
ArenaBounded ==
    /\ part.garbage = Cardinality({q \in 1..Len(part.arena) : \A i \in LiveSlots : q \notin Places(part.slots[i])})
    /\ \A i, j \in LiveSlots : i # j => Places(part.slots[i]) \cap Places(part.slots[j]) = {}
    /\ part.garbage < MinGarbage \/ part.garbage * 2 < Len(part.arena)
=============================================================================
