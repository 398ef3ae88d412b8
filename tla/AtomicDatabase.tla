---------------------------- MODULE AtomicDatabase ----------------------------
(***************************************************************************)
(* bdr::AtomicDatabase: batches made atomic and durable by one BDW4 frame   *)
(* each (experimental/api_v110/durable_database.cpp over                   *)
(* api_v102/file_wal.cpp and api_v101/atomic_wal.cpp).  A database starts   *)
(* from the map and the sequence that read_v1_state finds in the v1 files,  *)
(* which it never changes, and replays atomic.bdw4 on top of it.           *)
(*                                                                         *)
(* All calls hold mutex_ to their end, so what interleaves with the steps   *)
(* of a call is the end of the process or of the host, not another call.   *)
(***************************************************************************)
EXTENDS Integers, Sequences

CONSTANTS
    Keys, Vals, Absent,
    LegacySeq, LegacyMap,  \* LegacyState: sequence and values
    FileSyncLinks,  \* whether syncing a file also makes its directory entry durable
    AppendMayFail,  \* whether write and fdatasync can return errors
    MaxOps,         \* bound: operations of a batch
    MaxBatch,       \* bound: frames written
    MaxCrash        \* bound: process crashes plus power losses

Value == Vals \cup {Absent}
Map   == [Keys -> Value]

ASSUME AtomicAssumption ==
    /\ Absent \notin Vals
    /\ LegacySeq \in Nat /\ LegacyMap \in Map
    /\ FileSyncLinks \in BOOLEAN /\ AppendMayFail \in BOOLEAN
    /\ MaxOps \in Nat \ {0} /\ MaxBatch \in Nat /\ MaxCrash \in Nat

VARIABLES
    items,      \* atomic.bdw4: complete and incomplete frames, in file order
    synced,     \* how many of them are on the medium
    cut,        \* a torn tail was cut off the end, and the medium may still have it there
    link,       \* directory entry of the file: "none", "cached" or "durable"
    \* DurableDatabase
    state, last, durable,   \* state_, last_sequence_, durable_sequence_
    pc, cur,                \* step of the call in progress, and its batch
    \* v101::replay
    pos, committed, dup,    \* next frame, committed_batches, legacy_adjacent_duplicate_consumed
    fail,                   \* exception of the last open ("none": it succeeded)
    \* History
    hist,       \* hist[n + 1]: the map after the first n batches
    base,       \* batches that recovery found
    acked,      \* batches a caller was told are durable
    crashes

fileVars == <<items, synced, cut, link>>
memVars  == <<state, last, durable>>
repVars  == <<pos, committed, dup>>
vars == <<fileVars, memVars, pc, cur, repVars, fail, hist, base, acked, crashes>>

Empty == [k \in Keys |-> Absent]
Op    == [key : Keys, val : Value]
Batch == UNION {[1..n -> Op] : n \in 1..MaxOps}
NoBatch == [ops |-> <<>>, sync |-> FALSE]

\* apply() and the loop that ends replay(): the operations in order, so the last one
\* on a key counts.
Apply(m, ops) ==
    [k \in Keys |->
        IF \E i \in DOMAIN ops : ops[i].key = k
        THEN LET j == CHOOSE i \in DOMAIN ops :
                        /\ ops[i].key = k
                        /\ \A l \in DOMAIN ops : ops[l].key = k => l <= i
             IN ops[j].val
        ELSE m[k]]

Frame(seq, ops) == [whole |-> TRUE, seq |-> seq, ops |-> ops]
Partial == [whole |-> FALSE, seq |-> 0, ops |-> <<>>]

Cut(s, n) == SubSeq(s, 1, IF n <= Len(s) THEN n ELSE Len(s))
Batches == last - LegacySeq     \* number of batches this process knows of

Init ==
    /\ items = <<>> /\ synced = 0 /\ cut = FALSE /\ link = "none"
    /\ state = Empty /\ last = 0 /\ durable = 0
    /\ pc = "down" /\ cur = NoBatch
    /\ pos = 0 /\ committed = 0 /\ dup = FALSE
    /\ fail = "none"
    /\ hist = <<LegacyMap>> /\ base = 0 /\ acked = 0
    /\ crashes = 0

Lost ==
    /\ state' = Empty /\ last' = 0 /\ durable' = 0
    /\ pc' = "down" /\ cur' = NoBatch
    /\ pos' = 0 /\ committed' = 0 /\ dup' = FALSE

-----------------------------------------------------------------------------
(* The constructor: read_v1_state, then recover_file                       *)

Open ==
    /\ pc = "down"
    /\ state' = LegacyMap /\ last' = LegacySeq /\ durable' = LegacySeq
    /\ pc' = "replay" /\ pos' = 1 /\ fail' = "none"
    /\ UNCHANGED <<fileVars, cur, committed, dup, hist, base, acked, crashes>>

OpenFails(why) ==
    /\ Lost /\ fail' = why
    /\ UNCHANGED <<fileVars, hist, base, acked, crashes>>

\* A frame that repeats the sequence before it is taken once per replay, and only by
\* a database without v1 operations.
IsLegacyDuplicate(seq) == LegacySeq = 0 /\ committed >= 1 /\ ~dup /\ seq = last
\* Mutant: the expected sequence is one too low.
SequenceRepeated(seq) == seq = last

SequenceAccepted(seq) == seq = last + 1 \/ IsLegacyDuplicate(seq)

\* Mutant: an operation is applied before the others of its frame are there.
ReplayFirstOperation ==
    /\ pc = "replay" /\ pos <= Len(items) /\ items[pos].whole
    /\ LET f == items[pos] IN
       IF ~SequenceAccepted(f.seq)
       THEN OpenFails("gap")
       ELSE /\ state' = Apply(state, Cut(f.ops, 1)) /\ last' = f.seq
            /\ committed' = committed + 1 /\ dup' = (dup \/ IsLegacyDuplicate(f.seq))
            /\ pos' = pos + 1
            /\ UNCHANGED <<fileVars, durable, pc, cur, fail, hist, base, acked, crashes>>

\* One turn of the loop of replay() on a complete frame
ReplayFrame ==
    /\ pc = "replay" /\ pos <= Len(items) /\ items[pos].whole
    /\ LET f == items[pos] IN
       IF ~SequenceAccepted(f.seq)
       THEN OpenFails("gap")
       ELSE /\ state' = Apply(state, f.ops) /\ last' = f.seq
            /\ committed' = committed + 1 /\ dup' = (dup \/ IsLegacyDuplicate(f.seq))
            /\ pos' = pos + 1
            /\ UNCHANGED <<fileVars, durable, pc, cur, fail, hist, base, acked, crashes>>

\* Bytes behind an incomplete frame are read as its payload: the CRC of the mixture
\* does not match.  When there are too few of them the mixture is taken for a torn
\* tail, which is ReplayEnd.
ReplayGarbage ==
    /\ pc = "replay" /\ pos < Len(items) /\ ~items[pos].whole
    /\ OpenFails("corrupt")

\* The end of the file, an incomplete frame cut off by resize_file
ReplayEnd ==
    /\ pc = "replay"
    /\ pos <= Len(items) => ~items[pos].whole
    /\ items' = Cut(items, pos - 1)
    /\ synced' = IF synced < pos THEN synced ELSE pos - 1
    /\ cut' = (cut \/ pos <= Len(items))
    /\ durable' = last
    /\ pc' = "idle" /\ pos' = 0 /\ committed' = 0 /\ dup' = FALSE
    /\ base' = Batches /\ hist' = Cut(hist, Batches + 1)
    /\ UNCHANGED <<link, state, last, cur, fail, acked, crashes>>

\* resize_file fails.
RepairFails ==
    /\ AppendMayFail /\ pc = "replay" /\ pos <= Len(items) /\ ~items[pos].whole
    /\ OpenFails("io")

-----------------------------------------------------------------------------
(* write_batch, put, erase, put_many, erase_many, clear                    *)

WriteBatch(ops, mode) ==
    /\ pc = "idle" /\ Len(items) < MaxBatch
    /\ cur' = [ops |-> ops, sync |-> mode # "Async"]
    /\ pc' = "append"
    /\ UNCHANGED <<fileVars, memVars, repVars, fail, hist, base, acked, crashes>>

\* clear() writes one batch that deletes every key there is; on an empty map it returns
\* at once, whatever the mode, and changes nothing.
Deletes(m) == {ops \in Batch : /\ \A i \in DOMAIN ops : ops[i].val = Absent
                               /\ \A i, j \in DOMAIN ops : ops[i].key = ops[j].key => i = j
                               /\ {ops[i].key : i \in DOMAIN ops} = {k \in Keys : m[k] # Absent}}
Clear(mode) ==
    /\ pc = "idle" /\ state # Empty /\ Len(items) < MaxBatch
    /\ \E ops \in Deletes(state) : cur' = [ops |-> ops, sync |-> mode # "Async"]
    /\ pc' = "append"
    /\ UNCHANGED <<fileVars, memVars, repVars, fail, hist, base, acked, crashes>>

\* append_batch: open(O_CREAT|O_APPEND) and write_all
AppendFrame ==
    /\ pc = "append"
    /\ items' = Append(items, Frame(last + 1, cur.ops))
    /\ link' = IF link = "none" THEN "cached" ELSE link
    /\ hist' = Append(hist, Apply(state, cur.ops))
    /\ cut' = FALSE
    /\ pc' = IF cur.sync THEN "fdatasync" ELSE "apply"
    /\ UNCHANGED <<synced, memVars, cur, repVars, fail, base, acked, crashes>>

\* Mutant: no fdatasync.
FileNotSynced == UNCHANGED <<synced, cut, link>>

FileSynced ==
    /\ synced' = Len(items) /\ cut' = FALSE
    /\ link' = IF FileSyncLinks THEN "durable" ELSE link

FrameSync ==
    /\ pc = "fdatasync"
    /\ FileSynced
    /\ pc' = "apply"
    /\ UNCHANGED <<items, memVars, cur, repVars, fail, hist, base, acked, crashes>>

\* Only now the batch is visible, and its sequence taken; the call returns.
ApplyBatch ==
    /\ pc = "apply"
    /\ state' = Apply(state, cur.ops) /\ last' = last + 1
    /\ durable' = IF cur.sync THEN last + 1 ELSE durable
    /\ acked' = IF cur.sync THEN Batches + 1 ELSE acked
    /\ pc' = "idle" /\ cur' = NoBatch
    /\ UNCHANGED <<fileVars, repVars, fail, hist, base, crashes>>

\* write or fdatasync fails: the exception leaves the bytes where they are.
AppendFails(partial) ==
    /\ AppendMayFail /\ pc = "append"
    /\ items' = IF partial THEN Append(items, Partial) ELSE items
    /\ cut' = (cut /\ ~partial)
    /\ link' = IF link = "none" THEN "cached" ELSE link
    /\ pc' = "idle" /\ cur' = NoBatch
    /\ UNCHANGED <<synced, memVars, repVars, fail, hist, base, acked, crashes>>

FrameSyncFails ==
    /\ AppendMayFail /\ pc = "fdatasync"
    /\ hist' = Cut(hist, Len(hist) - 1)
    /\ pc' = "idle" /\ cur' = NoBatch
    /\ UNCHANGED <<fileVars, memVars, repVars, fail, base, acked, crashes>>

\* sync(): nothing to do when durable_sequence_ has caught up.
Sync ==
    /\ pc = "idle" /\ last # durable
    /\ FileSynced
    /\ durable' = last /\ acked' = Batches
    /\ UNCHANGED <<items, state, last, pc, cur, repVars, fail, hist, base, crashes>>

-----------------------------------------------------------------------------
(* The environment                                                         *)

\* The handle is destroyed: there is nothing to flush.
Close ==
    /\ pc = "idle" /\ Lost
    /\ UNCHANGED <<fileVars, fail, hist, base, acked, crashes>>

ProcessCrash(partial) ==
    /\ pc # "down" /\ crashes < MaxCrash
    /\ partial => pc = "append"
    /\ items' = IF partial THEN Append(items, Partial) ELSE items
    /\ cut' = (cut /\ ~partial)
    /\ link' = IF partial /\ link = "none" THEN "cached" ELSE link
    /\ crashes' = crashes + 1
    /\ Lost
    /\ UNCHANGED <<synced, fail, hist, base, acked>>

\* The frames on the medium survive with any prefix of the others, possibly cut
\* inside a frame, or with the tail that was cut off last; the file itself only if its
\* directory entry does.
PowerLoss ==
    /\ crashes < MaxCrash
    /\ \/ /\ link # "durable"
          /\ items' = <<>> /\ synced' = 0 /\ link' = "none"
       \/ /\ link # "none"
          /\ \E n \in synced..Len(items), partial \in BOOLEAN :
                /\ partial => n < Len(items) \/ cut
                /\ items' = IF partial THEN Append(Cut(items, n), Partial) ELSE Cut(items, n)
                /\ synced' = Len(items')
          /\ link' = "durable"
    /\ cut' = FALSE
    /\ crashes' = crashes + 1
    /\ fail' = "none"
    /\ Lost
    /\ UNCHANGED <<hist, base, acked>>

-----------------------------------------------------------------------------
Modes == {"Async", "BatchSync", "PerOperationSync"}

Next ==
    \/ Open \/ ReplayFrame \/ ReplayGarbage \/ ReplayEnd \/ RepairFails
    \/ \E mode \in Modes :
          \/ \E ops \in Batch : WriteBatch(ops, mode)
          \/ Clear(mode)
    \/ AppendFrame \/ FrameSync \/ ApplyBatch \/ Sync
    \/ \E partial \in BOOLEAN : AppendFails(partial) \/ ProcessCrash(partial)
    \/ FrameSyncFails
    \/ Close \/ PowerLoss

Spec == Init /\ [][Next]_vars

-----------------------------------------------------------------------------
Up == pc \notin {"down", "replay"}

TypeOK ==
    /\ items \in Seq([whole : BOOLEAN, seq : Nat, ops : Batch \cup {<<>>}])
    /\ synced \in 0..Len(items) /\ cut \in BOOLEAN /\ link \in {"none", "cached", "durable"}
    /\ state \in Map /\ last \in Nat /\ durable \in 0..last
    /\ pc \in {"down", "replay", "idle", "append", "fdatasync", "apply"}
    /\ cur \in [ops : Batch \cup {<<>>}, sync : BOOLEAN]
    /\ pos \in Nat /\ committed \in Nat /\ dup \in BOOLEAN
    /\ fail \in {"none", "gap", "corrupt", "io"}
    /\ hist \in Seq(Map) /\ base \in Nat /\ acked \in Nat
    /\ crashes \in 0..MaxCrash

\* The first n batches are on the medium as n complete frames in sequence.
Stable(n) ==
    n > 0 => /\ link = "durable" /\ n <= synced
             /\ \A i \in 1..n : items[i].whole /\ items[i].seq = LegacySeq + i

\* A batch whose call returned a durable result, or that a later sync() covered, is on
\* the medium.  So is every batch up to durable_sequence(), once that is past what the
\* constructor found in the page cache, the recovered ones included.
AckedStable ==
    /\ Stable(acked)
    /\ Up /\ durable > LegacySeq + base => Stable(durable - LegacySeq)

\* Without failing appends, recovery accepts every WAL that the database, its crashes and
\* power losses wrote, and no frame repeats or skips a sequence.
LogSound ==
    /\ TypeOK
    /\ fail = "none"
    /\ \A i \in 1..Len(items) : items[i].whole => items[i].seq = LegacySeq + i

\* Failed appends leave their bytes, and the next batch goes behind them with the same
\* sequence.  open() throws on nothing but such traces: an incomplete frame with bytes
\* behind it, or a repeated sequence.
RejectsOnlyReuse ==
    fail \in {"gap", "corrupt"} => \E i \in 1..(Len(items) - 1) :
        ~items[i].whole \/ (items[i + 1].whole /\ items[i + 1].seq <= items[i].seq)

\* The database implements the durable store, a batch being one operation of it.
\* From its append on, a batch counts as accepted: nobody can read before the call ends.
Store == INSTANCE DurableStore WITH
            Initial <- LegacyMap, log <- hist, open <- Up,
            kv <- IF ~Up THEN Empty
                  ELSE IF pc \in {"fdatasync", "apply"} THEN Apply(state, cur.ops) ELSE state
RefinesStore == Store!Spec
=============================================================================
