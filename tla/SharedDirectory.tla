---------------------------- MODULE SharedDirectory ----------------------------
(***************************************************************************)
(* One directory, several users.  The atomic databases (v104 BatchDatabase   *)
(* and v105 ConcurrentDatabase, v106 MigratedDatabase and v107               *)
(* IntegratedDatabase, on which api_v110 is built) read the files of the v1   *)
(* engine and append to a BDW4 log beside them.  They take no file lock, so  *)
(* a v1 engine can be running, and two handles can be open, in one process   *)
(* or in two.  Inside a handle mutex_ lets one operation run at a time.      *)
(*                                                                         *)
(* Operations of v1 and batches are numbered in the order in which they     *)
(* reach their files; a map is the sequence of the numbers that made it.    *)
(* Handles end by close or by a crash, which keeps the page cache, so that   *)
(* Async and BatchSync differ in nothing here.                             *)
(***************************************************************************)
EXTENDS Integers, Sequences, Functions

CONSTANTS
    Handles,    \* objects of the atomic classes
    MaxV1,      \* bound: operations of the v1 engine
    MaxBatch,   \* bound: batches
    MaxSeg,     \* bound: WAL segments of v1
    MaxOpen,    \* bound: opens
    MaxFault    \* bound: crashes, failing and short writes

ASSUME SharedAssumption ==
    MaxV1 \in Nat /\ MaxBatch \in Nat /\ MaxSeg \in Nat \ {0} /\ MaxOpen \in Nat /\ MaxFault \in Nat

VARIABLES
    v1, snapSeq, segs, ck,     \* v1: its operations, snapshot.bdr3, the .bdw3 files, step of checkpoint()
    items,                     \* the BDW4 file
    at, st, last, todo, good,  \* each handle: step, state_, sequence_, files to read, end of the good frames
    cur,                       \* the frame it appends
    n, acked, taint,           \* history: numbers given, batches whose write_batch returned, and what
                               \* happened that a sole user would not do
    begun, opens, faults       \* operations of v1 when the handle began to open; bounds

v1Vars  == <<v1, snapSeq, segs, ck>>
hVars   == <<at, st, last, todo, good, cur>>
dirVars == <<v1Vars, items, hVars, n, acked, taint, begun, opens, faults>>

Num    == 1..(MaxV1 + MaxBatch)
\* A segment holds the operations first..last; it is created before its header is written.
Segment == [hdr : BOOLEAN, first : 1..(MaxV1 + 1), last : 0..MaxV1]
\* A frame, or the first and the other bytes of one that was written by two calls.
Item   == [part : {"whole", "head", "rest"}, seq : Nat, num : Num \cup {0}]
Zeros  == [part |-> "rest", seq |-> 0, num |-> 0]
NoItem == [part |-> "whole", seq |-> 0, num |-> 0]
ForAll(v) == [h \in Handles |-> v]

DirInit ==
    /\ v1 = <<>> /\ snapSeq = 0 /\ ck = "none"
    /\ segs = [s \in {1} |-> [hdr |-> TRUE, first |-> 1, last |-> 0]]
    /\ items = <<>>
    /\ at = ForAll("closed") /\ st = ForAll(<<>>) /\ last = ForAll(0) /\ todo = ForAll({})
    /\ good = ForAll(0) /\ cur = ForAll(NoItem)
    /\ n = 0 /\ acked = {} /\ taint = {} /\ begun = ForAll(0) /\ opens = 0 /\ faults = 0

Newest == CHOOSE s \in DOMAIN segs : \A t \in DOMAIN segs : t <= s
Opening == {h \in Handles : at[h] \in {"list", "wal"}}
Up(h) == at[h] \in {"idle", "rest", "sync"}

-----------------------------------------------------------------------------
(* The v1 engine, as far as its files show it (DatabaseV1 has all of it)   *)

\* Mark what a sole user of the directory would not see.
Taint(what, if) == taint' = IF if THEN taint \cup {what} ELSE taint

\* An operation is accepted and written; "forked" when an atomic handle built on less.
V1Put ==
    /\ ck = "none" /\ Len(v1) < MaxV1
    /\ n' = n + 1 /\ v1' = Append(v1, n + 1)
    /\ segs' = [segs EXCEPT ![Newest].last = Len(v1) + 1]
    /\ Taint("forked", items # <<>> \/ \E h \in Handles : at[h] # "closed")
    /\ UNCHANGED <<snapSeq, ck, items, hVars, acked, begun, opens, faults>>

\* checkpoint(): the new snapshot, the new segment, its header, the old segments removed.
V1Checkpoint ==
    /\ \/ /\ ck = "none" /\ Newest < MaxSeg
          /\ snapSeq' = Len(v1) /\ ck' = "create" /\ UNCHANGED segs
       \/ /\ ck = "create" /\ ck' = "header"
          /\ segs' = [s \in DOMAIN segs \cup {Newest + 1} |->
                        IF s \in DOMAIN segs THEN segs[s]
                        ELSE [hdr |-> FALSE, first |-> Len(v1) + 1, last |-> Len(v1)]]
          /\ UNCHANGED snapSeq
       \/ /\ ck = "header" /\ ck' = "remove"
          /\ segs' = [segs EXCEPT ![Newest].hdr = TRUE] /\ UNCHANGED snapSeq
       \/ /\ ck = "remove" /\ UNCHANGED <<snapSeq, ck>>
          /\ \E s \in DOMAIN segs \ {Newest} : segs' = [t \in DOMAIN segs \ {s} |-> segs[t]]
       \/ /\ ck = "remove" /\ DOMAIN segs = {Newest} /\ ck' = "none" /\ UNCHANGED <<snapSeq, segs>>
    /\ Taint("raced", Opening # {})
    /\ UNCHANGED <<v1, items, hVars, n, acked, begun, opens, faults>>

-----------------------------------------------------------------------------
(* The constructors                                                        *)

Go(h, step) == at' = [at EXCEPT ![h] = step]
Closed(h) ==
    /\ Go(h, "closed") /\ st' = [st EXCEPT ![h] = <<>>] /\ last' = [last EXCEPT ![h] = 0]
    /\ todo' = [todo EXCEPT ![h] = {}] /\ good' = [good EXCEPT ![h] = 0]
    /\ cur' = [cur EXCEPT ![h] = NoItem]

\* Numbers a..b of the v1 operations
V1Ops(a, b) == SubSeq(v1, a, b)
Begins(h, ops, step) ==
    /\ at[h] = "closed" /\ opens < MaxOpen /\ opens' = opens + 1
    /\ st' = [st EXCEPT ![h] = ops] /\ last' = [last EXCEPT ![h] = Len(ops)]
    /\ begun' = [begun EXCEPT ![h] = Len(v1)] /\ Go(h, step)
    /\ Taint("shared", \E g \in Handles \ {h} : at[g] # "closed")
    /\ UNCHANGED <<v1Vars, items, todo, good, cur, n, acked, faults>>

\* BatchDatabase knows nothing of v1: it is for directories that v1 does not use.
OpenBatch(h) == v1 = <<>> /\ Begins(h, <<>>, "replay")
\* MigratedDatabase: read_v1_state begins with the snapshot, if there is one.
OpenMigrated(h) == Begins(h, V1Ops(1, snapSeq), "list")

\* The directory is listed after the snapshot was read.
ListWals(h) ==
    /\ at[h] = "list" /\ Go(h, "wal")
    /\ todo' = [todo EXCEPT ![h] = DOMAIN segs]
    /\ UNCHANGED <<v1Vars, items, st, last, good, cur, n, acked, taint, begun, opens, faults>>

\* Mutant: `expected' is not raised to first_sequence, and replay goes on over the gap.
ReplayWalFromFirst(h, f) ==
    LET from == f.first IN
    /\ st' = [st EXCEPT ![h] = @ \o V1Ops(from, f.last)]
    /\ last' = [last EXCEPT ![h] = IF f.last > @ THEN f.last ELSE @]

\* replay_wal: what the state has is skipped, the rest begins at `expected', which is
\* first_sequence when that is greater.
ReplayWal(h, f) ==
    LET from == IF last[h] + 1 > f.first THEN last[h] + 1 ELSE f.first IN
    /\ st' = [st EXCEPT ![h] = @ \o V1Ops(from, f.last)]
    /\ last' = [last EXCEPT ![h] = IF f.last > @ THEN f.last ELSE @]

\* The first file that is left of the list: it may be gone, or have no header yet, and the
\* constructor throws.
ReadWal(h) ==
    /\ at[h] = "wal"
    /\ \E s \in todo[h] :
          /\ \A t \in todo[h] : s <= t
          /\ IF s \in DOMAIN segs /\ segs[s].hdr
             THEN /\ ReplayWal(h, segs[s])
                  /\ todo' = [todo EXCEPT ![h] = @ \ {s}] /\ UNCHANGED <<at, good, cur>>
             ELSE Closed(h)
    /\ UNCHANGED <<v1Vars, items, n, acked, taint, begun, opens, faults>>

\* Mutant: the sequence of a frame is not compared.
SequenceAcceptedAlways(r, seq) == TRUE

\* The sequence that replay() of BDW4 expects, or the one duplicate it lets pass.
SequenceAccepted(r, seq) ==
    seq = r.last + 1 \/ (r.initial = 0 /\ r.frames >= 1 /\ ~r.dup /\ seq = r.last)

Frame(r, x, i) ==
    IF ~SequenceAccepted(r, x.seq) THEN [r EXCEPT !.end = "gap"]
    ELSE [r EXCEPT !.ops = Append(@, x.num), !.dup = @ \/ x.seq = r.last, !.last = x.seq,
                   !.frames = @ + 1, !.good = i, !.head = 0]

\* replay() of one piece of the file.  Bytes that are not where a frame begins, or that
\* follow an incomplete one, have a length that is wrong (`long': longer than the file).
Piece(r, x, i, long) ==
    IF r.end # "none" THEN r
    ELSE IF x.part = "head" /\ r.head = 0 THEN [r EXCEPT !.head = x.num]
    ELSE IF (IF r.head = 0 THEN x.part = "whole" ELSE x.part = "rest" /\ r.head = x.num)
         THEN Frame(r, x, i)
    ELSE [r EXCEPT !.end = IF long THEN "torn" ELSE "garbage"]

\* recover_file: what a replay of the first pieces of the BDW4 file makes of a state
Replay(ops, seq, long) ==
    LET r[i \in 0..Len(items)] ==
            IF i = 0 THEN [ops |-> ops, initial |-> seq, last |-> seq, frames |-> 0, dup |-> FALSE,
                           good |-> 0, head |-> 0, end |-> "none"]
            ELSE Piece(r[i - 1], items[i], i, long)
    IN r

Recovered(ops, seq, long) ==
    LET r == Replay(ops, seq, long)[Len(items)] IN
    IF r.end = "none" /\ r.head # 0 THEN [r EXCEPT !.end = "torn"] ELSE r

\* The file is read and replayed in one go, and repaired later.
ReadBdw4(h) ==
    /\ at[h] \in {"replay", "wal"} /\ todo[h] = {}
    /\ \E long \in BOOLEAN :
       LET r == Recovered(st[h], last[h], long) IN
       IF r.end \in {"gap", "garbage"} THEN Closed(h)
       ELSE /\ st' = [st EXCEPT ![h] = r.ops] /\ last' = [last EXCEPT ![h] = r.last]
            /\ good' = [good EXCEPT ![h] = r.good]
            /\ Go(h, IF r.end = "torn" THEN "repair" ELSE "idle") /\ UNCHANGED <<todo, cur>>
    /\ UNCHANGED <<v1Vars, items, n, acked, taint, begun, opens, faults>>

\* Mutant: the torn tail stays.
RepairTailNot(h) ==
    /\ at[h] = "repair" /\ Go(h, "idle")
    /\ UNCHANGED <<v1Vars, items, st, last, todo, good, cur, n, acked, taint, begun, opens, faults>>

\* resize_file to last_good: zeros when the file has become shorter
RepairTail(h) ==
    /\ at[h] = "repair" /\ Go(h, "idle")
    /\ items' = IF good[h] <= Len(items) THEN SubSeq(items, 1, good[h]) ELSE Append(items, Zeros)
    /\ UNCHANGED <<v1Vars, st, last, todo, good, cur, n, acked, taint, begun, opens, faults>>

-----------------------------------------------------------------------------
(* write_batch                                                             *)

\* mutex_ is free: one call at a time, and put, erase, put_many and erase_many are one
\* batch each, the last two also when they have many operations.
Unlocked(h) == at[h] = "idle"
Batches == n - Len(v1)
Applied(h, x) ==
    /\ st' = [st EXCEPT ![h] = Append(@, x.num)] /\ last' = [last EXCEPT ![h] = x.seq]

\* commit_batch and append_batch write to the end of the file (O_APPEND): all bytes, or the
\* first of them and, by another call, the others behind what is there by then.
AppendTo(h, x) ==
    \/ items' = Append(items, x) /\ Go(h, "sync") /\ UNCHANGED faults
    \/ /\ faults < MaxFault /\ faults' = faults + 1
       /\ items' = Append(items, [x EXCEPT !.part = "head"]) /\ Go(h, "rest")

\* The frame gets the sequence after the handle's own last one.
NewFrame(h) == [part |-> "whole", seq |-> last[h] + 1, num |-> n + 1]

\* The log is opened and the first write made.
WriteBatch(h) ==
    /\ Unlocked(h) /\ Batches < MaxBatch /\ n' = n + 1
    /\ cur' = [cur EXCEPT ![h] = NewFrame(h)] /\ AppendTo(h, NewFrame(h))
    /\ UNCHANGED <<v1Vars, st, last, todo, good, acked, taint, begun, opens>>

\* The next turn of the loop of write_all
WriteAll(h) ==
    /\ at[h] = "rest" /\ Go(h, "sync")
    /\ items' = Append(items, [cur[h] EXCEPT !.part = "rest"])
    /\ UNCHANGED <<v1Vars, st, last, todo, good, cur, n, acked, taint, begun, opens, faults>>

\* Mutant: the handle does not count its batch.
CommitUncounted(h) ==
    /\ at[h] = "sync" /\ Go(h, "idle") /\ st' = [st EXCEPT ![h] = Append(@, cur[h].num)]
    /\ acked' = acked \cup {cur[h].num} /\ cur' = [cur EXCEPT ![h] = NoItem]
    /\ UNCHANGED <<v1Vars, items, last, todo, good, n, taint, begun, opens, faults>>

\* fdatasync, and the batch becomes visible; write_batch returns.
Commit(h) ==
    /\ at[h] = "sync" /\ Go(h, "idle") /\ Applied(h, cur[h])
    /\ acked' = acked \cup {cur[h].num} /\ cur' = [cur EXCEPT ![h] = NoItem]
    /\ UNCHANGED <<v1Vars, items, todo, good, n, taint, begun, opens, faults>>

\* A short write has been counted when it happened.
Fault(h) == (at[h] = "rest" \/ faults < MaxFault) /\ faults' = IF at[h] = "rest" THEN faults ELSE faults + 1

\* write or fdatasync fails: write_batch throws, the bytes stay and the handle goes on.
WriteFails(h) ==
    /\ at[h] \in {"rest", "sync"} /\ Fault(h)
    /\ Go(h, "idle") /\ cur' = [cur EXCEPT ![h] = NoItem] /\ Taint("failed", TRUE)
    /\ UNCHANGED <<v1Vars, items, st, last, todo, good, n, acked, begun, opens>>

Close(h) ==
    /\ Unlocked(h) /\ Closed(h)
    /\ UNCHANGED <<v1Vars, items, n, acked, taint, begun, opens, faults>>

\* The process of a handle ends, at a failpoint of commit_batch or elsewhere.
Crash(h) ==
    /\ at[h] \notin {"closed", "idle"} /\ Fault(h)
    /\ Closed(h)
    /\ UNCHANGED <<v1Vars, items, n, acked, taint, begun, opens>>

DirNext == \/ V1Put \/ V1Checkpoint
        \/ \E h \in Handles :
              \/ OpenBatch(h) \/ OpenMigrated(h) \/ ListWals(h) \/ ReadWal(h) \/ ReadBdw4(h)
              \/ RepairTail(h) \/ WriteBatch(h) \/ WriteAll(h) \/ Commit(h)
              \/ WriteFails(h) \/ Close(h) \/ Crash(h)

DirSpec == DirInit /\ [][DirNext]_dirVars

-----------------------------------------------------------------------------
DirTypeOK ==
    /\ v1 \in Seq(Num) /\ snapSeq \in 0..MaxV1 /\ ck \in {"none", "create", "header", "remove"}
    /\ DOMAIN segs \subseteq 1..MaxSeg /\ \A s \in DOMAIN segs : segs[s] \in Segment
    /\ items \in Seq(Item)
    /\ at \in [Handles -> {"closed", "list", "wal", "replay", "repair", "idle", "rest", "sync"}]
    /\ st \in [Handles -> Seq(Num)] /\ last \in [Handles -> 0..(MaxV1 + MaxBatch)]
    /\ todo \in [Handles -> SUBSET (1..MaxSeg)] /\ good \in [Handles -> Nat]
    /\ cur \in [Handles -> Item] /\ n \in 0..(MaxV1 + MaxBatch) /\ acked \subseteq Num
    /\ taint \subseteq {"forked", "raced", "shared", "failed"}
    /\ begun \in [Handles -> 0..MaxV1] /\ opens \in 0..MaxOpen /\ faults \in 0..MaxFault

\* A handle never shows an older change on top of a newer one: when v1 accepts operations
\* that a BDW4 log was not built on, the sequences make every later open throw rather
\* than apply the log over them, and two handles that append never come out of order.
\* (Both together can: a second handle cuts off a frame and v1 takes its sequence.)
InOrder ==
    /\ DirTypeOK
    /\ ~({"forked", "shared"} \subseteq taint) =>
         \A h \in Handles : \A i, j \in DOMAIN st[h] : i < j => st[h][i] < st[h][j]

\* Unless a checkpoint of v1 overlapped the reading of its files, an open handle has all
\* operations v1 had accepted when it began to open, and of the later ones a prefix.
ReadsPrefixOfV1 ==
    "raced" \notin taint =>
        \A h \in Handles : Up(h) =>
            \E k \in begun[h]..Len(v1) :
                /\ k <= Len(st[h]) /\ SubSeq(st[h], 1, k) = V1Ops(1, k)
                /\ \A i \in (k + 1)..Len(st[h]) : st[h][i] \notin Range(v1)

\* With one handle at a time and no failing write, whoever gets past the constructor sees
\* every batch that was acknowledged, whatever v1 does beside it.  And, writes failing or
\* not, it shows no batch whose bytes are not all in the file: "Mutate the visible state
\* only after the complete atomic frame has been appended" (batch_database.cpp).
AckedShown ==
    \A h \in Handles : Up(h) =>
        /\ taint \cap {"shared", "failed"} = {} => acked \subseteq Range(st[h])
        /\ "shared" \notin taint =>
             \A x \in Range(st[h]) \ Range(v1) :
                 \E i \in DOMAIN items : items[i].num = x /\ items[i].part # "head"

\* A directory that only one user at a time has written, and v1 not after the first batch,
\* can always be opened again, with every acknowledged batch, after any crash.
AckedRecoverable ==
    taint = {} => \A long \in BOOLEAN :
        LET r == Recovered(v1, Len(v1), long) IN
        r.end \in {"none", "torn"} /\ acked \subseteq Range(r.ops)
=============================================================================
