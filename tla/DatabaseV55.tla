------------------------------ MODULE DatabaseV55 ------------------------------
(***************************************************************************)
(* The first engine with tickets (experimental/api_v55/src/database.cpp):    *)
(* threads and files together.  Unlike database_v1.cpp it reads `closed'      *)
(* without a mutex and sets it last, takes a sequence before the operation   *)
(* is queued, keeps no writer_error (a failing write ends the process) and   *)
(* takes no file lock.                                                     *)
(*                                                                         *)
(* An operation is its identity; a map is the sequence of the operations    *)
(* that made it.  A crash keeps the page cache: DatabaseV1 is about what a   *)
(* power loss adds.                                                        *)
(***************************************************************************)
EXTENDS Integers, Sequences, FiniteSets, SequencesExt

CONSTANTS
    Threads,    \* callers of the public API
    NoOne,      \* a mutex nobody holds
    WalBatch,   \* Options::wal_batch
    MaxOps,     \* bound: accepted operations, over all processes
    MaxCalls,   \* bound: API calls per thread
    MaxSeg,     \* bound: segment ids
    MaxFault    \* bound: crashes, failing writes and failing checkpoints

ASSUME V55Assumption ==
    /\ NoOne \notin Threads /\ "writer" \notin Threads
    /\ WalBatch \in Nat \ {0} /\ MaxSeg \in Nat \ {0}
    /\ MaxOps \in Nat /\ MaxCalls \in Nat /\ MaxFault \in Nat

VARIABLES
    snap, wals,                  \* snapshot.bdr3; the .bdw3 files, by segment id
    kv, next, durable, queue,    \* kv, next_seq, durable_seq, queue
    wfd, seg, closed, stop,      \* segment open as wal_fd (0: -1), segment_id, closed, stop
    pc, call, ticket,            \* each caller: its step, API call and ticket
    wpc, local,                  \* writer thread: its step and batch
    submitMu, queueMu,           \* holders
    up, fail,                    \* "down", "create" (recover in create_new_wal) or "up"; last open
    ids, acked, late,            \* history: operations accepted, the prefix some caller was told
                                 \* is durable, the sequences queued after `stop'
    calls, faults

disk  == <<snap, wals>>
mem   == <<kv, next, durable, queue, wfd, seg, closed, stop>>
thr   == <<pc, call, ticket>>
wr    == <<wpc, local>>
locks == <<submitMu, queueMu>>
proc  == <<up, fail>>
hist  == <<ids, acked, late>>
bound == <<calls, faults>>
vars  == <<disk, mem, thr, wr, locks, proc, hist, bound>>

Segs == 1..MaxSeg
Ops  == 1..MaxOps
Rec  == [seq : Ops, id : Ops]                    \* make_record
Snap == [seq : 0..MaxOps, kv : Seq(Ops)]         \* encode_snapshot
\* A WAL file: whether its header is complete, first_sequence, the complete records,
\* and whether an incomplete one follows them.
WalFile == [hdr : BOOLEAN, first : 1..(MaxOps + 1), recs : Seq(Rec), torn : BOOLEAN]
Created(first) == [hdr |-> FALSE, first |-> first, recs |-> <<>>, torn |-> FALSE]
Put(s, f) == [t \in DOMAIN wals \cup {s} |-> IF t = s THEN f ELSE wals[t]]

ForAll(v) == [t \in Threads |-> v]

Init ==
    /\ snap = [seq |-> 0, kv |-> <<>>] /\ wals = <<>>
    /\ kv = <<>> /\ next = 0 /\ durable = 0 /\ queue = <<>>
    /\ wfd = 0 /\ seg = 0 /\ closed = FALSE /\ stop = FALSE
    /\ pc = ForAll("idle") /\ call = ForAll("none") /\ ticket = ForAll(0)
    /\ wpc = "take" /\ local = <<>>
    /\ submitMu = NoOne /\ queueMu = NoOne /\ up = "down" /\ fail = "none"
    /\ ids = 0 /\ acked = <<>> /\ late = {}
    /\ calls = ForAll(0) /\ faults = 0

-----------------------------------------------------------------------------
(* recover()                                                               *)

\* Mutant: every record is expected, also the ones the snapshot has.
ReplayRecordAgain(r, x) ==
    IF r.err # "none" THEN r
    ELSE IF x.seq # r.expected THEN [r EXCEPT !.err = "sequence"]
    ELSE [r EXCEPT !.seq = x.seq, !.kv = Append(@, x.id), !.expected = @ + 1]

\* Mutant: records that the snapshot has are applied once more.
ReplayRecordTwice(r, x) ==
    IF r.err # "none" THEN r
    ELSE [r EXCEPT !.seq = x.seq, !.kv = Append(@, x.id), !.expected = @ + 1]

\* replay_wal: a record that the state already has is skipped, any other must be the
\* expected one.
ReplayRecord(r, x) ==
    IF r.err # "none" \/ x.seq <= r.seq THEN r
    ELSE IF x.seq # r.expected THEN [r EXCEPT !.err = "sequence"]
    ELSE [r EXCEPT !.seq = x.seq, !.kv = Append(@, x.id), !.expected = @ + 1]

\* Its loop: the state before the first record, and after each.
ReplayRecords(r, recs) ==
    LET read[i \in 0..Len(recs)] == IF i = 0 THEN r ELSE ReplayRecord(read[i - 1], recs[i])
    IN read

\* replay_wal from the header to the tail.  Only the last file may have a torn one.
ReplayWal(r, s) ==
    IF r.err # "none" THEN r
    ELSE IF ~wals[s].hdr THEN [r EXCEPT !.err = "header"]
    ELSE LET start == IF r.seq + 1 > wals[s].first THEN r.seq + 1 ELSE wals[s].first
             recs == wals[s].recs
             end == ReplayRecords([r EXCEPT !.expected = start], recs)[Len(recs)]
         IN IF end.err = "none" /\ wals[s].torn /\ \E t \in DOMAIN wals : t > s
            THEN [end EXCEPT !.err = "torn"] ELSE end

\* decode_snapshot: the state before the first segment
DecodeSnapshot == [seq |-> snap.seq, kv |-> snap.kv, expected |-> 0, err |-> "none"]

\* The segments follow in the order of their names.
ReplayWals ==
    LET read[s \in 0..MaxSeg] == IF s = 0 THEN DecodeSnapshot
                                 ELSE IF s \in DOMAIN wals THEN ReplayWal(read[s - 1], s)
                                 ELSE read[s - 1]
    IN read
Replayed == ReplayWals[MaxSeg]

LastSeg == CHOOSE s \in DOMAIN wals : \A t \in DOMAIN wals : t <= s

\* The constructor up to the writer thread: the state is read, a torn tail cut off and
\* the last segment opened at its end; an empty directory gets segment 1.
Open ==
    /\ up = "down"
    /\ fail' = Replayed.err
    /\ IF Replayed.err # "none" THEN UNCHANGED <<disk, mem, up>>
       ELSE /\ kv' = Replayed.kv /\ next' = Replayed.seq /\ durable' = Replayed.seq
            /\ IF wals = <<>>
               THEN wals' = Put(1, Created(Replayed.seq + 1)) /\ up' = "create"
                    /\ UNCHANGED <<wfd, seg>>
               ELSE wals' = Put(LastSeg, [wals[LastSeg] EXCEPT !.torn = FALSE])
                    /\ wfd' = LastSeg /\ seg' = LastSeg /\ up' = "up"
            /\ UNCHANGED <<snap, queue, closed, stop>>
    /\ UNCHANGED <<thr, wr, locks, hist, bound>>

\* create_new_wal(1, ...): the header follows the creation of the file.
OpenCreates ==
    /\ up = "create"
    /\ wals' = Put(1, [wals[1] EXCEPT !.hdr = TRUE])
    /\ wfd' = 1 /\ seg' = 1 /\ up' = "up"
    /\ UNCHANGED <<snap, kv, next, durable, queue, closed, stop, thr, wr, locks, fail, hist, bound>>

-----------------------------------------------------------------------------
(* Callers                                                                 *)

Goto(t, step) == pc' = [pc EXCEPT ![t] = step]
Return(t) == Goto(t, "idle") /\ call' = [call EXCEPT ![t] = "none"]
Take(t, n) == ticket' = [ticket EXCEPT ![t] = n]

Calls == {"put", "put_sync", "sync", "checkpoint", "close"}
Entry == [put |-> "submit", put_sync |-> "submit", checkpoint |-> "ck_lock", sync |-> "wait",
          close |-> "wait"]

\* The entry of an API call: `closed' is read without a mutex, by all but sync().
\* std::thread::join allows one close() at a time.
Begin(t, c) ==
    /\ up = "up" /\ pc[t] = "idle" /\ calls[t] < MaxCalls
    /\ c = "close" => \A u \in Threads : call[u] # "close"
    /\ c = "sync" \/ ~closed
    /\ calls' = [calls EXCEPT ![t] = @ + 1]
    /\ call' = [call EXCEPT ![t] = c] /\ Goto(t, Entry[c])
    /\ Take(t, IF c \in {"sync", "close"} THEN next ELSE 0)
    /\ UNCHANGED <<disk, mem, wr, locks, proc, hist, faults>>

\* submit_impl under submit_mu: fetch_add, and kv under state_mu
Submit(t) ==
    /\ pc[t] = "submit" /\ submitMu = NoOne /\ ids < MaxOps
    /\ submitMu' = t
    /\ next' = next + 1 /\ Take(t, next + 1)
    /\ ids' = ids + 1 /\ kv' = Append(kv, ids + 1)
    /\ Goto(t, "push")
    /\ UNCHANGED <<disk, durable, queue, wfd, seg, closed, stop, call, wr, queueMu, proc, acked,
                   late, bound>>

AfterSubmit(t) == IF call[t] = "put_sync" THEN Goto(t, "wait") /\ UNCHANGED call ELSE Return(t)
Queued(t) == queue' = Append(queue, [seq |-> ticket[t], id |-> kv[ticket[t]]])
WakeWriter == wpc' = IF wpc = "asleep" THEN "take" ELSE wpc

\* Mutant: no notify_one.
PushSilently(t) ==
    /\ pc[t] = "push" /\ queueMu = NoOne
    /\ Queued(t) /\ submitMu' = NoOne /\ AfterSubmit(t)
    /\ late' = IF stop THEN late \cup {ticket[t]} ELSE late
    /\ UNCHANGED <<disk, kv, next, durable, wfd, seg, closed, stop, ticket, wr, queueMu, proc,
                   ids, acked, bound>>

\* push_back under queue_mu, notify_one, and submit_mu is released.
Push(t) ==
    /\ pc[t] = "push" /\ queueMu = NoOne
    /\ Queued(t) /\ WakeWriter /\ submitMu' = NoOne /\ AfterSubmit(t)
    /\ late' = IF stop THEN late \cup {ticket[t]} ELSE late
    /\ UNCHANGED <<disk, kv, next, durable, wfd, seg, closed, stop, ticket, local, queueMu, proc,
                   ids, acked, bound>>

AfterWait(t) ==
    CASE call[t] = "checkpoint" -> Goto(t, "ck_snapshot") /\ UNCHANGED call
      [] call[t] = "close" -> Goto(t, "cl_stop") /\ UNCHANGED call
      [] OTHER -> Return(t)

\* wait_impl: the predicate, under queue_mu, and the return with everything up to the
\* ticket durable.
WaitReturn(t) ==
    /\ pc[t] = "wait" /\ (ticket[t] = 0 \/ queueMu = NoOne)
    /\ durable >= ticket[t]
    /\ acked' = IF ticket[t] > Len(acked) THEN SubSeq(kv, 1, ticket[t]) ELSE acked
    /\ AfterWait(t)
    /\ UNCHANGED <<disk, mem, ticket, wr, locks, proc, ids, late, bound>>

\* The predicate is false: the mutex is kept until the thread sleeps.
WaitBlocks(t) ==
    /\ pc[t] = "wait" /\ queueMu = NoOne /\ durable < ticket[t]
    /\ queueMu' = t /\ Goto(t, "to_sleep")
    /\ UNCHANGED <<disk, mem, call, ticket, wr, submitMu, proc, hist, bound>>

WaitSleeps(t) ==
    /\ pc[t] = "to_sleep"
    /\ queueMu' = NoOne /\ Goto(t, "asleep")
    /\ UNCHANGED <<disk, mem, call, ticket, wr, submitMu, proc, hist, bound>>

\* wal_mu is held from the rotation to the end of a checkpoint.
WalFree == \A t \in Threads : pc[t] \notin {"ck_header", "ck_remove"}

\* checkpoint_impl: submit_mu is kept to the end, and the wait is for all of next_seq.
CkLock(t) ==
    /\ pc[t] = "ck_lock" /\ submitMu = NoOne
    /\ submitMu' = t /\ Take(t, next) /\ Goto(t, "wait")
    /\ UNCHANGED <<disk, mem, call, wr, queueMu, proc, hist, bound>>

\* snapshot.tmp is written, synced and renamed.
CkRename(t) ==
    /\ pc[t] = "ck_snapshot"
    /\ snap' = [seq |-> ticket[t], kv |-> kv] /\ Goto(t, "ck_rotate")
    /\ UNCHANGED <<wals, mem, call, ticket, wr, locks, proc, hist, bound>>

\* The WAL is closed and create_new_wal opens the next one, with O_TRUNC.
CkRotate(t) ==
    /\ pc[t] = "ck_rotate" /\ WalFree /\ seg < MaxSeg
    /\ wals' = Put(seg + 1, Created(ticket[t] + 1)) /\ wfd' = 0 /\ Goto(t, "ck_header")
    /\ UNCHANGED <<snap, kv, next, durable, queue, seg, closed, stop, call, ticket, wr, locks,
                   proc, hist, bound>>

\* create_new_wal writes and syncs the header and takes the file as the active one.
CkHeader(t) ==
    /\ pc[t] = "ck_header"
    /\ wals' = Put(seg + 1, [wals[seg + 1] EXCEPT !.hdr = TRUE])
    /\ wfd' = seg + 1 /\ seg' = seg + 1 /\ Goto(t, "ck_remove")
    /\ UNCHANGED <<snap, kv, next, durable, queue, closed, stop, call, ticket, wr, locks, proc,
                   hist, bound>>

\* The other segments are removed one by one; then both mutexes are released.
CkRemove(t) ==
    /\ pc[t] = "ck_remove"
    /\ \/ \E s \in DOMAIN wals \ {wfd} :
             /\ wals' = [u \in DOMAIN wals \ {s} |-> wals[u]]
             /\ UNCHANGED <<pc, call, submitMu>>
       \/ /\ DOMAIN wals = {wfd} /\ UNCHANGED wals
          /\ Return(t) /\ submitMu' = NoOne
    /\ UNCHANGED <<snap, mem, ticket, wr, queueMu, proc, hist, bound>>

\* checkpoint_impl throws: the mutexes are released, what was done stays done.
CkFails(t) ==
    /\ faults < MaxFault /\ faults' = faults + 1
    /\ \/ pc[t] \in {"ck_snapshot", "ck_remove"} /\ UNCHANGED <<wals, wfd>>
       \/ pc[t] = "ck_rotate" /\ WalFree /\ wfd' \in {wfd, 0} /\ UNCHANGED wals
       \/ /\ pc[t] = "ck_header" /\ UNCHANGED wfd
          /\ \E h \in BOOLEAN : wals' = Put(seg + 1, [wals[seg + 1] EXCEPT !.hdr = h])
    /\ Return(t) /\ submitMu' = NoOne
    /\ UNCHANGED <<snap, kv, next, durable, queue, seg, closed, stop, ticket, wr, queueMu, proc,
                   hist, calls>>

\* close_impl after its sync: stop under queue_mu, and notify_one
CloseStop(t) ==
    /\ pc[t] = "cl_stop" /\ queueMu = NoOne
    /\ stop' = TRUE /\ WakeWriter /\ Goto(t, "cl_join")
    /\ UNCHANGED <<disk, kv, next, durable, queue, wfd, seg, closed, call, ticket, local, locks,
                   proc, hist, bound>>

\* join, the WAL is closed under wal_mu, and `closed' comes last.
CloseJoin(t) ==
    /\ pc[t] = "cl_join" /\ wpc = "done" /\ WalFree
    /\ wfd' = 0 /\ closed' = TRUE /\ Return(t)
    /\ UNCHANGED <<disk, kv, next, durable, queue, seg, stop, ticket, wr, locks, proc, hist,
                   bound>>

Caller(t) == \/ Submit(t) \/ Push(t) \/ WaitReturn(t) \/ WaitBlocks(t) \/ WaitSleeps(t)
             \/ CkLock(t) \/ CkRename(t) \/ CkRotate(t) \/ CkHeader(t) \/ CkRemove(t)
             \/ CloseStop(t) \/ CloseJoin(t)

-----------------------------------------------------------------------------
(* writer_loop, and the end of the process                                 *)

BatchLen == IF Len(queue) <= WalBatch THEN Len(queue) ELSE WalBatch

\* Mutant: `stop' alone ends the loop.
WriterStopsAtOnce ==
    /\ up = "up" /\ wpc = "take" /\ queueMu = NoOne
    /\ IF queue = <<>> \/ stop
       THEN wpc' = (IF stop THEN "done" ELSE "asleep") /\ UNCHANGED <<queue, local>>
       ELSE /\ wpc' = "io" /\ local' = SubSeq(queue, 1, BatchLen)
            /\ queue' = SubSeq(queue, BatchLen + 1, Len(queue))
    /\ UNCHANGED <<disk, kv, next, durable, wfd, seg, closed, stop, thr, locks, proc, hist, bound>>

\* Under queue_mu: sleep, leave the loop, or take a batch.
WriterTake ==
    /\ up = "up" /\ wpc = "take" /\ queueMu = NoOne
    /\ IF queue = <<>>
       THEN wpc' = (IF stop THEN "done" ELSE "asleep") /\ UNCHANGED <<queue, local>>
       ELSE /\ wpc' = "io" /\ local' = SubSeq(queue, 1, BatchLen)
            /\ queue' = SubSeq(queue, BatchLen + 1, Len(queue))
    /\ UNCHANGED <<disk, kv, next, durable, wfd, seg, closed, stop, thr, locks, proc, hist, bound>>

\* pwrite_all and fdatasync under wal_mu
WriterIO ==
    /\ wpc = "io" /\ WalFree /\ wfd # 0
    /\ wals' = Put(wfd, [wals[wfd] EXCEPT !.recs = @ \o local]) /\ wpc' = "publish"
    /\ UNCHANGED <<snap, mem, thr, local, locks, proc, hist, bound>>

\* Mutant: durable_seq takes next_seq.
WriterPublishNext ==
    /\ wpc = "publish"
    /\ durable' = next /\ local' = <<>> /\ wpc' = "notify"
    /\ UNCHANGED <<disk, kv, next, queue, wfd, seg, closed, stop, thr, locks, proc, hist, bound>>

\* durable_seq.store, without queue_mu
WriterPublish ==
    /\ wpc = "publish"
    /\ durable' = Last(local).seq /\ local' = <<>> /\ wpc' = "notify"
    /\ UNCHANGED <<disk, kv, next, queue, wfd, seg, closed, stop, thr, locks, proc, hist, bound>>

\* durable_cv.notify_all
WriterNotify ==
    /\ wpc = "notify" /\ wpc' = "take"
    /\ pc' = [t \in Threads |-> IF pc[t] = "asleep" THEN "wait" ELSE pc[t]]
    /\ UNCHANGED <<disk, mem, call, ticket, local, locks, proc, hist, bound>>

Writer == WriterTake \/ WriterIO \/ WriterPublish \/ WriterNotify

\* Memory and threads are gone.
Gone ==
    /\ kv' = <<>> /\ next' = 0 /\ durable' = 0 /\ queue' = <<>>
    /\ wfd' = 0 /\ seg' = 0 /\ closed' = FALSE /\ stop' = FALSE
    /\ pc' = ForAll("idle") /\ call' = ForAll("none") /\ ticket' = ForAll(0)
    /\ wpc' = "take" /\ local' = <<>>
    /\ submitMu' = NoOne /\ queueMu' = NoOne /\ up' = "down" /\ late' = {}
    /\ UNCHANGED <<snap, fail, ids, acked, calls>>

\* A crash, or pwrite_all throwing out of the thread (std::terminate), or std::abort after
\* fdatasync: a batch that was being written may be there in part.
Crash ==
    /\ up # "down" /\ faults < MaxFault /\ faults' = faults + 1
    /\ \/ UNCHANGED wals
       \/ /\ wpc = "io" /\ WalFree /\ wfd # 0
          /\ \E n \in 0..(Len(local) - 1), torn \in BOOLEAN :
                wals' = Put(wfd, [wals[wfd] EXCEPT !.recs = @ \o SubSeq(local, 1, n),
                                                   !.torn = torn])
    /\ Gone

\* A failed checkpoint left wal_fd = -1: the next batch ends the process.
WriterAborts == wpc = "io" /\ WalFree /\ wfd = 0 /\ Gone /\ UNCHANGED <<wals, faults>>

\* ~Database after close()
Destroy ==
    /\ up = "up" /\ closed /\ \A t \in Threads : pc[t] = "idle"
    /\ Gone /\ UNCHANGED <<wals, faults>>

Next == \/ Open \/ OpenCreates \/ Writer \/ WriterAborts \/ Crash \/ Destroy
        \/ \E t \in Threads : Caller(t) \/ CkFails(t) \/ \E c \in Calls : Begin(t, c)

Spec == Init /\ [][Next]_vars
\* The scheduler runs every thread that can run; nobody has to call, crash or open.
FairSpec == Spec /\ WF_vars(Writer \/ WriterAborts) /\ \A t \in Threads : WF_vars(Caller(t))

-----------------------------------------------------------------------------
DiskType ==
    snap \in Snap /\ DOMAIN wals \subseteq Segs /\ \A s \in DOMAIN wals : wals[s] \in WalFile
MemoryType ==
    /\ kv \in Seq(Ops) /\ next \in 0..MaxOps /\ durable \in 0..MaxOps /\ queue \in Seq(Rec)
    /\ wfd \in 0..MaxSeg /\ seg \in 0..MaxSeg /\ closed \in BOOLEAN /\ stop \in BOOLEAN
ThreadType ==
    /\ pc \in [Threads -> {"idle", "submit", "push", "wait", "to_sleep", "asleep", "ck_lock",
                           "ck_snapshot", "ck_rotate", "ck_header", "ck_remove", "cl_stop",
                           "cl_join"}]
    /\ call \in [Threads -> Calls \cup {"none"}] /\ ticket \in [Threads -> 0..MaxOps]
    /\ wpc \in {"take", "asleep", "io", "publish", "notify", "done"} /\ local \in Seq(Rec)
    /\ submitMu \in Threads \cup {NoOne} /\ queueMu \in Threads \cup {NoOne}
HistoryType ==
    /\ up \in {"down", "create", "up"} /\ fail \in {"none", "header", "sequence", "torn"}
    /\ ids \in 0..MaxOps /\ acked \in Seq(Ops) /\ late \subseteq Ops
    /\ calls \in [Threads -> 0..MaxCalls] /\ faults \in 0..MaxFault
TypeOK == DiskType /\ MemoryType /\ ThreadType /\ HistoryType

\* "wait(t) returns only after every sequence <= t.sequence is durable" (database.hpp):
\* whatever the threads do, and in every later process, reading the directory now gives
\* all operations that wait(), sync(), checkpoint() or close() returned for; and of a
\* running database none that its map has not, and none out of order: a crash now loses a
\* suffix of what was not acknowledged and nothing else.
AckedRecoverable ==
    Replayed.err = "none" =>
        IsPrefix(acked, Replayed.kv) /\ (up = "up" => IsPrefix(Replayed.kv, kv))

\* The one error that crashes and failing checkpoints can lead to is a segment without
\* header; it is the newest, and every older one can be read.
OnlyHeaderMissing ==
    Replayed.err # "none" =>
        /\ Replayed.err = "header"
        /\ \A s \in DOMAIN wals : ~wals[s].hdr => s = LastSeg /\ wals[s].recs = <<>>

\* The batch and the queue hold the operations past durable_seq, in order and once each;
\* one more may have its sequence and not be queued, its thread then holds submit_mu.
FrontierContiguous ==
    LET pending == local \o queue IN
    /\ TypeOK
    /\ \A i \in 1..Len(pending) : pending[i].seq = durable + i /\ pending[i].id = kv[durable + i]
    /\ next = durable + Len(pending) + (IF \E t \in Threads : pc[t] = "push" THEN 1 ELSE 0)

\* A thread is left behind by the end of the writer only in one race: the operation it
\* waits for, or one before it, is queued after close() had set `stop', by a submit that
\* had found `closed' false.
StrandedOnlyByClose ==
    LET raced == late \cup {ticket[u] : u \in {v \in Threads : pc[v] = "push"}} IN
    \A t \in Threads :
        wpc = "done" /\ durable < ticket[t] /\ pc[t] \in {"wait", "to_sleep", "asleep"} =>
            \E n \in raced : n <= ticket[t]

\* Every accepted operation becomes durable unless close() has begun to stop the writer
\* or the process ended: queue_cv is never missed.
EventuallyDurable == \A n \in Ops : (up = "up" /\ next >= n) ~> (durable >= n \/ stop \/ up # "up")
=============================================================================
