---------------------------- MODULE TicketedWriter ----------------------------
(***************************************************************************)
(* The threads of bdr::Database (experimental/api_v86/src/database_v1.cpp):  *)
(* callers of put, wait, sync, checkpoint and close, and the writer thread, *)
(* with the mutexes submit_mu, queue_mu and wal_mu and the condition        *)
(* variables queue_cv (waited on by the writer) and durable_cv (by callers). *)
(* DatabaseV1 has the files; here an operation is its sequence number and   *)
(* the I/O of a batch succeeds or fails.                                   *)
(*                                                                         *)
(* condition_variable::wait(lk, pred) evaluates pred holding the mutex and, *)
(* still holding it, goes to sleep: a notification sent in between by a     *)
(* thread that does not take the mutex reaches nobody.                     *)
(***************************************************************************)
EXTENDS Integers, Sequences

CONSTANTS
    Threads,    \* callers of the public API
    NoOne,      \* a mutex nobody holds
    WalBatch,   \* Options::wal_batch
    MaxSeq,     \* bound: accepted operations
    MaxCalls,   \* bound: API calls per thread
    MaxSpurious \* bound: spurious wake-ups

ASSUME ThreadAssumption ==
    /\ NoOne \notin Threads /\ "writer" \notin Threads
    /\ WalBatch \in Nat \ {0} /\ MaxSeq \in Nat /\ MaxCalls \in Nat
    /\ MaxSpurious \in Nat

VARIABLES
    pc,         \* step of each caller
    call,       \* the API call it is in
    ticket,     \* the sequence it waits for
    calls,      \* number of calls it made
    wpc, local, \* step of the writer, its batch
    queue, next, durable,        \* queue, next_seq, durable_seq
    closed, stop, werr,          \* closed, stop, writer_error
    submitMu, queueMu,           \* holders; wal_mu is held in WriterIO and in the "ck_rotate" step
    spurious                     \* number of spurious wake-ups so far

callers == <<pc, call, ticket, calls>>
state   == <<queue, next, durable, closed, stop, werr>>
locks   == <<submitMu, queueMu>>
vars    == <<callers, wpc, local, state, locks, spurious>>

Init ==
    /\ pc = [t \in Threads |-> "idle"] /\ call = [t \in Threads |-> "none"]
    /\ ticket = [t \in Threads |-> 0] /\ calls = [t \in Threads |-> 0]
    /\ wpc = "lock" /\ local = <<>>
    /\ queue = <<>> /\ next = 0 /\ durable = 0
    /\ closed = FALSE /\ stop = FALSE /\ werr = FALSE
    /\ submitMu = NoOne /\ queueMu = NoOne /\ spurious = 0

Goto(t, step) == pc' = [pc EXCEPT ![t] = step]
Return(t) == Goto(t, "idle") /\ call' = [call EXCEPT ![t] = "none"]

\* notify_all on durable_cv: whoever sleeps goes for queue_mu again.
WakeWaiters(p) == [t \in Threads |-> IF p[t] = "w_asleep" THEN "w_lock" ELSE p[t]]

-----------------------------------------------------------------------------
(* Callers                                                                 *)

\* put/erase, put_sync/erase_sync, checkpoint and close start with submit_mu.
Begin(t, c) ==
    /\ pc[t] = "idle" /\ calls[t] < MaxCalls
    /\ calls' = [calls EXCEPT ![t] = @ + 1]
    /\ call' = [call EXCEPT ![t] = c]
    /\ ticket' = [ticket EXCEPT ![t] = IF c = "sync" THEN next ELSE 0]
    /\ Goto(t, IF c = "sync" THEN "w_enter" ELSE "submit_lock")
    /\ UNCHANGED <<wpc, local, state, locks, spurious>>

\* Mutant: submit_impl does not look at `closed'.
LockSubmitUnchecked(t) ==
    /\ pc[t] = "submit_lock" /\ submitMu = NoOne
    /\ \/ /\ closed /\ call[t] \in {"checkpoint", "close"}
          /\ Return(t)
          /\ UNCHANGED <<ticket, closed, submitMu>>
       \/ /\ call[t] \in {"put", "put_sync"}
          /\ Goto(t, "enqueue") /\ submitMu' = t
          /\ UNCHANGED <<call, ticket, closed>>
       \/ /\ ~closed /\ call[t] = "checkpoint"
          /\ Goto(t, "w_enter") /\ submitMu' = t
          /\ ticket' = [ticket EXCEPT ![t] = next]
          /\ UNCHANGED <<call, closed>>
       \/ /\ ~closed /\ call[t] = "close"
          /\ Goto(t, "close_sync") /\ closed' = TRUE
          /\ UNCHANGED <<call, ticket, submitMu>>
    /\ UNCHANGED <<calls, wpc, local, queue, next, durable, stop, werr, queueMu, spurious>>

\* submit_mu, and the check of `closed'.  close() sets it and lets go of the mutex;
\* checkpoint() takes its ticket and keeps the mutex to its end.
LockSubmit(t) ==
    /\ pc[t] = "submit_lock" /\ submitMu = NoOne
    /\ \/ /\ closed
          /\ Return(t)
          /\ UNCHANGED <<ticket, closed, submitMu>>
       \/ /\ ~closed /\ call[t] \in {"put", "put_sync"}
          /\ Goto(t, "enqueue") /\ submitMu' = t
          /\ UNCHANGED <<call, ticket, closed>>
       \/ /\ ~closed /\ call[t] = "checkpoint"
          /\ Goto(t, "w_enter") /\ submitMu' = t
          /\ ticket' = [ticket EXCEPT ![t] = next]
          /\ UNCHANGED <<call, closed>>
       \/ /\ ~closed /\ call[t] = "close"
          /\ Goto(t, "close_sync") /\ closed' = TRUE
          /\ UNCHANGED <<call, ticket, submitMu>>
    /\ UNCHANGED <<calls, wpc, local, queue, next, durable, stop, werr, queueMu, spurious>>

\* Under queue_mu: rethrow writer_error, or push_back and take the sequence.
Enqueue(t) ==
    /\ pc[t] = "enqueue" /\ queueMu = NoOne
    /\ \/ /\ werr
          /\ Return(t) /\ submitMu' = NoOne
          /\ UNCHANGED <<ticket, queue, next>>
       \/ /\ ~werr /\ next < MaxSeq
          /\ queue' = Append(queue, next + 1) /\ next' = next + 1
          /\ ticket' = [ticket EXCEPT ![t] = next + 1]
          /\ Goto(t, "notify")
          /\ UNCHANGED <<call, submitMu>>
    /\ UNCHANGED <<calls, wpc, local, durable, closed, stop, werr, queueMu, spurious>>

\* Mutant: no notify_one.
NotifyNobody(t) ==
    /\ pc[t] = "notify"
    /\ submitMu' = NoOne
    /\ IF call[t] = "put_sync" THEN Goto(t, "w_enter") /\ UNCHANGED call ELSE Return(t)
    /\ UNCHANGED <<wpc, ticket, calls, local, state, queueMu, spurious>>

\* queue_cv.notify_one, without queue_mu; then submit_mu is released.
NotifyWriter(t) ==
    /\ pc[t] = "notify"
    /\ wpc' = IF wpc = "asleep" THEN "lock" ELSE wpc
    /\ submitMu' = NoOne
    /\ IF call[t] = "put_sync" THEN Goto(t, "w_enter") /\ UNCHANGED call ELSE Return(t)
    /\ UNCHANGED <<ticket, calls, local, state, queueMu, spurious>>

\* Mutant: close() waits for the operation after the last one.
CloseSyncOffByOne(t) ==
    /\ pc[t] = "close_sync"
    /\ ticket' = [ticket EXCEPT ![t] = next + 1] /\ Goto(t, "w_enter")
    /\ UNCHANGED <<call, calls, wpc, local, state, locks, spurious>>

\* close(): sync_impl reads next_seq after submit_mu was released.
CloseSync(t) ==
    /\ pc[t] = "close_sync"
    /\ ticket' = [ticket EXCEPT ![t] = next] /\ Goto(t, "w_enter")
    /\ UNCHANGED <<call, calls, wpc, local, state, locks, spurious>>

\* Mutant: checkpoint() does not look at why its wait is over.
AfterAnyWait(t) ==
    CASE call[t] = "checkpoint" -> Goto(t, "ck_snapshot") /\ UNCHANGED <<call, submitMu>>
      [] call[t] = "close" -> Goto(t, "close_stop") /\ UNCHANGED <<call, submitMu>>
      [] OTHER -> Return(t) /\ UNCHANGED submitMu

\* What a caller does when its wait is over.
AfterWait(t) ==
    CASE call[t] = "checkpoint" /\ durable >= ticket[t] ->
            /\ Goto(t, "ck_snapshot") /\ UNCHANGED <<call, submitMu>>
      [] call[t] = "checkpoint" /\ durable < ticket[t] ->
            /\ Return(t) /\ submitMu' = NoOne
      [] call[t] = "close" -> Goto(t, "close_stop") /\ UNCHANGED <<call, submitMu>>
      [] OTHER -> Return(t) /\ UNCHANGED submitMu

\* wait_impl: a null ticket is never waited for.
WaitNull(t) ==
    /\ pc[t] = "w_enter" /\ ticket[t] = 0
    /\ AfterWait(t)
    /\ UNCHANGED <<ticket, calls, wpc, local, state, queueMu, spurious>>

WaitLock(t) ==
    /\ \/ pc[t] = "w_enter" /\ ticket[t] # 0
       \/ pc[t] = "w_lock"
    /\ queueMu = NoOne /\ queueMu' = t
    /\ Goto(t, "w_pred")
    /\ UNCHANGED <<call, ticket, calls, wpc, local, state, submitMu, spurious>>

WaitPredicate(t) ==
    /\ pc[t] = "w_pred"
    /\ \/ /\ durable >= ticket[t] \/ werr
          /\ AfterWait(t) /\ queueMu' = NoOne
       \/ /\ durable < ticket[t] /\ ~werr
          /\ Goto(t, "w_sleep") /\ UNCHANGED <<call, submitMu, queueMu>>
    /\ UNCHANGED <<ticket, calls, wpc, local, state, spurious>>

\* The mutex is released and the thread sleeps, in one step.
WaitSleep(t) ==
    /\ pc[t] = "w_sleep"
    /\ Goto(t, "w_asleep") /\ queueMu' = NoOne
    /\ UNCHANGED <<call, ticket, calls, wpc, local, state, submitMu, spurious>>

SpuriousWakeup(t) ==
    /\ pc[t] = "w_asleep" /\ spurious < MaxSpurious
    /\ Goto(t, "w_lock") /\ spurious' = spurious + 1
    /\ UNCHANGED <<call, ticket, calls, wpc, local, state, locks>>

\* checkpoint(): the snapshot, then wal_mu for the rotation, then both mutexes are released.
CkSnapshot(t) ==
    /\ pc[t] = "ck_snapshot" /\ wpc # "io"
    /\ Goto(t, "ck_rotate")
    /\ UNCHANGED <<call, ticket, calls, wpc, local, state, locks, spurious>>

CkRotate(t) ==
    /\ pc[t] = "ck_rotate"
    /\ Return(t) /\ submitMu' = NoOne
    /\ UNCHANGED <<ticket, calls, wpc, local, state, queueMu, spurious>>

CloseStop(t) ==
    /\ pc[t] = "close_stop" /\ queueMu = NoOne
    /\ stop' = TRUE /\ Goto(t, "close_notify")
    /\ UNCHANGED <<call, ticket, calls, wpc, local, queue, next, durable, closed, werr, locks, spurious>>

CloseNotify(t) ==
    /\ pc[t] = "close_notify"
    /\ wpc' = IF wpc = "asleep" THEN "lock" ELSE wpc
    /\ pc' = [WakeWaiters(pc) EXCEPT ![t] = "close_join"]
    /\ UNCHANGED <<call, ticket, calls, local, state, locks, spurious>>

\* join, then the WAL and the lock file are closed.
CloseJoin(t) ==
    /\ pc[t] = "close_join" /\ wpc = "done"
    /\ Return(t)
    /\ UNCHANGED <<ticket, calls, wpc, local, state, locks, spurious>>

Caller(t) == \/ LockSubmit(t) \/ Enqueue(t) \/ NotifyWriter(t) \/ CloseSync(t)
             \/ WaitNull(t) \/ WaitLock(t) \/ WaitPredicate(t) \/ WaitSleep(t)
             \/ CkSnapshot(t) \/ CkRotate(t)
             \/ CloseStop(t) \/ CloseNotify(t) \/ CloseJoin(t)

-----------------------------------------------------------------------------
(* writer_loop                                                             *)

WriterLock ==
    /\ wpc = "lock" /\ queueMu = NoOne
    /\ queueMu' = "writer" /\ wpc' = "pred"
    /\ UNCHANGED <<callers, local, state, submitMu, spurious>>

\* The predicate of queue_cv: sleep, leave the loop, or take a batch.
WriterPredicate ==
    /\ wpc = "pred"
    /\ \/ /\ ~stop /\ queue = <<>>
          /\ wpc' = "sleep"
          /\ UNCHANGED <<local, queue, queueMu>>
       \/ /\ stop /\ queue = <<>>
          /\ wpc' = "done" /\ queueMu' = NoOne
          /\ UNCHANGED <<local, queue>>
       \/ /\ queue # <<>>
          /\ LET n == IF Len(queue) <= WalBatch THEN Len(queue) ELSE WalBatch IN
             local' = SubSeq(queue, 1, n) /\ queue' = SubSeq(queue, n + 1, Len(queue))
          /\ wpc' = "io" /\ queueMu' = NoOne
    /\ UNCHANGED <<callers, next, durable, closed, stop, werr, submitMu, spurious>>

WriterSleep ==
    /\ wpc = "sleep"
    /\ wpc' = "asleep" /\ queueMu' = NoOne
    /\ UNCHANGED <<callers, local, state, submitMu, spurious>>

WriterSpurious ==
    /\ wpc = "asleep" /\ spurious < MaxSpurious
    /\ wpc' = "lock" /\ spurious' = spurious + 1
    /\ UNCHANGED <<callers, local, state, locks>>

\* pwrite_all and fdatasync under wal_mu
WriterIO ==
    /\ wpc = "io" /\ \A t \in Threads : pc[t] # "ck_rotate"
    /\ wpc' \in {"publish", "error"}
    /\ UNCHANGED <<callers, local, state, locks, spurious>>

\* Mutant: durable_seq takes the last accepted sequence, not that of the batch.
WriterPublishNext ==
    /\ wpc = "publish"
    /\ durable' = next /\ local' = <<>>
    /\ wpc' = "notify"
    /\ UNCHANGED <<callers, queue, next, closed, stop, werr, locks, spurious>>

\* durable_seq.store: an atomic, stored without queue_mu
WriterPublish ==
    /\ wpc = "publish"
    /\ durable' = local[Len(local)] /\ local' = <<>>
    /\ wpc' = "notify"
    /\ UNCHANGED <<callers, queue, next, closed, stop, werr, locks, spurious>>

WriterNotify ==
    /\ wpc = "notify"
    /\ pc' = WakeWaiters(pc) /\ wpc' = "lock"
    /\ UNCHANGED <<call, ticket, calls, local, state, locks, spurious>>

\* The catch block: writer_error and stop under queue_mu
WriterError ==
    /\ wpc = "error" /\ queueMu = NoOne
    /\ werr' = TRUE /\ stop' = TRUE
    /\ wpc' = "error_notify"
    /\ UNCHANGED <<callers, local, queue, next, durable, closed, locks, spurious>>

\* Mutant: the catch block notifies nobody.
WriterErrorSilent ==
    /\ wpc = "error_notify"
    /\ wpc' = "done"
    /\ UNCHANGED <<callers, local, state, locks, spurious>>

WriterErrorNotify ==
    /\ wpc = "error_notify"
    /\ pc' = WakeWaiters(pc) /\ wpc' = "done"
    /\ UNCHANGED <<call, ticket, calls, local, state, locks, spurious>>

Writer == \/ WriterLock \/ WriterPredicate \/ WriterSleep \/ WriterIO \/ WriterPublish
          \/ WriterNotify \/ WriterError \/ WriterErrorNotify

-----------------------------------------------------------------------------
Calls == {"put", "put_sync", "sync", "checkpoint", "close"}

Next == \/ Writer \/ WriterSpurious
        \/ \E t \in Threads : Caller(t) \/ SpuriousWakeup(t) \/ \E c \in Calls : Begin(t, c)

\* The scheduler runs every thread that can run; nothing obliges a caller to make
\* another call, and no spurious wake-up is promised.
Fairness == WF_vars(Writer) /\ \A t \in Threads : WF_vars(Caller(t))

Spec == Init /\ [][Next]_vars
FairSpec == Spec /\ Fairness

-----------------------------------------------------------------------------
CallerType ==
    /\ pc \in [Threads -> {"idle", "submit_lock", "enqueue", "notify", "w_enter", "w_lock",
                           "w_pred", "w_sleep", "w_asleep", "ck_snapshot", "ck_rotate",
                           "close_sync", "close_stop", "close_notify", "close_join"}]
    /\ call \in [Threads -> Calls \cup {"none"}]
    /\ ticket \in [Threads -> 0..MaxSeq] /\ calls \in [Threads -> 0..MaxCalls]

QueueType ==
    /\ wpc \in {"lock", "pred", "sleep", "asleep", "io", "publish", "notify", "error",
                "error_notify", "done"}
    /\ queue \in Seq(1..MaxSeq) /\ local \in Seq(1..MaxSeq)
    /\ next \in 0..MaxSeq /\ durable \in 0..MaxSeq

FlagType == closed \in BOOLEAN /\ stop \in BOOLEAN /\ werr \in BOOLEAN

LockType ==
    /\ submitMu \in Threads \cup {NoOne} /\ queueMu \in Threads \cup {NoOne, "writer"}
    /\ spurious \in 0..MaxSpurious

TypeOK == CallerType /\ QueueType /\ FlagType /\ LockType

\* Durability frontier: the batch and the queue hold, in order and once each, exactly
\* the accepted operations that durable_seq does not cover.
FrontierExact ==
    LET pending == local \o queue IN
    /\ Len(pending) = next - durable
    /\ \A i \in 1..Len(pending) : pending[i] = durable + i

\* While a checkpoint takes its snapshot and rotates the WAL, no operation is pending
\* and the writer does no I/O, so the snapshot holds what the old WAL holds.
CheckpointQuiescent ==
    \A t \in Threads : pc[t] \in {"ck_snapshot", "ck_rotate"} =>
        /\ queue = <<>> /\ local = <<>> /\ durable = next
        /\ wpc \notin {"io", "publish", "error"}

\* The writer thread ends only with every accepted operation durable or with
\* writer_error set: close() drains the queue, and no submit slips in behind it.
DrainedExit == wpc = "done" => werr \/ (queue = <<>> /\ durable = next)

\* Once the writer has failed, nothing more becomes durable.
NoWriteAfterError == [][werr => durable' = durable]_vars

\* Every accepted operation becomes durable, or the writer fails: queue_cv is never
\* missed by the writer.
EventuallyDurable == \A n \in 1..MaxSeq : next >= n ~> (durable >= n \/ werr)

Waiting(t) == pc[t] \in {"w_lock", "w_pred", "w_sleep", "w_asleep"}

\* An I/O error of the writer reaches every thread in wait(): none stays blocked.
ErrorWakesWaiters == \A t \in Threads : werr /\ Waiting(t) ~> ~Waiting(t)

\* wait(), and with it put_sync(), sync(), checkpoint() and close(), does not stay
\* blocked once its ticket is durable.
WaitReturns == \A t \in Threads : Waiting(t) /\ durable >= ticket[t] ~> ~Waiting(t)
=============================================================================
