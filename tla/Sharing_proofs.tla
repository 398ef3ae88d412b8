----------------------------- MODULE Sharing_proofs -----------------------------
(***************************************************************************)
(* What TLAPS proves about the two places where state has several users.     *)
(*                                                                         *)
(* TicketedWriter: the threads of bdr::Database, for every set of callers    *)
(* and every batch size.  The frontier durable_seq is exact, a checkpoint    *)
(* runs with nothing pending, the writer leaves no accepted operation       *)
(* behind, and nothing becomes durable after writer_error.                  *)
(*                                                                         *)
(* SharedDirectory: a v1 engine and any number of atomic handles on one      *)
(* directory.  What a handle shows is in order and begins with a prefix of   *)
(* v1, and what was acknowledged is shown and can be recovered, each under   *)
(* the conditions on the other users that its property names.               *)
(***************************************************************************)
EXTENDS TicketedWriter, SharedDirectory, SequenceTheorems, WellFoundedInduction, TLAPS

-----------------------------------------------------------------------------
(* The threads of the ticketed writer                                      *)

\* In wait_impl
WaitSteps == {"w_enter", "w_lock", "w_pred", "w_sleep", "w_asleep"}

\* After close() set `closed'
CloseSteps == {"close_sync", "close_stop", "close_notify", "close_join"}

\* The writer holds a batch that is not yet published.
BatchSteps == {"io", "publish", "error", "error_notify"}

\* Steps made under submit_mu: those of a submit and, to its end, those of a checkpoint.
UnderSubmit(t) == \/ pc[t] \in {"enqueue", "notify", "ck_snapshot", "ck_rotate"}
                  \/ pc[t] \in WaitSteps /\ call[t] = "checkpoint"

\* The batch and the queue continue durable_seq, one number at a time, up to next_seq.
Pending ==
    /\ Len(local) + Len(queue) = next - durable
    /\ \A i \in 1..Len(local) : local[i] = durable + i
    /\ \A i \in 1..Len(queue) : queue[i] = durable + Len(local) + i

\* submit_mu is held by the thread whose step needs it.
SubmitHeld == \A t \in Threads :
    /\ UnderSubmit(t) => submitMu = t
    /\ pc[t] \in CloseSteps => call[t] = "close"

\* No submit can move next_seq while a checkpoint holds submit_mu.
CheckpointTicket == \A t \in Threads :
    /\ pc[t] \in WaitSteps /\ call[t] = "checkpoint" => ticket[t] = next
    /\ pc[t] \in {"ck_snapshot", "ck_rotate"} => durable = next

\* Behind close() nobody submits.
CloseShuts ==
    /\ \A t \in Threads :
        /\ closed => pc[t] # "enqueue"
        /\ pc[t] \in CloseSteps => closed
        /\ pc[t] \in WaitSteps /\ call[t] = "close" => closed
    /\ stop => closed \/ werr

\* The batch, the error and the end of the writer
WriterPhase ==
    /\ wpc \in BatchSteps => local # <<>>
    /\ wpc \notin BatchSteps \cup {"done"} => local = <<>>
    /\ wpc = "error_notify" => werr
    /\ werr => wpc \in {"error_notify", "done"}
    /\ wpc = "done" => werr \/ (closed /\ local = <<>> /\ queue = <<>>)

Inv == TypeOK /\ Pending /\ SubmitHeld /\ CheckpointTicket /\ CloseShuts /\ WriterPhase

-----------------------------------------------------------------------------

LEMMA InvInit == Init => Inv
  <1> SUFFICES ASSUME Init PROVE Inv
    OBVIOUS
  <1>1. TypeOK
    <2>1. CallerType  BY ThreadAssumption DEF Init, CallerType, Calls
    <2>2. QueueType /\ LockType  BY ThreadAssumption DEF Init, QueueType, LockType
    <2>3. FlagType  BY DEF Init, FlagType
    <2> QED  BY <2>1, <2>2, <2>3 DEF TypeOK
  <1>2. Pending  BY DEF Init, Pending
  <1>3. SubmitHeld /\ CheckpointTicket
    BY DEF Init, SubmitHeld, UnderSubmit, CheckpointTicket, WaitSteps, CloseSteps
  <1>4. CloseShuts  BY DEF Init, CloseShuts, WaitSteps, CloseSteps
  <1>5. WriterPhase  BY DEF Init, WriterPhase, BatchSteps
  <1> QED  BY <1>1, <1>2, <1>3, <1>4, <1>5 DEF Inv

\* Type correctness, one part of the state at a time

LEMMA CallerTypeStep ==
  ASSUME TypeOK, NEW t \in Threads, Caller(t) \/ SpuriousWakeup(t) \/ \E c \in Calls : Begin(t, c)
  PROVE  CallerType'
  <1> USE ThreadAssumption DEF TypeOK, CallerType, QueueType, Goto, Return, callers, state, locks, Calls
  <1>1. CASE LockSubmit(t)  BY ZenonT(40), <1>1 DEF LockSubmit
  <1>2. CASE Enqueue(t)
    <2>1. CASE werr  BY <1>2, <2>1 DEF Enqueue
    <2>2. CASE ~werr
      <3>1. next + 1 \in 0..MaxSeq  BY <1>2, <2>2 DEF Enqueue
      <3>2. /\ pc' = [pc EXCEPT ![t] = "notify"] /\ call' = call /\ calls' = calls
            /\ ticket' = [ticket EXCEPT ![t] = next + 1]
        BY <1>2, <2>2 DEF Enqueue
      <3> QED  BY <3>1, <3>2
    <2> QED  BY <2>1, <2>2
  <1>3. CASE NotifyWriter(t)  BY <1>3 DEF NotifyWriter
  <1>4. CASE CloseSync(t)  BY <1>4 DEF CloseSync
  <1>5. CASE WaitNull(t)  BY <1>5 DEF WaitNull, AfterWait
  <1>6. CASE WaitLock(t) \/ WaitSleep(t)  BY <1>6 DEF WaitLock, WaitSleep
  <1>7. CASE WaitPredicate(t)  BY <1>7 DEF WaitPredicate, AfterWait
  <1>8. CASE CkSnapshot(t) \/ CkRotate(t)  BY <1>8 DEF CkSnapshot, CkRotate
  <1>9. CASE CloseStop(t) \/ CloseJoin(t)  BY <1>9 DEF CloseStop, CloseJoin
  <1>10. CASE CloseNotify(t)  BY <1>10 DEF CloseNotify, WakeWaiters
  <1>11. CASE SpuriousWakeup(t)  BY <1>11 DEF SpuriousWakeup
  <1>12. CASE \E c \in Calls : Begin(t, c)  BY <1>12 DEF Begin
  <1> QED  BY <1>1, <1>2, <1>3, <1>4, <1>5, <1>6, <1>7, <1>8, <1>9, <1>10, <1>11, <1>12 DEF Caller

LEMMA CallerKeepsTypes ==
  ASSUME TypeOK, NEW t \in Threads, Caller(t) \/ SpuriousWakeup(t) \/ \E c \in Calls : Begin(t, c)
  PROVE  QueueType' /\ FlagType' /\ LockType'
  <1> USE DEF TypeOK, QueueType, FlagType, LockType, callers, state, locks
  <1>1. CASE LockSubmit(t)  BY <1>1 DEF LockSubmit
  <1>2. CASE Enqueue(t)
    <2>1. QueueType'
      <3>1. CASE werr  BY <1>2, <3>1 DEF Enqueue
      <3>2. CASE ~werr
        <4>1. next + 1 \in 1..MaxSeq  BY <1>2, <3>2, ThreadAssumption DEF Enqueue
        <4>2. Append(queue, next + 1) \in Seq(1..MaxSeq)  BY <4>1, AppendProperties
        <4>3. /\ queue' = Append(queue, next + 1) /\ next' = next + 1
              /\ UNCHANGED <<wpc, local, durable>>
          BY <1>2, <3>2 DEF Enqueue
        <4>4. next' \in 0..MaxSeq  BY <4>1, <4>3
        <4> QED  BY <4>2, <4>3, <4>4
      <3> QED  BY <3>1, <3>2
    <2>2. FlagType' /\ LockType'  BY <1>2 DEF Enqueue
    <2> QED  BY <2>1, <2>2
  <1>3. CASE NotifyWriter(t) \/ CloseSync(t)  BY <1>3 DEF NotifyWriter, CloseSync
  <1>4. CASE WaitNull(t)  BY <1>4 DEF WaitNull, AfterWait
  <1>5. CASE WaitLock(t) \/ WaitSleep(t)  BY <1>5 DEF WaitLock, WaitSleep
  <1>6. CASE WaitPredicate(t)  BY <1>6 DEF WaitPredicate, AfterWait
  <1>7. CASE CkSnapshot(t) \/ CkRotate(t)  BY <1>7 DEF CkSnapshot, CkRotate
  <1>8. CASE CloseStop(t) \/ CloseNotify(t) \/ CloseJoin(t)
    BY <1>8 DEF CloseStop, CloseNotify, CloseJoin
  <1>9. CASE SpuriousWakeup(t)  BY <1>9, ThreadAssumption DEF SpuriousWakeup
  <1>10. CASE \E c \in Calls : Begin(t, c)  BY <1>10 DEF Begin
  <1> QED  BY <1>1, <1>2, <1>3, <1>4, <1>5, <1>6, <1>7, <1>8, <1>9, <1>10 DEF Caller

\* What the writer takes: a first part of the queue, which is not empty, and the rest.
LEMMA TakeBatch ==
  ASSUME TypeOK, WriterPredicate, queue # <<>>
  PROVE  /\ local' \in Seq(1..MaxSeq) /\ queue' \in Seq(1..MaxSeq)
         /\ Len(local') \in 1..Len(queue)
         /\ Len(queue') = Len(queue) - Len(local')
         /\ \A i \in 1..Len(local') : local'[i] = queue[i]
         /\ \A i \in 1..Len(queue') : queue'[i] = queue[Len(local') + i]
  <1> DEFINE size == IF Len(queue) <= WalBatch THEN Len(queue) ELSE WalBatch
  <1>1. queue \in Seq(1..MaxSeq) /\ Len(queue) \in Nat \ {0}
    BY DEF TypeOK, QueueType
  <1>2. size \in 1..Len(queue)  BY <1>1, ThreadAssumption
  <1>3. local' = SubSeq(queue, 1, size) /\ queue' = SubSeq(queue, size + 1, Len(queue))
    BY DEF WriterPredicate
  <1> HIDE DEF size
  <1>4. \A i \in 1..Len(queue) : queue[i] \in 1..MaxSeq  BY <1>1, ElementOfSeq
  <1>5. /\ local' \in Seq(1..MaxSeq) /\ Len(local') = size
        /\ \A i \in 1..size : local'[i] = queue[i]
    BY <1>1, <1>2, <1>3, <1>4, SubSeqProperties
  <1>6. /\ queue' \in Seq(1..MaxSeq) /\ Len(queue') = Len(queue) - size
        /\ \A i \in 1..(Len(queue) - size) : queue'[i] = queue[size + i]
    BY <1>1, <1>2, <1>3, <1>4, SubSeqProperties
  <1> QED  BY <1>1, <1>2, <1>5, <1>6

LEMMA TypeWriter ==
  ASSUME TypeOK, WriterPhase, Writer \/ WriterSpurious
  PROVE  TypeOK'
  <1> USE DEF TypeOK, callers, state, locks
  <1>1. CASE WriterLock \/ WriterSleep
    BY <1>1 DEF WriterLock, WriterSleep, CallerType, QueueType, FlagType, LockType
  <1>2. CASE WriterPredicate
    <2>1. CallerType' /\ FlagType' /\ LockType'
      BY <1>2 DEF WriterPredicate, CallerType, FlagType, LockType
    <2>2. QueueType'
      <3>1. CASE queue = <<>>  BY <1>2, <3>1 DEF WriterPredicate, QueueType
      <3>2. CASE queue # <<>>  BY <1>2, <3>2, TakeBatch DEF WriterPredicate, QueueType
      <3> QED  BY <3>1, <3>2
    <2> QED  BY <2>1, <2>2
  <1>3. CASE WriterIO  BY <1>3 DEF WriterIO, CallerType, QueueType, FlagType, LockType
  <1>4. CASE WriterPublish
    <2>1. local # <<>>  BY <1>4 DEF WriterPublish, WriterPhase, BatchSteps
    <2>2. local \in Seq(1..MaxSeq) /\ Len(local) \in 1..Len(local)
      BY <2>1, EmptySeq DEF QueueType
    <2>3. local[Len(local)] \in 1..MaxSeq  BY <2>2, ElementOfSeq
    <2> QED  BY <1>4, <2>3, ThreadAssumption
             DEF WriterPublish, CallerType, QueueType, FlagType, LockType
  <1>5. CASE WriterNotify \/ WriterErrorNotify
    BY <1>5 DEF WriterNotify, WriterErrorNotify, WakeWaiters, CallerType, QueueType, FlagType, LockType
  <1>6. CASE WriterError  BY <1>6 DEF WriterError, CallerType, QueueType, FlagType, LockType
  <1>7. CASE WriterSpurious
    BY <1>7, ThreadAssumption DEF WriterSpurious, CallerType, QueueType, FlagType, LockType
  <1> QED  BY <1>1, <1>2, <1>3, <1>4, <1>5, <1>6, <1>7 DEF Writer

LEMMA TypeStep ==
  ASSUME TypeOK, WriterPhase, Next
  PROVE  TypeOK'
  BY CallerTypeStep, CallerKeepsTypes, TypeWriter DEF Next, TypeOK

-----------------------------------------------------------------------------
(* The frontier                                                            *)

LEMMA PendingStep ==
  ASSUME Inv, Next
  PROVE  Pending'
  <1> USE DEF Inv, callers, state, locks
  <1>1. ASSUME NEW t \in Threads, Enqueue(t) PROVE Pending'
    <2>1. CASE werr  BY <1>1, <2>1 DEF Enqueue, Pending
    <2>2. CASE ~werr
      <3>1. /\ queue' = Append(queue, next + 1) /\ next' = next + 1
            /\ local' = local /\ durable' = durable /\ next < MaxSeq
        BY <1>1, <2>2 DEF Enqueue
      <3>2. /\ queue \in Seq(1..MaxSeq) /\ local \in Seq(1..MaxSeq)
            /\ next \in Nat /\ durable \in Nat /\ next + 1 \in 1..MaxSeq
        BY <3>1, ThreadAssumption DEF TypeOK, QueueType
      <3>3. /\ Len(queue') = Len(queue) + 1
            /\ \A i \in 1..Len(queue) : queue'[i] = queue[i]
            /\ queue'[Len(queue) + 1] = next + 1
        BY <3>1, <3>2, AppendProperties
      <3>4. Len(queue) \in Nat /\ Len(local) \in Nat  BY <3>2, LenProperties
      <3>5. next' = next + 1 /\ local' = local /\ durable' = durable  BY <3>1
      <3>a. Len(local) + Len(queue) = next - durable  BY DEF Pending
      <3>b. Len(queue') = Len(queue) + 1  BY <3>3
      <3>6. Len(local') + Len(queue') = next' - durable'
        BY <3>2, <3>4, <3>5, <3>a, <3>b
      <3>7. \A i \in 1..Len(queue') : queue'[i] = durable' + Len(local') + i
        <4> TAKE i \in 1..Len(queue')
        <4>1. CASE i \in 1..Len(queue)  BY <3>3, <3>5, <4>1 DEF Pending
        <4>2. CASE i = Len(queue) + 1
          <5>1. next + 1 = durable + Len(local) + i  BY <3>2, <3>4, <4>2 DEF Pending
          <5> QED  BY <3>3, <3>5, <4>2, <5>1
        <4> QED  BY <3>3, <3>4, <4>1, <4>2
      <3>8. \A i \in 1..Len(local') : local'[i] = durable' + i  BY <3>5 DEF Pending
      <3> QED  BY <3>6, <3>7, <3>8 DEF Pending
    <2> QED  BY <2>1, <2>2
  <1>2. ASSUME NEW t \in Threads, Caller(t), ~Enqueue(t) PROVE Pending'
    <2>1. UNCHANGED <<local, queue, next, durable>>
      BY <1>2 DEF Caller, LockSubmit, NotifyWriter, CloseSync, WaitNull, WaitLock, WaitPredicate,
         WaitSleep, CkSnapshot, CkRotate, CloseStop, CloseNotify, CloseJoin
    <2> QED  BY <2>1 DEF Pending
  <1>3. CASE WriterPredicate
    <2>1. CASE queue = <<>>  BY <1>3, <2>1 DEF WriterPredicate, Pending
    <2>2. CASE queue # <<>>
      <3>1. local = <<>> /\ Len(local) = 0
        BY <1>3, EmptySeq DEF WriterPredicate, WriterPhase, BatchSteps
      <3>2. UNCHANGED <<next, durable>>  BY <1>3 DEF WriterPredicate
      <3>3. next \in Nat /\ durable \in Nat /\ Len(queue) \in Nat
        BY ThreadAssumption, LenProperties DEF TypeOK, QueueType
      <3>4. /\ Len(local') \in 1..Len(queue)
            /\ Len(queue') = Len(queue) - Len(local')
            /\ \A i \in 1..Len(local') : local'[i] = queue[i]
            /\ \A i \in 1..Len(queue') : queue'[i] = queue[Len(local') + i]
        BY <1>3, <2>2, TakeBatch
      <3>5. \A i \in 1..Len(queue) : queue[i] = durable + i  BY <3>1, <3>3 DEF Pending
      <3>6. Len(local') + Len(queue') = next' - durable'  BY <3>1, <3>2, <3>3, <3>4 DEF Pending
      <3>7. \A i \in 1..Len(local') : local'[i] = durable' + i
        BY <3>2, <3>3, <3>4, <3>5
      <3>8. \A i \in 1..Len(queue') : queue'[i] = durable' + Len(local') + i
        <4> TAKE i \in 1..Len(queue')
        <4>1. Len(local') + i \in 1..Len(queue) /\ i \in Nat /\ Len(local') \in Nat
          BY <3>3, <3>4
        <4>2. queue'[i] = queue[Len(local') + i]  BY <3>4
        <4>3. queue[Len(local') + i] = durable + (Len(local') + i)  BY <3>5, <4>1
        <4> QED  BY <3>2, <3>3, <4>1, <4>2, <4>3
      <3> QED  BY <3>6, <3>7, <3>8 DEF Pending
    <2> QED  BY <2>1, <2>2
  <1>4. CASE WriterPublish
    <2>1. local # <<>>  BY <1>4 DEF WriterPublish, WriterPhase, BatchSteps
    <2>2. Len(local) \in Nat \ {0} /\ Len(queue) \in Nat /\ next \in Nat /\ durable \in Nat
      BY <2>1, ThreadAssumption, EmptySeq, LenProperties DEF TypeOK, QueueType
    <2>3. /\ durable' = durable + Len(local) /\ local' = <<>> /\ Len(local') = 0
          /\ UNCHANGED <<queue, next>>
      BY <1>4, <2>2, EmptySeq DEF WriterPublish, Pending
    <2> QED  BY <2>2, <2>3 DEF Pending
  <1>5. CASE \/ WriterLock \/ WriterSleep \/ WriterIO \/ WriterNotify \/ WriterError
             \/ WriterErrorNotify \/ WriterSpurious
    <2>1. UNCHANGED <<local, queue, next, durable>>
      BY <1>5 DEF WriterLock, WriterSleep, WriterIO, WriterNotify, WriterError, WriterErrorNotify,
         WriterSpurious
    <2> QED  BY <2>1 DEF Pending
  <1>6. ASSUME NEW t \in Threads, SpuriousWakeup(t) \/ \E c \in Calls : Begin(t, c) PROVE Pending'
    BY <1>6 DEF SpuriousWakeup, Begin, Pending
  <1> QED  BY <1>1, <1>2, <1>3, <1>4, <1>5, <1>6 DEF Next, Writer

-----------------------------------------------------------------------------
(* submit_mu, the tickets of checkpoint() and close()                      *)

\* What a step of one thread leaves of the others: at most, it wakes them.
LEMMA OtherThreads ==
  ASSUME TypeOK, NEW t \in Threads, Caller(t) \/ SpuriousWakeup(t) \/ \E c \in Calls : Begin(t, c),
         NEW u \in Threads, u # t
  PROVE  /\ call'[u] = call[u] /\ ticket'[u] = ticket[u]
         /\ pc'[u] = pc[u] \/ (pc[u] = "w_asleep" /\ pc'[u] = "w_lock")
  <1> USE DEF TypeOK, CallerType, Goto, Return, callers, state, locks
  <1>1. CASE LockSubmit(t)  BY <1>1 DEF LockSubmit
  <1>2. CASE Enqueue(t)  BY <1>2 DEF Enqueue
  <1>3. CASE NotifyWriter(t) \/ CloseSync(t)  BY <1>3 DEF NotifyWriter, CloseSync
  <1>4. CASE WaitNull(t)  BY <1>4 DEF WaitNull, AfterWait
  <1>5. CASE WaitLock(t) \/ WaitSleep(t)  BY <1>5 DEF WaitLock, WaitSleep
  <1>6. CASE WaitPredicate(t)  BY <1>6 DEF WaitPredicate, AfterWait
  <1>7. CASE CkSnapshot(t) \/ CkRotate(t)  BY <1>7 DEF CkSnapshot, CkRotate
  <1>8. CASE CloseStop(t) \/ CloseJoin(t)  BY <1>8 DEF CloseStop, CloseJoin
  <1>9. CASE CloseNotify(t)  BY <1>9 DEF CloseNotify, WakeWaiters
  <1>10. CASE SpuriousWakeup(t)  BY <1>10 DEF SpuriousWakeup
  <1>11. CASE \E c \in Calls : Begin(t, c)  BY <1>11 DEF Begin
  <1> QED  BY <1>1, <1>2, <1>3, <1>4, <1>5, <1>6, <1>7, <1>8, <1>9, <1>10, <1>11 DEF Caller

\* The writer moves a caller only out of its sleep.
LEMMA WriterMovesNobody ==
  ASSUME TypeOK, Writer \/ WriterSpurious
  PROVE  /\ UNCHANGED <<call, ticket, next, closed, submitMu>>
         /\ \A u \in Threads : pc'[u] = pc[u] \/ (pc[u] = "w_asleep" /\ pc'[u] = "w_lock")
  BY DEF TypeOK, CallerType, Writer, WriterLock, WriterPredicate, WriterSleep, WriterIO, WriterPublish,
     WriterNotify, WriterError, WriterErrorNotify, WriterSpurious, WakeWaiters, callers, state, locks

LEMMA SubmitHeldStep ==
  ASSUME Inv, Next
  PROVE  SubmitHeld'
  <1> USE DEF Inv, UnderSubmit, WaitSteps, CloseSteps
  <1>1. CASE Writer \/ WriterSpurious
    BY <1>1, WriterMovesNobody DEF SubmitHeld
  <1>2. ASSUME NEW t \in Threads, Caller(t) \/ SpuriousWakeup(t) \/ \E c \in Calls : Begin(t, c)
        PROVE  SubmitHeld'
    <2> USE DEF TypeOK, CallerType, LockType, Goto, Return, callers, state, locks
    \* The thread that moves has submit_mu where it needs it, ...
    <2>1. /\ UnderSubmit(t)' => submitMu' = t
          /\ pc'[t] \in CloseSteps => call'[t] = "close"
      <3>1. CASE LockSubmit(t)  BY <1>2, <3>1 DEF LockSubmit, SubmitHeld
      <3>2. CASE Enqueue(t)  BY <1>2, <3>2 DEF Enqueue, SubmitHeld
      <3>3. CASE NotifyWriter(t) \/ CloseSync(t)
        BY <1>2, <3>3 DEF NotifyWriter, CloseSync, SubmitHeld
      <3>4. CASE WaitNull(t)  BY <1>2, <3>4 DEF WaitNull, AfterWait, SubmitHeld
      <3>5. CASE WaitLock(t) \/ WaitSleep(t)  BY <1>2, <3>5 DEF WaitLock, WaitSleep, SubmitHeld
      <3>6. CASE WaitPredicate(t)  BY <1>2, <3>6 DEF WaitPredicate, AfterWait, SubmitHeld
      <3>7. CASE CkSnapshot(t) \/ CkRotate(t)  BY <1>2, <3>7 DEF CkSnapshot, CkRotate, SubmitHeld
      <3>8. CASE CloseStop(t) \/ CloseJoin(t)  BY <1>2, <3>8 DEF CloseStop, CloseJoin, SubmitHeld
      <3>9. CASE CloseNotify(t)  BY <1>2, <3>9 DEF CloseNotify, WakeWaiters, SubmitHeld
      <3>10. CASE SpuriousWakeup(t)  BY <1>2, <3>10 DEF SpuriousWakeup, SubmitHeld
      <3>11. CASE \E c \in Calls : Begin(t, c)  BY <1>2, <3>11 DEF Begin, SubmitHeld
      <3> QED  BY <1>2, <3>1, <3>2, <3>3, <3>4, <3>5, <3>6, <3>7, <3>8, <3>9, <3>10, <3>11 DEF Caller
    \* ... and it takes a free submit_mu, or gives back its own, or leaves it.
    <2>2. submitMu' = submitMu \/ submitMu \in {NoOne, t}
      BY <1>2 DEF Caller, LockSubmit, Enqueue, NotifyWriter, CloseSync, WaitNull, AfterWait, WaitLock,
         WaitPredicate, WaitSleep, CkSnapshot, CkRotate, CloseStop, CloseNotify, CloseJoin,
         SpuriousWakeup, Begin, SubmitHeld
    <2>3. ASSUME NEW u \in Threads, u # t
          PROVE  /\ UnderSubmit(u)' => submitMu' = u
                 /\ pc'[u] \in CloseSteps => call'[u] = "close"
      <3>1. UnderSubmit(u)' => UnderSubmit(u)  BY <1>2, <2>3, OtherThreads
      <3>2. pc'[u] \in CloseSteps => pc[u] \in CloseSteps /\ call'[u] = call[u]
        BY <1>2, <2>3, OtherThreads
      <3>3. UnderSubmit(u) => submitMu = u  BY <2>3 DEF SubmitHeld
      <3>4. u # NoOne /\ u # t  BY <2>3, ThreadAssumption
      <3> QED  BY <2>2, <2>3, <3>1, <3>2, <3>3, <3>4 DEF SubmitHeld
    <2> QED  BY <2>1, <2>3 DEF SubmitHeld
  <1> QED  BY <1>1, <1>2 DEF Next

\* A caller moves durable_seq never, and next_seq only in its own submit.
LEMMA NextMoves ==
  ASSUME TypeOK, NEW t \in Threads, Caller(t) \/ SpuriousWakeup(t) \/ \E c \in Calls : Begin(t, c)
  PROVE  durable' = durable /\ (next' = next \/ pc[t] = "enqueue")
  BY DEF Caller, LockSubmit, Enqueue, NotifyWriter, CloseSync, WaitNull, WaitLock, WaitPredicate,
     WaitSleep, CkSnapshot, CkRotate, CloseStop, CloseNotify, CloseJoin, SpuriousWakeup, Begin,
     callers, state, locks

LEMMA CheckpointTicketStep ==
  ASSUME Inv, Next
  PROVE  CheckpointTicket'
  <1> USE DEF Inv, WaitSteps
  <1>n. /\ next \in Nat /\ durable \in Nat /\ durable <= next
        /\ durable = next => Len(local) = 0
    BY ThreadAssumption, LenProperties DEF TypeOK, QueueType, Pending
  <1>1. CASE Writer \/ WriterSpurious
    <2>1. ASSUME NEW u \in Threads, pc[u] \in {"ck_snapshot", "ck_rotate"}
          PROVE  durable' = next
      <3>1. durable = next  BY <2>1 DEF CheckpointTicket
      <3>2. local = <<>>
        BY <1>n, <3>1, EmptySeq DEF TypeOK, QueueType
      <3>3. ~WriterPublish  BY <3>2 DEF WriterPublish, WriterPhase, BatchSteps
      <3> QED  BY <1>1, <3>1, <3>3 DEF Writer, WriterLock, WriterPredicate, WriterSleep, WriterIO,
               WriterNotify, WriterError, WriterErrorNotify, WriterSpurious, state
    <2> QED  BY <1>1, <2>1, WriterMovesNobody DEF CheckpointTicket
  <1>2. ASSUME NEW t \in Threads, Caller(t) \/ SpuriousWakeup(t) \/ \E c \in Calls : Begin(t, c)
        PROVE  CheckpointTicket'
    <2> USE DEF TypeOK, CallerType, Goto, Return, callers, state, locks
    <2>1. /\ pc'[t] \in WaitSteps /\ call'[t] = "checkpoint" => ticket'[t] = next'
          /\ pc'[t] \in {"ck_snapshot", "ck_rotate"} => durable' = next'
      <3> USE <1>n DEF CheckpointTicket, SubmitHeld, CloseSteps
      <3>1. CASE LockSubmit(t)  BY <1>2, <3>1 DEF LockSubmit
      <3>2. CASE Enqueue(t)  BY <1>2, <3>2 DEF Enqueue
      <3>3. CASE NotifyWriter(t) \/ CloseSync(t)  BY <1>2, <3>3 DEF NotifyWriter, CloseSync
      <3>4. CASE WaitNull(t)  BY <1>2, <3>4 DEF WaitNull, AfterWait
      <3>5. CASE WaitLock(t) \/ WaitSleep(t)  BY <1>2, <3>5 DEF WaitLock, WaitSleep
      <3>6. CASE WaitPredicate(t)  BY <1>2, <3>6 DEF WaitPredicate, AfterWait
      <3>7. CASE CkSnapshot(t) \/ CkRotate(t)  BY <1>2, <3>7 DEF CkSnapshot, CkRotate
      <3>8. CASE CloseStop(t) \/ CloseJoin(t)  BY <1>2, <3>8 DEF CloseStop, CloseJoin
      <3>9. CASE CloseNotify(t)  BY <1>2, <3>9 DEF CloseNotify, WakeWaiters
      <3>10. CASE SpuriousWakeup(t)  BY <1>2, <3>10 DEF SpuriousWakeup
      <3>11. CASE \E c \in Calls : Begin(t, c)  BY <1>2, <3>11 DEF Begin
      <3> QED  BY <1>2, <3>1, <3>2, <3>3, <3>4, <3>5, <3>6, <3>7, <3>8, <3>9, <3>10, <3>11 DEF Caller
    \* Another thread in a checkpoint holds submit_mu, so t is not submitting.
    <2>2. ASSUME NEW u \in Threads, u # t
          PROVE  /\ pc'[u] \in WaitSteps /\ call'[u] = "checkpoint" => ticket'[u] = next'
                 /\ pc'[u] \in {"ck_snapshot", "ck_rotate"} => durable' = next'
      <3>1. UnderSubmit(u) => pc[t] # "enqueue"  BY <1>2, <2>2 DEF SubmitHeld, UnderSubmit
      <3>2. UnderSubmit(u) => next' = next /\ durable' = durable  BY <1>2, <3>1, NextMoves
      <3>3. /\ call'[u] = call[u] /\ ticket'[u] = ticket[u]
            /\ pc'[u] = pc[u] \/ (pc[u] = "w_asleep" /\ pc'[u] = "w_lock")
        BY <1>2, <2>2, OtherThreads
      <3> QED  BY <3>2, <3>3 DEF CheckpointTicket, UnderSubmit
    <2> QED  BY <2>1, <2>2 DEF CheckpointTicket
  <1> QED  BY <1>1, <1>2 DEF Next

LEMMA CloseShutsStep ==
  ASSUME Inv, Next
  PROVE  CloseShuts'
  <1> USE DEF Inv, WaitSteps, CloseSteps
  <1>1. CASE Writer \/ WriterSpurious
    <2>1. stop' => closed' \/ werr'
      BY <1>1 DEF Writer, WriterLock, WriterPredicate, WriterSleep, WriterIO, WriterPublish,
         WriterNotify, WriterError, WriterErrorNotify, WriterSpurious, CloseShuts, state
    <2> QED  BY <1>1, <2>1, WriterMovesNobody DEF CloseShuts
  <1>2. ASSUME NEW t \in Threads, Caller(t) \/ SpuriousWakeup(t) \/ \E c \in Calls : Begin(t, c)
        PROVE  CloseShuts'
    <2> USE DEF TypeOK, CallerType, Goto, Return, callers, state, locks
    <2>1. /\ closed' => pc'[t] # "enqueue"
          /\ pc'[t] \in CloseSteps => closed'
          /\ pc'[t] \in WaitSteps /\ call'[t] = "close" => closed'
          /\ stop' => closed' \/ werr'
          /\ closed => closed'
      <3> USE DEF CloseShuts
      <3>1. CASE LockSubmit(t)  BY <1>2, <3>1 DEF LockSubmit
      <3>2. CASE Enqueue(t)  BY <1>2, <3>2 DEF Enqueue
      <3>3. CASE NotifyWriter(t) \/ CloseSync(t)  BY <1>2, <3>3 DEF NotifyWriter, CloseSync
      <3>4. CASE WaitNull(t)  BY <1>2, <3>4 DEF WaitNull, AfterWait
      <3>5. CASE WaitLock(t) \/ WaitSleep(t)  BY <1>2, <3>5 DEF WaitLock, WaitSleep
      <3>6. CASE WaitPredicate(t)  BY <1>2, <3>6 DEF WaitPredicate, AfterWait
      <3>7. CASE CkSnapshot(t) \/ CkRotate(t)  BY <1>2, <3>7 DEF CkSnapshot, CkRotate
      <3>8. CASE CloseStop(t) \/ CloseJoin(t)  BY <1>2, <3>8 DEF CloseStop, CloseJoin
      <3>9. CASE CloseNotify(t)  BY <1>2, <3>9 DEF CloseNotify, WakeWaiters
      <3>10. CASE SpuriousWakeup(t)  BY <1>2, <3>10 DEF SpuriousWakeup
      <3>11. CASE \E c \in Calls : Begin(t, c)  BY <1>2, <3>11 DEF Begin
      <3> QED  BY <1>2, <3>1, <3>2, <3>3, <3>4, <3>5, <3>6, <3>7, <3>8, <3>9, <3>10, <3>11 DEF Caller
    \* close() sets `closed' with submit_mu in hand: nobody is in a submit then.
    <2>2. closed' /\ ~closed => submitMu = NoOne
      BY <1>2 DEF Caller, LockSubmit, Enqueue, NotifyWriter, CloseSync, WaitNull, WaitLock,
         WaitPredicate, WaitSleep, CkSnapshot, CkRotate, CloseStop, CloseNotify, CloseJoin,
         SpuriousWakeup, Begin
    <2>3. ASSUME NEW u \in Threads, u # t
          PROVE  /\ closed' => pc'[u] # "enqueue"
                 /\ pc'[u] \in CloseSteps => closed'
                 /\ pc'[u] \in WaitSteps /\ call'[u] = "close" => closed'
      <3>1. pc[u] = "enqueue" => submitMu # NoOne
        BY <2>3, ThreadAssumption DEF SubmitHeld, UnderSubmit
      <3>2. /\ call'[u] = call[u]
            /\ pc'[u] = pc[u] \/ (pc[u] = "w_asleep" /\ pc'[u] = "w_lock")
        BY <1>2, <2>3, OtherThreads
      <3> QED  BY <2>1, <2>2, <2>3, <3>1, <3>2 DEF CloseShuts
    <2> QED  BY <2>1, <2>3 DEF CloseShuts
  <1> QED  BY <1>1, <1>2 DEF Next

-----------------------------------------------------------------------------
(* The writer                                                              *)

LEMMA WriterPhaseStep ==
  ASSUME Inv, Next
  PROVE  WriterPhase'
  <1> USE DEF Inv, BatchSteps
  <1>1. CASE Writer \/ WriterSpurious
    <2> USE DEF WriterPhase, callers, state, locks
    <2>1. CASE WriterLock \/ WriterSleep  BY <2>1 DEF WriterLock, WriterSleep
    <2>2. CASE WriterPredicate
      <3>1. CASE queue = <<>>  BY <2>2, <3>1 DEF WriterPredicate, CloseShuts
      <3>2. CASE queue # <<>>
        <4>1. local' # <<>>
          BY <2>2, <3>2, TakeBatch, EmptySeq DEF TypeOK, QueueType
        <4> QED  BY <2>2, <3>2, <4>1 DEF WriterPredicate
      <3> QED  BY <3>1, <3>2
    <2>3. CASE WriterIO  BY <2>3 DEF WriterIO
    <2>4. CASE WriterPublish  BY <2>4 DEF WriterPublish
    <2>5. CASE WriterNotify  BY <2>5 DEF WriterNotify
    <2>6. CASE WriterError  BY <2>6 DEF WriterError
    <2>7. CASE WriterErrorNotify  BY <2>7 DEF WriterErrorNotify
    <2>8. CASE WriterSpurious  BY <2>8 DEF WriterSpurious
    <2> QED  BY <1>1, <2>1, <2>2, <2>3, <2>4, <2>5, <2>6, <2>7, <2>8 DEF Writer
  <1>2. ASSUME NEW t \in Threads, Enqueue(t) PROVE WriterPhase'
    BY <1>2 DEF Enqueue, WriterPhase, CloseShuts
  <1>3. ASSUME NEW t \in Threads, ~Enqueue(t),
               Caller(t) \/ SpuriousWakeup(t) \/ \E c \in Calls : Begin(t, c)
        PROVE  WriterPhase'
    <2>1. /\ UNCHANGED <<local, queue, werr>> /\ (closed => closed')
          /\ wpc' = wpc \/ (wpc = "asleep" /\ wpc' = "lock")
      BY <1>3 DEF Caller, LockSubmit, NotifyWriter, CloseSync, WaitNull, WaitLock, WaitPredicate,
         WaitSleep, CkSnapshot, CkRotate, CloseStop, CloseNotify, CloseJoin, SpuriousWakeup, Begin,
         callers, state, locks
    <2> QED  BY <2>1 DEF WriterPhase
  <1> QED  BY <1>1, <1>2, <1>3 DEF Next

-----------------------------------------------------------------------------

\* The invariant is inductive.
THEOREM Invariance == Spec => []Inv
  <1>1. ASSUME Inv, [Next]_vars PROVE Inv'
    <2>1. CASE Next
      BY <1>1, <2>1, TypeStep, PendingStep, SubmitHeldStep, CheckpointTicketStep, CloseShutsStep,
         WriterPhaseStep DEF Inv
    <2>2. CASE UNCHANGED vars
      BY <1>1, <2>2 DEF Inv, TypeOK, CallerType, QueueType, FlagType, LockType, Pending, SubmitHeld,
         UnderSubmit, CheckpointTicket, CloseShuts, WriterPhase, vars, callers, state, locks
    <2> QED  BY <1>1, <2>1, <2>2
  <1> QED  BY <1>1, InvInit, PTL DEF Spec

\* Every state of the threads of bdr::Database has its type.
THEOREM TypeCorrect == Spec => []TypeOK
  BY Invariance, PTL DEF Inv

\* The batch and the queue hold, in order and once each, the accepted operations past
\* durable_seq, whatever the number of callers and the size of the batches.
THEOREM FrontierIsExact == Spec => []FrontierExact
  <1>1. Inv => FrontierExact
    <2> SUFFICES ASSUME Inv PROVE FrontierExact
      OBVIOUS
    <2>1. /\ local \in Seq(1..MaxSeq) /\ queue \in Seq(1..MaxSeq)
          /\ next \in Nat /\ durable \in Nat /\ Len(local) \in Nat /\ Len(queue) \in Nat
      BY ThreadAssumption, LenProperties DEF Inv, TypeOK, QueueType
    <2>2. /\ Len(local \o queue) = Len(local) + Len(queue)
          /\ \A i \in 1..Len(local) + Len(queue) : (local \o queue)[i] =
                  IF i <= Len(local) THEN local[i] ELSE queue[i - Len(local)]
      BY <2>1, ConcatProperties
    <2>3. Len(local \o queue) = next - durable  BY <2>2 DEF Inv, Pending
    <2>4. ASSUME NEW i \in 1..Len(local \o queue) PROVE (local \o queue)[i] = durable + i
      <3>1. CASE i <= Len(local)  BY <2>1, <2>2, <2>4, <3>1 DEF Inv, Pending
      <3>2. CASE i > Len(local)
        <4>1. i - Len(local) \in 1..Len(queue)  BY <2>1, <2>2, <2>4, <3>2
        <4>2. queue[i - Len(local)] = durable + Len(local) + (i - Len(local))
          BY <4>1 DEF Inv, Pending
        <4> QED  BY <2>1, <2>2, <2>4, <3>2, <4>2
      <3> QED  BY <2>1, <2>2, <2>4, <3>1, <3>2
    <2> QED  BY <2>3, <2>4 DEF FrontierExact
  <1> QED  BY <1>1, Invariance, PTL

\* While checkpoint() takes its snapshot and rotates the WAL nothing is pending and the
\* writer does no I/O.
THEOREM CheckpointIsQuiescent == Spec => []CheckpointQuiescent
  <1>1. Inv => CheckpointQuiescent
    <2> SUFFICES ASSUME Inv, NEW t \in Threads, pc[t] \in {"ck_snapshot", "ck_rotate"}
                 PROVE  /\ queue = <<>> /\ local = <<>> /\ durable = next
                        /\ wpc \notin {"io", "publish", "error"}
      BY DEF CheckpointQuiescent
    <2>1. durable = next  BY DEF Inv, CheckpointTicket
    <2>2. local \in Seq(1..MaxSeq) /\ queue \in Seq(1..MaxSeq) /\ Len(local) \in Nat
          /\ Len(queue) \in Nat /\ next \in Nat
      BY ThreadAssumption, LenProperties DEF Inv, TypeOK, QueueType
    <2>3. Len(local) = 0 /\ Len(queue) = 0  BY <2>1, <2>2 DEF Inv, Pending
    <2>4. local = <<>> /\ queue = <<>>  BY <2>2, <2>3, EmptySeq
    <2> QED  BY <2>1, <2>4 DEF Inv, WriterPhase, BatchSteps
  <1> QED  BY <1>1, Invariance, PTL

\* The writer thread ends with writer_error set or with every accepted operation durable.
THEOREM WriterDrains == Spec => []DrainedExit
  <1>1. Inv => DrainedExit
    <2> SUFFICES ASSUME Inv, wpc = "done", ~werr PROVE queue = <<>> /\ durable = next
      BY DEF DrainedExit
    <2>1. local = <<>> /\ queue = <<>>  BY DEF Inv, WriterPhase
    <2>2. next \in Nat /\ durable \in Nat  BY ThreadAssumption DEF Inv, TypeOK, QueueType
    <2>3. 0 + 0 = next - durable  BY <2>1, EmptySeq DEF Inv, Pending
    <2> QED  BY <2>1, <2>2, <2>3
  <1> QED  BY <1>1, Invariance, PTL

\* Once writer_error is set durable_seq does not move.
THEOREM ErrorFreezesFrontier == Spec => NoWriteAfterError
  <1>1. ASSUME Inv, [Next]_vars PROVE [werr => durable' = durable]_vars
    <2>1. ASSUME Next, werr PROVE durable' = durable
      <3>1. ~WriterPublish  BY <1>1, <2>1 DEF Inv, WriterPhase, WriterPublish
      <3>2. CASE Writer \/ WriterSpurious
        BY <3>1, <3>2 DEF Writer, WriterLock, WriterPredicate, WriterSleep, WriterIO, WriterNotify,
           WriterError, WriterErrorNotify, WriterSpurious, state
      <3>3. CASE \E t \in Threads : Caller(t) \/ SpuriousWakeup(t) \/ \E c \in Calls : Begin(t, c)
        BY <1>1, <3>3, NextMoves DEF Inv
      <3> QED  BY <2>1, <3>2, <3>3 DEF Next
    <2> QED  BY <1>1, <2>1
  <1> QED  BY <1>1, Invariance, PTL DEF Spec, NoWriteAfterError

-----------------------------------------------------------------------------
(* The inductive invariant                                                 *)

Increasing(s) == \A i, j \in DOMAIN s : i < j => s[i] < s[j]

\* The handle has a frame in hand, or the operations of a BDW4 log in its state.
Writing(h) == at[h] \in {"rest", "sync"}
Replayed(h) == at[h] = "repair" \/ Up(h)

\* The newest segment goes on where the snapshot ends or before; the others end there.
Files ==
    /\ Len(v1) <= MaxV1 /\ snapSeq <= Len(v1)
    /\ Newest \in DOMAIN segs /\ \A s \in DOMAIN segs : s <= Newest
    /\ segs[Newest].last = Len(v1) /\ segs[Newest].first <= snapSeq + 1
    /\ \A s \in DOMAIN segs : s # Newest => segs[s].last <= snapSeq
    /\ ck # "none" => snapSeq = Len(v1)
    /\ ck = "create" => Newest < MaxSeg

\* Every number is given once, in the order of the files.
Numbers ==
    /\ Batches \in 0..MaxBatch /\ acked \subseteq 1..n
    /\ \A k \in DOMAIN v1 : v1[k] <= n
    /\ Increasing(v1)
    /\ \A i \in DOMAIN items :
          /\ items[i].num <= n /\ items[i].seq <= items[i].num
          /\ items[i].part # "rest" => items[i].num # 0
          /\ \A k \in DOMAIN v1 : v1[k] # items[i].num
    /\ \A i, j \in DOMAIN items : i < j /\ items[i].part # "rest" /\ items[j].part # "rest"
                                  => items[i].num < items[j].num

\* A frame that is being written is newer than the state it will be applied to.
FrameOf(h) == Writing(h) =>
    /\ cur[h].part = "whole" /\ cur[h].seq = last[h] + 1 /\ cur[h].seq <= cur[h].num
    /\ cur[h].num <= n /\ \A k \in DOMAIN v1 : v1[k] # cur[h].num
    /\ \A i \in DOMAIN st[h] : st[h][i] < cur[h].num

\* Before the log is replayed a state has nothing but operations of v1.
ReadingOf(h) ==
    /\ last[h] <= n /\ \A i \in DOMAIN st[h] : st[h][i] <= n
    /\ begun[h] <= Len(v1)
    /\ at[h] \in {"closed", "replay"} => st[h] = <<>> /\ last[h] = 0
    /\ at[h] = "replay" => begun[h] = 0
    /\ ~Replayed(h) =>
          /\ last[h] <= Len(v1) /\ Increasing(st[h])
          /\ \A i \in DOMAIN st[h] : \E k \in 1..last[h] : st[h][i] = v1[k]
    /\ at[h] # "wal" => todo[h] = {}

Base == DirTypeOK /\ Files /\ Numbers /\ \A h \in Handles : FrameOf(h) /\ ReadingOf(h)

\* The state begins with the first k operations of v1.
StartsWith(s, k) == k <= Len(s) /\ \A i \in 1..k : s[i] = v1[i]

UnracedOf(h) ==
    /\ at[h] \in {"list", "wal"} =>
          snapSeq <= last[h] /\ Len(st[h]) = last[h] /\ StartsWith(st[h], last[h])
    /\ at[h] = "wal" => /\ todo[h] \subseteq DOMAIN segs
                        /\ Newest \notin todo[h] => begun[h] <= last[h]
    /\ Replayed(h) => \E k \in begun[h]..Len(v1) :
          StartsWith(st[h], k) /\ \A i \in (k + 1)..Len(st[h]) : \A l \in DOMAIN v1 : st[h][i] # v1[l]

Unraced == "raced" \notin taint => \A h \in Handles : UnracedOf(h)

\* All of v1 is older than the log.
Unforked == "forked" \notin taint =>
    /\ \A k \in DOMAIN v1 :
          /\ \A i \in DOMAIN items : items[i].part # "rest" => v1[k] < items[i].num
          /\ \A h \in Handles : Writing(h) => v1[k] < cur[h].num
    /\ \A h \in Handles : Increasing(st[h])

Complete(m, x) == \E i \in 1..m : items[i].num = x /\ items[i].part # "head"

\* The rest of a frame stands behind its head.
Paired == \A i \in DOMAIN items : items[i].part = "rest" =>
    /\ i > 1 /\ items[i - 1].part = "head"
    /\ items[i - 1].num = items[i].num /\ items[i - 1].seq = items[i].seq

UnsharedOf(h) ==
    /\ items = <<>> => last[h] <= Len(v1)
    /\ at[h] = "repair" => good[h] <= Len(items) /\ (good[h] = 0 => last[h] <= Len(v1))
    /\ at[h] = "rest" => items # <<>> /\ items[Len(items)] = [cur[h] EXCEPT !.part = "head"]
    /\ at[h] = "sync" => items # <<>> /\ \E p \in {"whole", "rest"} :
                             items[Len(items)] = [cur[h] EXCEPT !.part = p]
    /\ Increasing(st[h])
    /\ \A j \in DOMAIN st[h] : \/ \E k \in DOMAIN v1 : st[h][j] = v1[k]
                               \/ Complete(IF at[h] = "repair" THEN good[h] ELSE Len(items), st[h][j])

\* Whose frames are in the log of a sole user, and where v1 was when it began
Unshared == "shared" \notin taint =>
    /\ \A g, h \in Handles : at[g] # "closed" /\ at[h] # "closed" => g = h
    /\ Paired
    /\ items # <<>> => /\ items[1].seq <= Len(v1) + 1
                       /\ \A k \in DOMAIN v1 : k < items[1].seq => v1[k] < items[1].num
    /\ \A h \in Handles : UnsharedOf(h)

Followed == \A i \in DOMAIN items :
    items[i].part = "head" => i = Len(items) \/ items[i + 1].part = "rest"

FramedOf(h) ==
    /\ at[h] \in {"idle", "sync"} /\ items # <<>> => items[Len(items)].part # "head"
    /\ at[h] = "repair" => /\ \A i \in DOMAIN items : items[i].part # "head" => i <= good[h]
                           /\ good[h] > 0 => items[good[h]].part # "head"
    /\ Replayed(h) => \A x \in acked : \E j \in DOMAIN st[h] : st[h][j] = x

\* Nothing in the log is incomplete but its end, and nothing acknowledged is missing.
Framed == taint \cap {"shared", "failed"} = {} =>
    /\ Followed
    /\ \A x \in acked : Complete(Len(items), x)
    /\ \A h \in Handles : FramedOf(h)

LogEnd(m) == IF m = 0 THEN Len(v1) ELSE items[m].seq

Numbered == \A i \in DOMAIN items : items[i].part # "rest" => items[i].seq = LogEnd(i - 1) + 1

ConsecutiveOf(h) ==
    /\ at[h] # "closed" => begun[h] = Len(v1)
    /\ at[h] = "idle" => last[h] = LogEnd(Len(items))
    /\ at[h] = "repair" => last[h] = LogEnd(good[h])

\* The log goes on where v1 ended, and a handle where the log ends.
Consecutive == taint = {} =>
    /\ Numbered
    /\ \A h \in Handles : ConsecutiveOf(h)

DirInv == Base /\ Unraced /\ Unforked /\ Unshared /\ Framed /\ Consecutive
-----------------------------------------------------------------------------
(* Numbers, sequences, the newest segment                                  *)

\* Induction on the numbers up to a number, for a set
LEMMA Upto ==
  ASSUME NEW top \in Nat, NEW P, 0 \in P, \A i \in 1..top : i - 1 \in P => i \in P
  PROVE  0..top \subseteq P
<1> DEFINE Bad == (0..top) \ P
<1>1. SUFFICES ASSUME Bad # {} PROVE FALSE
  OBVIOUS
<1>2. PICK e \in Bad : \A f \in Bad : ~(<<f, e>> \in OpToRel(<, Nat))
  <2>1. Bad \subseteq Nat
    OBVIOUS
  <2>2. QED
    BY <1>1, <2>1, NatLessThanWellFounded, WFMin
<1>3. e \in 1..top
  OBVIOUS
<1>4. e - 1 \notin Bad
  <2>1. ASSUME e - 1 \in Bad PROVE FALSE
    <3>1. e - 1 < e /\ e - 1 \in Nat /\ e \in Nat
      BY <1>3
    <3>2. PICK f \in Nat : f = e - 1
      BY <3>1
    <3>3. f < e /\ f \in Bad
      BY <2>1, <3>1, <3>2
    <3>4. <<f, e>> \in OpToRel(<, Nat)
      BY <3>1, <3>3, Zenon DEF OpToRel
    <3>5. QED
      BY <1>2, <3>3, <3>4
  <2>2. QED
    BY <2>1
<1>5. QED
  BY <1>3, <1>4

LEMMA AppendIs ==
  ASSUME NEW T, NEW s \in Seq(T), NEW e \in T
  PROVE  /\ Append(s, e) \in Seq(T) /\ Len(Append(s, e)) = Len(s) + 1
         /\ Append(s, e)[Len(s) + 1] = e
         /\ \A i \in 1..Len(s) : Append(s, e)[i] = s[i]
  BY AppendProperties, LenProperties

LEMMA SubSeqIs ==
  ASSUME NEW T, NEW s \in Seq(T), NEW k \in 0..Len(s)
  PROVE  /\ SubSeq(s, 1, k) \in Seq(T) /\ Len(SubSeq(s, 1, k)) = k
         /\ \A i \in 1..k : SubSeq(s, 1, k)[i] = s[i]
<1>1. Len(s) \in Nat
  BY LenProperties
<1>2. k \in Nat /\ k <= Len(s)
  BY <1>1
<1>3. \A i \in 1..k : s[i] \in T
  BY <1>1, <1>2, ElementOfSeq
<1>4. QED
  BY <1>1, <1>2, <1>3, SubSeqProperties

LEMMA EmptyIs ==
  ASSUME NEW T PROVE <<>> \in Seq(T) /\ Len(<<>>) = 0 /\ DOMAIN <<>> = {}
  OBVIOUS

\* The greatest number of a set
LEMMA NewestIs ==
  ASSUME NEW S, S \subseteq Nat, NEW m \in S, \A t \in S : t <= m
  PROVE  (CHOOSE s \in S : \A t \in S : t <= s) = m
<1>1. PICK c : c = CHOOSE s \in S : \A t \in S : t <= s
  OBVIOUS
<1>2. c \in S /\ \A t \in S : t <= c
  BY <1>1
<1>3. c <= m /\ m <= c /\ c \in Nat /\ m \in Nat
  BY <1>2
<1>4. QED
  BY <1>1, <1>3

-----------------------------------------------------------------------------
(* The replay of the log                                                   *)

Ends == {"none", "gap", "torn", "garbage"}
Start(ops, seq) == [ops |-> ops, initial |-> seq, last |-> seq, frames |-> 0, dup |-> FALSE,
                    good |-> 0, head |-> 0, end |-> "none"]
Replaying == [ops : Seq(Num), initial : Nat, last : Nat, frames : Nat, dup : BOOLEAN,
              good : Nat, head : Nat, end : Ends]

\* The recursive function exists: each value follows from the one before.
LEMMA ReplayIs ==
  ASSUME NEW ops, NEW seq, NEW long, items \in Seq(Item)
  PROVE  /\ Replay(ops, seq, long)[0] = Start(ops, seq)
         /\ \A i \in 1..Len(items) :
              Replay(ops, seq, long)[i] = Piece(Replay(ops, seq, long)[i - 1], items[i], i, long)
<1> DEFINE m == Len(items)
           Step(x, i) == Piece(x, items[i], i, long)
           F(f, k) == f = [i \in 0..k |-> IF i = 0 THEN Start(ops, seq) ELSE Piece(f[i - 1], items[i], i, long)]
           P == {k \in 0..m : \E f : F(f, k)}
<1>1. m \in Nat
  BY LenProperties
<1>2. 0 \in P
  <2>1. F([i \in 0..0 |-> Start(ops, seq)], 0)
    OBVIOUS
  <2>2. 0 \in 0..m
    BY <1>1
  <2>3. \E f : F(f, 0)
    <3> HIDE DEF F
    <3>1. QED
      BY <2>1, Zenon
  <2>4. QED
    BY ONLY <2>2, <2>3
<1>3. ASSUME NEW k \in 1..m, k - 1 \in P PROVE k \in P
  <2>1. PICK f : F(f, k - 1)
    BY <1>3
  <2>2. PICK g : g = [i \in 0..k |-> IF i = k THEN Step(f[k - 1], k) ELSE f[i]]
    OBVIOUS
  <2>3. F(g, k)
    <3>1. \A i \in 0..(k - 1) : f[i] = IF i = 0 THEN Start(ops, seq) ELSE Step(f[i - 1], i)
      BY <2>1
    <3>2. \A i \in 0..k : g[i] = IF i = 0 THEN Start(ops, seq) ELSE Step(g[i - 1], i)
      <4> HIDE DEF Step
      <4>1. QED
        BY <1>1, <2>2, <3>1
    <3>3. QED
      BY <2>2, <3>2
  <2>4. QED
    BY <1>1, <2>3
<1>4. m \in P
  <2>1. 0..m \subseteq P
    BY ONLY <1>1, <1>2, <1>3, Upto
  <2>2. QED
    BY <1>1, <2>1
<1>5. PICK c : c = Replay(ops, seq, long)
  OBVIOUS
<1>6. F(c, m)
  BY <1>4, <1>5, Zenon DEF Replay, Start
<1>7. c[0] = Start(ops, seq) /\ \A i \in 1..m : c[i] = Step(c[i - 1], i)
  BY <1>1, <1>6
<1>8. QED
  BY <1>5, <1>7

\* A piece ends the replay, begins a frame, or completes one.
EndsAt(r, p) == \E e \in Ends \ {"none"} : p = [r EXCEPT !.end = e]
BeginsFrame(r, p, x) == x.part = "head" /\ r.head = 0 /\ p = [r EXCEPT !.head = x.num]
CompletesFrame(r, p, x, i) ==
    /\ IF r.head = 0 THEN x.part = "whole" ELSE x.part = "rest" /\ r.head = x.num
    /\ SequenceAccepted(r, x.seq)
    /\ p = [r EXCEPT !.ops = Append(@, x.num), !.dup = @ \/ x.seq = r.last, !.last = x.seq,
                     !.frames = @ + 1, !.good = i, !.head = 0]

LEMMA PieceIs ==
  ASSUME NEW r \in Replaying, NEW x \in Item, NEW i \in Nat, NEW long \in BOOLEAN,
         NEW p, p = Piece(r, x, i, long)
  PROVE  \/ EndsAt(r, p)
         \/ r.end = "none" /\ BeginsFrame(r, p, x)
         \/ r.end = "none" /\ CompletesFrame(r, p, x, i)
<1>1. CASE r.end # "none"
  <2>1. p = [r EXCEPT !.end = r.end] /\ r.end \in Ends
    BY <1>1 DEF Piece, Replaying
  <2>2. QED
    BY <1>1, <2>1 DEF EndsAt
<1>2. CASE r.end = "none" /\ x.part = "head" /\ r.head = 0
  BY <1>2 DEF Piece, BeginsFrame
<1>3. CASE r.end = "none" /\ IF r.head = 0 THEN x.part = "whole" ELSE x.part = "rest" /\ r.head = x.num
  <2>1. p = Frame(r, x, i)
    BY <1>3 DEF Piece
  <2>2. CASE SequenceAccepted(r, x.seq)
    <3>1. p = [r EXCEPT !.ops = Append(@, x.num), !.dup = @ \/ x.seq = r.last, !.last = x.seq,
                        !.frames = @ + 1, !.good = i, !.head = 0]
      BY <2>1, <2>2, Zenon DEF Frame
    <3>2. QED
      BY <1>3, <2>2, <3>1, Zenon DEF CompletesFrame
  <2>3. CASE ~SequenceAccepted(r, x.seq)
    <3>1. p = [r EXCEPT !.end = "gap"]
      BY <2>1, <2>3, Zenon DEF Frame
    <3>2. QED
      BY <3>1 DEF EndsAt, Ends
  <2>4. QED
    BY <2>2, <2>3
<1>4. CASE /\ r.end = "none" /\ ~(x.part = "head" /\ r.head = 0)
           /\ ~(IF r.head = 0 THEN x.part = "whole" ELSE x.part = "rest" /\ r.head = x.num)
  <2>1. p = [r EXCEPT !.end = IF long THEN "torn" ELSE "garbage"]
    BY <1>4 DEF Piece
  <2>2. QED
    BY <2>1 DEF EndsAt, Ends
<1>5. QED
  BY <1>1, <1>2, <1>3, <1>4

LEMMA PieceType ==
  ASSUME NEW r \in Replaying, NEW x \in Item, NEW i \in Nat, NEW p, x.num # 0,
         BeginsFrame(r, p, x) \/ CompletesFrame(r, p, x, i)
  PROVE  /\ p \in Replaying
         /\ BeginsFrame(r, p, x) =>
              /\ p.ops = r.ops /\ p.initial = r.initial /\ p.last = r.last /\ p.frames = r.frames
              /\ p.good = r.good /\ p.head = x.num /\ p.end = r.end
         /\ CompletesFrame(r, p, x, i) =>
              /\ p.ops = Append(r.ops, x.num) /\ p.initial = r.initial /\ p.last = x.seq
              /\ p.frames = r.frames + 1 /\ p.good = i /\ p.head = 0 /\ p.end = r.end
<1>1. x.num \in Num /\ x.num \in Nat /\ x.seq \in Nat
  BY DEF Item, Num
<1>2. Append(r.ops, x.num) \in Seq(Num)
  BY <1>1, AppendProperties DEF Replaying
<1>3. CASE BeginsFrame(r, p, x)
  <2>1. p \in Replaying
    BY <1>1, <1>3 DEF BeginsFrame, Replaying
  <2>2. ~CompletesFrame(r, p, x, i)
    BY <1>3 DEF BeginsFrame, CompletesFrame
  <2>3. QED
    BY <1>3, <2>1, <2>2 DEF BeginsFrame, Replaying
<1>4. CASE CompletesFrame(r, p, x, i)
  <2>1. ~BeginsFrame(r, p, x)
    BY <1>4 DEF BeginsFrame, CompletesFrame
  <2>2. PICK d \in BOOLEAN : d = (r.dup \/ x.seq = r.last)
    OBVIOUS
  <2>3. PICK a : a = [r EXCEPT !.ops = Append(r.ops, x.num)]
    OBVIOUS
  <2>4. PICK b : b = [a EXCEPT !.dup = d]
    OBVIOUS
  <2>5. PICK c : c = [b EXCEPT !.last = x.seq]
    OBVIOUS
  <2>6. PICK e : e = [c EXCEPT !.frames = r.frames + 1]
    OBVIOUS
  <2>7. PICK f : f = [e EXCEPT !.good = i]
    OBVIOUS
  <2>8. p = [f EXCEPT !.head = 0]
    <3>1. p = [r EXCEPT !.ops = Append(r.ops, x.num), !.dup = (r.dup \/ x.seq = r.last), !.last = x.seq,
                        !.frames = r.frames + 1, !.good = i, !.head = 0]
      BY <1>4, Zenon DEF CompletesFrame
    <3>2. p = [r EXCEPT !.ops = Append(r.ops, x.num), !.dup = d, !.last = x.seq,
                        !.frames = r.frames + 1, !.good = i, !.head = 0]
      BY <2>2, <3>1, Zenon
    <3>3. QED
      BY <2>3, <2>4, <2>5, <2>6, <2>7, <3>2, Zenon
  <2>9. a \in Replaying /\ a.ops = Append(r.ops, x.num) /\ a.initial = r.initial /\ a.end = r.end
    BY <1>2, <2>3 DEF Replaying
  <2>10. b \in Replaying /\ b.ops = a.ops /\ b.initial = a.initial /\ b.end = a.end
    BY <2>4, <2>9 DEF Replaying
  <2>11. /\ c \in Replaying /\ c.ops = a.ops /\ c.initial = a.initial /\ c.end = a.end
         /\ c.last = x.seq
    BY <1>1, <2>5, <2>10 DEF Replaying
  <2>12. r.frames + 1 \in Nat
    BY DEF Replaying
  <2>13. /\ e \in Replaying /\ e.ops = a.ops /\ e.initial = a.initial /\ e.end = a.end
         /\ e.last = x.seq /\ e.frames = r.frames + 1
    BY <2>6, <2>11, <2>12 DEF Replaying
  <2>14. /\ f \in Replaying /\ f.ops = a.ops /\ f.initial = a.initial /\ f.end = a.end
         /\ f.last = x.seq /\ f.frames = r.frames + 1 /\ f.good = i
    BY <2>7, <2>13 DEF Replaying
  <2>15. /\ p \in Replaying /\ p.ops = a.ops /\ p.initial = a.initial /\ p.end = a.end
         /\ p.last = x.seq /\ p.frames = r.frames + 1 /\ p.good = i /\ p.head = 0
    BY <2>8, <2>14 DEF Replaying
  <2>16. QED
    BY <2>1, <2>9, <2>15
<1>5. QED
  BY <1>3, <1>4
\* What a replay that began with a state keeps, and what it has added after i pieces
Kept(r, ops) == Len(ops) <= Len(r.ops) /\ \A k \in 1..Len(ops) : r.ops[k] = ops[k]
Added(r, ops) ==
    /\ \A k \in (Len(ops) + 1)..Len(r.ops) :
          /\ Complete(r.good, r.ops[k])
          /\ \E j \in 1..r.good : items[j].part # "rest" /\ items[j].num = r.ops[k]
    /\ \A k, l \in (Len(ops) + 1)..Len(r.ops) : k < l => r.ops[k] < r.ops[l]
InFrame(r, i) == r.end = "none" /\ r.head # 0 =>
    i > 0 /\ items[i].part = "head" /\ items[i].num = r.head /\ r.good < i
\* The first frame has the next sequence.
FirstFrame(r, ops, seq, i) ==
    /\ r.frames = 0 => /\ r.last = seq /\ r.ops = ops /\ r.good = 0
                       /\ r.end = "none" => i = IF r.head = 0 THEN 0 ELSE 1
    /\ r.frames > 0 =>
          /\ r.good > 0
          /\ \/ items[1].part = "whole" /\ items[1].seq = seq + 1
             \/ /\ items[1].part = "head" /\ Len(items) > 1
                /\ items[2].part = "rest" /\ items[2].seq = seq + 1
ReplayInv(r, ops, seq, i) ==
    /\ r \in Replaying /\ r.initial = seq /\ r.last <= n /\ r.good <= i
    /\ Kept(r, ops) /\ Added(r, ops) /\ InFrame(r, i) /\ FirstFrame(r, ops, seq, i)

\* What was kept and added depends only on the operations and on where the replay stands.
LEMMA SameReplay ==
  ASSUME NEW r, NEW p, NEW ops, p.ops = r.ops, p.good = r.good, Kept(r, ops), Added(r, ops)
  PROVE  Kept(p, ops) /\ Added(p, ops)
BY Zenon DEF Kept, Added

LEMMA ReplayStep ==
  ASSUME DirTypeOK, Numbers, NEW ops \in Seq(Num), NEW seq \in Nat, NEW long \in BOOLEAN,
         NEW i \in 1..Len(items), NEW r, ReplayInv(r, ops, seq, i - 1),
         NEW p, p = Piece(r, items[i], i, long)
  PROVE  ReplayInv(p, ops, seq, i)
<1>1. items \in Seq(Item) /\ Len(items) \in Nat /\ DOMAIN items = 1..Len(items) /\ n \in Nat
  BY LenProperties DEF DirTypeOK
<1>2. PICK x \in Item : x = items[i]
  BY <1>1, ElementOfSeq
<1>3. /\ r \in Replaying /\ r.initial = seq /\ r.last <= n /\ r.good <= i - 1
      /\ Kept(r, ops) /\ Added(r, ops) /\ InFrame(r, i - 1) /\ FirstFrame(r, ops, seq, i - 1)
  BY DEF ReplayInv
<1>4. /\ r.ops \in Seq(Num) /\ Len(r.ops) \in Nat /\ Len(ops) \in Nat /\ r.good \in Nat
      /\ r.frames \in Nat /\ r.head \in Nat /\ r.last \in Nat
  BY <1>3, LenProperties DEF Replaying
<1>5. x.num <= n /\ x.seq <= x.num /\ (x.part # "rest" => x.num # 0) /\ x.num \in Nat /\ x.seq \in Nat
  <2>1. x.num \in Nat /\ x.seq \in Nat
    BY DEF Item, Num
  <2>2. i \in DOMAIN items
    BY <1>1
  <2>3. QED
    BY <1>2, <2>1, <2>2 DEF Numbers
<1>6. i \in Nat /\ i > 0 /\ i \in DOMAIN items /\ i - 1 \in Nat
  BY <1>1
<1>7. CASE EndsAt(r, p)
  <2>1. PICK e \in Ends \ {"none"} : p = [r EXCEPT !.end = e]
    BY <1>7 DEF EndsAt
  <2>2. /\ p \in Replaying /\ p.initial = r.initial /\ p.last = r.last /\ p.good = r.good
        /\ p.ops = r.ops /\ p.frames = r.frames /\ p.end # "none"
    BY <1>3, <2>1 DEF Replaying
  <2>3. Kept(p, ops) /\ Added(p, ops)
    BY <1>3, <2>2, SameReplay
  <2>4. InFrame(p, i) /\ FirstFrame(p, ops, seq, i)
    BY <1>3, <2>2 DEF InFrame, FirstFrame
  <2>5. p.good <= i
    BY <1>3, <1>4, <1>6, <2>2
  <2>6. QED
    BY <1>3, <2>2, <2>3, <2>4, <2>5 DEF ReplayInv
<1>8. CASE r.end = "none" /\ BeginsFrame(r, p, x)
  <2>0. x.part = "head" /\ r.head = 0 /\ x.num # 0
    BY <1>5, <1>8 DEF BeginsFrame
  <2>1. /\ p \in Replaying /\ p.ops = r.ops /\ p.initial = r.initial /\ p.last = r.last
        /\ p.frames = r.frames /\ p.good = r.good /\ p.head = x.num /\ p.end = r.end
    BY <1>3, <1>6, <1>8, <2>0, PieceType
  <2>2. Kept(p, ops) /\ Added(p, ops)
    BY <1>3, <2>1, SameReplay, Zenon
  <2>3. p.good < i
    BY <1>3, <1>4, <1>6, <2>1
  <2>4. InFrame(p, i)
    BY <1>2, <1>6, <2>0, <2>1, <2>3 DEF InFrame
  <2>5. FirstFrame(p, ops, seq, i)
    <3>1. r.frames = 0 => i - 1 = 0
      BY <1>3, <1>8, <2>0 DEF FirstFrame
    <3>2. QED
      BY <1>3, <1>6, <2>0, <2>1, <3>1 DEF FirstFrame
  <2>6. QED
    BY <1>3, <1>4, <1>6, <2>1, <2>2, <2>3, <2>4, <2>5 DEF ReplayInv
<1>9. CASE r.end = "none" /\ CompletesFrame(r, p, x, i)
  <2>0. /\ x.num # 0
        /\ \/ r.head = 0 /\ x.part = "whole"
           \/ r.head # 0 /\ x.part = "rest" /\ r.head = x.num
    BY <1>5, <1>9 DEF CompletesFrame
  <2>1. /\ p \in Replaying /\ p.ops = Append(r.ops, x.num) /\ p.initial = r.initial /\ p.last = x.seq
        /\ p.frames = r.frames + 1 /\ p.good = i /\ p.head = 0 /\ p.end = r.end
    BY <1>3, <1>6, <1>9, <2>0, PieceType
  <2>2. x.num \in Num
    BY <1>2, <2>0 DEF Item, Num
  <2>3. /\ Len(p.ops) = Len(r.ops) + 1 /\ p.ops[Len(r.ops) + 1] = x.num
        /\ \A k \in 1..Len(r.ops) : p.ops[k] = r.ops[k]
    BY <1>4, <2>1, <2>2, AppendIs
  <2>4. Kept(p, ops)
    <3>1. Len(ops) <= Len(r.ops) /\ \A k \in 1..Len(ops) : r.ops[k] = ops[k]
      BY <1>3 DEF Kept
    <3>2. 1..Len(ops) \subseteq 1..Len(r.ops) /\ Len(ops) <= Len(p.ops)
      BY <1>4, <2>3, <3>1
    <3>3. \A k \in 1..Len(ops) : p.ops[k] = ops[k]
      BY <2>3, <3>1, <3>2
    <3>4. QED
      BY <3>2, <3>3 DEF Kept
  <2>5. PICK j \in 1..i : /\ items[j].part # "rest" /\ items[j].num = x.num /\ r.good < j
    <3>1. CASE x.part = "whole"
      BY <1>2, <1>3, <1>4, <1>6, <3>1
    <3>2. CASE x.part = "rest"
      <4>1. i - 1 > 0 /\ items[i - 1].part = "head" /\ items[i - 1].num = x.num /\ r.good < i - 1
        BY <1>3, <1>9, <2>0, <3>2 DEF InFrame
      <4>2. i - 1 \in 1..i
        BY <1>6, <4>1
      <4>3. QED
        BY <4>1, <4>2
    <3>3. QED
      BY <2>0, <3>1, <3>2
  <2>6. Added(p, ops)
    <3>1. Complete(i, x.num)
      <4>1. i \in 1..i
        BY <1>6
      <4>2. QED
        BY <1>2, <2>0, <4>1 DEF Complete
    <3>2. ASSUME NEW k \in (Len(ops) + 1)..Len(r.ops)
          PROVE  /\ Complete(i, r.ops[k])
                 /\ \E m \in 1..r.good : items[m].part # "rest" /\ items[m].num = r.ops[k]
      <4>1. 1..r.good \subseteq 1..i
        BY <1>3, <1>4, <1>6
      <4>2. QED
        BY <1>3, <4>1 DEF Added, Complete
    <3>3. ASSUME NEW k \in (Len(ops) + 1)..Len(p.ops)
          PROVE  /\ Complete(i, p.ops[k])
                 /\ \E m \in 1..i : items[m].part # "rest" /\ items[m].num = p.ops[k]
      <4>1. CASE k = Len(r.ops) + 1
        BY <2>3, <2>5, <3>1, <4>1
      <4>2. CASE k # Len(r.ops) + 1
        <5>0. k \in (Len(ops) + 1)..Len(r.ops) /\ k \in 1..Len(r.ops)
          BY ONLY <1>4, <2>3, <3>3, <4>2
        <5>1. k \in (Len(ops) + 1)..Len(r.ops) /\ p.ops[k] = r.ops[k]
          BY ONLY <2>3, <5>0
        <5>2. 1..r.good \subseteq 1..i
          BY <1>3, <1>4, <1>6
        <5>3. QED
          BY <3>2, <5>1, <5>2
      <4>3. QED
        BY <4>1, <4>2
    <3>4. ASSUME NEW k \in (Len(ops) + 1)..Len(r.ops) PROVE r.ops[k] < x.num
      <4>1. PICK m \in 1..r.good : items[m].part # "rest" /\ items[m].num = r.ops[k]
        BY <3>2
      <4>2. m < j /\ m \in DOMAIN items /\ j \in DOMAIN items
        BY <1>1, <1>3, <1>4, <1>6, <2>5
      <4>3. QED
        BY <2>5, <4>1, <4>2 DEF Numbers
    <3>5. ASSUME NEW k \in (Len(ops) + 1)..Len(p.ops), NEW l \in (Len(ops) + 1)..Len(p.ops), k < l
          PROVE  p.ops[k] < p.ops[l]
      <4>0. /\ k \in Nat /\ l \in Nat /\ k < l /\ l <= Len(r.ops) + 1
            /\ Len(ops) + 1 <= k /\ Len(ops) + 1 <= l
        BY <1>4, <2>3, <3>5
      <4>1. k \in (Len(ops) + 1)..Len(r.ops) /\ p.ops[k] = r.ops[k]
        <5>1. k \in (Len(ops) + 1)..Len(r.ops) /\ k \in 1..Len(r.ops)
          BY ONLY <1>4, <4>0
        <5>2. QED
          BY ONLY <2>3, <5>1
      <4>2. CASE l = Len(r.ops) + 1
        BY <2>3, <3>4, <4>1, <4>2
      <4>3. CASE l # Len(r.ops) + 1
        <5>0. l \in (Len(ops) + 1)..Len(r.ops) /\ l \in 1..Len(r.ops)
          BY ONLY <1>4, <4>0, <4>3
        <5>1. l \in (Len(ops) + 1)..Len(r.ops) /\ p.ops[l] = r.ops[l]
          BY <2>3, <5>0
        <5>2. QED
          BY <1>3, <4>0, <4>1, <5>1 DEF Added
      <4>4. QED
        BY <4>2, <4>3
    <3>6. QED
      BY <2>1, <3>3, <3>5 DEF Added
  <2>7. InFrame(p, i)
    BY <2>1 DEF InFrame
  <2>8. FirstFrame(p, ops, seq, i)
    <3>1. p.frames > 0 /\ p.good > 0
      BY <1>4, <1>6, <2>1
    <3>2. CASE r.frames > 0
      BY <1>3, <3>1, <3>2 DEF FirstFrame
    <3>3. CASE r.frames = 0
      <4>1. x.seq = seq + 1
        BY <1>3, <1>4, <1>9, <3>3 DEF CompletesFrame, SequenceAccepted, FirstFrame
      <4>2. CASE r.head = 0
        <5>1. i = 1
          BY <1>3, <1>6, <1>9, <3>3, <4>2 DEF FirstFrame
        <5>2. QED
          BY <1>2, <2>0, <3>1, <4>1, <4>2, <5>1 DEF FirstFrame
      <4>3. CASE r.head # 0
        <5>1. i = 2
          BY <1>3, <1>6, <1>9, <3>3, <4>3 DEF FirstFrame
        <5>2. items[1].part = "head"
          BY <1>3, <1>9, <4>3, <5>1 DEF InFrame
        <5>3. QED
          BY <1>1, <1>2, <2>0, <3>1, <4>1, <4>3, <5>1, <5>2 DEF FirstFrame
      <4>4. QED
        BY <4>2, <4>3
    <3>4. QED
      BY <1>4, <3>2, <3>3
  <2>9. p.last <= n /\ p.good <= i /\ p.initial = seq
    BY <1>1, <1>3, <1>5, <1>6, <2>1
  <2>10. QED
    BY <2>1, <2>4, <2>6, <2>7, <2>8, <2>9 DEF ReplayInv
<1>10. QED
  BY <1>2, <1>3, <1>6, <1>7, <1>8, <1>9, PieceIs
LEMMA ReplayKeeps ==
  ASSUME DirTypeOK, Numbers, NEW ops \in Seq(Num), NEW seq \in Nat, seq <= n, NEW long \in BOOLEAN
  PROVE  \A i \in 0..Len(items) : ReplayInv(Replay(ops, seq, long)[i], ops, seq, i)
<1> DEFINE R(i) == ReplayInv(Replay(ops, seq, long)[i], ops, seq, i)
           P == {i \in 0..Len(items) : R(i)}
<1>1. items \in Seq(Item) /\ Len(items) \in Nat
  BY LenProperties DEF DirTypeOK
<1>2. 0 \in P
  <2>1. PICK r : r = Start(ops, seq)
    OBVIOUS
  <2>2. Replay(ops, seq, long)[0] = r
    BY <1>1, <2>1, ReplayIs
  <2>3. /\ r \in Replaying /\ r.ops = ops /\ r.initial = seq /\ r.last = seq /\ r.frames = 0
        /\ r.good = 0 /\ r.head = 0 /\ r.end = "none"
    BY <2>1 DEF Start, Replaying, Ends
  <2>4. Len(ops) \in Nat
    BY LenProperties
  <2>5. Kept(r, ops) /\ Added(r, ops)
    BY <2>3, <2>4 DEF Kept, Added
  <2>6. InFrame(r, 0) /\ FirstFrame(r, ops, seq, 0)
    BY <2>3 DEF InFrame, FirstFrame
  <2>7. ReplayInv(r, ops, seq, 0)
    BY <2>3, <2>5, <2>6 DEF ReplayInv
  <2>8. QED
    BY <1>1, <2>2, <2>7
<1>3. ASSUME NEW i \in 1..Len(items), i - 1 \in P PROVE i \in P
  <2>1. PICK r : r = Replay(ops, seq, long)[i - 1]
    OBVIOUS
  <2>2. PICK p : p = Replay(ops, seq, long)[i]
    OBVIOUS
  <2>3. p = Piece(r, items[i], i, long)
    BY <1>1, <2>1, <2>2, ReplayIs
  <2>4. ReplayInv(r, ops, seq, i - 1)
    BY <1>3, <2>1
  <2>5. ReplayInv(p, ops, seq, i)
    BY <2>3, <2>4, ReplayStep
  <2>6. QED
    BY <1>1, <2>2, <2>5
<1>4. 0..Len(items) \subseteq P
  <2> HIDE DEF P
  <2>1. QED
    BY ONLY <1>1, <1>2, <1>3, Upto
<1>5. QED
  BY <1>4

\* What an open makes of the log
FirstSeq(seq) == \/ items[1].part = "whole" /\ items[1].seq = seq + 1
                 \/ /\ items[1].part = "head" /\ Len(items) > 1
                    /\ items[2].part = "rest" /\ items[2].seq = seq + 1

LEMMA RecoveredIs ==
  ASSUME DirTypeOK, Numbers, NEW ops \in Seq(Num), NEW seq \in Nat, seq <= n, NEW long \in BOOLEAN,
         NEW r, r = Recovered(ops, seq, long)
  PROVE  /\ r.ops \in Seq(Num) /\ r.last \in Nat /\ r.last <= n
         /\ r.good \in Nat /\ r.good <= Len(items) /\ r.end \in Ends
         /\ Kept(r, ops) /\ Added(r, ops)
         /\ r.good = 0 => r.last = seq /\ r.ops = ops
         /\ r.good > 0 => FirstSeq(seq)
<1>1. items \in Seq(Item) /\ Len(items) \in Nat
  BY LenProperties DEF DirTypeOK
<1>2. PICK q : q = Replay(ops, seq, long)[Len(items)]
  OBVIOUS
<1>3. ReplayInv(q, ops, seq, Len(items))
  <2>1. Len(items) \in 0..Len(items)
    BY <1>1
  <2>2. QED
    BY <1>2, <2>1, ReplayKeeps
<1>4. r = IF q.end = "none" /\ q.head # 0 THEN [q EXCEPT !.end = "torn"] ELSE q
  BY <1>2 DEF Recovered
<1>5. q \in Replaying
  BY <1>3 DEF ReplayInv
<1>6. r.ops = q.ops /\ r.last = q.last /\ r.good = q.good /\ r.end \in Ends
  BY <1>4, <1>5 DEF Replaying, Ends
<1>7. q.ops \in Seq(Num) /\ q.last \in Nat /\ q.good \in Nat /\ q.frames \in Nat
  BY <1>5 DEF Replaying
<1>8. Kept(r, ops) /\ Added(r, ops)
  BY <1>3, <1>6 DEF ReplayInv, Kept, Added
<1>9. q.frames = 0 \/ q.frames > 0
  BY <1>7
<1>10. /\ q.good = 0 => q.last = seq /\ q.ops = ops
       /\ q.good > 0 => FirstSeq(seq)
  <2>1. FirstFrame(q, ops, seq, Len(items))
    BY <1>3 DEF ReplayInv
  <2>2. CASE q.frames = 0
    BY <2>1, <2>2 DEF FirstFrame
  <2>3. CASE q.frames > 0
    <3>1. q.good > 0 /\ FirstSeq(seq)
      BY <2>1, <2>3 DEF FirstFrame, FirstSeq
    <3>2. QED
      BY <1>7, <3>1
  <2>4. QED
    BY <1>9, <2>2, <2>3
<1>11. q.last <= n /\ q.good <= Len(items)
  BY <1>3 DEF ReplayInv
<1>12. QED
  BY <1>6, <1>7, <1>8, <1>10, <1>11
\* In a log with nothing incomplete but its end, every frame is reached; only a sequence
\* can be refused.
ReplayWhole(r, i) ==
    /\ r.end \in {"none", "gap"}
    /\ r.end = "none" =>
          /\ r.head = 0 => r.good = i /\ (i > 0 => items[i].part # "head")
          /\ r.head # 0 => i > 0 /\ r.good = i - 1 /\ items[i].part = "head"
          /\ \A j \in 1..i : items[j].part # "head" => \E k \in 1..Len(r.ops) : r.ops[k] = items[j].num

\* ... and none is, when the log goes on where v1 ended.
ReplayAll(r) == r.end = "none" /\ r.last = LogEnd(r.good)

\* A piece that fits
LEMMA FittingPiece ==
  ASSUME NEW r, NEW x, NEW i, NEW long, NEW p, p = Piece(r, x, i, long), r.end = "none",
         IF r.head = 0 THEN x.part \in {"whole", "head"} ELSE x.part = "rest" /\ x.num = r.head
  PROVE  \/ BeginsFrame(r, p, x)
         \/ x.part # "head" /\ CompletesFrame(r, p, x, i)
         \/ x.part # "head" /\ ~SequenceAccepted(r, x.seq) /\ p = [r EXCEPT !.end = "gap"]
<1>1. CASE x.part = "head"
  BY <1>1 DEF Piece, BeginsFrame
<1>2. CASE x.part # "head"
  <2>1. IF r.head = 0 THEN x.part = "whole" ELSE x.part = "rest" /\ r.head = x.num
    BY <1>2
  <2>2. p = Frame(r, x, i)
    BY <1>2, <2>1, Zenon DEF Piece
  <2>3. CASE SequenceAccepted(r, x.seq)
    <3>1. p = [r EXCEPT !.ops = Append(@, x.num), !.dup = @ \/ x.seq = r.last, !.last = x.seq,
                        !.frames = @ + 1, !.good = i, !.head = 0]
      BY <2>2, <2>3, Zenon DEF Frame
    <3>2. QED
      BY <1>2, <2>1, <2>3, <3>1, Zenon DEF CompletesFrame
  <2>4. CASE ~SequenceAccepted(r, x.seq)
    BY <1>2, <2>2, <2>4, Zenon DEF Frame
  <2>5. QED
    BY <2>3, <2>4
<1>3. QED
  BY <1>1, <1>2

LEMMA WholeStep ==
  ASSUME DirTypeOK, Numbers, Paired, Followed,
         NEW ops \in Seq(Num), NEW seq \in Nat, NEW long \in BOOLEAN,
         NEW i \in 1..Len(items), NEW r, ReplayInv(r, ops, seq, i - 1), ReplayWhole(r, i - 1),
         NEW p, p = Piece(r, items[i], i, long)
  PROVE  /\ ReplayWhole(p, i)
         /\ Numbered /\ seq = Len(v1) /\ ReplayAll(r) => ReplayAll(p)
<1>1. items \in Seq(Item) /\ Len(items) \in Nat /\ DOMAIN items = 1..Len(items)
  BY LenProperties DEF DirTypeOK
<1>2. PICK x \in Item : x = items[i]
  BY <1>1, ElementOfSeq
<1>3. /\ r \in Replaying /\ InFrame(r, i - 1)
  BY DEF ReplayInv
<1>4. r.ops \in Seq(Num) /\ Len(r.ops) \in Nat /\ r.good \in Nat /\ r.last \in Nat /\ r.head \in Nat
  BY <1>3, LenProperties DEF Replaying
<1>5. /\ x.part # "rest" => x.num # 0
      /\ x.num \in Nat /\ x.seq \in Nat /\ x.part \in {"whole", "head", "rest"}
  <2>1. x.num \in Nat /\ x.seq \in Nat /\ x.part \in {"whole", "head", "rest"}
    BY DEF Item, Num
  <2>2. i \in DOMAIN items
    BY <1>1
  <2>3. QED
    BY <1>2, <2>1, <2>2 DEF Numbers
<1>6. i \in Nat /\ i > 0 /\ i \in DOMAIN items /\ i - 1 \in Nat /\ i - 1 < i /\ i <= Len(items)
  BY <1>1
<1>7. CASE r.end # "none"
  <2>1. p = r
    BY <1>7, Zenon DEF Piece
  <2>2. QED
    BY <1>7, <2>1 DEF ReplayWhole, ReplayAll
<1>8. CASE r.end = "none"
  <2>1. IF r.head = 0 THEN x.part \in {"whole", "head"} ELSE x.part = "rest" /\ x.num = r.head
    <3>1. CASE r.head = 0
      <4>1. i - 1 > 0 => items[i - 1].part # "head"
        BY <1>8, <3>1 DEF ReplayWhole
      <4>2. x.part = "rest" => i > 1 /\ items[i - 1].part = "head"
        BY <1>2, <1>6 DEF Paired
      <4>3. x.part # "rest"
        BY <1>6, <4>1, <4>2
      <4>4. QED
        BY <1>5, <3>1, <4>3
    <3>2. CASE r.head # 0
      <4>1. i - 1 > 0 /\ items[i - 1].part = "head" /\ items[i - 1].num = r.head
        BY <1>3, <1>8, <3>2 DEF InFrame
      <4>2. i - 1 \in DOMAIN items /\ i - 1 # Len(items) /\ (i - 1) + 1 = i
        BY <1>1, <1>6, <4>1
      <4>3. x.part = "rest"
        BY <1>2, <4>1, <4>2 DEF Followed
      <4>4. items[i - 1].num = x.num
        BY <1>2, <1>6, <4>3 DEF Paired
      <4>5. QED
        BY <3>2, <4>1, <4>3, <4>4
    <3>3. QED
      BY <3>1, <3>2
  <2>2. /\ r.head = 0 => r.good = i - 1 /\ (i - 1 > 0 => items[i - 1].part # "head")
        /\ r.head # 0 => i - 1 > 0 /\ r.good = i - 2 /\ items[i - 1].part = "head"
        /\ \A j \in 1..(i - 1) : items[j].part # "head" => \E k \in 1..Len(r.ops) : r.ops[k] = items[j].num
    BY <1>6, <1>8 DEF ReplayWhole
  <2>3. CASE BeginsFrame(r, p, x)
    <3>0. x.part = "head" /\ r.head = 0 /\ x.num # 0
      BY <1>5, <2>3 DEF BeginsFrame
    <3>1. /\ p.ops = r.ops /\ p.last = r.last /\ p.good = r.good /\ p.head = x.num /\ p.end = r.end
      BY <1>3, <1>6, <2>3, <3>0, PieceType
    <3>2. \A j \in 1..i : items[j].part # "head" => j \in 1..(i - 1)
      BY <1>2, <1>6, <3>0
    <3>3. ReplayWhole(p, i)
      <4>1. p.end = "none" /\ p.head # 0
        BY <1>8, <3>0, <3>1
      <4>2. i > 0 /\ p.good = i - 1 /\ items[i].part = "head"
        BY <1>2, <1>6, <2>2, <3>0, <3>1
      <4>3. \A j \in 1..i : items[j].part # "head" => \E k \in 1..Len(p.ops) : p.ops[k] = items[j].num
        BY ONLY <2>2, <3>1, <3>2, Zenon
      <4>4. QED
        BY ONLY <4>1, <4>2, <4>3 DEF ReplayWhole
    <3>4. ReplayAll(r) => ReplayAll(p)
      BY <3>1 DEF ReplayAll
    <3>5. QED
      BY <3>3, <3>4
  <2>4. CASE x.part # "head" /\ CompletesFrame(r, p, x, i)
    <3>0. x.num # 0
      BY <1>5, <2>1, <2>4
    <3>1. /\ p.ops = Append(r.ops, x.num) /\ p.last = x.seq /\ p.good = i /\ p.head = 0 /\ p.end = r.end
      BY <1>3, <1>6, <2>4, <3>0, PieceType
    <3>2. x.num \in Num
      BY <3>0 DEF Item, Num
    <3>3. /\ Len(p.ops) = Len(r.ops) + 1 /\ p.ops[Len(r.ops) + 1] = x.num
          /\ \A k \in 1..Len(r.ops) : p.ops[k] = r.ops[k]
      BY <1>4, <3>1, <3>2, AppendIs
    <3>4. ASSUME NEW j \in 1..i, items[j].part # "head"
          PROVE  \E k \in 1..Len(p.ops) : p.ops[k] = items[j].num
      <4>1. CASE j = i
        <5>1. Len(r.ops) + 1 \in 1..Len(p.ops)
          BY <1>4, <3>3
        <5>2. QED
          BY <1>2, <3>3, <4>1, <5>1
      <4>2. CASE j # i
        <5>1. j \in 1..(i - 1)
          BY <1>6, <4>2
        <5>2. PICK k \in 1..Len(r.ops) : r.ops[k] = items[j].num
          BY <2>2, <3>4, <5>1
        <5>3. k \in 1..Len(p.ops)
          BY ONLY <1>4, <3>3, <5>2
        <5>4. p.ops[k] = r.ops[k]
          BY ONLY <3>3, <5>2
        <5>5. QED
          BY <5>2, <5>3, <5>4
      <4>3. QED
        BY <4>1, <4>2
    <3>5. ReplayWhole(p, i)
      BY <1>2, <1>8, <2>4, <3>1, <3>4 DEF ReplayWhole
    <3>6. ReplayAll(p)
      <4>1. LogEnd(i) = x.seq
        BY <1>2, <1>6 DEF LogEnd
      <4>2. QED
        BY <1>8, <3>1, <4>1 DEF ReplayAll
    <3>7. QED
      BY <3>5, <3>6
  <2>5. CASE x.part # "head" /\ ~SequenceAccepted(r, x.seq) /\ p = [r EXCEPT !.end = "gap"]
    <3>1. p.end = "gap"
      BY <1>3, <2>5 DEF Replaying
    <3>2. ReplayWhole(p, i)
      BY <3>1 DEF ReplayWhole
    <3>3. ASSUME Numbered, ReplayAll(r) PROVE FALSE
      <4>1. x.seq # r.last + 1
        BY <2>5 DEF SequenceAccepted
      <4>2. r.last = LogEnd(r.good)
        BY <3>3 DEF ReplayAll
      <4>3. CASE r.head = 0
        <5>1. x.seq = LogEnd(i - 1) + 1
          BY <1>2, <1>6, <2>1, <3>3, <4>3 DEF Numbered
        <5>2. QED
          BY <2>2, <4>1, <4>2, <4>3, <5>1
      <4>4. CASE r.head # 0
        <5>1. x.part = "rest" /\ r.good = i - 2 /\ i - 1 > 0 /\ items[i - 1].part = "head"
          BY <2>1, <2>2, <4>4
        <5>2. items[i - 1].seq = x.seq
          BY <1>2, <1>6, <5>1 DEF Paired
        <5>3. i - 1 \in DOMAIN items /\ (i - 1) - 1 = i - 2
          BY <1>1, <1>6, <5>1
        <5>4. items[i - 1].seq = LogEnd(i - 2) + 1
          BY <3>3, <5>1, <5>3 DEF Numbered
        <5>5. QED
          BY <4>1, <4>2, <5>1, <5>2, <5>4
      <4>5. QED
        BY <4>3, <4>4
    <3>4. QED
      BY <3>2, <3>3
  <2>6. QED
    BY <1>2, <1>8, <2>1, <2>3, <2>4, <2>5, FittingPiece
<1>9. QED
  BY <1>7, <1>8

LEMMA ReplayIsWhole ==
  ASSUME DirTypeOK, Numbers, Paired, Followed,
         NEW ops \in Seq(Num), NEW seq \in Nat, seq <= n, NEW long \in BOOLEAN
  PROVE  \A i \in 0..Len(items) :
            /\ ReplayWhole(Replay(ops, seq, long)[i], i)
            /\ Numbered /\ seq = Len(v1) => ReplayAll(Replay(ops, seq, long)[i])
<1> DEFINE R(i) == /\ ReplayWhole(Replay(ops, seq, long)[i], i)
                   /\ Numbered /\ seq = Len(v1) => ReplayAll(Replay(ops, seq, long)[i])
           P == {i \in 0..Len(items) : R(i)}
<1>1. items \in Seq(Item) /\ Len(items) \in Nat
  BY LenProperties DEF DirTypeOK
<1>2. 0 \in P
  <2>1. PICK r : r = Start(ops, seq)
    OBVIOUS
  <2>2. Replay(ops, seq, long)[0] = r
    BY <1>1, <2>1, ReplayIs
  <2>3. r.last = seq /\ r.good = 0 /\ r.head = 0 /\ r.end = "none"
    BY <2>1 DEF Start
  <2>4. ReplayWhole(r, 0)
    BY <2>3 DEF ReplayWhole
  <2>5. seq = Len(v1) => ReplayAll(r)
    BY <2>3 DEF ReplayAll, LogEnd
  <2>6. QED
    BY <1>1, <2>2, <2>4, <2>5
<1>3. ASSUME NEW i \in 1..Len(items), i - 1 \in P PROVE i \in P
  <2>1. PICK r : r = Replay(ops, seq, long)[i - 1]
    OBVIOUS
  <2>2. PICK p : p = Replay(ops, seq, long)[i]
    OBVIOUS
  <2>3. p = Piece(r, items[i], i, long)
    BY <1>1, <2>1, <2>2, ReplayIs
  <2>4. ReplayInv(r, ops, seq, i - 1)
    <3>1. i - 1 \in 0..Len(items)
      BY <1>1
    <3>2. QED
      BY <2>1, <3>1, ReplayKeeps
  <2>5. ReplayWhole(r, i - 1) /\ (Numbered /\ seq = Len(v1) => ReplayAll(r))
    BY <1>3, <2>1
  <2>6. ReplayWhole(p, i) /\ (Numbered /\ seq = Len(v1) => ReplayAll(p))
    BY <2>3, <2>4, <2>5, WholeStep
  <2>7. QED
    BY <1>1, <2>2, <2>6
<1>4. 0..Len(items) \subseteq P
  <2> HIDE DEF P
  <2>1. QED
    BY ONLY <1>1, <1>2, <1>3, Upto
<1>5. QED
  BY <1>4

LEMMA RecoveredIsWhole ==
  ASSUME DirTypeOK, Numbers, Paired, Followed,
         NEW ops \in Seq(Num), NEW seq \in Nat, seq <= n, NEW long \in BOOLEAN,
         NEW r, r = Recovered(ops, seq, long)
  PROVE  /\ r.end \in {"none", "gap", "torn"}
         /\ r.end # "gap" =>
              /\ \A i \in DOMAIN items : items[i].part # "head" =>
                    i <= r.good /\ \E k \in 1..Len(r.ops) : r.ops[k] = items[i].num
              /\ r.good > 0 => items[r.good].part # "head"
              /\ r.end = "none" => r.good = Len(items)
         /\ Numbered /\ seq = Len(v1) => r.end # "gap" /\ r.last = LogEnd(r.good)
<1>1. items \in Seq(Item) /\ Len(items) \in Nat /\ DOMAIN items = 1..Len(items)
  BY LenProperties DEF DirTypeOK
<1>2. PICK q : q = Replay(ops, seq, long)[Len(items)]
  OBVIOUS
<1>3. /\ ReplayInv(q, ops, seq, Len(items)) /\ ReplayWhole(q, Len(items))
      /\ Numbered /\ seq = Len(v1) => ReplayAll(q)
  <2>1. Len(items) \in 0..Len(items)
    BY <1>1
  <2>2. QED
    BY <1>2, <2>1, ReplayKeeps, ReplayIsWhole
<1>4. r = IF q.end = "none" /\ q.head # 0 THEN [q EXCEPT !.end = "torn"] ELSE q
  BY <1>2 DEF Recovered
<1>5. q \in Replaying
  BY <1>3 DEF ReplayInv
<1>6. /\ r.ops = q.ops /\ r.last = q.last /\ r.good = q.good
      /\ r.end = IF q.end = "none" /\ q.head # 0 THEN "torn" ELSE q.end
  BY <1>4, <1>5 DEF Replaying
<1>7. q.good \in Nat
  BY <1>5 DEF Replaying
<1>8. r.end \in {"none", "gap", "torn"} /\ (r.end # "gap" => q.end = "none")
  BY <1>3, <1>6 DEF ReplayWhole
<1>9. ASSUME q.end = "none"
      PROVE  /\ \A i \in DOMAIN items : items[i].part # "head" =>
                    i <= q.good /\ \E k \in 1..Len(q.ops) : q.ops[k] = items[i].num
             /\ q.good > 0 => items[q.good].part # "head"
             /\ r.end = "none" => q.good = Len(items)
  <2>1. CASE q.head = 0
    <3>1. q.good = Len(items) /\ (Len(items) > 0 => items[Len(items)].part # "head")
      BY <1>3, <1>9, <2>1 DEF ReplayWhole
    <3>2. \A i \in DOMAIN items : items[i].part # "head" => \E k \in 1..Len(q.ops) : q.ops[k] = items[i].num
      BY <1>1, <1>3, <1>9 DEF ReplayWhole
    <3>3. \A i \in DOMAIN items : i <= q.good
      BY <1>1, <3>1
    <3>4. QED
      BY <1>7, <3>1, <3>2, <3>3
  <2>2. CASE q.head # 0
    <3>1. Len(items) > 0 /\ q.good = Len(items) - 1 /\ items[Len(items)].part = "head"
      BY <1>3, <1>9, <2>2 DEF ReplayWhole
    <3>2. \A i \in DOMAIN items : items[i].part # "head" => i <= q.good
      BY <1>1, <3>1
    <3>3. q.good > 0 => items[q.good].part # "head"
      <4>0. q.good \in Nat /\ Len(items) \in Nat /\ q.good = Len(items) - 1
        BY <1>1, <1>7, <3>1
      <4>1. q.good > 0 => q.good \in 1..Len(items) /\ q.good # Len(items) /\ q.good + 1 = Len(items)
        BY ONLY <4>0
      <4>2. QED
        BY <1>1, <3>1, <4>1 DEF Followed
    <3>4. \A i \in DOMAIN items : items[i].part # "head" => \E k \in 1..Len(q.ops) : q.ops[k] = items[i].num
      BY <1>1, <1>3, <1>9 DEF ReplayWhole
    <3>5. r.end = "torn"
      BY <1>6, <1>9, <2>2
    <3>6. QED
      BY <3>2, <3>3, <3>4, <3>5
  <2>3. QED
    BY <2>1, <2>2
<1>10. Numbered /\ seq = Len(v1) => r.end # "gap" /\ r.last = LogEnd(r.good)
  BY <1>3, <1>6 DEF ReplayAll
<1>11. QED
  BY <1>6, <1>8, <1>9, <1>10

-----------------------------------------------------------------------------
(* What each action does to the handles                                    *)

Steps == {"closed", "list", "wal", "replay", "repair", "idle", "rest", "sync"}
Taints == {"forked", "raced", "shared", "failed"}

\* A step of h leaves the other handles as they are.
Others(h) == \A g \in Handles \ {h} :
    /\ at'[g] = at[g] /\ st'[g] = st[g] /\ last'[g] = last[g] /\ todo'[g] = todo[g]
    /\ good'[g] = good[g] /\ cur'[g] = cur[g] /\ begun'[g] = begun[g]

HandleTypes ==
    /\ at \in [Handles -> Steps] /\ st \in [Handles -> Seq(Num)]
    /\ last \in [Handles -> 0..(MaxV1 + MaxBatch)] /\ todo \in [Handles -> SUBSET (1..MaxSeg)]
    /\ good \in [Handles -> Nat] /\ cur \in [Handles -> Item] /\ begun \in [Handles -> 0..MaxV1]

LEMMA HandleTypesAre == DirTypeOK => HandleTypes
  BY DEF DirTypeOK, HandleTypes, Steps

\* The constructor threw, or the handle ended.
Ended(h) ==
    /\ at'[h] = "closed" /\ st'[h] = <<>> /\ last'[h] = 0 /\ todo'[h] = {} /\ good'[h] = 0
    /\ cur'[h] = NoItem /\ begun'[h] = begun[h] /\ Others(h)

LEMMA ClosedIs ==
  ASSUME HandleTypes, NEW h \in Handles, Closed(h), begun' = begun
  PROVE  Ended(h)
<1>1. /\ at'[h] = "closed" /\ st'[h] = <<>> /\ last'[h] = 0 /\ todo'[h] = {} /\ good'[h] = 0
      /\ cur'[h] = NoItem /\ begun'[h] = begun[h]
  BY DEF HandleTypes, Closed, Go
<1>2. Others(h)
  BY DEF HandleTypes, Closed, Go, Others
<1>3. QED
  BY <1>1, <1>2 DEF Ended

LEMMA OpenIs ==
  ASSUME HandleTypes, NEW h \in Handles, NEW ops, NEW step, Begins(h, ops, step)
  PROVE  /\ at[h] = "closed" /\ at'[h] = step /\ st'[h] = ops /\ last'[h] = Len(ops)
         /\ begun'[h] = Len(v1) /\ todo'[h] = todo[h] /\ good'[h] = good[h] /\ cur'[h] = cur[h]
         /\ Others(h)
         /\ UNCHANGED <<v1, snapSeq, segs, ck, items, n, acked>>
         /\ taint \subseteq taint'
         /\ "shared" \notin taint' => \A g \in Handles \ {h} : at[g] = "closed"
<1>1. /\ at[h] = "closed" /\ at'[h] = step /\ st'[h] = ops /\ last'[h] = Len(ops)
      /\ begun'[h] = Len(v1) /\ todo'[h] = todo[h] /\ good'[h] = good[h] /\ cur'[h] = cur[h]
  BY DEF HandleTypes, Begins, Go
<1>2. Others(h)
  BY DEF HandleTypes, Begins, Go, Others
<1>3. UNCHANGED <<v1, snapSeq, segs, ck, items, n, acked>>
  BY DEF Begins, v1Vars
<1>4. /\ taint \subseteq taint'
      /\ "shared" \notin taint' => \A g \in Handles \ {h} : at[g] = "closed"
  <2>1. Taint("shared", \E g \in Handles \ {h} : at[g] # "closed")
    BY DEF Begins
  <2>2. CASE \E g \in Handles \ {h} : at[g] # "closed"
    BY <2>1, <2>2, Zenon DEF Taint
  <2>3. CASE ~\E g \in Handles \ {h} : at[g] # "closed"
    BY <2>1, <2>3, Zenon DEF Taint
  <2>4. QED
    BY <2>2, <2>3
<1>5. QED
  BY <1>1, <1>2, <1>3, <1>4

\* Nothing but handles changes.
Quiet == UNCHANGED <<v1, snapSeq, segs, ck, items, n, acked, taint, begun>>

LEMMA ListWalsIs ==
  ASSUME HandleTypes, NEW h \in Handles, ListWals(h)
  PROVE  /\ at[h] = "list" /\ at'[h] = "wal" /\ todo'[h] = DOMAIN segs
         /\ st'[h] = st[h] /\ last'[h] = last[h] /\ good'[h] = good[h] /\ cur'[h] = cur[h]
         /\ begun'[h] = begun[h] /\ Others(h) /\ Quiet
<1>1. Quiet /\ Others(h)
  BY DEF HandleTypes, ListWals, Go, Others, Quiet, v1Vars
<1>2. /\ at[h] = "list" /\ at'[h] = "wal" /\ todo'[h] = DOMAIN segs
      /\ st'[h] = st[h] /\ last'[h] = last[h] /\ good'[h] = good[h] /\ cur'[h] = cur[h]
      /\ begun'[h] = begun[h]
  BY DEF HandleTypes, ListWals, Go
<1>3. QED
  BY <1>1, <1>2

\* The number from which replay_wal reads a file, and the last number after it
From(h, f) == IF last[h] + 1 > f.first THEN last[h] + 1 ELSE f.first
Behind(h, f) == IF f.last > last[h] THEN f.last ELSE last[h]

LEMMA ReadWalIs ==
  ASSUME HandleTypes, NEW h \in Handles, ReadWal(h)
  PROVE  /\ at[h] = "wal" /\ Quiet
         /\ \/ Ended(h)
            \/ \E s \in todo[h] :
                 /\ s \in DOMAIN segs /\ todo'[h] = todo[h] \ {s}
                 /\ st'[h] = st[h] \o SubSeq(v1, From(h, segs[s]), segs[s].last)
                 /\ last'[h] = Behind(h, segs[s])
                 /\ at'[h] = at[h] /\ good'[h] = good[h] /\ cur'[h] = cur[h]
                 /\ begun'[h] = begun[h] /\ Others(h)
<1>1. at[h] = "wal" /\ Quiet
  BY DEF ReadWal, Quiet, v1Vars
<1>2. PICK s \in todo[h] :
         IF s \in DOMAIN segs /\ segs[s].hdr
         THEN /\ ReplayWal(h, segs[s])
              /\ todo' = [todo EXCEPT ![h] = @ \ {s}] /\ UNCHANGED <<at, good, cur>>
         ELSE Closed(h)
  BY DEF ReadWal
<1>3. begun' = begun
  BY <1>1 DEF Quiet
<1>4. CASE Closed(h)
  BY <1>1, <1>3, <1>4, ClosedIs
<1>5. CASE /\ s \in DOMAIN segs /\ ReplayWal(h, segs[s])
           /\ todo' = [todo EXCEPT ![h] = @ \ {s}] /\ UNCHANGED <<at, good, cur>>
  <2>1. /\ todo'[h] = todo[h] \ {s}
        /\ at'[h] = at[h] /\ good'[h] = good[h] /\ cur'[h] = cur[h] /\ begun'[h] = begun[h]
    BY <1>3, <1>5 DEF HandleTypes
  <2>2. /\ st' = [st EXCEPT ![h] = @ \o SubSeq(v1, From(h, segs[s]), segs[s].last)]
        /\ last' = [last EXCEPT ![h] = IF segs[s].last > @ THEN segs[s].last ELSE @]
    BY <1>5, Zenon DEF ReplayWal, V1Ops, From
  <2>3. /\ st'[h] = st[h] \o SubSeq(v1, From(h, segs[s]), segs[s].last)
        /\ last'[h] = Behind(h, segs[s])
    BY <2>2, Zenon DEF HandleTypes, Behind
  <2>4. Others(h)
    BY <1>3, <1>5, <2>2 DEF HandleTypes, Others
  <2>5. QED
    BY <1>1, <1>5, <2>1, <2>3, <2>4
<1>6. QED
  BY <1>2, <1>4, <1>5

LEMMA ReadBdw4Is ==
  ASSUME HandleTypes, NEW h \in Handles, ReadBdw4(h)
  PROVE  /\ at[h] \in {"replay", "wal"} /\ todo[h] = {} /\ Quiet
         /\ \/ Ended(h)
            \/ \E long \in BOOLEAN, r \in {Recovered(st[h], last[h], TRUE), Recovered(st[h], last[h], FALSE)} :
                 /\ r = Recovered(st[h], last[h], long) /\ r.end \notin {"gap", "garbage"}
                 /\ st'[h] = r.ops /\ last'[h] = r.last /\ good'[h] = r.good
                 /\ at'[h] = IF r.end = "torn" THEN "repair" ELSE "idle"
                 /\ todo'[h] = todo[h] /\ cur'[h] = cur[h] /\ begun'[h] = begun[h] /\ Others(h)
<1>1. at[h] \in {"replay", "wal"} /\ todo[h] = {} /\ Quiet
  BY DEF ReadBdw4, Quiet, v1Vars
<1>2. PICK long \in BOOLEAN :
         LET r == Recovered(st[h], last[h], long) IN
         IF r.end \in {"gap", "garbage"} THEN Closed(h)
         ELSE /\ st' = [st EXCEPT ![h] = r.ops] /\ last' = [last EXCEPT ![h] = r.last]
              /\ good' = [good EXCEPT ![h] = r.good]
              /\ Go(h, IF r.end = "torn" THEN "repair" ELSE "idle") /\ UNCHANGED <<todo, cur>>
  BY DEF ReadBdw4
<1>3. PICK r : r = Recovered(st[h], last[h], long)
  OBVIOUS
<1>4. begun' = begun
  BY <1>1 DEF Quiet
<1>5. CASE r.end \in {"gap", "garbage"}
  <2>1. Closed(h)
    BY <1>2, <1>3, <1>5
  <2>2. QED
    BY <1>1, <1>4, <2>1, ClosedIs
<1>6. CASE r.end \notin {"gap", "garbage"}
  <2>1. /\ st' = [st EXCEPT ![h] = r.ops] /\ last' = [last EXCEPT ![h] = r.last]
        /\ good' = [good EXCEPT ![h] = r.good]
        /\ at' = [at EXCEPT ![h] = IF r.end = "torn" THEN "repair" ELSE "idle"] /\ UNCHANGED <<todo, cur>>
    BY <1>2, <1>3, <1>6, Zenon DEF Go
  <2>2. /\ st'[h] = r.ops /\ last'[h] = r.last /\ good'[h] = r.good
        /\ at'[h] = IF r.end = "torn" THEN "repair" ELSE "idle"
        /\ todo'[h] = todo[h] /\ cur'[h] = cur[h] /\ begun'[h] = begun[h]
    BY <1>4, <2>1, Zenon DEF HandleTypes
  <2>3. Others(h)
    BY <1>4, <2>1 DEF HandleTypes, Others
  <2>4. r \in {Recovered(st[h], last[h], TRUE), Recovered(st[h], last[h], FALSE)}
    BY <1>3
  <2>5. QED
    BY <1>1, <1>3, <1>6, <2>2, <2>3, <2>4
<1>7. QED
  BY <1>5, <1>6

LEMMA RepairTailIs ==
  ASSUME HandleTypes, NEW h \in Handles, RepairTail(h)
  PROVE  /\ at[h] = "repair" /\ at'[h] = "idle"
         /\ items' = IF good[h] <= Len(items) THEN SubSeq(items, 1, good[h]) ELSE Append(items, Zeros)
         /\ todo'[h] = todo[h] /\ st'[h] = st[h] /\ last'[h] = last[h] /\ good'[h] = good[h]
         /\ cur'[h] = cur[h] /\ begun'[h] = begun[h] /\ Others(h)
         /\ UNCHANGED <<v1, snapSeq, segs, ck, n, acked, taint, begun>>
<1>1. /\ UNCHANGED <<v1, snapSeq, segs, ck, n, acked, taint, begun>>
      /\ items' = IF good[h] <= Len(items) THEN SubSeq(items, 1, good[h]) ELSE Append(items, Zeros)
  BY DEF RepairTail, v1Vars
<1>2. Others(h)
  BY DEF HandleTypes, RepairTail, Go, Others
<1>3. /\ at[h] = "repair" /\ at'[h] = "idle"
      /\ todo'[h] = todo[h] /\ st'[h] = st[h] /\ last'[h] = last[h] /\ good'[h] = good[h]
      /\ cur'[h] = cur[h] /\ begun'[h] = begun[h]
  BY DEF HandleTypes, RepairTail, Go
<1>4. QED
  BY <1>1, <1>2, <1>3

\* What is appended: the frame, or the first of its bytes
LEMMA WriteBatchIs ==
  ASSUME HandleTypes, NEW h \in Handles, WriteBatch(h)
  PROVE  /\ at[h] = "idle" /\ Batches < MaxBatch /\ n' = n + 1
         /\ cur'[h] = NewFrame(h)
         /\ \/ at'[h] = "sync" /\ items' = Append(items, NewFrame(h))
            \/ at'[h] = "rest" /\ items' = Append(items, [NewFrame(h) EXCEPT !.part = "head"])
         /\ todo'[h] = todo[h] /\ st'[h] = st[h] /\ last'[h] = last[h] /\ good'[h] = good[h]
         /\ begun'[h] = begun[h] /\ Others(h)
         /\ UNCHANGED <<v1, snapSeq, segs, ck, acked, taint, begun>>
<1>1. /\ at[h] = "idle" /\ Batches < MaxBatch /\ n' = n + 1
      /\ UNCHANGED <<v1, snapSeq, segs, ck, acked, taint, begun>>
  BY DEF WriteBatch, Unlocked, v1Vars
<1>2. PICK x : x = NewFrame(h)
  OBVIOUS
<1>3. cur' = [cur EXCEPT ![h] = x] /\ AppendTo(h, x) /\ UNCHANGED <<st, last, todo, good, begun>>
  BY <1>2 DEF WriteBatch
<1>4. \/ items' = Append(items, x) /\ at' = [at EXCEPT ![h] = "sync"]
      \/ items' = Append(items, [x EXCEPT !.part = "head"]) /\ at' = [at EXCEPT ![h] = "rest"]
  BY <1>3, Zenon DEF AppendTo, Go
<1>5. Others(h)
  <2>1. \E p : at' = [at EXCEPT ![h] = p]
    BY <1>4
  <2>2. QED
    BY <1>3, <2>1 DEF HandleTypes, Others
<1>6. \/ at'[h] = "sync" /\ items' = Append(items, x)
      \/ at'[h] = "rest" /\ items' = Append(items, [x EXCEPT !.part = "head"])
  BY <1>4, Zenon DEF HandleTypes
<1>7. /\ cur'[h] = x /\ todo'[h] = todo[h] /\ st'[h] = st[h] /\ last'[h] = last[h]
      /\ good'[h] = good[h] /\ begun'[h] = begun[h]
  BY <1>3, Zenon DEF HandleTypes
<1>8. QED
  BY <1>1, <1>2, <1>5, <1>6, <1>7

LEMMA WriteAllIs ==
  ASSUME HandleTypes, NEW h \in Handles, WriteAll(h)
  PROVE  /\ at[h] = "rest" /\ at'[h] = "sync"
         /\ items' = Append(items, [cur[h] EXCEPT !.part = "rest"])
         /\ todo'[h] = todo[h] /\ st'[h] = st[h] /\ last'[h] = last[h] /\ good'[h] = good[h]
         /\ cur'[h] = cur[h] /\ begun'[h] = begun[h] /\ Others(h)
         /\ UNCHANGED <<v1, snapSeq, segs, ck, n, acked, taint, begun>>
<1>1. /\ UNCHANGED <<v1, snapSeq, segs, ck, n, acked, taint, begun>>
      /\ items' = Append(items, [cur[h] EXCEPT !.part = "rest"])
  BY DEF WriteAll, v1Vars
<1>2. Others(h)
  BY DEF HandleTypes, WriteAll, Go, Others
<1>3. /\ at[h] = "rest" /\ at'[h] = "sync"
      /\ todo'[h] = todo[h] /\ st'[h] = st[h] /\ last'[h] = last[h] /\ good'[h] = good[h]
      /\ cur'[h] = cur[h] /\ begun'[h] = begun[h]
  BY DEF HandleTypes, WriteAll, Go
<1>4. QED
  BY <1>1, <1>2, <1>3

LEMMA CommitIs ==
  ASSUME HandleTypes, NEW h \in Handles, Commit(h)
  PROVE  /\ at[h] = "sync" /\ at'[h] = "idle"
         /\ st'[h] = Append(st[h], cur[h].num) /\ last'[h] = cur[h].seq
         /\ acked' = acked \cup {cur[h].num} /\ cur'[h] = NoItem
         /\ todo'[h] = todo[h] /\ good'[h] = good[h] /\ begun'[h] = begun[h] /\ Others(h)
         /\ UNCHANGED <<v1, snapSeq, segs, ck, items, n, taint, begun>>
<1>1. /\ UNCHANGED <<v1, snapSeq, segs, ck, items, n, taint, begun>>
      /\ acked' = acked \cup {cur[h].num}
  BY DEF Commit, v1Vars
<1>2. Others(h)
  BY DEF HandleTypes, Commit, Applied, Go, Others
<1>3. /\ at[h] = "sync" /\ at'[h] = "idle"
      /\ st'[h] = Append(st[h], cur[h].num) /\ last'[h] = cur[h].seq /\ cur'[h] = NoItem
      /\ todo'[h] = todo[h] /\ good'[h] = good[h] /\ begun'[h] = begun[h]
  BY Zenon DEF HandleTypes, Commit, Applied, Go
<1>4. QED
  BY <1>1, <1>2, <1>3

LEMMA WriteFailsIs ==
  ASSUME HandleTypes, NEW h \in Handles, WriteFails(h)
  PROVE  /\ at[h] \in {"rest", "sync"} /\ at'[h] = "idle"
         /\ todo'[h] = todo[h] /\ st'[h] = st[h] /\ last'[h] = last[h] /\ good'[h] = good[h]
         /\ cur'[h] = NoItem /\ begun'[h] = begun[h] /\ Others(h)
         /\ taint' = taint \cup {"failed"}
         /\ UNCHANGED <<v1, snapSeq, segs, ck, items, n, acked, begun>>
<1>1. /\ UNCHANGED <<v1, snapSeq, segs, ck, items, n, acked, begun>>
      /\ taint' = taint \cup {"failed"}
  BY DEF WriteFails, Taint, v1Vars
<1>2. Others(h)
  BY DEF HandleTypes, WriteFails, Go, Others
<1>3. /\ at[h] \in {"rest", "sync"} /\ at'[h] = "idle"
      /\ todo'[h] = todo[h] /\ st'[h] = st[h] /\ last'[h] = last[h] /\ good'[h] = good[h]
      /\ cur'[h] = NoItem /\ begun'[h] = begun[h]
  BY DEF HandleTypes, WriteFails, Go
<1>4. QED
  BY <1>1, <1>2, <1>3

LEMMA EndIs ==
  ASSUME HandleTypes, NEW h \in Handles, Close(h) \/ Crash(h)
  PROVE  Ended(h) /\ Quiet
<1>1. Closed(h) /\ Quiet
  BY DEF Close, Crash, Quiet, v1Vars
<1>2. begun' = begun
  BY <1>1 DEF Quiet
<1>3. QED
  BY <1>1, <1>2, ClosedIs

-----------------------------------------------------------------------------
(* The files of v1                                                         *)

HandlesSame == UNCHANGED <<at, st, last, todo, good, cur, begun>>

LEMMA V1PutIs ==
  ASSUME V1Put
  PROVE  /\ ck = "none" /\ Len(v1) < MaxV1 /\ n' = n + 1 /\ v1' = Append(v1, n + 1)
         /\ segs' = [segs EXCEPT ![Newest].last = Len(v1) + 1]
         /\ UNCHANGED <<snapSeq, ck, items, acked>> /\ HandlesSame
         /\ taint \subseteq taint'
         /\ "forked" \notin taint' => items = <<>> /\ \A h \in Handles : at[h] = "closed"
<1>1. /\ taint \subseteq taint'
      /\ "forked" \notin taint' => items = <<>> /\ \A h \in Handles : at[h] = "closed"
  <2>1. Taint("forked", items # <<>> \/ \E h \in Handles : at[h] # "closed")
    BY DEF V1Put
  <2>2. CASE items # <<>> \/ \E h \in Handles : at[h] # "closed"
    BY <2>1, <2>2, Zenon DEF Taint
  <2>3. CASE ~(items # <<>> \/ \E h \in Handles : at[h] # "closed")
    BY <2>1, <2>3, Zenon DEF Taint
  <2>4. QED
    BY <2>2, <2>3
<1>2. /\ ck = "none" /\ Len(v1) < MaxV1 /\ n' = n + 1 /\ v1' = Append(v1, n + 1)
      /\ segs' = [segs EXCEPT ![Newest].last = Len(v1) + 1]
      /\ UNCHANGED <<snapSeq, ck, items, acked>> /\ HandlesSame
  BY Zenon DEF V1Put, hVars, HandlesSame
<1>3. QED
  BY <1>1, <1>2

LEMMA V1CheckpointIs ==
  ASSUME V1Checkpoint
  PROVE  /\ UNCHANGED <<v1, items, n, acked>> /\ HandlesSame
         /\ taint \subseteq taint'
         /\ "raced" \notin taint' => \A h \in Handles : at[h] \notin {"list", "wal"}
<1>1. /\ taint \subseteq taint'
      /\ "raced" \notin taint' => \A h \in Handles : at[h] \notin {"list", "wal"}
  <2>1. Taint("raced", Opening # {})
    BY DEF V1Checkpoint
  <2>2. CASE Opening # {}
    BY <2>1, <2>2, Zenon DEF Taint
  <2>3. CASE Opening = {}
    BY <2>1, <2>3 DEF Taint, Opening
  <2>4. QED
    BY <2>2, <2>3
<1>2. UNCHANGED <<v1, items, n, acked>> /\ HandlesSame
  BY Zenon DEF V1Checkpoint, hVars, HandlesSame
<1>3. QED
  BY <1>1, <1>2

SegTypes ==
    /\ snapSeq \in 0..MaxV1 /\ ck \in {"none", "create", "header", "remove"}
    /\ DOMAIN segs \subseteq 1..MaxSeg /\ \A s \in DOMAIN segs : segs[s] \in Segment

LEMMA PutKeepsFiles ==
  ASSUME DirTypeOK, Files, V1Put
  PROVE  SegTypes' /\ Files'
<1> DEFINE L == Len(v1)
           N == Newest
<1>1. /\ ck = "none" /\ L < MaxV1 /\ n' = n + 1 /\ v1' = Append(v1, n + 1)
      /\ segs' = [segs EXCEPT ![N].last = L + 1]
      /\ UNCHANGED <<snapSeq, ck>>
  BY V1PutIs
<1>2. L \in Nat /\ MaxV1 \in Nat /\ snapSeq \in Nat /\ snapSeq <= L
  <2>1. v1 \in Seq(Num)
    BY DEF DirTypeOK
  <2>2. QED
    BY <2>1, LenProperties, SharedAssumption DEF DirTypeOK, Files
<1>3. Len(v1') = L + 1
  <2>1. v1 \in Seq(Nat) /\ n + 1 \in Nat
    BY SharedAssumption DEF DirTypeOK, Num
  <2>2. QED
    BY <1>1, <2>1, AppendIs
<1>4. N \in DOMAIN segs /\ \A s \in DOMAIN segs : s <= N
  BY DEF Files
<1>5. DOMAIN segs \subseteq 1..MaxSeg /\ \A s \in DOMAIN segs : segs[s] \in Segment
  BY DEF DirTypeOK
<1>6. PICK x : x = [segs[N] EXCEPT !.last = L + 1]
  OBVIOUS
<1>7. x \in Segment /\ x.last = L + 1 /\ x.first = segs[N].first
  <2>1. L + 1 \in 0..MaxV1
    BY <1>1, <1>2
  <2>2. segs[N] \in Segment
    BY <1>4, <1>5
  <2>3. QED
    BY <1>6, <2>1, <2>2 DEF Segment
<1>8. DOMAIN segs' = DOMAIN segs /\ segs'[N] = x /\ \A s \in DOMAIN segs : s # N => segs'[s] = segs[s]
  <2>1. segs' = [segs EXCEPT ![N] = x]
    BY <1>1, <1>6, Zenon
  <2>2. QED
    BY <1>4, <2>1
<1>9. SegTypes'
  <2>1. \A s \in DOMAIN segs' : segs'[s] \in Segment
    BY <1>5, <1>7, <1>8
  <2>2. QED
    BY <1>1, <1>5, <1>8, <2>1 DEF SegTypes, DirTypeOK
<1>10. Newest' = N
  <2>1. DOMAIN segs' \subseteq Nat
    BY <1>5, <1>8
  <2>2. (CHOOSE s \in DOMAIN segs' : \A t \in DOMAIN segs' : t <= s) = N
    BY <1>4, <1>8, <2>1, NewestIs
  <2>3. QED
    BY <2>2, Zenon DEF Newest
<1>11. segs'[N].last = L + 1 /\ segs'[N].first <= snapSeq + 1
  BY <1>7, <1>8 DEF Files
<1>12. \A s \in DOMAIN segs' : s # N => segs'[s].last <= snapSeq
  BY <1>8 DEF Files
<1>13. QED
  <2> HIDE DEF N, L
  <2>1. L + 1 <= MaxV1 /\ snapSeq <= L + 1
    BY <1>1, <1>2
  <2>2. N \in DOMAIN segs' /\ \A s \in DOMAIN segs' : s <= N
    BY <1>4, <1>8
  <2>3. QED
    BY <1>1, <1>3, <1>9, <1>10, <1>11, <1>12, <2>1, <2>2 DEF Files

LEMMA CheckpointKeepsFiles ==
  ASSUME DirTypeOK, Files, V1Checkpoint
  PROVE  SegTypes' /\ Files'
<1> DEFINE L == Len(v1)
           N == Newest
<1>1. v1' = v1
  BY V1CheckpointIs
<1>2. L \in Nat /\ MaxV1 \in Nat /\ snapSeq \in Nat /\ snapSeq <= L /\ L <= MaxV1
  <2>1. v1 \in Seq(Num)
    BY DEF DirTypeOK
  <2>2. QED
    BY <2>1, LenProperties, SharedAssumption DEF DirTypeOK, Files
<1>3. /\ N \in DOMAIN segs /\ \A s \in DOMAIN segs : s <= N
      /\ segs[N].last = L /\ segs[N].first <= snapSeq + 1
      /\ \A s \in DOMAIN segs : s # N => segs[s].last <= snapSeq
      /\ ck # "none" => snapSeq = L
  BY DEF Files
<1>4. /\ DOMAIN segs \subseteq 1..MaxSeg /\ \A s \in DOMAIN segs : segs[s] \in Segment
      /\ snapSeq \in 0..MaxV1
  BY DEF DirTypeOK
<1>5. N \in Nat /\ DOMAIN segs \subseteq Nat /\ segs[N].first \in Nat
  BY <1>3, <1>4 DEF Segment
<1>6. ASSUME NEW S, NEW m \in S, DOMAIN segs' = S, S \subseteq 1..MaxSeg, \A s \in S : s <= m,
             \A s \in S : segs'[s] \in Segment,
             segs'[m].last = L, segs'[m].first <= snapSeq' + 1, snapSeq' \in 0..L,
             \A s \in S : s # m => segs'[s].last <= snapSeq',
             ck' # "none" => snapSeq' = L, ck' = "create" => m < MaxSeg,
             ck' \in {"none", "create", "header", "remove"}
      PROVE  SegTypes' /\ Files'
  <2>1. Newest' = m
    <3>1. S \subseteq Nat /\ m \in S /\ \A t \in S : t <= m
      BY <1>6
    <3>2. (CHOOSE s \in S : \A t \in S : t <= s) = m
      BY ONLY <3>1, NewestIs, Zenon
    <3>3. QED
      BY <1>6, <3>2, Zenon DEF Newest
  <2>2. SegTypes'
    <3>1. snapSeq' \in 0..MaxV1
      BY <1>2, <1>6
    <3>2. QED
      BY <1>6, <3>1 DEF SegTypes
  <2>3. L <= MaxV1 /\ snapSeq' <= L
    BY <1>2, <1>6
  <2>4. Files'
    <3> HIDE DEF N, L
    <3>1. Len(v1') = L
      BY <1>1 DEF L
    <3>2. QED
      BY <1>6, <2>1, <2>3, <3>1 DEF Files
  <2>5. QED
    BY <2>2, <2>4
<1>7. CASE /\ ck = "none" /\ N < MaxSeg
           /\ snapSeq' = L /\ ck' = "create" /\ UNCHANGED segs
  <2>1. segs[N].first <= L + 1 /\ L \in 0..L /\ \A s \in DOMAIN segs : s # N => segs[s].last <= L
    <3>1. \A s \in DOMAIN segs : segs[s].last \in Nat
      BY <1>4 DEF Segment
    <3>2. QED
      BY <1>2, <1>3, <1>5, <3>1
  <2>2. QED
    <3> HIDE DEF N, L
    <3>1. QED
      BY <1>3, <1>4, <1>6, <1>7, <2>1
<1>8. CASE /\ ck = "create" /\ ck' = "header"
           /\ segs' = [s \in DOMAIN segs \cup {N + 1} |->
                        IF s \in DOMAIN segs THEN segs[s]
                        ELSE [hdr |-> FALSE, first |-> L + 1, last |-> L]]
           /\ UNCHANGED snapSeq
  <2>1. snapSeq = L /\ N + 1 \in 1..MaxSeg
    <3>1. N < MaxSeg
      BY <1>8 DEF Files
    <3>2. QED
      BY <1>3, <1>5, <1>8, <3>1, SharedAssumption
  <2>2. N + 1 \notin DOMAIN segs
    BY <1>3, <1>5
  <2>3. PICK x : x = [hdr |-> FALSE, first |-> L + 1, last |-> L]
    OBVIOUS
  <2>4. x \in Segment /\ x.first = L + 1 /\ x.last = L
    BY <1>2, <2>3 DEF Segment
  <2>5. PICK S : S = DOMAIN segs \cup {N + 1}
    OBVIOUS
  <2>6. DOMAIN segs' = S /\ segs'[N + 1] = x /\ \A s \in DOMAIN segs : segs'[s] = segs[s]
    BY <1>8, <2>2, <2>3, <2>5
  <2>7. S \subseteq 1..MaxSeg /\ N + 1 \in S /\ \A s \in S : s <= N + 1
    BY <1>3, <1>4, <1>5, <2>1, <2>5
  <2>8. \A s \in S : s # N + 1 => s \in DOMAIN segs
    BY <2>5
  <2>9. \A s \in S : segs'[s] \in Segment
    BY <1>4, <2>4, <2>6, <2>8
  <2>10. \A s \in S : s # N + 1 => segs'[s].last <= snapSeq
    <3>1. \A s \in DOMAIN segs : segs[s].last <= snapSeq
      BY <1>2, <1>3, <2>1
    <3>2. QED
      BY <2>6, <2>8, <3>1
  <2>11. segs'[N + 1].last = L /\ segs'[N + 1].first <= snapSeq + 1 /\ snapSeq \in 0..L
    BY <1>2, <2>1, <2>4, <2>6
  <2>12. QED
    <3> HIDE DEF N, L
    <3>1. QED
      BY <1>6, <1>8, <2>1, <2>6, <2>7, <2>9, <2>10, <2>11
<1>9. CASE /\ ck = "header" /\ ck' = "remove"
           /\ segs' = [segs EXCEPT ![N].hdr = TRUE] /\ UNCHANGED snapSeq
  <2>1. PICK x : x = [segs[N] EXCEPT !.hdr = TRUE]
    OBVIOUS
  <2>2. x \in Segment /\ x.first = segs[N].first /\ x.last = segs[N].last
    BY <1>3, <1>4, <2>1 DEF Segment
  <2>3. DOMAIN segs' = DOMAIN segs /\ segs'[N] = x /\ \A s \in DOMAIN segs : s # N => segs'[s] = segs[s]
    <3>1. segs' = [segs EXCEPT ![N] = x]
      BY <1>9, <2>1, Zenon
    <3>2. QED
      BY <1>3, <3>1
  <2>4. \A s \in DOMAIN segs : segs'[s] \in Segment
    BY <1>4, <2>2, <2>3
  <2>5. snapSeq = L /\ snapSeq \in 0..L
    BY <1>2, <1>3, <1>9
  <2>6. QED
    <3> HIDE DEF N, L
    <3>1. QED
      BY <1>3, <1>4, <1>6, <1>9, <2>2, <2>3, <2>4, <2>5
<1>10. CASE /\ ck = "remove" /\ UNCHANGED <<snapSeq, ck>>
            /\ \E s \in DOMAIN segs \ {N} : segs' = [t \in DOMAIN segs \ {s} |-> segs[t]]
  <2>1. PICK s \in DOMAIN segs \ {N} : segs' = [t \in DOMAIN segs \ {s} |-> segs[t]]
    BY <1>10
  <2>2. PICK S : S = DOMAIN segs \ {s}
    OBVIOUS
  <2>3. DOMAIN segs' = S /\ S \subseteq DOMAIN segs /\ N \in S /\ \A t \in S : segs'[t] = segs[t]
    BY <1>3, <2>1, <2>2
  <2>4. snapSeq = L /\ snapSeq \in 0..L
    BY <1>2, <1>3, <1>10
  <2>5. S \subseteq 1..MaxSeg /\ (\A t \in S : t <= N) /\ (\A t \in S : segs'[t] \in Segment)
    BY <1>3, <1>4, <2>3
  <2>6. segs'[N].last = L /\ segs'[N].first <= snapSeq + 1 /\ \A t \in S : t # N => segs'[t].last <= snapSeq
    BY <1>3, <2>3
  <2>7. QED
    <3> HIDE DEF N, L
    <3>1. QED
      BY <1>6, <1>10, <2>3, <2>4, <2>5, <2>6
<1>11. CASE ck = "remove" /\ DOMAIN segs = {N} /\ ck' = "none" /\ UNCHANGED <<snapSeq, segs>>
  <2>1. snapSeq \in 0..L
    BY <1>2
  <2>2. QED
    <3> HIDE DEF N, L
    <3>1. QED
      BY <1>3, <1>4, <1>6, <1>11, <2>1
<1>12. QED
  BY <1>7, <1>8, <1>9, <1>10, <1>11, Zenon DEF V1Checkpoint

-----------------------------------------------------------------------------
(* Numbers are given in order                                              *)

LEMMA Values ==
  ASSUME DirTypeOK
  PROVE  /\ v1 \in Seq(Num) /\ Len(v1) \in Nat /\ DOMAIN v1 = 1..Len(v1)
         /\ \A k \in DOMAIN v1 : v1[k] \in Num /\ v1[k] \in Nat /\ v1[k] > 0
         /\ items \in Seq(Item) /\ Len(items) \in Nat /\ DOMAIN items = 1..Len(items)
         /\ \A i \in DOMAIN items : /\ items[i] \in Item /\ items[i].num \in Nat /\ items[i].seq \in Nat
                                    /\ items[i].part \in {"whole", "head", "rest"}
         /\ n \in Nat /\ MaxV1 \in Nat /\ MaxBatch \in Nat
<1>1. v1 \in Seq(Num) /\ items \in Seq(Item) /\ n \in Nat /\ MaxV1 \in Nat /\ MaxBatch \in Nat
  BY SharedAssumption DEF DirTypeOK
<1>2. Len(v1) \in Nat /\ DOMAIN v1 = 1..Len(v1) /\ Len(items) \in Nat /\ DOMAIN items = 1..Len(items)
  BY <1>1, LenProperties
<1>3. \A k \in DOMAIN v1 : v1[k] \in Num
  BY <1>1, <1>2, ElementOfSeq
<1>4. \A i \in DOMAIN items : items[i] \in Item
  BY <1>1, <1>2, ElementOfSeq
<1>5. \A k \in Num : k \in Nat /\ k > 0
  BY DEF Num
<1>6. \A x \in Item : x.num \in Nat /\ x.seq \in Nat /\ x.part \in {"whole", "head", "rest"}
  BY DEF Item, Num
<1>7. QED
  BY <1>1, <1>2, <1>3, <1>4, <1>5, <1>6

LEMMA HandleValues ==
  ASSUME DirTypeOK, NEW h \in Handles
  PROVE  /\ at[h] \in Steps
         /\ st[h] \in Seq(Num) /\ Len(st[h]) \in Nat /\ DOMAIN st[h] = 1..Len(st[h])
         /\ \A k \in DOMAIN st[h] : st[h][k] \in Num /\ st[h][k] \in Nat /\ st[h][k] > 0
         /\ last[h] \in Nat /\ good[h] \in Nat /\ begun[h] \in Nat /\ todo[h] \subseteq 1..MaxSeg
         /\ cur[h] \in Item /\ cur[h].num \in Nat /\ cur[h].seq \in Nat
         /\ cur[h].part \in {"whole", "head", "rest"}
<1>1. /\ at[h] \in Steps /\ st[h] \in Seq(Num) /\ last[h] \in 0..(MaxV1 + MaxBatch)
      /\ good[h] \in Nat /\ cur[h] \in Item /\ begun[h] \in 0..MaxV1 /\ todo[h] \subseteq 1..MaxSeg
  BY HandleTypesAre DEF HandleTypes
<1>2. last[h] \in Nat /\ begun[h] \in Nat
  BY <1>1
<1>3. Len(st[h]) \in Nat /\ DOMAIN st[h] = 1..Len(st[h])
  BY <1>1, LenProperties
<1>4. \A k \in DOMAIN st[h] : st[h][k] \in Num
  BY <1>1, <1>3, ElementOfSeq
<1>5. \A k \in Num : k \in Nat /\ k > 0
  BY DEF Num
<1>6. cur[h].num \in Nat /\ cur[h].seq \in Nat /\ cur[h].part \in {"whole", "head", "rest"}
  BY <1>1 DEF Item, Num
<1>7. QED
  BY <1>1, <1>2, <1>3, <1>4, <1>5, <1>6

\* The next number there is
LEMMA NextNum ==
  ASSUME DirTypeOK, Numbers, Files
  PROVE  /\ Len(v1) < MaxV1 => n + 1 \in Num
         /\ Batches < MaxBatch => n + 1 \in Num
<1>1. n - Len(v1) \in 0..MaxBatch /\ Len(v1) <= MaxV1
  BY DEF Numbers, Files, Batches
<1>2. n \in Nat /\ Len(v1) \in Nat /\ MaxV1 \in Nat /\ MaxBatch \in Nat
  BY Values
<1>3. QED
  BY <1>1, <1>2 DEF Num, Batches

LEMMA PutKeepsNumbers ==
  ASSUME DirTypeOK, Numbers, Files, V1Put
  PROVE  /\ Numbers' /\ v1' \in Seq(Num) /\ n' \in 0..(MaxV1 + MaxBatch)
         /\ Len(v1') = Len(v1) + 1 /\ DOMAIN v1' = 1..(Len(v1) + 1) /\ v1'[Len(v1) + 1] = n + 1
         /\ \A k \in DOMAIN v1 : v1'[k] = v1[k]
<1> DEFINE L == Len(v1)
<1>1. /\ L < MaxV1 /\ n' = n + 1 /\ v1' = Append(v1, n + 1) /\ items' = items /\ acked' = acked
  BY V1PutIs
<1>2. /\ v1 \in Seq(Num) /\ L \in Nat /\ DOMAIN v1 = 1..L /\ n \in Nat
      /\ \A k \in DOMAIN v1 : v1[k] \in Nat
      /\ \A i \in DOMAIN items : items[i].num \in Nat /\ items[i].seq \in Nat
      /\ MaxV1 \in Nat /\ MaxBatch \in Nat
  BY Values
<1>3. n + 1 \in Num
  BY <1>1, NextNum
<1>4. /\ v1' \in Seq(Num) /\ Len(v1') = L + 1 /\ v1'[L + 1] = n + 1
      /\ \A k \in 1..L : v1'[k] = v1[k]
  BY <1>1, <1>2, <1>3, AppendIs
<1>5. DOMAIN v1' = 1..(L + 1)
  BY <1>4, LenProperties
<1>6. \A k \in DOMAIN v1' : k = L + 1 \/ k \in DOMAIN v1
  BY <1>2, <1>5
<1>7. \A k \in DOMAIN v1 : v1[k] <= n
  BY DEF Numbers
<1>8. \A k \in DOMAIN v1' : v1'[k] <= n + 1
  BY <1>2, <1>4, <1>6, <1>7
<1>9. Increasing(v1')
  <2>1. ASSUME NEW i \in DOMAIN v1', NEW j \in DOMAIN v1', i < j PROVE v1'[i] < v1'[j]
    <3>1. i \in DOMAIN v1
      BY <1>2, <1>5, <2>1
    <3>2. CASE j = L + 1
      BY <1>2, <1>4, <1>7, <3>1, <3>2
    <3>3. CASE j \in DOMAIN v1
      BY <1>2, <1>4, <2>1, <3>1, <3>3 DEF Numbers, Increasing
    <3>4. QED
      BY <1>6, <3>2, <3>3
  <2>2. QED
    BY <2>1 DEF Increasing
<1>10. \A i \in DOMAIN items' : items'[i].num <= n' /\ \A k \in DOMAIN v1' : v1'[k] # items'[i].num
  <2>1. ASSUME NEW i \in DOMAIN items PROVE items[i].num <= n + 1 /\ \A k \in DOMAIN v1' : v1'[k] # items[i].num
    <3>1. items[i].num <= n /\ \A k \in DOMAIN v1 : v1[k] # items[i].num
      BY DEF Numbers
    <3>2. items[i].num # n + 1
      BY <1>2, <3>1
    <3>3. QED
      BY <1>2, <1>4, <1>6, <3>1, <3>2
  <2>2. QED
    BY <1>1, <2>1
<1>11. acked' \subseteq 1..n'
  BY <1>1, <1>2 DEF Numbers
<1>12. Batches' = Batches
  BY <1>1, <1>2, <1>4 DEF Batches
<1>13. Numbers'
  BY <1>1, <1>8, <1>9, <1>10, <1>11, <1>12 DEF Numbers
<1>14. n' \in 0..(MaxV1 + MaxBatch)
  BY <1>1, <1>3 DEF Num
<1>15. QED
  BY <1>2, <1>4, <1>5, <1>13, <1>14

LEMMA ItemsAppended ==
  ASSUME DirTypeOK, NEW x \in Item, items' = Append(items, x)
  PROVE  /\ items' \in Seq(Item) /\ Len(items') = Len(items) + 1 /\ DOMAIN items' = 1..(Len(items) + 1)
         /\ items'[Len(items) + 1] = x /\ (\A i \in DOMAIN items : items'[i] = items[i])
         /\ \A i \in DOMAIN items' : i = Len(items) + 1 \/ i \in DOMAIN items
         /\ items' # <<>>
<1>1. items \in Seq(Item) /\ Len(items) \in Nat /\ DOMAIN items = 1..Len(items)
  BY Values
<1>2. /\ items' \in Seq(Item) /\ Len(items') = Len(items) + 1
      /\ items'[Len(items) + 1] = x /\ \A i \in 1..Len(items) : items'[i] = items[i]
  BY <1>1, AppendIs
<1>3. DOMAIN items' = 1..(Len(items) + 1)
  BY <1>2, LenProperties
<1>4. items' # <<>>
  <2>1. Len(items') # 0
    BY <1>1, <1>2
  <2>2. QED
    BY <2>1, EmptyIs
<1>5. QED
  BY <1>1, <1>2, <1>3, <1>4

LEMMA AppendKeepsNumbers ==
  ASSUME DirTypeOK, Numbers, NEW x \in Item, items' = Append(items, x), v1' = v1,
         n' \in Nat, n <= n', Batches' \in 0..MaxBatch, acked' = acked,
         x.num <= n', x.seq <= x.num, \A k \in DOMAIN v1 : v1[k] # x.num,
         x.part # "rest" => x.num # 0 /\ x.num > n
  PROVE  Numbers'
<1>1. /\ Len(items') = Len(items) + 1 /\ DOMAIN items' = 1..(Len(items) + 1)
      /\ items'[Len(items) + 1] = x /\ (\A i \in DOMAIN items : items'[i] = items[i])
      /\ \A i \in DOMAIN items' : i = Len(items) + 1 \/ i \in DOMAIN items
  BY ItemsAppended
<1>2. /\ Len(items) \in Nat /\ DOMAIN items = 1..Len(items) /\ n \in Nat
      /\ \A k \in DOMAIN v1 : v1[k] \in Nat
      /\ \A i \in DOMAIN items : items[i].num \in Nat /\ items[i].seq \in Nat
  BY Values
<1>3. \A k \in DOMAIN v1' : v1'[k] <= n'
  BY <1>2 DEF Numbers
<1>4. ASSUME NEW i \in DOMAIN items'
      PROVE  /\ items'[i].num <= n' /\ items'[i].seq <= items'[i].num
             /\ items'[i].part # "rest" => items'[i].num # 0
             /\ \A k \in DOMAIN v1' : v1'[k] # items'[i].num
  <2>1. CASE i = Len(items) + 1
    BY <1>1, <2>1
  <2>2. CASE i \in DOMAIN items
    <3>1. /\ items[i].num <= n /\ items[i].seq <= items[i].num
          /\ items[i].part # "rest" => items[i].num # 0
          /\ \A k \in DOMAIN v1 : v1[k] # items[i].num
      BY <2>2 DEF Numbers
    <3>2. items[i].num <= n'
      BY <1>2, <2>2, <3>1
    <3>3. QED
      BY <1>1, <2>2, <3>1, <3>2
  <2>3. QED
    BY <1>1, <2>1, <2>2
<1>5. ASSUME NEW i \in DOMAIN items', NEW j \in DOMAIN items', i < j,
             items'[i].part # "rest", items'[j].part # "rest"
      PROVE  items'[i].num < items'[j].num
  <2>1. i \in DOMAIN items /\ items'[i] = items[i]
    BY <1>1, <1>2, <1>5
  <2>2. CASE j = Len(items) + 1
    <3>1. items[i].num <= n
      BY <2>1 DEF Numbers
    <3>2. QED
      BY <1>1, <1>2, <1>5, <2>1, <2>2, <3>1 DEF Item, Num
  <2>3. CASE j \in DOMAIN items
    BY <1>1, <1>5, <2>1, <2>3 DEF Numbers
  <2>4. QED
    BY <1>1, <2>2, <2>3
<1>6. acked' \subseteq 1..n'
  BY <1>2 DEF Numbers
<1>7. Increasing(v1')
  BY DEF Numbers
<1>8. QED
  BY <1>3, <1>4, <1>5, <1>6, <1>7 DEF Numbers

LEMMA ItemsCut ==
  ASSUME DirTypeOK, NEW m \in Nat, m <= Len(items), items' = SubSeq(items, 1, m)
  PROVE  /\ items' \in Seq(Item) /\ Len(items') = m /\ DOMAIN items' = 1..m
         /\ DOMAIN items' \subseteq DOMAIN items /\ \A i \in DOMAIN items' : items'[i] = items[i]
         /\ items' = <<>> => m = 0
<1>1. items \in Seq(Item) /\ Len(items) \in Nat /\ DOMAIN items = 1..Len(items)
  BY Values
<1>2. items' \in Seq(Item) /\ Len(items') = m /\ \A i \in 1..m : items'[i] = items[i]
  BY <1>1, SubSeqIs
<1>3. DOMAIN items' = 1..m
  BY <1>2, LenProperties
<1>4. DOMAIN items' \subseteq DOMAIN items
  BY <1>1, <1>3
<1>5. QED
  BY <1>2, <1>3, <1>4, EmptyIs

LEMMA ZerosIs == Zeros \in Item /\ NoItem \in Item /\ Zeros.part = "rest" /\ Zeros.num = 0 /\ Zeros.seq = 0
  BY DEF Zeros, NoItem, Item

LEMMA RepairKeepsNumbers ==
  ASSUME DirTypeOK, Numbers, NEW h \in Handles, RepairTail(h)
  PROVE  Numbers' /\ items' \in Seq(Item)
<1>1. /\ items' = IF good[h] <= Len(items) THEN SubSeq(items, 1, good[h]) ELSE Append(items, Zeros)
      /\ v1' = v1 /\ n' = n /\ acked' = acked
  BY HandleTypesAre, RepairTailIs
<1>2. good[h] \in Nat /\ n \in Nat /\ \A k \in DOMAIN v1 : v1[k] > 0 /\ v1[k] \in Nat
  BY Values, HandleValues
<1>3. Batches' = Batches
  BY <1>1 DEF Batches
<1>4. CASE good[h] <= Len(items)
  <2>1. items' \in Seq(Item) /\ DOMAIN items' \subseteq DOMAIN items /\ \A i \in DOMAIN items' : items'[i] = items[i]
    BY <1>1, <1>2, <1>4, ItemsCut
  <2>2. QED
    BY <1>1, <1>3, <2>1 DEF Numbers
<1>5. CASE ~(good[h] <= Len(items))
  <2>1. items' = Append(items, Zeros)
    BY <1>1, <1>5
  <2>2. items' \in Seq(Item)
    BY <2>1, ZerosIs, ItemsAppended
  <2>3. Batches \in 0..MaxBatch
    BY DEF Numbers
  <2>4. \A k \in DOMAIN v1 : v1[k] # Zeros.num
    BY <1>2, ZerosIs
  <2>5. Zeros.num <= n' /\ Zeros.seq <= Zeros.num /\ n <= n' /\ n' \in Nat
    BY <1>1, <1>2, ZerosIs
  <2>6. Numbers'
    BY <1>1, <1>3, <2>1, <2>3, <2>4, <2>5, ZerosIs, AppendKeepsNumbers
  <2>7. QED
    BY <2>2, <2>6
<1>6. QED
  BY <1>4, <1>5

LEMMA NewFrameIs ==
  ASSUME DirTypeOK, Files, Numbers, NEW h \in Handles, Batches < MaxBatch, last[h] <= n
  PROVE  /\ NewFrame(h) \in Item /\ NewFrame(h).part = "whole"
         /\ NewFrame(h).seq = last[h] + 1 /\ NewFrame(h).num = n + 1
         /\ [NewFrame(h) EXCEPT !.part = "head"] \in Item
         /\ [NewFrame(h) EXCEPT !.part = "head"].part = "head"
         /\ [NewFrame(h) EXCEPT !.part = "head"].seq = last[h] + 1
         /\ [NewFrame(h) EXCEPT !.part = "head"].num = n + 1
<1>1. n + 1 \in Num /\ last[h] + 1 \in Nat
  BY NextNum, HandleValues
<1>2. QED
  BY <1>1 DEF NewFrame, Item

LEMMA WriteKeepsNumbers ==
  ASSUME DirTypeOK, Files, Numbers, NEW h \in Handles, ReadingOf(h), WriteBatch(h)
  PROVE  /\ Numbers' /\ n' \in 0..(MaxV1 + MaxBatch)
         /\ \E x \in Item : /\ items' = Append(items, x) /\ x.num = n + 1 /\ x.seq = last[h] + 1
                            /\ \/ at'[h] = "sync" /\ x = NewFrame(h)
                               \/ at'[h] = "rest" /\ x = [NewFrame(h) EXCEPT !.part = "head"]
<1>1. /\ Batches < MaxBatch /\ n' = n + 1 /\ v1' = v1 /\ acked' = acked
      /\ \/ at'[h] = "sync" /\ items' = Append(items, NewFrame(h))
         \/ at'[h] = "rest" /\ items' = Append(items, [NewFrame(h) EXCEPT !.part = "head"])
  BY HandleTypesAre, WriteBatchIs
<1>2. last[h] <= n
  BY DEF ReadingOf
<1>3. PICK x \in Item : /\ items' = Append(items, x) /\ x.num = n + 1 /\ x.seq = last[h] + 1
                        /\ \/ at'[h] = "sync" /\ x = NewFrame(h)
                           \/ at'[h] = "rest" /\ x = [NewFrame(h) EXCEPT !.part = "head"]
  BY <1>1, <1>2, NewFrameIs
<1>4. /\ n \in Nat /\ last[h] \in Nat /\ Len(v1) \in Nat /\ MaxBatch \in Nat
      /\ \A k \in DOMAIN v1 : v1[k] \in Nat
  BY Values, HandleValues
<1>5. Batches' \in 0..MaxBatch
  <2>1. n - Len(v1) \in 0..MaxBatch /\ n - Len(v1) < MaxBatch
    BY <1>1 DEF Numbers, Batches
  <2>2. QED
    BY <1>1, <1>4, <2>1 DEF Batches
<1>6. \A k \in DOMAIN v1 : v1[k] # x.num
  <2>1. \A k \in DOMAIN v1 : v1[k] <= n
    BY DEF Numbers
  <2>2. QED
    BY <1>3, <1>4, <2>1
<1>7. n' \in Nat /\ n <= n' /\ x.num <= n' /\ x.seq <= x.num /\ x.num # 0 /\ x.num > n
  BY <1>1, <1>2, <1>3, <1>4
<1>8. Numbers'
  BY <1>1, <1>3, <1>5, <1>6, <1>7, AppendKeepsNumbers
<1>9. n' \in 0..(MaxV1 + MaxBatch)
  BY <1>1, NextNum DEF Num
<1>10. QED
  BY <1>3, <1>8, <1>9

LEMMA RestIs ==
  ASSUME DirTypeOK, NEW h \in Handles
  PROVE  /\ [cur[h] EXCEPT !.part = "rest"] \in Item
         /\ [cur[h] EXCEPT !.part = "rest"].part = "rest"
         /\ [cur[h] EXCEPT !.part = "rest"].num = cur[h].num
         /\ [cur[h] EXCEPT !.part = "rest"].seq = cur[h].seq
<1>1. cur[h] \in Item
  BY HandleValues
<1>2. QED
  BY <1>1 DEF Item

LEMMA WriteAllKeepsNumbers ==
  ASSUME DirTypeOK, Numbers, NEW h \in Handles, FrameOf(h), WriteAll(h)
  PROVE  Numbers' /\ items' \in Seq(Item)
<1>1. /\ at[h] = "rest" /\ items' = Append(items, [cur[h] EXCEPT !.part = "rest"])
      /\ v1' = v1 /\ n' = n /\ acked' = acked
  BY HandleTypesAre, WriteAllIs
<1>2. PICK x : x = [cur[h] EXCEPT !.part = "rest"]
  OBVIOUS
<1>3. x \in Item /\ x.part = "rest" /\ x.num = cur[h].num /\ x.seq = cur[h].seq
  BY <1>2, RestIs
<1>4. x.num <= n /\ x.seq <= x.num /\ \A k \in DOMAIN v1 : v1[k] # x.num
  BY <1>1, <1>3 DEF FrameOf, Writing
<1>5. Batches' = Batches /\ Batches \in 0..MaxBatch
  BY <1>1 DEF Batches, Numbers
<1>6. n \in Nat
  BY Values
<1>7. items' = Append(items, x)
  BY <1>1, <1>2
<1>8. n' \in Nat /\ n <= n' /\ x.num <= n'
  BY <1>1, <1>4, <1>6
<1>9. Numbers'
  BY <1>1, <1>3, <1>4, <1>5, <1>7, <1>8, AppendKeepsNumbers
<1>10. QED
  BY <1>3, <1>7, <1>9, ItemsAppended

-----------------------------------------------------------------------------
(* Handles keep to the numbers                                             *)

HandleInv(h) == FrameOf(h) /\ ReadingOf(h)

\* A handle that does nothing while numbers are given
LEMMA IdleHandle ==
  ASSUME DirTypeOK, NEW g \in Handles, HandleInv(g),
         at'[g] = at[g], st'[g] = st[g], last'[g] = last[g], todo'[g] = todo[g],
         cur'[g] = cur[g], begun'[g] = begun[g],
         v1' = v1, n' \in Nat, n <= n'
  PROVE  HandleInv(g)'
<1>1. /\ n \in Nat /\ last[g] \in Nat /\ cur[g].num \in Nat
      /\ \A i \in DOMAIN st[g] : st[g][i] \in Nat
  BY Values, HandleValues
<1>2. FrameOf(g)'
  BY <1>1 DEF HandleInv, FrameOf, Writing
<1>3. ReadingOf(g)'
  <2>1. last'[g] <= n' /\ \A i \in DOMAIN st'[g] : st'[g][i] <= n'
    BY <1>1 DEF HandleInv, ReadingOf
  <2>2. Replayed(g)' = Replayed(g)
    BY DEF Replayed, Up
  <2>3. QED
    BY <2>1, <2>2 DEF HandleInv, ReadingOf
<1>4. QED
  BY <1>2, <1>3 DEF HandleInv

LEMMA PutKeepsHandle ==
  ASSUME DirTypeOK, Numbers, Files, V1Put, NEW g \in Handles, HandleInv(g)
  PROVE  HandleInv(g)'
<1>1. /\ n' = n + 1 /\ HandlesSame
  BY V1PutIs
<1>2. /\ Len(v1') = Len(v1) + 1 /\ DOMAIN v1' = 1..(Len(v1) + 1) /\ v1'[Len(v1) + 1] = n + 1
      /\ \A k \in DOMAIN v1 : v1'[k] = v1[k]
  BY PutKeepsNumbers
<1>3. /\ n \in Nat /\ last[g] \in Nat /\ cur[g].num \in Nat /\ Len(v1) \in Nat
      /\ DOMAIN v1 = 1..Len(v1) /\ begun[g] \in Nat
      /\ \A i \in DOMAIN st[g] : st[g][i] \in Nat
  BY Values, HandleValues
<1>4. \A k \in DOMAIN v1' : k = Len(v1) + 1 \/ k \in DOMAIN v1
  BY <1>2, <1>3
<1>5. /\ at'[g] = at[g] /\ st'[g] = st[g] /\ last'[g] = last[g] /\ todo'[g] = todo[g]
      /\ cur'[g] = cur[g] /\ begun'[g] = begun[g]
  BY <1>1 DEF HandlesSame
<1>6. FrameOf(g)'
  <2>1. ASSUME Writing(g) PROVE cur[g].num <= n + 1 /\ \A k \in DOMAIN v1' : v1'[k] # cur[g].num
    <3>1. cur[g].num <= n /\ \A k \in DOMAIN v1 : v1[k] # cur[g].num
      BY <2>1 DEF HandleInv, FrameOf
    <3>2. cur[g].num # n + 1 /\ cur[g].num <= n + 1
      BY <1>3, <3>1
    <3>3. QED
      BY <1>2, <1>4, <3>1, <3>2
  <2>2. QED
    BY <1>1, <1>5, <2>1 DEF HandleInv, FrameOf, Writing
<1>7. ReadingOf(g)'
  <2>1. last[g] <= n + 1 /\ \A i \in DOMAIN st[g] : st[g][i] <= n + 1
    BY <1>3 DEF HandleInv, ReadingOf
  <2>2. begun[g] <= Len(v1) + 1
    BY <1>3 DEF HandleInv, ReadingOf
  <2>3. ASSUME ~Replayed(g)
        PROVE  /\ last[g] <= Len(v1) + 1
               /\ \A i \in DOMAIN st[g] : \E k \in 1..last[g] : st[g][i] = v1'[k]
    <3>1. last[g] <= Len(v1) /\ \A i \in DOMAIN st[g] : \E k \in 1..last[g] : st[g][i] = v1[k]
      BY <2>3 DEF HandleInv, ReadingOf
    <3>2. \A k \in 1..last[g] : v1'[k] = v1[k]
      BY <1>2, <1>3, <3>1
    <3>3. last[g] <= Len(v1) + 1
      BY <1>3, <3>1
    <3>4. QED
      BY <3>1, <3>2, <3>3
  <2>4. Replayed(g)' = Replayed(g)
    BY <1>5 DEF Replayed, Up
  <2>5. QED
    BY <1>1, <1>2, <1>5, <2>1, <2>2, <2>3, <2>4 DEF HandleInv, ReadingOf
<1>8. QED
  BY <1>6, <1>7 DEF HandleInv

LEMMA EndedHandle ==
  ASSUME DirTypeOK, NEW h \in Handles, HandleInv(h), Ended(h), v1' = v1, n' = n
  PROVE  HandleInv(h)'
<1>1. /\ at'[h] = "closed" /\ st'[h] = <<>> /\ last'[h] = 0 /\ todo'[h] = {} /\ begun'[h] = begun[h]
  BY DEF Ended
<1>2. n \in Nat /\ Len(v1) \in Nat
  BY Values
<1>3. FrameOf(h)'
  BY <1>1 DEF FrameOf, Writing
<1>4. ~Replayed(h)'
  BY <1>1 DEF Replayed, Up
<1>5. DOMAIN <<>> = {} /\ 0 <= n /\ 0 <= Len(v1) /\ Increasing(<<>>)
  BY <1>2 DEF Increasing
<1>6. begun[h] <= Len(v1)
  BY DEF HandleInv, ReadingOf
<1>7. ReadingOf(h)'
  <2>1. last'[h] <= n' /\ \A i \in DOMAIN st'[h] : st'[h][i] <= n'
    BY <1>1, <1>5
  <2>2. begun'[h] <= Len(v1') /\ at'[h] # "replay"
    BY <1>1, <1>6
  <2>3. /\ last'[h] <= Len(v1') /\ Increasing(st'[h])
        /\ \A i \in DOMAIN st'[h] : \E k \in 1..last'[h] : st'[h][i] = v1'[k]
    BY <1>1, <1>5
  <2>4. QED
    BY <1>1, <2>1, <2>2, <2>3 DEF ReadingOf
<1>8. QED
  BY <1>3, <1>7 DEF HandleInv

\* What a handle begins with
LEMMA SnapshotIs ==
  ASSUME DirTypeOK, Files
  PROVE  /\ V1Ops(1, snapSeq) \in Seq(Num) /\ Len(V1Ops(1, snapSeq)) = snapSeq
         /\ \A i \in 1..snapSeq : V1Ops(1, snapSeq)[i] = v1[i]
<1>1. snapSeq \in 0..Len(v1)
  BY Values DEF Files, DirTypeOK
<1>2. QED
  BY <1>1, Values, SubSeqIs DEF V1Ops

LEMMA OpenHandle ==
  ASSUME DirTypeOK, Files, Numbers, NEW h \in Handles, HandleInv(h), OpenBatch(h) \/ OpenMigrated(h)
  PROVE  HandleInv(h)'
<1>1. PICK ops, step :
        /\ Begins(h, ops, step)
        /\ \/ v1 = <<>> /\ ops = <<>> /\ step = "replay"
           \/ ops = V1Ops(1, snapSeq) /\ step = "list"
  BY DEF OpenBatch, OpenMigrated
<1>2. /\ at[h] = "closed" /\ at'[h] = step /\ st'[h] = ops /\ last'[h] = Len(ops)
      /\ begun'[h] = Len(v1) /\ todo'[h] = todo[h] /\ v1' = v1 /\ n' = n
  BY <1>1, HandleTypesAre, OpenIs
<1>3. n \in Nat /\ Len(v1) \in Nat /\ DOMAIN v1 = 1..Len(v1)
  BY Values
<1>4. todo[h] = {}
  BY <1>2 DEF HandleInv, ReadingOf
<1>5. /\ ops \in Seq(Num) /\ Len(ops) \in Nat /\ Len(ops) <= Len(v1) /\ DOMAIN ops = 1..Len(ops)
      /\ \A i \in 1..Len(ops) : ops[i] = v1[i]
  <2>1. CASE ops = <<>>
    BY <1>3, <2>1
  <2>2. CASE ops = V1Ops(1, snapSeq)
    <3>1. snapSeq \in Nat /\ snapSeq <= Len(v1)
      BY DEF Files, DirTypeOK
    <3>2. ops \in Seq(Num) /\ Len(ops) = snapSeq /\ \A i \in 1..snapSeq : ops[i] = v1[i]
      BY <2>2, SnapshotIs
    <3>3. DOMAIN ops = 1..Len(ops)
      BY <3>2, LenProperties
    <3>4. QED
      BY <3>1, <3>2, <3>3
  <2>3. QED
    BY <1>1, <2>1, <2>2
<1>6. Len(v1) <= n
  <2>1. n - Len(v1) \in 0..MaxBatch
    BY DEF Numbers, Batches
  <2>2. QED
    BY <1>3, <2>1
<1>7. 1..Len(ops) \subseteq DOMAIN v1
  BY <1>3, <1>5
<1>8. FrameOf(h)' /\ ~Replayed(h)'
  BY <1>1, <1>2 DEF FrameOf, Writing, Replayed, Up
<1>9. ReadingOf(h)'
  <2>1. last'[h] <= n' /\ \A i \in DOMAIN st'[h] : st'[h][i] <= n'
    <3>1. \A i \in 1..Len(ops) : ops[i] <= n
      BY <1>5, <1>7 DEF Numbers
    <3>2. Len(ops) <= n
      BY <1>3, <1>5, <1>6
    <3>3. QED
      BY <1>2, <1>5, <3>1, <3>2
  <2>2. begun'[h] <= Len(v1')
    BY <1>2, <1>3
  <2>3. step = "replay" => begun'[h] = 0 /\ st'[h] = <<>> /\ last'[h] = 0
    BY <1>1, <1>2
  <2>4. Increasing(ops)
    BY <1>5, <1>7 DEF Numbers, Increasing
  <2>5. \A i \in DOMAIN st'[h] : \E k \in 1..last'[h] : st'[h][i] = v1'[k]
    BY <1>2, <1>5
  <2>6. QED
    BY <1>1, <1>2, <1>4, <1>5, <2>1, <2>2, <2>3, <2>4, <2>5 DEF ReadingOf
<1>10. QED
  BY <1>8, <1>9 DEF HandleInv

\* w is s, and behind it the operations a..b of v1.
ReadOn(w, s, a, b) ==
    /\ w \in Seq(Num) /\ Len(w) = Len(s) + (IF a <= b THEN b - a + 1 ELSE 0)
    /\ \A i \in 1..Len(s) : w[i] = s[i]
    /\ \A i \in (Len(s) + 1)..Len(w) : /\ (i - Len(s)) + a - 1 \in a..b
                                       /\ (i - Len(s)) + a - 1 \in DOMAIN v1
                                       /\ w[i] = v1[(i - Len(s)) + a - 1]

\* What replay_wal puts behind a state
LEMMA ReadBehind ==
  ASSUME DirTypeOK, Files, NEW h \in Handles, NEW s \in DOMAIN segs, NEW w,
         w = st[h] \o SubSeq(v1, From(h, segs[s]), segs[s].last)
  PROVE  /\ ReadOn(w, st[h], From(h, segs[s]), segs[s].last)
         /\ From(h, segs[s]) \in Nat /\ From(h, segs[s]) > last[h] /\ segs[s].first \in Nat
         /\ segs[s].last \in Nat /\ segs[s].last <= Len(v1)
<1> DEFINE a == From(h, segs[s])
           b == segs[s].last
           m == Len(st[h])
<1>1. segs[s].first \in Nat /\ segs[s].first > 0 /\ b \in Nat
  BY DEF DirTypeOK, Segment
<1>2. /\ v1 \in Seq(Num) /\ Len(v1) \in Nat /\ DOMAIN v1 = 1..Len(v1)
      /\ st[h] \in Seq(Num) /\ m \in Nat /\ last[h] \in Nat
  BY Values, HandleValues
<1>3. b <= Len(v1)
  <2>1. snapSeq \in Nat /\ snapSeq <= Len(v1)
    BY DEF Files, DirTypeOK
  <2>2. s = Newest \/ b <= snapSeq
    BY DEF Files
  <2>3. segs[Newest].last = Len(v1)
    BY DEF Files
  <2>4. QED
    BY <1>1, <1>2, <2>1, <2>2, <2>3
<1>4. a \in Nat /\ a > last[h] /\ a > 0
  BY <1>1, <1>2 DEF From
<1>5. PICK u : u = SubSeq(v1, a, b)
  OBVIOUS
<1>6. \A i \in a..b : v1[i] \in Num
  <2>1. \A i \in a..b : i \in 1..Len(v1)
    <3> HIDE DEF a, b
    <3>1. QED
      BY <1>1, <1>2, <1>3, <1>4
  <2>2. QED
    BY <1>2, <2>1, Values
<1>7. /\ u \in Seq(Num) /\ Len(u) = (IF a <= b THEN b - a + 1 ELSE 0)
      /\ \A i \in 1..(b - a + 1) : u[i] = v1[a + i - 1]
  BY <1>1, <1>4, <1>5, <1>6, SubSeqProperties
<1>8. w = st[h] \o u
  BY <1>5
<1>9. /\ w \in Seq(Num) /\ Len(w) = m + Len(u)
      /\ \A i \in 1..(m + Len(u)) : w[i] = IF i <= m THEN st[h][i] ELSE u[i - m]
  <2>1. PICK z \in Seq(Num) : z = st[h]
    BY <1>2
  <2>2. /\ z \o u \in Seq(Num) /\ Len(z \o u) = Len(z) + Len(u)
        /\ \A i \in 1..(Len(z) + Len(u)) : (z \o u)[i] = IF i <= Len(z) THEN z[i] ELSE u[i - Len(z)]
    BY ONLY z \in Seq(Num), <1>7, ConcatProperties
  <2>3. QED
    BY <1>8, <2>1, <2>2
<1>10. Len(u) \in Nat /\ m <= m + Len(u)
  BY <1>1, <1>2, <1>4, <1>7
<1>11. \A i \in 1..m : w[i] = st[h][i]
  BY <1>2, <1>9, <1>10
<1>12. ASSUME NEW i \in (m + 1)..Len(w)
       PROVE  /\ (i - m) + a - 1 \in a..b
              /\ (i - m) + a - 1 \in DOMAIN v1
              /\ w[i] = v1[(i - m) + a - 1]
  <2>1. i \in Nat /\ i \in 1..(m + Len(u)) /\ ~(i <= m) /\ i - m \in 1..Len(u)
    BY <1>2, <1>9, <1>10
  <2>2. a <= b /\ Len(u) = b - a + 1
    BY <1>1, <1>4, <1>7, <2>1
  <2>3. (i - m) + a - 1 \in a..b /\ a + (i - m) - 1 = (i - m) + a - 1 /\ i - m \in 1..(b - a + 1)
    <3>1. PICK j : j = i - m
      OBVIOUS
    <3>2. j \in Nat /\ j > 0 /\ j <= b - a + 1
      BY <2>1, <2>2, <3>1
    <3>3. j + a - 1 \in a..b /\ a + j - 1 = j + a - 1 /\ j \in 1..(b - a + 1)
      <4> HIDE DEF a, b, m
      <4>1. QED
        BY ONLY <1>1, <1>4, <3>2
    <3>4. QED
      BY <3>1, <3>3
  <2>4. w[i] = v1[(i - m) + a - 1]
    BY <1>7, <1>9, <2>1, <2>3
  <2>5. (i - m) + a - 1 \in DOMAIN v1
    <3>1. PICK j : j = (i - m) + a - 1
      OBVIOUS
    <3>2. j \in a..b
      BY <2>3, <3>1
    <3>3. j \in 1..Len(v1)
      <4> HIDE DEF a, b, m
      <4>1. QED
        BY ONLY <1>1, <1>2, <1>3, <1>4, <3>2
    <3>4. QED
      BY ONLY <1>2, <3>1, <3>3
  <2>6. QED
    BY <2>3, <2>4, <2>5
<1>13. ReadOn(w, st[h], a, b)
  <2>1. Len(w) = m + (IF a <= b THEN b - a + 1 ELSE 0)
    BY <1>7, <1>9
  <2>2. QED
    BY <1>9, <1>11, <1>12, <2>1 DEF ReadOn
<1>14. QED
  BY <1>1, <1>3, <1>4, <1>13

LEMMA ReadWalHandle ==
  ASSUME DirTypeOK, Files, Numbers, NEW h \in Handles, HandleInv(h), ReadWal(h)
  PROVE  HandleInv(h)' /\ at'[h] \in {"closed", "wal"} /\ st'[h] \in Seq(Num) /\ last'[h] \in Nat
<1>1. /\ at[h] = "wal" /\ Quiet
      /\ \/ Ended(h)
         \/ \E s \in todo[h] :
              /\ s \in DOMAIN segs /\ todo'[h] = todo[h] \ {s}
              /\ st'[h] = st[h] \o SubSeq(v1, From(h, segs[s]), segs[s].last)
              /\ last'[h] = Behind(h, segs[s])
              /\ at'[h] = at[h] /\ good'[h] = good[h] /\ cur'[h] = cur[h]
              /\ begun'[h] = begun[h] /\ Others(h)
  BY HandleTypesAre, ReadWalIs
<1>2. v1' = v1 /\ n' = n
  BY <1>1 DEF Quiet
<1>3. CASE Ended(h)
  <2>1. HandleInv(h)'
    BY <1>2, <1>3, EndedHandle
  <2>2. at'[h] = "closed" /\ st'[h] = <<>> /\ last'[h] = 0
    BY <1>3 DEF Ended
  <2>3. <<>> \in Seq(Num)
    BY EmptyIs
  <2>4. QED
    BY <2>1, <2>2, <2>3
<1>4. CASE ~Ended(h)
  <2>1. PICK s \in DOMAIN segs :
              /\ st'[h] = st[h] \o SubSeq(v1, From(h, segs[s]), segs[s].last)
              /\ last'[h] = Behind(h, segs[s])
              /\ at'[h] = at[h] /\ begun'[h] = begun[h]
    BY <1>1, <1>4
  <2> DEFINE a == From(h, segs[s])
             b == segs[s].last
             m == Len(st[h])
  <2>2. PICK w : w = st'[h]
    OBVIOUS
  <2>3. /\ a \in Nat /\ a > last[h] /\ b \in Nat /\ b <= Len(v1)
        /\ w \in Seq(Num)
        /\ \A i \in 1..m : w[i] = st[h][i]
        /\ \A i \in (m + 1)..Len(w) : /\ (i - m) + a - 1 \in a..b
                                      /\ (i - m) + a - 1 \in DOMAIN v1
                                      /\ w[i] = v1[(i - m) + a - 1]
        /\ m \in Nat /\ Len(w) \in Nat /\ DOMAIN w = 1..Len(w) /\ m <= Len(w)
    <3>1. w = st[h] \o SubSeq(v1, From(h, segs[s]), segs[s].last)
      BY <2>1, <2>2
    <3>2. /\ a \in Nat /\ a > last[h] /\ b \in Nat /\ b <= Len(v1)
          /\ w \in Seq(Num) /\ Len(w) = m + (IF a <= b THEN b - a + 1 ELSE 0)
          /\ \A i \in 1..m : w[i] = st[h][i]
          /\ \A i \in (m + 1)..Len(w) : /\ (i - m) + a - 1 \in a..b
                                        /\ (i - m) + a - 1 \in DOMAIN v1
                                        /\ w[i] = v1[(i - m) + a - 1]
      <4>1. ReadOn(w, st[h], a, b) /\ a \in Nat /\ a > last[h] /\ b \in Nat /\ b <= Len(v1)
        BY <3>1, ReadBehind
      <4>2. QED
        BY <4>1, Zenon DEF ReadOn
    <3>3. m \in Nat /\ Len(w) \in Nat /\ DOMAIN w = 1..Len(w)
      BY <3>2, HandleValues, LenProperties
    <3>4. m <= Len(w)
      <4> HIDE DEF a, b, m
      <4>1. QED
        BY <3>2, <3>3
    <3>5. QED
      BY <3>2, <3>3, <3>4
  <2>4. /\ last[h] \in Nat /\ Len(v1) \in Nat /\ n \in Nat /\ DOMAIN st[h] = 1..m
        /\ \A k \in DOMAIN v1 : v1[k] \in Nat
    BY Values, HandleValues
  <2>5. /\ last[h] <= Len(v1) /\ last[h] <= n /\ Increasing(st[h])
        /\ \A i \in DOMAIN st[h] : \E k \in 1..last[h] : st[h][i] = v1[k]
        /\ begun[h] <= Len(v1) /\ \A i \in DOMAIN st[h] : st[h][i] <= n
    BY <1>1 DEF HandleInv, ReadingOf, Replayed, Up
  <2>6. PICK l : l = last'[h]
    OBVIOUS
  <2>7. l \in Nat /\ l <= Len(v1) /\ last[h] <= l /\ b <= l
    BY <2>1, <2>3, <2>4, <2>5, <2>6 DEF Behind
  <2>8. Len(v1) <= n
    <3>1. n - Len(v1) \in 0..MaxBatch
      BY DEF Numbers, Batches
    <3>2. QED
      BY <2>4, <3>1
  <2>9. ASSUME NEW i \in DOMAIN w
        PROVE  /\ \E k \in 1..l : k \in DOMAIN v1 /\ w[i] = v1[k] /\ (i > m => k = (i - m) + a - 1)
               /\ w[i] <= n
    <3>1. CASE i \in 1..m
      <4>1. PICK k \in 1..last[h] : w[i] = v1[k]
        BY <2>3, <2>4, <2>5, <3>1
      <4>2. k \in 1..l /\ k \in DOMAIN v1 /\ ~(i > m)
        <5> HIDE DEF a, b, m
        <5>1. last[h] \in Nat /\ last[h] <= l /\ l \in Nat /\ l <= Len(v1) /\ Len(v1) \in Nat
          BY <2>4, <2>7
        <5>2. k \in 1..l /\ k \in 1..Len(v1)
          BY ONLY <4>1, <5>1
        <5>3. ~(i > m)
          BY ONLY <2>3, <3>1
        <5>4. QED
          BY <5>2, <5>3, Values
      <4>3. w[i] <= n
        BY <4>1, <4>2 DEF Numbers
      <4>4. QED
        BY <4>1, <4>2, <4>3
    <3>2. CASE ~(i \in 1..m)
      <4>1. i \in (m + 1)..Len(w)
        BY <2>3, <3>2
      <4>2. PICK k : k = (i - m) + a - 1
        OBVIOUS
      <4>3. k \in a..b /\ k \in DOMAIN v1 /\ w[i] = v1[k]
        BY <2>3, <4>1, <4>2
      <4>4. k \in 1..l
        <5> HIDE DEF a, b, m
        <5>1. QED
          BY <2>3, <2>4, <2>7, <4>3
      <4>5. w[i] <= n
        BY <4>3 DEF Numbers
      <4>6. QED
        BY <4>2, <4>3, <4>4, <4>5
    <3>3. QED
      BY <3>1, <3>2
  <2>10. ASSUME NEW i \in DOMAIN w, NEW j \in DOMAIN w, i < j PROVE w[i] < w[j]
    <3>1. CASE j \in 1..m
      <4>1. i \in 1..m
        BY <2>3, <2>10, <3>1
      <4>2. QED
        BY <2>3, <2>4, <2>5, <2>10, <3>1, <4>1 DEF Increasing
    <3>2. CASE i \in 1..m /\ ~(j \in 1..m)
      <4>1. PICK k \in 1..last[h] : w[i] = v1[k]
        BY <2>3, <2>4, <2>5, <3>2
      <4>2. j \in (m + 1)..Len(w)
        BY <2>3, <3>2
      <4>3. PICK g : g = (j - m) + a - 1
        OBVIOUS
      <4>4. g \in a..b /\ g \in DOMAIN v1 /\ w[j] = v1[g]
        BY <2>3, <4>2, <4>3
      <4>5. k < g /\ k \in DOMAIN v1
        <5> HIDE DEF a, b, m
        <5>1. k < g /\ k \in 1..Len(v1)
          BY <2>3, <2>4, <2>5, <4>4
        <5>2. QED
          BY <5>1, Values
      <4>6. QED
        BY <4>1, <4>4, <4>5 DEF Numbers, Increasing
    <3>3. CASE ~(i \in 1..m) /\ ~(j \in 1..m)
      <4>1. i \in (m + 1)..Len(w) /\ j \in (m + 1)..Len(w)
        BY <2>3, <3>3
      <4>2. PICK k : k = (i - m) + a - 1
        OBVIOUS
      <4>3. PICK g : g = (j - m) + a - 1
        OBVIOUS
      <4>4. k \in DOMAIN v1 /\ w[i] = v1[k] /\ g \in DOMAIN v1 /\ w[j] = v1[g]
        BY <2>3, <4>1, <4>2, <4>3
      <4>5. k < g
        <5> HIDE DEF a, b, m
        <5>1. QED
          BY <2>3, <2>10, <4>1, <4>2, <4>3
      <4>6. QED
        BY <4>4, <4>5 DEF Numbers, Increasing
    <3>4. QED
      BY <2>3, <2>10, <3>1, <3>2, <3>3
  <2>11. at'[h] = "wal"
    BY <1>1, <2>1
  <2>12. FrameOf(h)' /\ ~Replayed(h)'
    BY <2>11 DEF FrameOf, Writing, Replayed, Up
  <2>13. ReadingOf(h)'
    <3>1. l <= n
      BY <2>4, <2>7, <2>8
    <3>2. Increasing(w) /\ \A i \in DOMAIN w : w[i] <= n /\ \E k \in 1..l : w[i] = v1[k]
      BY <2>9, <2>10 DEF Increasing
    <3>3. QED
      BY <1>2, <2>1, <2>2, <2>5, <2>6, <2>7, <2>11, <2>12, <3>1, <3>2 DEF ReadingOf
  <2>14. QED
    BY <2>2, <2>3, <2>6, <2>7, <2>11, <2>12, <2>13 DEF HandleInv
<1>5. QED
  BY <1>3, <1>4

\* What an open that gets past the log shows
LEMMA ReadBdw4Handle ==
  ASSUME DirTypeOK, Numbers, NEW h \in Handles, HandleInv(h), ReadBdw4(h)
  PROVE  HandleInv(h)' /\ at'[h] \in {"closed", "repair", "idle"} /\ st'[h] \in Seq(Num)
         /\ last'[h] \in Nat /\ good'[h] \in Nat
<1>1. /\ at[h] \in {"replay", "wal"} /\ todo[h] = {} /\ Quiet
      /\ \/ Ended(h)
         \/ \E long \in BOOLEAN, r \in {Recovered(st[h], last[h], TRUE), Recovered(st[h], last[h], FALSE)} :
              /\ r = Recovered(st[h], last[h], long) /\ r.end \notin {"gap", "garbage"}
              /\ st'[h] = r.ops /\ last'[h] = r.last /\ good'[h] = r.good
              /\ at'[h] = IF r.end = "torn" THEN "repair" ELSE "idle"
              /\ todo'[h] = todo[h] /\ cur'[h] = cur[h] /\ begun'[h] = begun[h] /\ Others(h)
  BY HandleTypesAre, ReadBdw4Is
<1>2. v1' = v1 /\ n' = n
  BY <1>1 DEF Quiet
<1>3. CASE Ended(h)
  <2>1. HandleInv(h)'
    BY <1>2, <1>3, EndedHandle
  <2>2. at'[h] = "closed" /\ st'[h] = <<>> /\ last'[h] = 0 /\ good'[h] = 0
    BY <1>3 DEF Ended
  <2>3. <<>> \in Seq(Num)
    BY EmptyIs
  <2>4. QED
    BY <2>1, <2>2, <2>3
<1>4. CASE ~Ended(h)
  <2>1. PICK long \in BOOLEAN, r \in {Recovered(st[h], last[h], TRUE), Recovered(st[h], last[h], FALSE)} :
              /\ r = Recovered(st[h], last[h], long)
              /\ st'[h] = r.ops /\ last'[h] = r.last /\ good'[h] = r.good
              /\ at'[h] = IF r.end = "torn" THEN "repair" ELSE "idle"
              /\ todo'[h] = todo[h] /\ begun'[h] = begun[h]
    BY <1>1, <1>4
  <2>2. /\ st[h] \in Seq(Num) /\ last[h] \in Nat /\ Len(st[h]) \in Nat /\ DOMAIN st[h] = 1..Len(st[h])
    BY HandleValues
  <2>3. last[h] <= n /\ begun[h] <= Len(v1) /\ \A i \in DOMAIN st[h] : st[h][i] <= n
    BY DEF HandleInv, ReadingOf
  <2>4. /\ r.ops \in Seq(Num) /\ r.last \in Nat /\ r.last <= n /\ r.good \in Nat
        /\ r.good <= Len(items) /\ Kept(r, st[h]) /\ Added(r, st[h])
    BY <2>1, <2>2, <2>3, RecoveredIs
  <2>5. PICK w : w = r.ops
    OBVIOUS
  <2>6. Len(w) \in Nat /\ DOMAIN w = 1..Len(w)
    BY <2>4, <2>5, LenProperties
  <2>7. ASSUME NEW i \in DOMAIN w PROVE w[i] <= n
    <3>1. CASE i \in 1..Len(st[h])
      BY <2>2, <2>3, <2>4, <2>5, <3>1 DEF Kept
    <3>2. CASE ~(i \in 1..Len(st[h]))
      <4>1. i \in (Len(st[h]) + 1)..Len(r.ops)
        BY <2>2, <2>5, <2>6, <3>2
      <4>2. PICK j \in 1..r.good : items[j].num = r.ops[i]
        BY <2>4, <4>1 DEF Added
      <4>3. j \in DOMAIN items
        <5>1. PICK y : y = r.good
          OBVIOUS
        <5>2. Len(items) \in Nat /\ DOMAIN items = 1..Len(items)
          BY Values
        <5>3. QED
          BY <2>4, <5>1, <5>2
      <4>4. QED
        BY <2>5, <4>2, <4>3 DEF Numbers
    <3>3. QED
      BY <3>1, <3>2
  <2>8. at'[h] \in {"repair", "idle"}
    BY <2>1
  <2>9. FrameOf(h)' /\ Replayed(h)'
    BY <2>8 DEF FrameOf, Writing, Replayed, Up
  <2>10. ReadingOf(h)'
    <3>1. last'[h] <= n' /\ \A i \in DOMAIN st'[h] : st'[h][i] <= n'
      BY <1>2, <2>1, <2>4, <2>5, <2>7
    <3>2. begun'[h] <= Len(v1') /\ todo'[h] = {}
      BY <1>1, <1>2, <2>1, <2>3
    <3>3. QED
      BY <2>8, <2>9, <3>1, <3>2 DEF ReadingOf
  <2>11. QED
    BY <2>1, <2>4, <2>8, <2>9, <2>10 DEF HandleInv
<1>5. QED
  BY <1>3, <1>4

LEMMA ListHandle ==
  ASSUME DirTypeOK, NEW h \in Handles, HandleInv(h), ListWals(h)
  PROVE  HandleInv(h)'
<1>1. /\ at[h] = "list" /\ at'[h] = "wal" /\ st'[h] = st[h] /\ last'[h] = last[h]
      /\ begun'[h] = begun[h] /\ Quiet
  BY HandleTypesAre, ListWalsIs
<1>2. v1' = v1 /\ n' = n
  BY <1>1 DEF Quiet
<1>3. ~Replayed(h) /\ ~Replayed(h)' /\ FrameOf(h)'
  BY <1>1 DEF Replayed, Up, FrameOf, Writing
<1>4. ReadingOf(h)'
  BY <1>1, <1>2, <1>3 DEF HandleInv, ReadingOf
<1>5. QED
  BY <1>3, <1>4 DEF HandleInv

LEMMA RepairHandle ==
  ASSUME DirTypeOK, NEW h \in Handles, HandleInv(h), RepairTail(h)
  PROVE  HandleInv(h)'
<1>1. /\ at[h] = "repair" /\ at'[h] = "idle" /\ st'[h] = st[h] /\ last'[h] = last[h]
      /\ begun'[h] = begun[h] /\ todo'[h] = todo[h] /\ v1' = v1 /\ n' = n
  BY HandleTypesAre, RepairTailIs
<1>2. Replayed(h)' /\ FrameOf(h)'
  BY <1>1 DEF Replayed, Up, FrameOf, Writing
<1>3. ReadingOf(h)'
  BY <1>1, <1>2 DEF HandleInv, ReadingOf
<1>4. QED
  BY <1>2, <1>3 DEF HandleInv

LEMMA WriteHandle ==
  ASSUME DirTypeOK, Files, Numbers, NEW h \in Handles, HandleInv(h), WriteBatch(h)
  PROVE  HandleInv(h)' /\ cur'[h] \in Item
<1>1. /\ at[h] = "idle" /\ Batches < MaxBatch /\ n' = n + 1 /\ cur'[h] = NewFrame(h)
      /\ at'[h] \in {"rest", "sync"} /\ todo'[h] = todo[h] /\ st'[h] = st[h] /\ last'[h] = last[h]
      /\ begun'[h] = begun[h] /\ v1' = v1
  BY HandleTypesAre, WriteBatchIs
<1>2. /\ last[h] <= n /\ begun[h] <= Len(v1) /\ todo[h] = {}
      /\ \A i \in DOMAIN st[h] : st[h][i] <= n
  BY <1>1 DEF HandleInv, ReadingOf
<1>3. PICK x \in Item : x = NewFrame(h) /\ x.part = "whole" /\ x.seq = last[h] + 1 /\ x.num = n + 1
  BY <1>1, <1>2, NewFrameIs
<1>4. /\ n \in Nat /\ last[h] \in Nat /\ \A k \in DOMAIN v1 : v1[k] \in Nat
      /\ \A i \in DOMAIN st[h] : st[h][i] \in Nat
  BY Values, HandleValues
<1>5. \A k \in DOMAIN v1 : v1[k] <= n
  BY DEF Numbers
<1>6. /\ x.seq <= x.num /\ x.num <= n' /\ \A k \in DOMAIN v1 : v1[k] # x.num
      /\ \A i \in DOMAIN st[h] : st[h][i] < x.num /\ st[h][i] <= n'
      /\ last[h] <= n'
  BY <1>1, <1>2, <1>3, <1>4, <1>5
<1>7. FrameOf(h)'
  BY <1>1, <1>3, <1>6 DEF FrameOf
<1>8. Replayed(h)'
  BY <1>1 DEF Replayed, Up
<1>9. ReadingOf(h)'
  BY <1>1, <1>2, <1>6, <1>8 DEF ReadingOf
<1>10. QED
  BY <1>1, <1>3, <1>7, <1>9 DEF HandleInv

LEMMA WriteAllHandle ==
  ASSUME DirTypeOK, NEW h \in Handles, HandleInv(h), WriteAll(h)
  PROVE  HandleInv(h)'
<1>1. /\ at[h] = "rest" /\ at'[h] = "sync" /\ st'[h] = st[h] /\ last'[h] = last[h]
      /\ begun'[h] = begun[h] /\ todo'[h] = todo[h] /\ cur'[h] = cur[h] /\ v1' = v1 /\ n' = n
  BY HandleTypesAre, WriteAllIs
<1>2. Replayed(h)' /\ FrameOf(h)'
  BY <1>1 DEF HandleInv, Replayed, Up, FrameOf, Writing
<1>3. ReadingOf(h)'
  BY <1>1, <1>2 DEF HandleInv, ReadingOf
<1>4. QED
  BY <1>2, <1>3 DEF HandleInv

LEMMA CommitHandle ==
  ASSUME DirTypeOK, Numbers, NEW h \in Handles, HandleInv(h), Commit(h)
  PROVE  /\ HandleInv(h)' /\ cur[h].num \in Num /\ cur[h].num <= n
         /\ st'[h] \in Seq(Num) /\ last'[h] \in Nat
         /\ Len(st'[h]) = Len(st[h]) + 1 /\ DOMAIN st'[h] = 1..(Len(st[h]) + 1)
         /\ st'[h][Len(st[h]) + 1] = cur[h].num /\ \A i \in 1..Len(st[h]) : st'[h][i] = st[h][i]
<1>1. /\ at[h] = "sync" /\ at'[h] = "idle" /\ st'[h] = Append(st[h], cur[h].num) /\ last'[h] = cur[h].seq
      /\ begun'[h] = begun[h] /\ todo'[h] = todo[h] /\ v1' = v1 /\ n' = n
  BY HandleTypesAre, CommitIs
<1>2. /\ cur[h].seq = last[h] + 1 /\ cur[h].seq <= cur[h].num /\ cur[h].num <= n
  BY <1>1 DEF HandleInv, FrameOf, Writing
<1>3. /\ n \in 0..(MaxV1 + MaxBatch) /\ n \in Nat /\ cur[h].num \in Nat /\ last[h] \in Nat
      /\ cur[h].seq \in Nat /\ st[h] \in Seq(Num) /\ Len(st[h]) \in Nat /\ DOMAIN st[h] = 1..Len(st[h])
  <2>1. n \in 0..(MaxV1 + MaxBatch)
    BY DEF DirTypeOK
  <2>2. n \in Nat
    BY ONLY DirTypeOK, Values
  <2>3. QED
    BY <2>1, <2>2, HandleValues
<1>4. cur[h].num \in Num
  <2>1. MaxV1 \in Nat /\ MaxBatch \in Nat /\ cur[h].num <= MaxV1 + MaxBatch
    BY <1>2, <1>3, SharedAssumption DEF SharedAssumption
  <2>2. cur[h].num >= 1
    BY <1>2, <1>3
  <2>3. QED
    BY <1>3, <2>1, <2>2 DEF Num
<1>5. PICK w : w = st'[h]
  OBVIOUS
<1>6. /\ w \in Seq(Num) /\ Len(w) = Len(st[h]) + 1
      /\ w[Len(st[h]) + 1] = cur[h].num /\ \A i \in 1..Len(st[h]) : w[i] = st[h][i]
  BY <1>1, <1>3, <1>4, <1>5, AppendIs
<1>7. DOMAIN w = 1..(Len(st[h]) + 1)
  BY <1>6, LenProperties
<1>8. \A i \in DOMAIN w : w[i] <= n
  <2>1. \A i \in DOMAIN w : i = Len(st[h]) + 1 \/ i \in DOMAIN st[h]
    BY <1>3, <1>7
  <2>2. \A i \in DOMAIN st[h] : st[h][i] <= n
    BY DEF HandleInv, ReadingOf
  <2>3. QED
    BY <1>2, <1>3, <1>6, <2>1, <2>2
<1>9. cur[h].seq <= n
  BY <1>2, <1>3
<1>10. Replayed(h)' /\ FrameOf(h)'
  BY <1>1 DEF Replayed, Up, FrameOf, Writing
<1>11. ReadingOf(h)'
  BY <1>1, <1>5, <1>8, <1>9, <1>10 DEF HandleInv, ReadingOf
<1>12. QED
  BY <1>1, <1>2, <1>3, <1>4, <1>5, <1>6, <1>7, <1>10, <1>11 DEF HandleInv

LEMMA FailsHandle ==
  ASSUME DirTypeOK, NEW h \in Handles, HandleInv(h), WriteFails(h)
  PROVE  HandleInv(h)'
<1>1. /\ at[h] \in {"rest", "sync"} /\ at'[h] = "idle" /\ st'[h] = st[h] /\ last'[h] = last[h]
      /\ begun'[h] = begun[h] /\ todo'[h] = todo[h] /\ v1' = v1 /\ n' = n
  BY HandleTypesAre, WriteFailsIs
<1>2. Replayed(h)' /\ FrameOf(h)'
  BY <1>1 DEF Replayed, Up, FrameOf, Writing
<1>3. ReadingOf(h)'
  BY <1>1, <1>2 DEF HandleInv, ReadingOf
<1>4. QED
  BY <1>2, <1>3 DEF HandleInv

-----------------------------------------------------------------------------
(* Types, and the first layer of the invariant                             *)

LEMMA ExceptIs ==
  ASSUME NEW S, NEW T, NEW f \in [S -> T], NEW x \in S
  PROVE  /\ f = [f EXCEPT ![x] = f[x]]
         /\ \A y : [f EXCEPT ![x] = y] = [f EXCEPT ![x] = ([f EXCEPT ![x] = y])[x]]
  OBVIOUS

\* A step of h changes its own values.
Updated(h) ==
    /\ at' = [at EXCEPT ![h] = at'[h]] /\ st' = [st EXCEPT ![h] = st'[h]]
    /\ last' = [last EXCEPT ![h] = last'[h]] /\ todo' = [todo EXCEPT ![h] = todo'[h]]
    /\ good' = [good EXCEPT ![h] = good'[h]] /\ cur' = [cur EXCEPT ![h] = cur'[h]]
    /\ begun' = [begun EXCEPT ![h] = begun'[h]]

LEMMA SameIsUpdated ==
  ASSUME HandleTypes, NEW h \in Handles
  PROVE  /\ (\E v : at' = [at EXCEPT ![h] = v]) \/ at' = at => at' = [at EXCEPT ![h] = at'[h]]
         /\ (\E v : st' = [st EXCEPT ![h] = v]) \/ st' = st => st' = [st EXCEPT ![h] = st'[h]]
         /\ (\E v : last' = [last EXCEPT ![h] = v]) \/ last' = last => last' = [last EXCEPT ![h] = last'[h]]
         /\ (\E v : todo' = [todo EXCEPT ![h] = v]) \/ todo' = todo => todo' = [todo EXCEPT ![h] = todo'[h]]
         /\ (\E v : good' = [good EXCEPT ![h] = v]) \/ good' = good => good' = [good EXCEPT ![h] = good'[h]]
         /\ (\E v : cur' = [cur EXCEPT ![h] = v]) \/ cur' = cur => cur' = [cur EXCEPT ![h] = cur'[h]]
         /\ (\E v : begun' = [begun EXCEPT ![h] = v]) \/ begun' = begun => begun' = [begun EXCEPT ![h] = begun'[h]]
<1>1. (\E v : at' = [at EXCEPT ![h] = v]) \/ at' = at => at' = [at EXCEPT ![h] = at'[h]]
  BY DEF HandleTypes
<1>2. (\E v : st' = [st EXCEPT ![h] = v]) \/ st' = st => st' = [st EXCEPT ![h] = st'[h]]
  BY DEF HandleTypes
<1>3. (\E v : last' = [last EXCEPT ![h] = v]) \/ last' = last => last' = [last EXCEPT ![h] = last'[h]]
  BY DEF HandleTypes
<1>4. (\E v : todo' = [todo EXCEPT ![h] = v]) \/ todo' = todo => todo' = [todo EXCEPT ![h] = todo'[h]]
  BY DEF HandleTypes
<1>5. (\E v : good' = [good EXCEPT ![h] = v]) \/ good' = good => good' = [good EXCEPT ![h] = good'[h]]
  BY DEF HandleTypes
<1>6. (\E v : cur' = [cur EXCEPT ![h] = v]) \/ cur' = cur => cur' = [cur EXCEPT ![h] = cur'[h]]
  BY DEF HandleTypes
<1>7. (\E v : begun' = [begun EXCEPT ![h] = v]) \/ begun' = begun => begun' = [begun EXCEPT ![h] = begun'[h]]
  BY DEF HandleTypes
<1>8. QED
  BY ONLY <1>1, <1>2, <1>3, <1>4, <1>5, <1>6, <1>7

HandleStep(h) ==
    \/ OpenBatch(h) \/ OpenMigrated(h) \/ ListWals(h) \/ ReadWal(h) \/ ReadBdw4(h)
    \/ RepairTail(h) \/ WriteBatch(h) \/ WriteAll(h) \/ Commit(h)
    \/ WriteFails(h) \/ Close(h) \/ Crash(h)

LEMMA HandleStepUpdates ==
  ASSUME HandleTypes, NEW h \in Handles, HandleStep(h)
  PROVE  Updated(h)
<1>1. /\ (\E v : at' = [at EXCEPT ![h] = v]) \/ at' = at
      /\ (\E v : st' = [st EXCEPT ![h] = v]) \/ st' = st
      /\ (\E v : last' = [last EXCEPT ![h] = v]) \/ last' = last
      /\ (\E v : todo' = [todo EXCEPT ![h] = v]) \/ todo' = todo
      /\ (\E v : good' = [good EXCEPT ![h] = v]) \/ good' = good
      /\ (\E v : cur' = [cur EXCEPT ![h] = v]) \/ cur' = cur
      /\ (\E v : begun' = [begun EXCEPT ![h] = v]) \/ begun' = begun
  <2>1. CASE OpenBatch(h) \/ OpenMigrated(h)
    BY <2>1, Zenon DEF OpenBatch, OpenMigrated, Begins, Go
  <2>2. CASE ListWals(h)
    BY <2>2, Zenon DEF ListWals, Go
  <2>3. CASE ReadWal(h)
    BY <2>3, Zenon DEF ReadWal, ReplayWal, Closed, Go
  <2>4. CASE ReadBdw4(h)
    BY <2>4, Zenon DEF ReadBdw4, Closed, Go
  <2>5. CASE RepairTail(h)
    BY <2>5, Zenon DEF RepairTail, Go
  <2>6. CASE WriteBatch(h)
    BY <2>6, Zenon DEF WriteBatch, AppendTo, Go
  <2>7. CASE WriteAll(h)
    BY <2>7, Zenon DEF WriteAll, Go
  <2>8. CASE Commit(h)
    BY <2>8, Zenon DEF Commit, Applied, Go
  <2>9. CASE WriteFails(h)
    BY <2>9, Zenon DEF WriteFails, Go
  <2>10. CASE Close(h) \/ Crash(h)
    BY <2>10, Zenon DEF Close, Crash, Closed, Go
  <2>11. QED
    BY <2>1, <2>2, <2>3, <2>4, <2>5, <2>6, <2>7, <2>8, <2>9, <2>10 DEF HandleStep
<1>2. QED
  BY <1>1, SameIsUpdated DEF Updated

LEMMA UpdatedOthers ==
  ASSUME HandleTypes, NEW h \in Handles, Updated(h)
  PROVE  Others(h)
<1>1. ASSUME NEW g \in Handles \ {h}
      PROVE  /\ at'[g] = at[g] /\ st'[g] = st[g] /\ last'[g] = last[g] /\ todo'[g] = todo[g]
             /\ good'[g] = good[g] /\ cur'[g] = cur[g] /\ begun'[g] = begun[g]
  <2>1. at'[g] = at[g]
    BY DEF HandleTypes, Updated
  <2>2. st'[g] = st[g]
    BY DEF HandleTypes, Updated
  <2>3. last'[g] = last[g]
    BY DEF HandleTypes, Updated
  <2>4. todo'[g] = todo[g]
    BY DEF HandleTypes, Updated
  <2>5. good'[g] = good[g]
    BY DEF HandleTypes, Updated
  <2>6. cur'[g] = cur[g]
    BY DEF HandleTypes, Updated
  <2>7. begun'[g] = begun[g]
    BY DEF HandleTypes, Updated
  <2>8. QED
    BY <2>1, <2>2, <2>3, <2>4, <2>5, <2>6, <2>7
<1>2. QED
  BY <1>1 DEF Others

PointTypes(h) ==
    /\ at[h] \in Steps /\ st[h] \in Seq(Num) /\ last[h] \in Nat /\ todo[h] \subseteq 1..MaxSeg
    /\ good[h] \in Nat /\ cur[h] \in Item /\ begun[h] \in Nat

LEMMA TypesFromStep ==
  ASSUME HandleTypes, NEW h \in Handles, Updated(h), PointTypes(h)', HandleInv(h)',
         n' \in 0..(MaxV1 + MaxBatch), Len(v1') \in 0..MaxV1
  PROVE  HandleTypes'
<1>1. last'[h] \in 0..(MaxV1 + MaxBatch) /\ begun'[h] \in 0..MaxV1
  <2>1. last'[h] \in Nat /\ last'[h] <= n' /\ begun'[h] \in Nat /\ begun'[h] <= Len(v1')
    BY DEF PointTypes, HandleInv, ReadingOf
  <2>2. QED
    BY <2>1, SharedAssumption DEF SharedAssumption
<1>2. at' \in [Handles -> Steps]
  BY DEF HandleTypes, Updated, PointTypes
<1>3. st' \in [Handles -> Seq(Num)]
  BY DEF HandleTypes, Updated, PointTypes
<1>4. last' \in [Handles -> 0..(MaxV1 + MaxBatch)]
  BY <1>1 DEF HandleTypes, Updated
<1>5. todo' \in [Handles -> SUBSET (1..MaxSeg)]
  BY DEF HandleTypes, Updated, PointTypes
<1>6. good' \in [Handles -> Nat]
  BY DEF HandleTypes, Updated, PointTypes
<1>7. cur' \in [Handles -> Item]
  BY DEF HandleTypes, Updated, PointTypes
<1>8. begun' \in [Handles -> 0..MaxV1]
  BY <1>1 DEF HandleTypes, Updated
<1>9. QED
  BY <1>2, <1>3, <1>4, <1>5, <1>6, <1>7, <1>8 DEF HandleTypes

LEMMA CountersKept ==
  ASSUME DirTypeOK, DirNext
  PROVE  taint' \subseteq Taints /\ opens' \in 0..MaxOpen /\ faults' \in 0..MaxFault
         /\ taint \subseteq taint'
<1>1. /\ taint \subseteq Taints /\ opens \in 0..MaxOpen /\ faults \in 0..MaxFault
      /\ MaxOpen \in Nat /\ MaxFault \in Nat
  BY SharedAssumption DEF DirTypeOK, Taints, SharedAssumption
<1>2. CASE V1Put \/ V1Checkpoint
  BY <1>1, <1>2 DEF V1Put, V1Checkpoint, Taint, Taints
<1>3. ASSUME NEW h \in Handles, OpenBatch(h) \/ OpenMigrated(h)
      PROVE  taint' \subseteq Taints /\ opens' \in 0..MaxOpen /\ faults' \in 0..MaxFault
             /\ taint \subseteq taint'
  <2>1. opens' = opens + 1 /\ opens < MaxOpen /\ faults' = faults
        /\ (taint' = taint \cup {"shared"} \/ taint' = taint)
    BY <1>3, Zenon DEF OpenBatch, OpenMigrated, Begins, Taint
  <2>2. opens' \in 0..MaxOpen /\ faults' \in 0..MaxFault
    BY <1>1, <2>1
  <2>3. taint \subseteq taint' /\ taint' \subseteq taint \cup {"shared"}
    BY <2>1
  <2>4. "shared" \in Taints
    BY DEF Taints
  <2>5. QED
    BY <1>1, <2>2, <2>3, <2>4, Zenon
<1>4. ASSUME NEW h \in Handles, ListWals(h) \/ ReadWal(h) \/ ReadBdw4(h) \/ RepairTail(h) \/ WriteAll(h)
                                \/ Commit(h) \/ Close(h)
      PROVE  UNCHANGED <<taint, opens, faults>>
  BY <1>4 DEF ListWals, ReadWal, ReadBdw4, RepairTail, WriteAll, Commit, Close
<1>5. ASSUME NEW h \in Handles, WriteBatch(h)
      PROVE  UNCHANGED <<taint, opens>> /\ faults' \in 0..MaxFault
  BY <1>1, <1>5 DEF WriteBatch, AppendTo
<1>6. ASSUME NEW h \in Handles, WriteFails(h) \/ Crash(h)
      PROVE  taint' \subseteq Taints /\ opens' \in 0..MaxOpen /\ faults' \in 0..MaxFault
             /\ taint \subseteq taint'
  <2>1. opens' = opens /\ (taint' = taint \cup {"failed"} \/ taint' = taint)
        /\ (faults' = faults \/ (faults' = faults + 1 /\ faults < MaxFault))
    <3>1. at[h] = "rest" => faults' = faults
      BY <1>6, Zenon DEF WriteFails, Crash, Fault
    <3>2. at[h] # "rest" => faults' = faults + 1 /\ faults < MaxFault
      BY <1>6, Zenon DEF WriteFails, Crash, Fault
    <3>3. opens' = opens /\ (taint' = taint \cup {"failed"} \/ taint' = taint)
      BY <1>6, Zenon DEF WriteFails, Crash, Taint
    <3>4. QED
      BY <3>1, <3>2, <3>3
  <2>2. opens' \in 0..MaxOpen /\ faults' \in 0..MaxFault
    BY <1>1, <2>1
  <2>3. taint \subseteq taint' /\ taint' \subseteq taint \cup {"failed"}
    BY <2>1
  <2>4. "failed" \in Taints
    BY DEF Taints
  <2>5. QED
    BY <1>1, <2>2, <2>3, <2>4, Zenon
<1>7. QED
  BY <1>1, <1>2, <1>3, <1>4, <1>5, <1>6 DEF DirNext

\* What the step of a handle keeps, when its own values and the log are right
LEMMA StepKeepsBase ==
  ASSUME Base, DirNext, NEW h \in Handles, Updated(h), PointTypes(h)', HandleInv(h)', Numbers',
         items' \in Seq(Item), n' \in 0..(MaxV1 + MaxBatch), n <= n',
         v1' = v1, snapSeq' = snapSeq, segs' = segs, ck' = ck
  PROVE  Base'
<1>1. DirTypeOK /\ Files /\ Numbers /\ \A g \in Handles : HandleInv(g)
  BY DEF Base, HandleInv
<1>2. HandleTypes /\ v1 \in Seq(Num) /\ Len(v1) \in Nat /\ n \in Nat /\ n' \in Nat
  BY <1>1, HandleTypesAre, Values
<1>3. Files'
  BY <1>1 DEF Files, Newest
<1>4. Len(v1') \in 0..MaxV1
  <2>1. Len(v1) <= MaxV1
    BY <1>1 DEF Files
  <2>2. QED
    BY <1>2, <2>1, SharedAssumption DEF SharedAssumption
<1>5. HandleTypes'
  BY <1>2, <1>4, TypesFromStep
<1>6. taint' \subseteq Taints /\ opens' \in 0..MaxOpen /\ faults' \in 0..MaxFault
  BY <1>1, CountersKept
<1>7. acked' \subseteq Num
  <2>1. acked' \subseteq 1..n'
    BY DEF Numbers
  <2>2. QED
    BY <2>1, SharedAssumption DEF SharedAssumption, Num
<1>8. DirTypeOK'
  <2>1. /\ v1' \in Seq(Num) /\ snapSeq' \in 0..MaxV1 /\ ck' \in {"none", "create", "header", "remove"}
        /\ DOMAIN segs' \subseteq 1..MaxSeg /\ \A s \in DOMAIN segs' : segs'[s] \in Segment
    BY <1>1 DEF DirTypeOK
  <2>2. QED
    BY <1>5, <1>6, <1>7, <2>1 DEF DirTypeOK, HandleTypes, Steps, Taints
<1>9. ASSUME NEW g \in Handles PROVE HandleInv(g)'
  <2>1. CASE g = h
    BY <2>1
  <2>2. CASE g # h
    <3>1. Others(h)
      BY <1>2, UpdatedOthers
    <3>2. /\ at'[g] = at[g] /\ st'[g] = st[g] /\ last'[g] = last[g] /\ todo'[g] = todo[g]
          /\ cur'[g] = cur[g] /\ begun'[g] = begun[g]
      BY <2>2, <3>1 DEF Others
    <3>3. QED
      BY <1>1, <1>2, <3>2, IdleHandle
  <2>3. QED
    BY <2>1, <2>2
<1>10. QED
  BY <1>3, <1>8, <1>9 DEF Base, HandleInv

LEMMA BaseInit == DirInit => Base
<1> SUFFICES ASSUME DirInit PROVE Base
  OBVIOUS
<1>1. /\ v1 = <<>> /\ snapSeq = 0 /\ ck = "none" /\ items = <<>> /\ n = 0 /\ acked = {} /\ taint = {}
      /\ opens = 0 /\ faults = 0
  BY DEF DirInit
<1>2. /\ MaxV1 \in Nat /\ MaxBatch \in Nat /\ MaxSeg \in Nat \ {0} /\ MaxOpen \in Nat /\ MaxFault \in Nat
  BY SharedAssumption DEF SharedAssumption
<1>3. /\ DOMAIN segs = {1} /\ segs[1].first = 1 /\ segs[1].last = 0 /\ segs[1] \in Segment
  BY <1>2 DEF DirInit, Segment
<1>4. Newest = 1
  <2>1. PICK S : S = DOMAIN segs
    OBVIOUS
  <2>2. (CHOOSE s \in S : \A t \in S : t <= s) = 1
    BY <1>3, <2>1, NewestIs
  <2>3. QED
    BY <2>1, <2>2 DEF Newest
<1>5. ASSUME NEW h \in Handles
      PROVE  /\ at[h] = "closed" /\ st[h] = <<>> /\ last[h] = 0 /\ todo[h] = {} /\ good[h] = 0
             /\ cur[h] = NoItem /\ begun[h] = 0
  BY DEF DirInit, ForAll
<1>6. HandleTypes
  <2>1. NoItem \in Item /\ <<>> \in Seq(Num)
    BY ZerosIs, EmptyIs
  <2>2. at \in [Handles -> Steps]
    BY DEF DirInit, ForAll, Steps
  <2>3. st \in [Handles -> Seq(Num)] /\ cur \in [Handles -> Item]
    BY <2>1 DEF DirInit, ForAll
  <2>4. last \in [Handles -> 0..(MaxV1 + MaxBatch)] /\ begun \in [Handles -> 0..MaxV1]
    BY <1>2 DEF DirInit, ForAll
  <2>5. todo \in [Handles -> SUBSET (1..MaxSeg)] /\ good \in [Handles -> Nat]
    BY DEF DirInit, ForAll
  <2>6. QED
    BY <2>2, <2>3, <2>4, <2>5 DEF HandleTypes
<1>7. DirTypeOK
  <2>1. v1 \in Seq(Num) /\ items \in Seq(Item) /\ acked \subseteq Num
        /\ taint \subseteq {"forked", "raced", "shared", "failed"}
    BY <1>1, EmptyIs
  <2>2. snapSeq \in 0..MaxV1 /\ n \in 0..(MaxV1 + MaxBatch) /\ opens \in 0..MaxOpen /\ faults \in 0..MaxFault
    BY <1>1, <1>2
  <2>3. DOMAIN segs \subseteq 1..MaxSeg /\ \A s \in DOMAIN segs : segs[s] \in Segment
    BY <1>2, <1>3
  <2>4. ck \in {"none", "create", "header", "remove"}
    BY <1>1
  <2>5. QED
    BY <1>6, <2>1, <2>2, <2>3, <2>4 DEF DirTypeOK, HandleTypes, Steps
<1>8. Files
  <2>1. Len(v1) = 0
    BY <1>1, EmptyIs
  <2>2. QED
    BY <1>1, <1>2, <1>3, <1>4, <2>1 DEF Files
<1>9. Numbers
  <2>1. Len(v1) = 0 /\ DOMAIN v1 = {} /\ DOMAIN items = {}
    BY <1>1, EmptyIs
  <2>2. QED
    BY <1>1, <1>2, <2>1 DEF Numbers, Batches, Increasing
<1>10. ASSUME NEW h \in Handles PROVE FrameOf(h) /\ ReadingOf(h)
  <2>1. Len(v1) = 0 /\ DOMAIN st[h] = {}
    BY <1>1, <1>5, EmptyIs
  <2>2. FrameOf(h) /\ ~Replayed(h)
    BY <1>5 DEF FrameOf, Writing, Replayed, Up
  <2>3. Increasing(st[h])
    BY <2>1 DEF Increasing
  <2>4. QED
    BY <1>1, <1>5, <2>1, <2>2, <2>3 DEF ReadingOf
<1>11. QED
  BY <1>7, <1>8, <1>9, <1>10 DEF Base

LEMMA BaseIs ==
  ASSUME Base
  PROVE  DirTypeOK /\ Files /\ Numbers /\ HandleTypes /\ \A h \in Handles : HandleInv(h)
  BY HandleTypesAre DEF Base, HandleInv

\* Steps that do not touch the log
LEMMA QuietKeepsBase ==
  ASSUME Base, DirNext, NEW h \in Handles, HandleStep(h), PointTypes(h)', HandleInv(h)',
         v1' = v1, snapSeq' = snapSeq, segs' = segs, ck' = ck, items' = items, n' = n, acked' = acked
  PROVE  Base'
<1>1. DirTypeOK /\ Numbers /\ HandleTypes
  BY BaseIs
<1>2. Updated(h)
  BY <1>1, HandleStepUpdates
<1>3. Numbers'
  BY <1>1 DEF Numbers, Batches
<1>4. items' \in Seq(Item) /\ n' \in 0..(MaxV1 + MaxBatch)
  BY <1>1 DEF DirTypeOK
<1>5. n <= n'
  BY <1>4, SharedAssumption DEF SharedAssumption
<1>6. QED
  BY <1>2, <1>3, <1>4, <1>5, StepKeepsBase

LEMMA NextOf ==
  ASSUME NEW h \in Handles, HandleStep(h) PROVE DirNext
  BY DEF HandleStep, DirNext

LEMMA OpenKeepsBase ==
  ASSUME Base, NEW h \in Handles, OpenBatch(h) \/ OpenMigrated(h)
  PROVE  Base'
<1>1. DirTypeOK /\ Files /\ Numbers /\ HandleTypes /\ HandleInv(h)
  BY BaseIs
<1>2. HandleStep(h) /\ DirNext
  BY NextOf DEF HandleStep
<1>3. PICK ops, step : /\ Begins(h, ops, step) /\ step \in {"replay", "list"}
                       /\ (ops = <<>> \/ ops = V1Ops(1, snapSeq))
  BY DEF OpenBatch, OpenMigrated
<1>4. /\ at'[h] = step /\ st'[h] = ops /\ last'[h] = Len(ops)
      /\ begun'[h] = Len(v1) /\ todo'[h] = todo[h] /\ good'[h] = good[h] /\ cur'[h] = cur[h]
      /\ UNCHANGED <<v1, snapSeq, segs, ck, items, n, acked>>
  BY <1>1, <1>3, OpenIs
<1>5. ops \in Seq(Num)
  BY <1>1, <1>3, EmptyIs, SnapshotIs
<1>6. PointTypes(h)'
  <2>1. Len(ops) \in Nat /\ Len(v1) \in Nat
    BY <1>1, <1>5, LenProperties, Values
  <2>2. todo[h] \subseteq 1..MaxSeg /\ good[h] \in Nat /\ cur[h] \in Item
    BY <1>1, HandleValues
  <2>3. QED
    BY <1>3, <1>4, <1>5, <2>1, <2>2 DEF PointTypes, Steps
<1>7. HandleInv(h)'
  BY <1>1, OpenHandle
<1>8. QED
  BY <1>2, <1>4, <1>6, <1>7, QuietKeepsBase

LEMMA ReadKeepsBase ==
  ASSUME Base, NEW h \in Handles, ListWals(h) \/ ReadWal(h) \/ ReadBdw4(h)
  PROVE  Base'
<1>1. DirTypeOK /\ Files /\ Numbers /\ HandleTypes /\ HandleInv(h)
  BY BaseIs
<1>2. HandleStep(h) /\ DirNext
  BY NextOf DEF HandleStep
<1>3. /\ at[h] \in Steps /\ st[h] \in Seq(Num) /\ last[h] \in Nat /\ todo[h] \subseteq 1..MaxSeg
      /\ good[h] \in Nat /\ cur[h] \in Item /\ begun[h] \in Nat
  BY <1>1, HandleValues
<1>4. NoItem \in Item /\ {} \subseteq 1..MaxSeg
  BY ZerosIs
<1>5. Quiet /\ HandleInv(h)' /\ PointTypes(h)'
  <2>1. CASE ListWals(h)
    <3>1. /\ at'[h] = "wal" /\ todo'[h] = DOMAIN segs /\ Quiet
          /\ st'[h] = st[h] /\ last'[h] = last[h] /\ good'[h] = good[h] /\ cur'[h] = cur[h]
          /\ begun'[h] = begun[h]
      BY <1>1, <2>1, ListWalsIs
    <3>2. DOMAIN segs \subseteq 1..MaxSeg
      BY <1>1 DEF DirTypeOK
    <3>3. HandleInv(h)'
      BY <1>1, <2>1, ListHandle
    <3>4. QED
      BY <1>3, <3>1, <3>2, <3>3 DEF PointTypes, Steps
  <2>2. CASE ReadWal(h)
    <3>1. /\ Quiet /\ begun'[h] \in Nat /\ todo'[h] \subseteq 1..MaxSeg
          /\ good'[h] \in Nat /\ cur'[h] \in Item
      <4>1. CASE Ended(h)
        BY <1>1, <1>3, <1>4, <2>2, <4>1, ReadWalIs DEF Ended
      <4>2. CASE ~Ended(h)
        <5>1. /\ Quiet /\ good'[h] = good[h] /\ cur'[h] = cur[h] /\ begun'[h] = begun[h]
              /\ todo'[h] \subseteq todo[h]
          BY <1>1, <2>2, <4>2, ReadWalIs
        <5>2. QED
          BY <1>3, <5>1
      <4>3. QED
        BY <4>1, <4>2
    <3>2. HandleInv(h)' /\ at'[h] \in {"closed", "wal"} /\ st'[h] \in Seq(Num) /\ last'[h] \in Nat
      BY <1>1, <2>2, ReadWalHandle
    <3>3. QED
      BY <3>1, <3>2 DEF PointTypes, Steps
  <2>3. CASE ReadBdw4(h)
    <3>1. /\ Quiet /\ begun'[h] \in Nat /\ todo'[h] \subseteq 1..MaxSeg /\ cur'[h] \in Item
      <4>1. CASE Ended(h)
        BY <1>1, <1>3, <1>4, <2>3, <4>1, ReadBdw4Is DEF Ended
      <4>2. CASE ~Ended(h)
        <5>1. Quiet /\ cur'[h] = cur[h] /\ begun'[h] = begun[h] /\ todo'[h] = todo[h]
          BY <1>1, <2>3, <4>2, ReadBdw4Is
        <5>2. QED
          BY <1>3, <5>1
      <4>3. QED
        BY <4>1, <4>2
    <3>2. /\ HandleInv(h)' /\ at'[h] \in {"closed", "repair", "idle"} /\ st'[h] \in Seq(Num)
          /\ last'[h] \in Nat /\ good'[h] \in Nat
      BY <1>1, <2>3, ReadBdw4Handle
    <3>3. QED
      BY <3>1, <3>2 DEF PointTypes, Steps
  <2>4. QED
    BY <2>1, <2>2, <2>3
<1>6. /\ v1' = v1 /\ snapSeq' = snapSeq /\ segs' = segs /\ ck' = ck /\ items' = items /\ n' = n
      /\ acked' = acked
  BY <1>5 DEF Quiet
<1>7. QED
  BY <1>2, <1>5, <1>6, QuietKeepsBase

LEMMA EndKeepsBase ==
  ASSUME Base, NEW h \in Handles, Close(h) \/ Crash(h) \/ WriteFails(h)
  PROVE  Base'
<1>1. DirTypeOK /\ Files /\ Numbers /\ HandleTypes /\ HandleInv(h)
  BY BaseIs
<1>2. HandleStep(h) /\ DirNext
  BY NextOf DEF HandleStep
<1>3. /\ st[h] \in Seq(Num) /\ last[h] \in Nat /\ todo[h] \subseteq 1..MaxSeg
      /\ good[h] \in Nat /\ begun[h] \in Nat
  BY <1>1, HandleValues
<1>4. NoItem \in Item /\ {} \subseteq 1..MaxSeg /\ <<>> \in Seq(Num)
  BY ZerosIs, EmptyIs
<1>5. /\ v1' = v1 /\ snapSeq' = snapSeq /\ segs' = segs /\ ck' = ck /\ items' = items /\ n' = n
      /\ acked' = acked /\ HandleInv(h)' /\ PointTypes(h)'
  <2>1. CASE Close(h) \/ Crash(h)
    <3>1. Ended(h) /\ Quiet
      BY <1>1, <2>1, EndIs
    <3>2. /\ v1' = v1 /\ snapSeq' = snapSeq /\ segs' = segs /\ ck' = ck /\ items' = items /\ n' = n
          /\ acked' = acked
      BY <3>1 DEF Quiet
    <3>3. HandleInv(h)'
      BY <1>1, <3>1, <3>2, EndedHandle
    <3>4. PointTypes(h)'
      BY <1>3, <1>4, <3>1 DEF Ended, PointTypes, Steps
    <3>5. QED
      BY <3>2, <3>3, <3>4
  <2>2. CASE WriteFails(h)
    <3>1. /\ at'[h] = "idle" /\ cur'[h] = NoItem
          /\ todo'[h] = todo[h] /\ st'[h] = st[h] /\ last'[h] = last[h] /\ good'[h] = good[h]
          /\ begun'[h] = begun[h]
          /\ UNCHANGED <<v1, snapSeq, segs, ck, items, n, acked, begun>>
      BY <1>1, <2>2, WriteFailsIs
    <3>2. HandleInv(h)'
      BY <1>1, <2>2, FailsHandle
    <3>3. PointTypes(h)'
      BY <1>3, <1>4, <3>1 DEF PointTypes, Steps
    <3>4. QED
      BY <3>1, <3>2, <3>3
  <2>3. QED
    BY <2>1, <2>2
<1>6. QED
  BY <1>2, <1>5, QuietKeepsBase

LEMMA RepairKeepsBase ==
  ASSUME Base, NEW h \in Handles, RepairTail(h) \/ WriteAll(h)
  PROVE  Base'
<1>1. DirTypeOK /\ Files /\ Numbers /\ HandleTypes /\ HandleInv(h)
  BY BaseIs
<1>2. HandleStep(h) /\ DirNext
  BY NextOf DEF HandleStep
<1>3. /\ st[h] \in Seq(Num) /\ last[h] \in Nat /\ todo[h] \subseteq 1..MaxSeg
      /\ good[h] \in Nat /\ begun[h] \in Nat /\ cur[h] \in Item
  BY <1>1, HandleValues
<1>4. /\ at'[h] \in {"idle", "sync"} /\ todo'[h] = todo[h] /\ st'[h] = st[h] /\ last'[h] = last[h]
      /\ good'[h] = good[h] /\ cur'[h] = cur[h] /\ begun'[h] = begun[h]
      /\ UNCHANGED <<v1, snapSeq, segs, ck, n, acked, taint, begun>>
  <2>1. CASE RepairTail(h)
    BY <1>1, <2>1, RepairTailIs
  <2>2. CASE WriteAll(h)
    BY <1>1, <2>2, WriteAllIs
  <2>3. QED
    BY <2>1, <2>2
<1>5. PointTypes(h)'
  BY <1>3, <1>4 DEF PointTypes, Steps
<1>6. HandleInv(h)'
  BY <1>1, RepairHandle, WriteAllHandle
<1>7. Numbers' /\ items' \in Seq(Item)
  BY <1>1, RepairKeepsNumbers, WriteAllKeepsNumbers DEF HandleInv
<1>8. n' \in 0..(MaxV1 + MaxBatch) /\ n <= n'
  <2>1. n \in 0..(MaxV1 + MaxBatch)
    BY <1>1 DEF DirTypeOK
  <2>2. n \in Nat
    BY <1>1, Values
  <2>3. QED
    BY <1>4, <2>1, <2>2
<1>9. Updated(h)
  BY <1>1, <1>2, HandleStepUpdates
<1>10. QED
  BY <1>2, <1>4, <1>5, <1>6, <1>7, <1>8, <1>9, StepKeepsBase

LEMMA WriteKeepsBase ==
  ASSUME Base, NEW h \in Handles, WriteBatch(h)
  PROVE  Base'
<1>1. DirTypeOK /\ Files /\ Numbers /\ HandleTypes /\ HandleInv(h)
  BY BaseIs
<1>2. HandleStep(h) /\ DirNext
  BY NextOf DEF HandleStep
<1>3. /\ st[h] \in Seq(Num) /\ last[h] \in Nat /\ todo[h] \subseteq 1..MaxSeg
      /\ good[h] \in Nat /\ begun[h] \in Nat /\ n \in Nat
  BY <1>1, HandleValues, Values
<1>4. /\ at'[h] \in {"rest", "sync"} /\ todo'[h] = todo[h] /\ st'[h] = st[h] /\ last'[h] = last[h]
      /\ good'[h] = good[h] /\ begun'[h] = begun[h] /\ n' = n + 1
      /\ UNCHANGED <<v1, snapSeq, segs, ck, acked, taint, begun>>
  BY <1>1, WriteBatchIs
<1>5. HandleInv(h)' /\ cur'[h] \in Item
  BY <1>1, WriteHandle
<1>6. PointTypes(h)'
  BY <1>3, <1>4, <1>5 DEF PointTypes, Steps
<1>7. Numbers' /\ n' \in 0..(MaxV1 + MaxBatch) /\ items' \in Seq(Item)
  <2>1. ReadingOf(h)
    BY <1>1 DEF HandleInv
  <2>2. /\ Numbers' /\ n' \in 0..(MaxV1 + MaxBatch)
        /\ \E x \in Item : items' = Append(items, x)
    BY <1>1, <2>1, WriteKeepsNumbers
  <2>3. items \in Seq(Item)
    BY <1>1, Values
  <2>4. QED
    BY <1>1, <2>2, <2>3, AppendIs
<1>8. n <= n'
  BY <1>3, <1>4
<1>9. Updated(h)
  BY <1>1, <1>2, HandleStepUpdates
<1>10. QED
  BY <1>2, <1>4, <1>5, <1>6, <1>7, <1>8, <1>9, StepKeepsBase

LEMMA CommitKeepsBase ==
  ASSUME Base, NEW h \in Handles, Commit(h)
  PROVE  Base'
<1>1. DirTypeOK /\ Files /\ Numbers /\ HandleTypes /\ HandleInv(h)
  BY BaseIs
<1>2. HandleStep(h) /\ DirNext
  BY NextOf DEF HandleStep
<1>3. /\ todo[h] \subseteq 1..MaxSeg /\ good[h] \in Nat /\ begun[h] \in Nat /\ n \in Nat
      /\ cur[h].num \in Nat
  BY <1>1, HandleValues, Values
<1>4. /\ at'[h] = "idle" /\ acked' = acked \cup {cur[h].num} /\ cur'[h] = NoItem
      /\ todo'[h] = todo[h] /\ good'[h] = good[h] /\ begun'[h] = begun[h]
      /\ UNCHANGED <<v1, snapSeq, segs, ck, items, n, taint, begun>>
  BY <1>1, CommitIs
<1>5. /\ HandleInv(h)' /\ cur[h].num \in Num /\ cur[h].num <= n
      /\ st'[h] \in Seq(Num) /\ last'[h] \in Nat
  BY <1>1, CommitHandle
<1>6. PointTypes(h)'
  BY <1>3, <1>4, <1>5, ZerosIs DEF PointTypes, Steps
<1>7. Numbers' /\ n' \in 0..(MaxV1 + MaxBatch) /\ items' \in Seq(Item)
  <2>1. cur[h].num > 0
    BY <1>5, SharedAssumption DEF SharedAssumption, Num
  <2>2. acked' \subseteq 1..n
    <3>1. acked \subseteq 1..n
      BY <1>1 DEF Numbers
    <3>2. cur[h].num \in 1..n
      BY <1>3, <1>5, <2>1
    <3>3. QED
      BY <1>4, <3>1, <3>2
  <2>3. Numbers'
    BY <1>1, <1>4, <2>2 DEF Numbers, Batches
  <2>4. QED
    BY <1>1, <1>4, <2>3 DEF DirTypeOK
<1>8. n <= n'
  BY <1>3, <1>4
<1>9. Updated(h)
  BY <1>1, <1>2, HandleStepUpdates
<1>10. QED
  BY <1>2, <1>4, <1>5, <1>6, <1>7, <1>8, <1>9, StepKeepsBase

LEMMA V1KeepsBase ==
  ASSUME Base, V1Put \/ V1Checkpoint
  PROVE  Base'
<1>1. DirTypeOK /\ Files /\ Numbers /\ HandleTypes /\ \A h \in Handles : HandleInv(h)
  BY BaseIs
<1>2. taint' \subseteq Taints /\ opens' \in 0..MaxOpen /\ faults' \in 0..MaxFault
  BY <1>1, CountersKept DEF DirNext
<1>3. /\ items' = items /\ acked' = acked /\ HandlesSame
      /\ v1' \in Seq(Num) /\ n' \in 0..(MaxV1 + MaxBatch) /\ Numbers' /\ SegTypes' /\ Files'
      /\ \A h \in Handles : HandleInv(h)'
  <2>1. CASE V1Put
    BY <1>1, <2>1, V1PutIs, PutKeepsNumbers, PutKeepsFiles, PutKeepsHandle
  <2>2. CASE V1Checkpoint
    <3>1. UNCHANGED <<v1, items, n, acked>> /\ HandlesSame
      BY <2>2, V1CheckpointIs
    <3>2. SegTypes' /\ Files'
      BY <1>1, <2>2, CheckpointKeepsFiles
    <3>3. Numbers'
      BY <1>1, <3>1 DEF Numbers, Batches
    <3>4. v1' \in Seq(Num) /\ n' \in 0..(MaxV1 + MaxBatch)
      BY <1>1, <3>1 DEF DirTypeOK
    <3>5. n \in Nat
      BY <1>1, Values
    <3>6. ASSUME NEW h \in Handles PROVE HandleInv(h)'
      <4>1. /\ at'[h] = at[h] /\ st'[h] = st[h] /\ last'[h] = last[h] /\ todo'[h] = todo[h]
            /\ cur'[h] = cur[h] /\ begun'[h] = begun[h] /\ v1' = v1 /\ n' \in Nat /\ n <= n'
        BY <3>1, <3>5 DEF HandlesSame
      <4>2. QED
        BY <1>1, <4>1, IdleHandle
    <3>7. QED
      BY <3>1, <3>2, <3>3, <3>4, <3>6
  <2>3. QED
    BY <2>1, <2>2
<1>4. HandleTypes'
  BY <1>1, <1>3 DEF HandleTypes, HandlesSame
<1>5. items' \in Seq(Item) /\ acked' \subseteq Num
  BY <1>1, <1>3 DEF DirTypeOK
<1>6. DirTypeOK'
  BY <1>2, <1>3, <1>4, <1>5 DEF DirTypeOK, SegTypes, HandleTypes, Steps, Taints
<1>7. QED
  BY <1>3, <1>6 DEF Base, HandleInv

LEMMA BaseStep == Base /\ [DirNext]_dirVars => Base'
<1> SUFFICES ASSUME Base, [DirNext]_dirVars PROVE Base'
  OBVIOUS
<1>1. CASE V1Put \/ V1Checkpoint
  BY <1>1, V1KeepsBase
<1>2. ASSUME NEW h \in Handles, HandleStep(h) PROVE Base'
  BY <1>2, OpenKeepsBase, ReadKeepsBase, EndKeepsBase, RepairKeepsBase, WriteKeepsBase, CommitKeepsBase
     DEF HandleStep
<1>3. CASE UNCHANGED dirVars
  <2>1. DirTypeOK /\ Files /\ Numbers /\ \A h \in Handles : HandleInv(h)
    BY BaseIs
  <2>2. /\ UNCHANGED <<v1, snapSeq, segs, ck, items, n, acked>> /\ UNCHANGED <<taint, begun, opens, faults>>
        /\ UNCHANGED <<at, st, last, todo, good, cur>>
    BY <1>3 DEF dirVars, v1Vars, hVars
  <2>3. n \in Nat
    BY <2>1, Values
  <2>4. DirTypeOK'
    BY <2>1, <2>2 DEF DirTypeOK
  <2>5. Files'
    BY <2>1, <2>2 DEF Files, Newest
  <2>6. Numbers'
    BY <2>1, <2>2 DEF Numbers, Batches
  <2>7. ASSUME NEW h \in Handles PROVE HandleInv(h)'
    BY <2>1, <2>2, <2>3, IdleHandle
  <2>8. QED
    BY <2>4, <2>5, <2>6, <2>7 DEF Base, HandleInv
<1>4. QED
  BY <1>1, <1>2, <1>3 DEF DirNext, HandleStep

-----------------------------------------------------------------------------
(* What a handle has read of v1                                            *)

LEMMA StepIs ==
  ASSUME Base, NEW h \in Handles, HandleStep(h)
  PROVE  Others(h) /\ taint \subseteq taint' /\ UNCHANGED <<v1, snapSeq, segs, ck>>
<1>1. DirTypeOK /\ HandleTypes /\ DirNext
  BY BaseIs, NextOf
<1>2. Others(h)
  BY <1>1, HandleStepUpdates, UpdatedOthers
<1>3. taint \subseteq taint'
  BY <1>1, CountersKept
<1>4. CASE OpenBatch(h) \/ OpenMigrated(h) \/ ListWals(h) \/ ReadWal(h) \/ ReadBdw4(h) \/ RepairTail(h)
  BY <1>2, <1>3, <1>4 DEF OpenBatch, OpenMigrated, Begins, ListWals, ReadWal, ReadBdw4, RepairTail, v1Vars
<1>5. CASE WriteBatch(h) \/ WriteAll(h) \/ Commit(h) \/ WriteFails(h) \/ Close(h) \/ Crash(h)
  BY <1>2, <1>3, <1>5 DEF WriteBatch, WriteAll, Commit, WriteFails, Close, Crash, v1Vars
<1>6. QED
  BY <1>4, <1>5 DEF HandleStep

LEMMA UnracedSame ==
  ASSUME NEW g \in Handles, UnracedOf(g),
         at'[g] = at[g], st'[g] = st[g], last'[g] = last[g], todo'[g] = todo[g], begun'[g] = begun[g],
         v1' = v1, snapSeq' = snapSeq, segs' = segs
  PROVE  UnracedOf(g)'
  BY DEF UnracedOf, StartsWith, Newest, Replayed, Up

LEMMA OpenUnraced ==
  ASSUME Base, NEW h \in Handles, OpenBatch(h) \/ OpenMigrated(h)
  PROVE  UnracedOf(h)'
<1>1. DirTypeOK /\ Files /\ HandleTypes
  BY BaseIs
<1>2. CASE OpenBatch(h)
  <2>1. at'[h] = "replay"
    BY <1>1, <1>2, OpenIs DEF OpenBatch
  <2>2. QED
    BY <2>1 DEF UnracedOf, Replayed, Up
<1>3. CASE OpenMigrated(h)
  <2>1. PICK ops : ops = V1Ops(1, snapSeq)
    OBVIOUS
  <2>2. /\ at'[h] = "list" /\ st'[h] = ops /\ last'[h] = Len(ops) /\ v1' = v1 /\ snapSeq' = snapSeq
    BY <1>1, <1>3, <2>1, OpenIs DEF OpenMigrated
  <2>3. Len(ops) = snapSeq /\ snapSeq \in Nat /\ \A i \in 1..snapSeq : ops[i] = v1[i]
    BY <1>1, <2>1, SnapshotIs DEF DirTypeOK
  <2>4. QED
    BY <2>2, <2>3 DEF UnracedOf, StartsWith, Replayed, Up
<1>4. QED
  BY <1>2, <1>3

LEMMA ListUnraced ==
  ASSUME Base, NEW h \in Handles, UnracedOf(h), ListWals(h)
  PROVE  UnracedOf(h)'
<1>1. DirTypeOK /\ Files /\ HandleTypes
  BY BaseIs
<1>2. /\ at[h] = "list" /\ at'[h] = "wal" /\ todo'[h] = DOMAIN segs
      /\ st'[h] = st[h] /\ last'[h] = last[h] /\ begun'[h] = begun[h] /\ Quiet
  BY <1>1, ListWalsIs
<1>3. Newest' = Newest /\ v1' = v1 /\ snapSeq' = snapSeq /\ segs' = segs /\ Newest \in DOMAIN segs
  BY <1>1, <1>2 DEF Quiet, Newest, Files
<1>4. QED
  BY <1>2, <1>3 DEF UnracedOf, StartsWith, Replayed, Up

LEMMA ReadWalUnraced ==
  ASSUME Base, NEW h \in Handles, UnracedOf(h), ReadWal(h)
  PROVE  UnracedOf(h)'
<1>1. DirTypeOK /\ Files /\ Numbers /\ HandleTypes /\ HandleInv(h)
  BY BaseIs
<1>2. /\ at[h] = "wal" /\ Quiet
      /\ \/ Ended(h)
         \/ \E s \in todo[h] :
              /\ s \in DOMAIN segs /\ todo'[h] = todo[h] \ {s}
              /\ st'[h] = st[h] \o SubSeq(v1, From(h, segs[s]), segs[s].last)
              /\ last'[h] = Behind(h, segs[s])
              /\ at'[h] = at[h] /\ good'[h] = good[h] /\ cur'[h] = cur[h]
              /\ begun'[h] = begun[h] /\ Others(h)
  BY <1>1, ReadWalIs
<1>3. CASE Ended(h)
  BY <1>3 DEF Ended, UnracedOf, Replayed, Up
<1>4. CASE ~Ended(h)
  <2>1. PICK s \in DOMAIN segs :
              /\ st'[h] = st[h] \o SubSeq(v1, From(h, segs[s]), segs[s].last)
              /\ last'[h] = Behind(h, segs[s]) /\ todo'[h] = todo[h] \ {s}
              /\ at'[h] = at[h] /\ begun'[h] = begun[h]
    BY <1>2, <1>4
  <2>2. PICK a, b, m, w, l, k : /\ a = From(h, segs[s]) /\ b = segs[s].last /\ m = last[h]
                                /\ w = st'[h] /\ l = last'[h] /\ k = Len(v1)
    OBVIOUS
  <2>3. ReadOn(w, st[h], a, b) /\ a \in Nat /\ a > m /\ segs[s].first \in Nat /\ b \in Nat /\ b <= k
    BY <1>1, <2>1, <2>2, ReadBehind
  <2>4. /\ snapSeq <= m /\ Len(st[h]) = m /\ StartsWith(st[h], m)
        /\ todo[h] \subseteq DOMAIN segs /\ (Newest \notin todo[h] => begun[h] <= m)
    BY <1>2, <2>2 DEF UnracedOf
  <2>5. m \in Nat /\ k \in Nat /\ m <= k /\ begun[h] \in Nat /\ begun[h] <= k /\ snapSeq \in Nat
    <3>1. m <= k /\ begun[h] <= k
      BY <1>1, <1>2, <2>2 DEF HandleInv, ReadingOf, Replayed, Up
    <3>2. QED
      BY <1>1, <2>2, <3>1, Values, HandleValues DEF DirTypeOK
  <2>6. l = IF b > m THEN b ELSE m
    BY <2>1, <2>2 DEF Behind
  <2>7. s = Newest => a = m + 1 /\ b = k /\ l = k
    <3>1. s = Newest => segs[s].first <= snapSeq + 1 /\ segs[s].last = Len(v1)
      BY <1>1 DEF Files
    <3>2. a = IF m + 1 > segs[s].first THEN m + 1 ELSE segs[s].first
      BY <2>2 DEF From
    <3>3. QED
      BY <2>2, <2>3, <2>4, <2>5, <2>6, <3>1, <3>2
  <2>8. s # Newest => b < a /\ l = m
    <3>1. s # Newest => segs[s].last <= snapSeq
      BY <1>1 DEF Files
    <3>2. QED
      BY <2>2, <2>3, <2>4, <2>5, <2>6, <3>1
  <2>9. snapSeq <= l /\ Len(w) = l /\ m <= l
    <3>1. Len(w) = m + (IF a <= b THEN b - a + 1 ELSE 0)
      BY <2>3, <2>4 DEF ReadOn
    <3>2. QED
      BY <2>3, <2>4, <2>5, <2>7, <2>8, <3>1
  <2>10. ASSUME NEW i \in 1..l PROVE w[i] = v1[i]
    <3>1. l \in Nat
      BY <2>3, <2>5, <2>6
    <3>2. CASE i \in 1..m
      <4>1. w[i] = st[h][i]
        BY <2>3, <2>4, <3>2 DEF ReadOn
      <4>2. QED
        BY <2>4, <3>2, <4>1 DEF StartsWith
    <3>3. CASE ~(i \in 1..m)
      <4>1. i \in (m + 1)..Len(w) /\ a = m + 1
        BY <2>5, <2>7, <2>8, <2>9, <3>1, <3>3
      <4>2. w[i] = v1[(i - m) + a - 1]
        BY <2>3, <2>4, <4>1 DEF ReadOn
      <4>3. (i - m) + a - 1 = i
        BY <2>5, <3>1, <4>1
      <4>4. QED
        BY <4>2, <4>3
    <3>4. QED
      BY <3>2, <3>3
  <2>11. Newest \notin todo'[h] => begun[h] <= l
    <3>1. Newest \notin todo'[h] => Newest \notin todo[h] \/ s = Newest
      BY <2>1
    <3>2. l \in Nat
      BY <2>3, <2>5, <2>6
    <3>3. QED
      BY <2>4, <2>5, <2>7, <2>9, <3>1, <3>2
  <2>12. v1' = v1 /\ snapSeq' = snapSeq /\ segs' = segs /\ Newest' = Newest
    BY <1>2 DEF Quiet, Newest
  <2>13. StartsWith(w, l)'
    BY <2>2, <2>9, <2>10, <2>12 DEF StartsWith
  <2>14. todo'[h] \subseteq DOMAIN segs
    BY <2>1, <2>4
  <2>15. l <= Len(w)
    BY <2>3, <2>5, <2>6, <2>9
  <2>16. StartsWith(st[h], last[h])'
    BY <2>2, <2>9, <2>10, <2>12, <2>15 DEF StartsWith
  <2>17. at'[h] = "wal" /\ begun'[h] = begun[h]
    BY <1>2, <2>1
  <2>18. QED
    BY <2>2, <2>9, <2>11, <2>12, <2>14, <2>16, <2>17 DEF UnracedOf, Replayed, Up
<1>5. QED
  BY <1>3, <1>4

LEMMA ReplayUnraced ==
  ASSUME Base, NEW h \in Handles, UnracedOf(h), ReadBdw4(h)
  PROVE  UnracedOf(h)'
<1>1. DirTypeOK /\ Files /\ Numbers /\ HandleTypes /\ HandleInv(h)
  BY BaseIs
<1>2. /\ at[h] \in {"replay", "wal"} /\ todo[h] = {} /\ Quiet
      /\ \/ Ended(h)
         \/ \E long \in BOOLEAN, r \in {Recovered(st[h], last[h], TRUE), Recovered(st[h], last[h], FALSE)} :
              /\ r = Recovered(st[h], last[h], long) /\ r.end \notin {"gap", "garbage"}
              /\ st'[h] = r.ops /\ last'[h] = r.last /\ good'[h] = r.good
              /\ at'[h] = IF r.end = "torn" THEN "repair" ELSE "idle"
              /\ todo'[h] = todo[h] /\ cur'[h] = cur[h] /\ begun'[h] = begun[h] /\ Others(h)
  BY <1>1, ReadBdw4Is
<1>3. CASE Ended(h)
  BY <1>3 DEF Ended, UnracedOf, Replayed, Up
<1>4. CASE ~Ended(h)
  <2>1. PICK long \in BOOLEAN, r \in {Recovered(st[h], last[h], TRUE), Recovered(st[h], last[h], FALSE)} :
              /\ r = Recovered(st[h], last[h], long)
              /\ st'[h] = r.ops /\ at'[h] \in {"repair", "idle"} /\ begun'[h] = begun[h]
    BY <1>2, <1>4
  <2>2. /\ st[h] \in Seq(Num) /\ last[h] \in Nat /\ begun[h] \in Nat /\ Len(v1) \in Nat
        /\ DOMAIN v1 = 1..Len(v1)
    BY <1>1, HandleValues, Values
  <2>3. last[h] <= n /\ last[h] <= Len(v1)
    BY <1>1, <1>2 DEF HandleInv, ReadingOf, Replayed, Up
  <2>4. r.ops \in Seq(Num) /\ r.good \in Nat /\ r.good <= Len(items) /\ Kept(r, st[h]) /\ Added(r, st[h])
    BY <1>1, <2>1, <2>2, <2>3, RecoveredIs
  <2>5. PICK k, w : k = last[h] /\ w = r.ops
    OBVIOUS
  <2>6. Len(st[h]) = k /\ (\A i \in 1..k : st[h][i] = v1[i]) /\ begun[h] <= k
    <3>1. CASE at[h] = "wal"
      <4>1. Newest \notin todo[h]
        BY <1>2
      <4>2. QED
        BY <2>5, <3>1, <4>1 DEF UnracedOf, StartsWith
    <3>2. CASE at[h] = "replay"
      <4>1. st[h] = <<>> /\ last[h] = 0 /\ begun[h] = 0
        BY <1>1, <3>2 DEF HandleInv, ReadingOf
      <4>2. QED
        BY <2>5, <4>1, EmptyIs
    <3>3. QED
      BY <1>2, <3>1, <3>2
  <2>7. k \in begun[h]..Len(v1) /\ k \in Nat
    BY <2>2, <2>3, <2>5, <2>6
  <2>8. StartsWith(w, k)
    BY <2>4, <2>5, <2>6 DEF Kept, StartsWith
  <2>9. ASSUME NEW i \in (k + 1)..Len(w), NEW l \in DOMAIN v1 PROVE w[i] # v1[l]
    <3>1. PICK j \in 1..r.good : items[j].num = r.ops[i]
      BY <2>4, <2>5, <2>6, <2>9 DEF Added
    <3>2. j \in DOMAIN items
      <4>1. PICK y : y = r.good
        OBVIOUS
      <4>2. Len(items) \in Nat /\ DOMAIN items = 1..Len(items)
        BY <1>1, Values
      <4>3. QED
        BY <2>4, <4>1, <4>2
    <3>3. QED
      BY <1>1, <2>5, <3>1, <3>2 DEF Numbers
  <2>10. v1' = v1
    BY <1>2 DEF Quiet
  <2>11. StartsWith(st[h], k)'
    BY <2>1, <2>5, <2>8, <2>10 DEF StartsWith
  <2>12. \A i \in (k + 1)..Len(st'[h]) : \A l \in DOMAIN v1' : st'[h][i] # v1'[l]
    BY <2>1, <2>5, <2>9, <2>10
  <2>13. k \in begun'[h]..Len(v1')
    BY <2>1, <2>7, <2>10
  <2>14. QED
    BY <2>1, <2>11, <2>12, <2>13 DEF UnracedOf
<1>5. QED
  BY <1>3, <1>4

LEMMA KeepUnraced ==
  ASSUME Base, NEW h \in Handles, UnracedOf(h),
         RepairTail(h) \/ WriteBatch(h) \/ WriteAll(h) \/ WriteFails(h) \/ Close(h) \/ Crash(h)
  PROVE  UnracedOf(h)'
<1>1. HandleTypes
  BY BaseIs
<1>2. CASE RepairTail(h) \/ WriteBatch(h) \/ WriteAll(h) \/ WriteFails(h)
  <2>1. /\ Replayed(h) /\ at'[h] \notin {"list", "wal"} /\ st'[h] = st[h] /\ begun'[h] = begun[h] /\ v1' = v1
    <3>1. CASE RepairTail(h)
      BY <1>1, <3>1, RepairTailIs DEF Replayed, Up
    <3>2. CASE WriteBatch(h)
      BY <1>1, <3>2, WriteBatchIs DEF Replayed, Up
    <3>3. CASE WriteAll(h)
      BY <1>1, <3>3, WriteAllIs DEF Replayed, Up
    <3>4. CASE WriteFails(h)
      BY <1>1, <3>4, WriteFailsIs DEF Replayed, Up
    <3>5. QED
      BY <1>2, <3>1, <3>2, <3>3, <3>4
  <2>2. QED
    BY <2>1 DEF UnracedOf, StartsWith
<1>3. CASE Close(h) \/ Crash(h)
  <2>1. Ended(h)
    BY <1>1, <1>3, EndIs
  <2>2. QED
    BY <2>1 DEF Ended, UnracedOf, Replayed, Up
<1>4. QED
  BY <1>2, <1>3

LEMMA CommitUnraced ==
  ASSUME Base, NEW h \in Handles, UnracedOf(h), Commit(h)
  PROVE  UnracedOf(h)'
<1>1. DirTypeOK /\ Numbers /\ HandleTypes /\ HandleInv(h)
  BY BaseIs
<1>2. at[h] = "sync" /\ at'[h] = "idle" /\ begun'[h] = begun[h] /\ v1' = v1
  BY <1>1, CommitIs
<1>3. PICK w, m : w = st'[h] /\ m = Len(st[h])
  OBVIOUS
<1>4. Len(w) = m + 1 /\ w[m + 1] = cur[h].num /\ \A i \in 1..m : w[i] = st[h][i]
  BY <1>1, <1>3, CommitHandle
<1>5. \A l \in DOMAIN v1 : v1[l] # cur[h].num
  BY <1>1, <1>2 DEF HandleInv, FrameOf, Writing
<1>6. PICK k \in begun[h]..Len(v1) :
          StartsWith(st[h], k) /\ \A i \in (k + 1)..Len(st[h]) : \A l \in DOMAIN v1 : st[h][i] # v1[l]
  BY <1>2 DEF UnracedOf, Replayed, Up
<1>7. m \in Nat /\ k \in Nat /\ k <= m /\ \A i \in 1..k : st[h][i] = v1[i]
  BY <1>1, <1>3, <1>6, HandleValues, Values DEF StartsWith
<1>8. StartsWith(w, k)
  BY <1>4, <1>7 DEF StartsWith
<1>9. \A i \in (k + 1)..Len(w) : \A l \in DOMAIN v1 : w[i] # v1[l]
  <2>1. \A i \in (k + 1)..Len(w) : i = m + 1 \/ (i \in 1..m /\ i \in (k + 1)..m)
    BY <1>4, <1>7
  <2>2. QED
    BY <1>3, <1>4, <1>5, <1>6, <2>1
<1>10. StartsWith(st[h], k)'
  BY <1>2, <1>3, <1>8 DEF StartsWith
<1>11. QED
  BY <1>2, <1>3, <1>6, <1>9, <1>10 DEF UnracedOf

LEMMA PutUnraced ==
  ASSUME Base, NEW g \in Handles, UnracedOf(g), V1Put
  PROVE  UnracedOf(g)'
<1>1. DirTypeOK /\ Files /\ Numbers /\ HandleInv(g)
  BY BaseIs
<1>2. /\ at'[g] = at[g] /\ st'[g] = st[g] /\ last'[g] = last[g] /\ todo'[g] = todo[g] /\ begun'[g] = begun[g]
      /\ snapSeq' = snapSeq /\ segs' = [segs EXCEPT ![Newest].last = Len(v1) + 1]
  BY V1PutIs DEF HandlesSame
<1>3. DOMAIN segs' = DOMAIN segs /\ Newest' = Newest
  BY <1>2 DEF Newest
<1>4. /\ Len(v1') = Len(v1) + 1 /\ DOMAIN v1' = 1..(Len(v1) + 1) /\ v1'[Len(v1) + 1] = n + 1
      /\ \A k \in DOMAIN v1 : v1'[k] = v1[k]
  BY <1>1, PutKeepsNumbers
<1>5. /\ Len(v1) \in Nat /\ n \in Nat /\ DOMAIN v1 = 1..Len(v1) /\ last[g] \in Nat /\ begun[g] \in Nat
      /\ DOMAIN st[g] = 1..Len(st[g]) /\ Len(st[g]) \in Nat /\ \A i \in DOMAIN st[g] : st[g][i] \in Nat
  BY <1>1, Values, HandleValues
<1>6. ASSUME at[g] \in {"list", "wal"} PROVE StartsWith(st[g], last[g])'
  <2>1. last[g] <= Len(v1)
    BY <1>1, <1>6 DEF HandleInv, ReadingOf, Replayed, Up
  <2>2. 1..last[g] \subseteq DOMAIN v1
    BY <1>5, <2>1
  <2>3. StartsWith(st[g], last[g])
    BY <1>6 DEF UnracedOf
  <2>4. QED
    BY <1>2, <1>4, <2>2, <2>3 DEF StartsWith
<1>7. ASSUME Replayed(g)
      PROVE  \E k \in begun'[g]..Len(v1') : /\ StartsWith(st[g], k)'
                 /\ \A i \in (k + 1)..Len(st'[g]) : \A l \in DOMAIN v1' : st'[g][i] # v1'[l]
  <2>1. PICK k \in begun[g]..Len(v1) :
            StartsWith(st[g], k) /\ \A i \in (k + 1)..Len(st[g]) : \A l \in DOMAIN v1 : st[g][i] # v1[l]
    BY <1>7 DEF UnracedOf
  <2>2. k \in begun'[g]..Len(v1') /\ k \in Nat /\ 1..k \subseteq DOMAIN v1
    BY <1>2, <1>4, <1>5, <2>1
  <2>3. StartsWith(st[g], k)'
    BY <1>2, <1>4, <2>1, <2>2 DEF StartsWith
  <2>4. ASSUME NEW i \in (k + 1)..Len(st[g]), NEW l \in DOMAIN v1' PROVE st[g][i] # v1'[l]
    <3>1. i \in DOMAIN st[g]
      BY <1>5, <2>2, <2>4
    <3>2. st[g][i] <= n
      BY <1>1, <3>1 DEF HandleInv, ReadingOf
    <3>3. CASE l \in DOMAIN v1
      BY <1>4, <2>1, <2>4, <3>3
    <3>4. CASE l = Len(v1) + 1
      BY <1>4, <1>5, <3>1, <3>2, <3>4
    <3>5. QED
      BY <1>4, <1>5, <2>4, <3>3, <3>4
  <2>5. QED
    BY <1>2, <2>2, <2>3, <2>4
<1>8. Replayed(g)' => Replayed(g)
  BY <1>2 DEF Replayed, Up
<1>9. QED
  BY <1>2, <1>3, <1>6, <1>7, <1>8 DEF UnracedOf

LEMMA UnracedStep == Base /\ Unraced /\ [DirNext]_dirVars => Unraced'
<1> SUFFICES ASSUME Base, Unraced, [DirNext]_dirVars, "raced" \notin taint',
                    NEW g \in Handles
             PROVE  UnracedOf(g)'
  BY DEF Unraced
<1>1. CASE V1Put
  <2>1. "raced" \notin taint
    BY <1>1, V1PutIs
  <2>2. QED
    BY <1>1, <2>1, PutUnraced DEF Unraced
<1>2. CASE V1Checkpoint
  <2>1. /\ v1' = v1 /\ HandlesSame /\ taint \subseteq taint' /\ at[g] \notin {"list", "wal"}
    BY <1>2, V1CheckpointIs
  <2>2. UnracedOf(g)
    BY <2>1 DEF Unraced
  <2>3. QED
    BY <2>1, <2>2 DEF UnracedOf, HandlesSame, Replayed, Up, StartsWith
<1>3. ASSUME NEW h \in Handles, HandleStep(h) PROVE UnracedOf(g)'
  <2>1. Others(h) /\ taint \subseteq taint' /\ UNCHANGED <<v1, snapSeq, segs, ck>>
    BY <1>3, StepIs
  <2>2. \A f \in Handles : UnracedOf(f)
    BY <2>1 DEF Unraced
  <2>3. CASE g = h
    BY <1>3, <2>2, <2>3, OpenUnraced, ListUnraced, ReadWalUnraced, ReplayUnraced, KeepUnraced, CommitUnraced
       DEF HandleStep
  <2>4. CASE g # h
    <3>1. /\ at'[g] = at[g] /\ st'[g] = st[g] /\ last'[g] = last[g] /\ todo'[g] = todo[g]
          /\ begun'[g] = begun[g]
      BY <2>1, <2>4 DEF Others
    <3>2. QED
      BY <2>1, <2>2, <3>1, UnracedSame
  <2>5. QED
    BY <2>3, <2>4
<1>4. CASE UNCHANGED dirVars
  <2>1. /\ taint' = taint /\ at' = at /\ st' = st /\ last' = last /\ todo' = todo /\ begun' = begun
        /\ v1' = v1 /\ snapSeq' = snapSeq /\ segs' = segs
    BY <1>4 DEF dirVars, v1Vars, hVars
  <2>2. UnracedOf(g)
    BY <2>1 DEF Unraced
  <2>3. QED
    BY <2>1, <2>2, UnracedSame
<1>5. QED
  BY <1>1, <1>2, <1>3, <1>4 DEF DirNext, HandleStep

-----------------------------------------------------------------------------
(* The log is newer than v1                                                *)

Older == \A k \in DOMAIN v1 : \A i \in DOMAIN items : items[i].part # "rest" => v1[k] < items[i].num
WritesNewer(h) == \A k \in DOMAIN v1 : Writing(h) => v1[k] < cur[h].num

LEMMA UnforkedIs ==
  Unforked <=> ("forked" \notin taint => Older /\ \A h \in Handles : WritesNewer(h) /\ Increasing(st[h]))
  BY DEF Unforked, Older, WritesNewer

LEMMA UnforkedIsNext ==
  ASSUME "forked" \notin taint' => Older' /\ \A h \in Handles : WritesNewer(h)' /\ Increasing(st[h])'
  PROVE  Unforked'
  BY DEF Unforked, Older, WritesNewer

\* Before the log is replayed, and after the handle has ended
LEMMA EarlyIncreasing ==
  ASSUME Base', NEW h \in Handles, ~Replayed(h)'
  PROVE  Increasing(st[h])' /\ WritesNewer(h)'
<1>1. ReadingOf(h)'
  BY DEF Base
<1>2. ~Writing(h)'
  BY DEF Replayed, Up, Writing
<1>3. Increasing(st[h])'
  BY <1>1 DEF ReadingOf
<1>4. QED
  BY <1>2, <1>3 DEF WritesNewer

LEMMA IncreasingAppend ==
  ASSUME NEW s, NEW w, NEW x, NEW m \in Nat, DOMAIN s = 1..m, DOMAIN w = 1..(m + 1), w[m + 1] = x,
         \A i \in 1..m : w[i] = s[i], Increasing(s), \A i \in DOMAIN s : s[i] < x
  PROVE  Increasing(w)
<1>1. ASSUME NEW i \in DOMAIN w, NEW j \in DOMAIN w, i < j PROVE w[i] < w[j]
  <2>1. i \in 1..m /\ (j \in 1..m \/ j = m + 1)
    BY <1>1
  <2>2. QED
    BY <1>1, <2>1 DEF Increasing
<1>2. QED
  BY <1>1 DEF Increasing

LEMMA CommitIncreasing ==
  ASSUME Base, NEW h \in Handles, Commit(h), Increasing(st[h])
  PROVE  Increasing(st[h])'
<1>1. DirTypeOK /\ Numbers /\ HandleTypes /\ HandleInv(h)
  BY BaseIs
<1>2. at[h] = "sync"
  BY <1>1, CommitIs
<1>3. PICK w, m : w = st'[h] /\ m = Len(st[h])
  OBVIOUS
<1>4. /\ DOMAIN w = 1..(m + 1) /\ w[m + 1] = cur[h].num /\ \A i \in 1..m : w[i] = st[h][i]
  BY <1>1, <1>3, CommitHandle
<1>5. m \in Nat /\ DOMAIN st[h] = 1..m
  BY <1>1, <1>3, HandleValues
<1>6. \A i \in DOMAIN st[h] : st[h][i] < cur[h].num
  BY <1>1, <1>2 DEF HandleInv, FrameOf, Writing
<1>7. PICK s : s = st[h]
  OBVIOUS
<1>8. Increasing(w)
  BY ONLY <1>4, <1>5, <1>6, <1>7, Increasing(st[h]), IncreasingAppend
<1>9. QED
  BY <1>3, <1>8 DEF Increasing

\* The operations of a replayed state, and those the log has put behind them
LEMMA RecoveredParts ==
  ASSUME Base, NEW h \in Handles, at[h] \in {"replay", "wal"},
         NEW long \in BOOLEAN, NEW r, r = Recovered(st[h], last[h], long)
  PROVE  /\ r.ops \in Seq(Num) /\ DOMAIN r.ops = 1..Len(r.ops) /\ Len(r.ops) \in Nat
         /\ r.good \in Nat /\ r.good <= Len(items) /\ Len(st[h]) \in Nat /\ Len(st[h]) <= Len(r.ops)
         /\ \A i \in DOMAIN r.ops : i \in 1..Len(st[h]) \/ i \in (Len(st[h]) + 1)..Len(r.ops)
         /\ \A i \in 1..Len(st[h]) :
              i \in DOMAIN st[h] /\ r.ops[i] = st[h][i]
              /\ \E k \in 1..last[h] : k \in DOMAIN v1 /\ r.ops[i] = v1[k]
         /\ \A i \in (Len(st[h]) + 1)..Len(r.ops) :
              /\ Complete(r.good, r.ops[i])
              /\ \E j \in DOMAIN items : items[j].part # "rest" /\ items[j].num = r.ops[i]
         /\ \A i, j \in (Len(st[h]) + 1)..Len(r.ops) : i < j => r.ops[i] < r.ops[j]
         /\ Increasing(st[h])
<1>1. DirTypeOK /\ Files /\ Numbers /\ HandleTypes /\ HandleInv(h)
  BY BaseIs
<1>2. /\ st[h] \in Seq(Num) /\ last[h] \in Nat /\ Len(st[h]) \in Nat /\ DOMAIN st[h] = 1..Len(st[h])
      /\ Len(v1) \in Nat /\ DOMAIN v1 = 1..Len(v1) /\ Len(items) \in Nat /\ DOMAIN items = 1..Len(items)
  BY <1>1, HandleValues, Values
<1>3. /\ last[h] <= n /\ last[h] <= Len(v1) /\ Increasing(st[h])
      /\ \A i \in DOMAIN st[h] : \E k \in 1..last[h] : st[h][i] = v1[k]
  BY <1>1 DEF HandleInv, ReadingOf, Replayed, Up
<1>4. r.ops \in Seq(Num) /\ r.good \in Nat /\ r.good <= Len(items) /\ Kept(r, st[h]) /\ Added(r, st[h])
  BY <1>1, <1>2, <1>3, RecoveredIs
<1>5. PICK w, y, m : w = r.ops /\ y = r.good /\ m = Len(st[h])
  OBVIOUS
<1>6. Len(w) \in Nat /\ DOMAIN w = 1..Len(w)
  BY <1>4, <1>5, LenProperties
<1>7. m <= Len(w) /\ \A i \in 1..m : w[i] = st[h][i]
  BY <1>4, <1>5 DEF Kept
<1>8. ASSUME NEW i \in 1..m PROVE \E k \in 1..last[h] : k \in DOMAIN v1 /\ w[i] = v1[k]
  <2>1. i \in DOMAIN st[h]
    BY <1>2, <1>5
  <2>2. PICK k \in 1..last[h] : st[h][i] = v1[k]
    BY <1>3, <2>1
  <2>3. k \in DOMAIN v1
    BY <1>2, <1>3
  <2>4. QED
    BY <1>7, <2>2, <2>3
<1>9. ASSUME NEW i \in (m + 1)..Len(w)
      PROVE  Complete(y, w[i]) /\ \E j \in DOMAIN items : items[j].part # "rest" /\ items[j].num = w[i]
  <2>1. Complete(y, w[i]) /\ \E j \in 1..y : items[j].part # "rest" /\ items[j].num = w[i]
    BY <1>4, <1>5, <1>9 DEF Added
  <2>2. 1..y \subseteq DOMAIN items
    BY <1>2, <1>4, <1>5
  <2>3. QED
    BY <2>1, <2>2
<1>10. \A i, j \in (m + 1)..Len(w) : i < j => w[i] < w[j]
  BY <1>4, <1>5 DEF Added
<1>11. \A i \in DOMAIN w : i \in 1..m \/ i \in (m + 1)..Len(w)
  BY <1>2, <1>5, <1>6
<1>12. QED
  BY <1>2, <1>3, <1>4, <1>5, <1>6, <1>7, <1>8, <1>9, <1>10, <1>11

\* When what the log adds is newer than what is there
LEMMA ReplayIncreasing ==
  ASSUME Base, NEW h \in Handles, at[h] \in {"replay", "wal"},
         NEW long \in BOOLEAN, NEW r, r = Recovered(st[h], last[h], long),
         Len(r.ops) > Len(st[h]) =>
           \A k \in 1..last[h] : \A j \in DOMAIN items :
              k \in DOMAIN v1 /\ items[j].part # "rest" => v1[k] < items[j].num
  PROVE  Increasing(r.ops)
<1>1. PICK w, m : w = r.ops /\ m = Len(st[h])
  OBVIOUS
<1>2. /\ DOMAIN w = 1..Len(w) /\ Len(w) \in Nat /\ m \in Nat /\ m <= Len(w)
      /\ \A i \in DOMAIN w : i \in 1..m \/ i \in (m + 1)..Len(w)
      /\ \A i \in 1..m : i \in DOMAIN st[h] /\ w[i] = st[h][i]
                         /\ \E k \in 1..last[h] : k \in DOMAIN v1 /\ w[i] = v1[k]
      /\ \A i \in (m + 1)..Len(w) : \E j \in DOMAIN items : items[j].part # "rest" /\ items[j].num = w[i]
      /\ \A i, j \in (m + 1)..Len(w) : i < j => w[i] < w[j]
      /\ Increasing(st[h])
  <2>1. /\ DOMAIN r.ops = 1..Len(r.ops) /\ Len(r.ops) \in Nat
        /\ Len(st[h]) \in Nat /\ Len(st[h]) <= Len(r.ops)
        /\ \A i \in DOMAIN r.ops : i \in 1..Len(st[h]) \/ i \in (Len(st[h]) + 1)..Len(r.ops)
        /\ Increasing(st[h])
    BY ONLY Base, at[h] \in {"replay", "wal"}, long \in BOOLEAN, r = Recovered(st[h], last[h], long),
            RecoveredParts
  <2>2. \A i \in 1..Len(st[h]) :
              i \in DOMAIN st[h] /\ r.ops[i] = st[h][i]
              /\ \E k \in 1..last[h] : k \in DOMAIN v1 /\ r.ops[i] = v1[k]
    BY ONLY Base, at[h] \in {"replay", "wal"}, long \in BOOLEAN, r = Recovered(st[h], last[h], long),
            RecoveredParts
  <2>3. \A i \in (Len(st[h]) + 1)..Len(r.ops) :
           /\ Complete(r.good, r.ops[i])
           /\ \E j \in DOMAIN items : items[j].part # "rest" /\ items[j].num = r.ops[i]
    BY ONLY Base, at[h] \in {"replay", "wal"}, long \in BOOLEAN, r = Recovered(st[h], last[h], long),
            RecoveredParts
  <2>4. \A i, j \in (Len(st[h]) + 1)..Len(r.ops) : i < j => r.ops[i] < r.ops[j]
    BY ONLY Base, at[h] \in {"replay", "wal"}, long \in BOOLEAN, r = Recovered(st[h], last[h], long),
            RecoveredParts
  <2>5. QED
    BY <1>1, <2>1, <2>2, <2>3, <2>4
<1>3. ASSUME NEW i \in DOMAIN w, NEW j \in DOMAIN w, i < j PROVE w[i] < w[j]
  <2>1. CASE j \in 1..m
    <3>1. i \in 1..m
      BY <1>2, <1>3, <2>1
    <3>2. QED
      BY <1>2, <1>3, <2>1, <3>1 DEF Increasing
  <2>2. CASE i \in 1..m /\ j \in (m + 1)..Len(w)
    <3>1. PICK k \in 1..last[h] : k \in DOMAIN v1 /\ w[i] = v1[k]
      BY <1>2, <2>2
    <3>2. PICK g \in DOMAIN items : items[g].part # "rest" /\ items[g].num = w[j]
      BY <1>2, <2>2
    <3>3. Len(w) > m
      BY <1>2, <2>2
    <3>4. QED
      BY <1>1, <3>1, <3>2, <3>3
  <2>3. CASE i \in (m + 1)..Len(w) /\ j \in (m + 1)..Len(w)
    BY <1>2, <1>3, <2>3
  <2>4. QED
    BY <1>2, <1>3, <2>1, <2>2, <2>3
<1>4. QED
  BY <1>1, <1>3 DEF Increasing

LEMMA OlderSame ==
  ASSUME Older, v1' = v1, items' = items PROVE Older'
  BY DEF Older

LEMMA OlderAppend ==
  ASSUME Base, Older, v1' = v1, NEW x \in Item, items' = Append(items, x),
         x.part # "rest" => \A k \in DOMAIN v1 : v1[k] < x.num
  PROVE  Older'
<1>1. DirTypeOK
  BY BaseIs
<1>2. /\ DOMAIN items' = 1..(Len(items) + 1) /\ items'[Len(items) + 1] = x
      /\ (\A i \in DOMAIN items : items'[i] = items[i])
      /\ \A i \in DOMAIN items' : i = Len(items) + 1 \/ i \in DOMAIN items
  BY <1>1, ItemsAppended
<1>3. QED
  BY <1>2 DEF Older

LEMMA OlderCut ==
  ASSUME Base, Older, v1' = v1, NEW m \in Nat, m <= Len(items), items' = SubSeq(items, 1, m)
  PROVE  Older'
<1>1. DirTypeOK
  BY BaseIs
<1>2. DOMAIN items' \subseteq DOMAIN items /\ \A i \in DOMAIN items' : items'[i] = items[i]
  BY <1>1, ItemsCut
<1>3. QED
  BY <1>2 DEF Older

\* What a step makes of the log
LEMMA LogIs ==
  ASSUME Base, NEW h \in Handles, HandleStep(h)
  PROVE  \/ items' = items
         \/ at[h] = "repair" /\ at'[h] = "idle"
            /\ items' = (IF good[h] <= Len(items) THEN SubSeq(items, 1, good[h]) ELSE Append(items, Zeros))
         \/ at[h] = "idle" /\ \E x \in Item : /\ items' = Append(items, x) /\ x.num = n + 1 /\ x.seq = last[h] + 1
                                              /\ \/ at'[h] = "sync" /\ x = NewFrame(h)
                                                 \/ at'[h] = "rest" /\ x = [NewFrame(h) EXCEPT !.part = "head"]
         \/ at[h] = "rest" /\ at'[h] = "sync" /\ items' = Append(items, [cur[h] EXCEPT !.part = "rest"])
<1>1. DirTypeOK /\ Files /\ Numbers /\ HandleTypes /\ HandleInv(h)
  BY BaseIs
<1>2. CASE RepairTail(h)
  BY <1>1, <1>2, RepairTailIs
<1>3. CASE WriteBatch(h)
  BY <1>1, <1>3, WriteBatchIs, WriteKeepsNumbers DEF HandleInv
<1>4. CASE WriteAll(h)
  BY <1>1, <1>4, WriteAllIs
<1>5. CASE ~(RepairTail(h) \/ WriteBatch(h) \/ WriteAll(h))
  BY <1>5 DEF HandleStep, OpenBatch, OpenMigrated, Begins, ListWals, ReadWal, ReadBdw4, Commit, WriteFails, Close, Crash
<1>6. QED
  BY <1>2, <1>3, <1>4, <1>5

LEMMA OlderStep ==
  ASSUME Base, Older, NEW h \in Handles, HandleStep(h)
  PROVE  Older'
<1>1. DirTypeOK /\ Numbers
  BY BaseIs
<1>2. v1' = v1
  BY StepIs
<1>3. CASE items' = items
  BY <1>2, <1>3, OlderSame
<1>4. CASE items' = (IF good[h] <= Len(items) THEN SubSeq(items, 1, good[h]) ELSE Append(items, Zeros))
  <2>1. good[h] \in Nat
    BY <1>1, HandleValues
  <2>2. CASE good[h] <= Len(items)
    BY <1>2, <1>4, <2>1, <2>2, OlderCut
  <2>3. CASE ~(good[h] <= Len(items))
    BY <1>2, <1>4, <2>3, OlderAppend, ZerosIs
  <2>4. QED
    BY <2>2, <2>3
<1>5. CASE \E x \in Item : items' = Append(items, x) /\ x.num = n + 1
  <2>1. PICK x \in Item : items' = Append(items, x) /\ x.num = n + 1
    BY <1>5
  <2>2. n \in Nat /\ \A k \in DOMAIN v1 : v1[k] <= n /\ v1[k] \in Nat
    BY <1>1, Values DEF Numbers
  <2>3. \A k \in DOMAIN v1 : v1[k] < x.num
    BY <2>1, <2>2
  <2>4. QED
    BY <1>2, <2>1, <2>3, OlderAppend
<1>6. CASE items' = Append(items, [cur[h] EXCEPT !.part = "rest"])
  <2>1. PICK x \in Item : x = [cur[h] EXCEPT !.part = "rest"] /\ x.part = "rest"
    BY <1>1, RestIs
  <2>2. QED
    BY <1>2, <1>6, <2>1, OlderAppend
<1>7. QED
  BY <1>3, <1>4, <1>5, <1>6, LogIs

LEMMA UnforkedOwn ==
  ASSUME Base, Base', Older, NEW h \in Handles, HandleStep(h), WritesNewer(h), Increasing(st[h])
  PROVE  WritesNewer(h)' /\ Increasing(st[h])'
<1>1. DirTypeOK /\ Files /\ Numbers /\ HandleTypes /\ HandleInv(h)
  BY BaseIs
<1>2. v1' = v1
  BY StepIs
<1>3. CASE ~Replayed(h)'
  BY <1>3, EarlyIncreasing
<1>4. CASE ReadBdw4(h) /\ Replayed(h)'
  <2>1. ~Ended(h)
    BY <1>4 DEF Ended, Replayed, Up
  <2>2. /\ at[h] \in {"replay", "wal"} /\ at'[h] \in {"repair", "idle"}
        /\ \E long \in BOOLEAN : st'[h] = Recovered(st[h], last[h], long).ops
    BY <1>1, <1>4, <2>1, ReadBdw4Is
  <2>3. PICK long \in BOOLEAN : st'[h] = Recovered(st[h], last[h], long).ops
    BY <2>2
  <2>4. PICK r : r = Recovered(st[h], last[h], long)
    OBVIOUS
  <2>5. Increasing(r.ops)
    BY <2>2, <2>4, ReplayIncreasing DEF Older
  <2>6. QED
    BY <2>2, <2>3, <2>4, <2>5 DEF Increasing, WritesNewer, Writing
<1>5. CASE RepairTail(h) \/ WriteFails(h)
  <2>1. at'[h] = "idle" /\ st'[h] = st[h]
    BY <1>1, <1>5, RepairTailIs, WriteFailsIs
  <2>2. QED
    BY <2>1 DEF Increasing, WritesNewer, Writing
<1>6. CASE WriteBatch(h)
  <2>1. st'[h] = st[h] /\ cur'[h] = NewFrame(h)
    BY <1>1, <1>6, WriteBatchIs
  <2>2. cur'[h].num = n + 1
    BY <2>1 DEF NewFrame
  <2>3. n \in Nat /\ \A k \in DOMAIN v1 : v1[k] <= n /\ v1[k] \in Nat
    BY <1>1, Values DEF Numbers
  <2>4. \A k \in DOMAIN v1 : v1[k] < cur'[h].num
    BY <2>2, <2>3
  <2>5. QED
    BY <1>2, <2>1, <2>4 DEF Increasing, WritesNewer
<1>7. CASE WriteAll(h)
  <2>1. at[h] = "rest" /\ st'[h] = st[h] /\ cur'[h] = cur[h]
    BY <1>1, <1>7, WriteAllIs
  <2>2. QED
    BY <1>2, <2>1 DEF Increasing, WritesNewer, Writing
<1>8. CASE Commit(h)
  <2>1. at'[h] = "idle"
    BY <1>1, <1>8, CommitIs
  <2>2. Increasing(st[h])'
    BY <1>8, CommitIncreasing
  <2>3. QED
    BY <2>1, <2>2 DEF WritesNewer, Writing
<1>9. CASE OpenBatch(h) \/ OpenMigrated(h) \/ ListWals(h) \/ ReadWal(h) \/ Close(h) \/ Crash(h)
  <2>1. at'[h] \in {"closed", "list", "wal", "replay"}
    <3>1. CASE OpenBatch(h) \/ OpenMigrated(h)
      BY <1>1, <3>1, OpenIs DEF OpenBatch, OpenMigrated
    <3>2. CASE ListWals(h)
      BY <1>1, <3>2, ListWalsIs
    <3>3. CASE ReadWal(h)
      BY <1>1, <3>3, ReadWalHandle
    <3>4. CASE Close(h) \/ Crash(h)
      BY <1>1, <3>4, EndIs DEF Ended
    <3>5. QED
      BY <1>9, <3>1, <3>2, <3>3, <3>4
  <2>2. QED
    BY <1>3, <2>1 DEF Replayed, Up
<1>10. QED
  BY <1>3, <1>4, <1>5, <1>6, <1>7, <1>8, <1>9 DEF HandleStep

LEMMA UnforkedStep == Base /\ Base' /\ Unforked /\ [DirNext]_dirVars => Unforked'
<1> SUFFICES ASSUME Base, Base', Unforked, [DirNext]_dirVars, "forked" \notin taint'
             PROVE  Older' /\ \A g \in Handles : WritesNewer(g)' /\ Increasing(st[g])'
  BY UnforkedIsNext
<1>1. CASE V1Put
  <2>1. items' = items /\ items = <<>> /\ HandlesSame /\ \A g \in Handles : at[g] = "closed"
    BY <1>1, V1PutIs
  <2>2. Older'
    BY <2>1, EmptyIs DEF Older
  <2>3. \A g \in Handles : ~Replayed(g)'
    BY <2>1 DEF HandlesSame, Replayed, Up
  <2>4. QED
    BY <2>2, <2>3, EarlyIncreasing
<1>2. CASE V1Checkpoint \/ UNCHANGED dirVars
  <2>1. v1' = v1 /\ items' = items /\ at' = at /\ st' = st /\ cur' = cur /\ taint \subseteq taint'
    BY <1>2, V1CheckpointIs DEF HandlesSame, dirVars, v1Vars, hVars
  <2>2. Older /\ \A g \in Handles : WritesNewer(g) /\ Increasing(st[g])
    BY <2>1, UnforkedIs
  <2>3. QED
    BY <2>1, <2>2 DEF Older, WritesNewer, Writing, Increasing
<1>3. ASSUME NEW h \in Handles, HandleStep(h)
      PROVE  Older' /\ \A g \in Handles : WritesNewer(g)' /\ Increasing(st[g])'
  <2>1. Others(h) /\ taint \subseteq taint' /\ v1' = v1
    BY <1>3, StepIs
  <2>2. Older /\ \A g \in Handles : WritesNewer(g) /\ Increasing(st[g])
    BY <2>1, UnforkedIs
  <2>3. Older'
    BY <1>3, <2>2, OlderStep
  <2>4. WritesNewer(h)' /\ Increasing(st[h])'
    BY <1>3, <2>2, UnforkedOwn
  <2>5. ASSUME NEW g \in Handles \ {h} PROVE WritesNewer(g)' /\ Increasing(st[g])'
    <3>1. at'[g] = at[g] /\ st'[g] = st[g] /\ cur'[g] = cur[g]
      BY <2>1 DEF Others
    <3>2. QED
      BY <2>1, <2>2, <3>1 DEF WritesNewer, Writing, Increasing
  <2>6. QED
    BY <2>3, <2>4, <2>5
<1>4. QED
  BY <1>1, <1>2, <1>3 DEF DirNext, HandleStep

-----------------------------------------------------------------------------
(* One handle at a time                                                    *)

Solo == \A g, h \in Handles : at[g] # "closed" /\ at[h] # "closed" => g = h

\* The first frame was written when v1 had no more than it was built on.
FirstItem == items # <<>> => /\ items[1].seq <= Len(v1) + 1
                             /\ \A k \in DOMAIN v1 : k < items[1].seq => v1[k] < items[1].num

LEMMA UnsharedIs ==
  ASSUME Unshared, "shared" \notin taint
  PROVE  Solo /\ Paired /\ FirstItem /\ \A h \in Handles : UnsharedOf(h)
  BY Zenon DEF Unshared, Solo, FirstItem

LEMMA UnsharedIsNext ==
  ASSUME "shared" \notin taint' => Solo' /\ Paired' /\ FirstItem' /\ \A h \in Handles : UnsharedOf(h)'
  PROVE  Unshared'
  BY Zenon DEF Unshared, Solo, FirstItem

LEMMA EarlyUnshared ==
  ASSUME Base', NEW h \in Handles, ~Replayed(h)'
  PROVE  UnsharedOf(h)'
<1>1. DirTypeOK' /\ ReadingOf(h)'
  BY DEF Base
<1>2. Len(v1') \in Nat /\ DOMAIN v1' = 1..Len(v1') /\ last'[h] \in Nat
  <2>1. v1' \in Seq(Num) /\ last' \in [Handles -> 0..(MaxV1 + MaxBatch)]
    BY <1>1 DEF DirTypeOK
  <2>2. QED
    BY <2>1, LenProperties, SharedAssumption DEF SharedAssumption
<1>3. at'[h] \notin {"repair", "rest", "sync"}
  BY DEF Replayed, Up
<1>4. /\ last'[h] <= Len(v1') /\ Increasing(st[h])'
      /\ \A j \in DOMAIN st'[h] : \E k \in 1..last'[h] : st'[h][j] = v1'[k]
  BY <1>1 DEF ReadingOf
<1>5. 1..last'[h] \subseteq DOMAIN v1'
  BY <1>2, <1>4
<1>6. \A j \in DOMAIN st'[h] : \E k \in DOMAIN v1' : st'[h][j] = v1'[k]
  BY <1>4, <1>5
<1>7. QED
  BY <1>3, <1>4, <1>6 DEF UnsharedOf

LEMMA SoloStep ==
  ASSUME Base, Unshared, NEW h \in Handles, HandleStep(h), "shared" \notin taint'
  PROVE  /\ "shared" \notin taint /\ Solo'
         /\ \A g \in Handles \ {h} : at[g] = "closed" /\ at'[g] = "closed"
<1>1. HandleTypes /\ Others(h) /\ taint \subseteq taint'
  BY BaseIs, StepIs
<1>2. "shared" \notin taint
  BY <1>1
<1>3. \A g \in Handles \ {h} : at[g] = "closed"
  <2>1. CASE OpenBatch(h) \/ OpenMigrated(h)
    BY <1>1, <2>1, OpenIs DEF OpenBatch, OpenMigrated
  <2>2. CASE ~(OpenBatch(h) \/ OpenMigrated(h))
    <3>1. at[h] # "closed"
      BY <2>2 DEF HandleStep, ListWals, ReadWal, ReadBdw4, RepairTail, WriteBatch, Unlocked, WriteAll, Commit,
                  WriteFails, Close, Crash
    <3>2. Solo
      BY <1>2, UnsharedIs
    <3>3. QED
      BY <3>1, <3>2 DEF Solo
  <2>3. QED
    BY <2>1, <2>2
<1>4. \A g \in Handles \ {h} : at'[g] = "closed"
  BY <1>1, <1>3 DEF Others
<1>5. QED
  BY <1>2, <1>3, <1>4 DEF Solo

LEMMA CompleteMore ==
  ASSUME NEW a \in Nat, NEW b \in Nat, a <= b, NEW x, Complete(a, x)
  PROVE  Complete(b, x)
<1>1. 1..a \subseteq 1..b
  OBVIOUS
<1>2. QED
  BY <1>1 DEF Complete

\* Where the replayed log stands
LEMMA ReplayUnshared ==
  ASSUME Base, NEW h \in Handles, UnsharedOf(h), Paired, FirstItem, ReadBdw4(h), Replayed(h)'
  PROVE  UnsharedOf(h)'
<1>1. DirTypeOK /\ Files /\ Numbers /\ HandleTypes /\ HandleInv(h)
  BY BaseIs
<1>2. ~Ended(h)
  BY DEF Ended, Replayed, Up
<1>3. /\ at[h] \in {"replay", "wal"} /\ Quiet
      /\ \E long \in BOOLEAN, r \in {Recovered(st[h], last[h], TRUE), Recovered(st[h], last[h], FALSE)} :
              /\ r = Recovered(st[h], last[h], long)
              /\ st'[h] = r.ops /\ last'[h] = r.last /\ good'[h] = r.good
              /\ at'[h] = IF r.end = "torn" THEN "repair" ELSE "idle"
  BY <1>1, <1>2, ReadBdw4Is
<1>4. PICK long \in BOOLEAN, r \in {Recovered(st[h], last[h], TRUE), Recovered(st[h], last[h], FALSE)} :
              /\ r = Recovered(st[h], last[h], long)
              /\ st'[h] = r.ops /\ last'[h] = r.last /\ good'[h] = r.good
              /\ at'[h] \in {"repair", "idle"}
  BY <1>3
<1>5. /\ st[h] \in Seq(Num) /\ last[h] \in Nat /\ Len(v1) \in Nat /\ DOMAIN v1 = 1..Len(v1)
      /\ Len(items) \in Nat /\ DOMAIN items = 1..Len(items)
      /\ \A i \in DOMAIN items : items[i].num \in Nat /\ items[i].seq \in Nat
      /\ \A k \in DOMAIN v1 : v1[k] \in Nat
  BY <1>1, HandleValues, Values
<1>6. last[h] <= n /\ last[h] <= Len(v1)
  BY <1>1, <1>3 DEF HandleInv, ReadingOf, Replayed, Up
<1>7. /\ r.good \in Nat /\ r.good <= Len(items)
      /\ r.good = 0 => r.last = last[h] /\ r.ops = st[h]
      /\ r.good > 0 => FirstSeq(last[h])
  BY <1>1, <1>4, <1>5, <1>6, RecoveredIs
<1>8. PICK y, w, m, s : y = r.good /\ w = r.ops /\ m = Len(st[h]) /\ s = last[h]
  OBVIOUS
<1>9. v1' = v1 /\ items' = items
  BY <1>3 DEF Quiet
<1>10. ASSUME y > 0
       PROVE  /\ 1 \in DOMAIN items /\ items # <<>> /\ items[1].part # "rest" /\ items[1].seq = s + 1
  <2>1. 1 \in DOMAIN items
    BY <1>5, <1>7, <1>8, <1>10
  <2>2. FirstSeq(s)
    BY <1>7, <1>8, <1>10
  <2>3. CASE items[1].part = "whole" /\ items[1].seq = s + 1
    BY <2>1, <2>3, EmptyIs
  <2>4. CASE items[1].part = "head" /\ Len(items) > 1 /\ items[2].part = "rest" /\ items[2].seq = s + 1
    <3>1. 2 \in DOMAIN items
      BY <1>5, <2>4
    <3>2. items[2 - 1].seq = items[2].seq
      BY <2>4, <3>1 DEF Paired
    <3>3. items[1].seq = items[2].seq
      BY <3>2
    <3>4. QED
      BY <2>1, <2>4, <3>3, EmptyIs
  <2>5. QED
    BY <2>2, <2>3, <2>4 DEF FirstSeq
<1>11. Increasing(w)
  <2>1. CASE y = 0
    <3>1. Increasing(st[h])
      BY DEF UnsharedOf
    <3>2. QED
      BY <1>7, <1>8, <2>1, <3>1
  <2>2. CASE y # 0
    <3>1. y > 0
      BY <1>7, <1>8, <2>2
    <3>2. ASSUME NEW k \in 1..s, NEW j \in DOMAIN items, k \in DOMAIN v1, items[j].part # "rest"
          PROVE  v1[k] < items[j].num
      <4>1. k < items[1].seq
        BY <1>5, <1>8, <1>10, <3>1
      <4>2. v1[k] < items[1].num
        BY <1>10, <3>1, <3>2, <4>1 DEF FirstItem
      <4>3. j = 1 \/ 1 < j
        BY <1>5
      <4>4. items[1].num <= items[j].num
        BY <1>1, <1>5, <1>10, <3>1, <3>2, <4>3 DEF Numbers
      <4>5. PICK x, y1, z : x = v1[k] /\ y1 = items[1].num /\ z = items[j].num
        OBVIOUS
      <4>6. x \in Nat /\ y1 \in Nat /\ z \in Nat
        BY ONLY <1>5, <1>10, <3>1, <3>2, <4>5
      <4>7. x < z
        BY ONLY <4>2, <4>4, <4>5, <4>6
      <4>8. QED
        BY ONLY <4>5, <4>7
    <3>3. QED
      BY <1>3, <1>4, <1>8, <3>2, ReplayIncreasing
  <2>3. QED
    BY <2>1, <2>2
<1>12. /\ DOMAIN w = 1..Len(w) /\ m \in Nat
       /\ \A i \in DOMAIN w : i \in 1..m \/ i \in (m + 1)..Len(w)
       /\ \A i \in 1..m : \E k \in 1..s : k \in DOMAIN v1 /\ w[i] = v1[k]
       /\ \A i \in (m + 1)..Len(w) : Complete(y, w[i])
  BY <1>3, <1>4, <1>8, RecoveredParts
<1>13. ASSUME NEW i \in DOMAIN w
       PROVE  (\E k \in DOMAIN v1 : w[i] = v1[k]) \/ (Complete(y, w[i]) /\ Complete(Len(items), w[i]))
  <2>1. CASE i \in 1..m
    BY <1>12, <2>1
  <2>2. CASE i \in (m + 1)..Len(w)
    <3>1. Complete(y, w[i])
      BY <1>12, <2>2
    <3>2. y \in Nat /\ y <= Len(items)
      BY <1>7, <1>8
    <3>3. Complete(Len(items), w[i])
      BY <1>5, <3>1, <3>2, CompleteMore
    <3>4. QED
      BY <3>1, <3>3
  <2>3. QED
    BY <1>12, <2>1, <2>2
<1>14. y = 0 => last'[h] <= Len(v1)
  BY <1>4, <1>6, <1>7, <1>8
<1>15. items = <<>> => y = 0
  <2>1. Len(<<>>) = 0
    OBVIOUS
  <2>2. QED
    BY <1>7, <1>8, <2>1
<1>16. Increasing(st[h])'
  BY <1>4, <1>8, <1>11 DEF Increasing
<1>17. \A j \in DOMAIN st'[h] :
         \/ \E k \in DOMAIN v1' : st'[h][j] = v1'[k]
         \/ Complete(IF at[h] = "repair" THEN good[h] ELSE Len(items), st[h][j])'
  BY <1>4, <1>8, <1>9, <1>13 DEF Complete
<1>18. at'[h] = "repair" => good'[h] <= Len(items') /\ (good'[h] = 0 => last'[h] <= Len(v1'))
  BY <1>4, <1>7, <1>8, <1>9, <1>14
<1>19. QED
  BY <1>4, <1>9, <1>14, <1>15, <1>16, <1>17, <1>18 DEF UnsharedOf

LEMMA LogKept ==
  ASSUME Paired, FirstItem, items' = items, v1' = v1
  PROVE  Paired' /\ FirstItem'
  BY DEF Paired, FirstItem

LEMMA RepairUnshared ==
  ASSUME Base, NEW h \in Handles, UnsharedOf(h), Paired, FirstItem, RepairTail(h)
  PROVE  UnsharedOf(h)' /\ Paired' /\ FirstItem'
<1>1. DirTypeOK /\ HandleTypes
  BY BaseIs
<1>2. /\ at[h] = "repair" /\ at'[h] = "idle" /\ st'[h] = st[h] /\ last'[h] = last[h] /\ v1' = v1
      /\ items' = IF good[h] <= Len(items) THEN SubSeq(items, 1, good[h]) ELSE Append(items, Zeros)
  BY <1>1, RepairTailIs
<1>3. PICK m : m = good[h]
  OBVIOUS
<1>4. m \in Nat /\ m <= Len(items) /\ (m = 0 => last[h] <= Len(v1)) /\ Len(items) \in Nat
      /\ DOMAIN items = 1..Len(items)
  BY <1>1, <1>2, <1>3, HandleValues, Values DEF UnsharedOf
<1>5. /\ items' = SubSeq(items, 1, m)
      /\ Len(items') = m /\ DOMAIN items' = 1..m /\ DOMAIN items' \subseteq DOMAIN items
      /\ \A i \in DOMAIN items' : items'[i] = items[i]
      /\ items' = <<>> => m = 0
  BY <1>1, <1>2, <1>3, <1>4, ItemsCut
<1>6. Paired'
  <2>1. ASSUME NEW i \in DOMAIN items', items'[i].part = "rest"
        PROVE  /\ i > 1 /\ items'[i - 1].part = "head"
               /\ items'[i - 1].num = items'[i].num /\ items'[i - 1].seq = items'[i].seq
    <3>1. /\ i > 1 /\ items[i - 1].part = "head"
          /\ items[i - 1].num = items[i].num /\ items[i - 1].seq = items[i].seq
      BY <1>5, <2>1 DEF Paired
    <3>2. i - 1 \in DOMAIN items'
      BY <1>4, <1>5, <3>1
    <3>3. QED
      BY <1>5, <3>1, <3>2
  <2>2. QED
    BY <2>1 DEF Paired
<1>7. FirstItem'
  <2>1. CASE m = 0
    <3>1. DOMAIN items' = {}
      BY <1>5, <2>1
    <3>2. items' = <<>>
      <4>1. items' \in Seq(Item)
        BY <1>1, <1>4, <1>5, ItemsCut
      <4>2. QED
        BY <1>5, <2>1, <4>1, EmptySeq
    <3>3. QED
      BY <3>2 DEF FirstItem
  <2>2. CASE m # 0
    <3>1. 1 \in DOMAIN items' /\ items # <<>>
      BY <1>4, <1>5, <2>2, EmptyIs
    <3>2. items'[1] = items[1]
      BY <1>5, <3>1
    <3>3. QED
      BY <1>2, <3>1, <3>2 DEF FirstItem
  <2>3. QED
    BY <2>1, <2>2
<1>8. UnsharedOf(h)'
  <2>1. Increasing(st[h])'
    BY <1>2 DEF UnsharedOf, Increasing
  <2>2. ASSUME NEW j \in DOMAIN st[h]
        PROVE  (\E k \in DOMAIN v1' : st'[h][j] = v1'[k]) \/ Complete(Len(items), st[h][j])'
    <3>1. (\E k \in DOMAIN v1 : st[h][j] = v1[k]) \/ Complete(m, st[h][j])
      BY <1>2, <1>3 DEF UnsharedOf
    <3>2. Complete(m, st[h][j]) => Complete(Len(items), st[h][j])'
      BY <1>2, <1>5 DEF Complete
    <3>3. QED
      BY <1>2, <3>1, <3>2
  <2>3. items' = <<>> => last'[h] <= Len(v1')
    BY <1>2, <1>4, <1>5
  <2>4. QED
    BY <1>2, <2>1, <2>2, <2>3 DEF UnsharedOf
<1>9. QED
  BY <1>6, <1>7, <1>8

LEMMA AppendPaired ==
  ASSUME DirTypeOK, Paired, NEW x \in Item, items' = Append(items, x),
         x.part = "rest" => /\ items # <<>> /\ items[Len(items)].part = "head"
                            /\ items[Len(items)].num = x.num /\ items[Len(items)].seq = x.seq
  PROVE  Paired'
<1>1. /\ Len(items') = Len(items) + 1 /\ DOMAIN items' = 1..(Len(items) + 1)
      /\ items'[Len(items) + 1] = x /\ (\A i \in DOMAIN items : items'[i] = items[i])
      /\ \A i \in DOMAIN items' : i = Len(items) + 1 \/ i \in DOMAIN items
  BY ItemsAppended
<1>2. Len(items) \in Nat /\ DOMAIN items = 1..Len(items) /\ items \in Seq(Item)
  BY Values
<1>3. ASSUME NEW i \in DOMAIN items', items'[i].part = "rest"
      PROVE  /\ i > 1 /\ items'[i - 1].part = "head"
             /\ items'[i - 1].num = items'[i].num /\ items'[i - 1].seq = items'[i].seq
  <2>1. CASE i \in DOMAIN items
    <3>1. /\ i > 1 /\ items[i - 1].part = "head"
          /\ items[i - 1].num = items[i].num /\ items[i - 1].seq = items[i].seq
      BY <1>1, <1>3, <2>1 DEF Paired
    <3>2. i - 1 \in DOMAIN items
      BY <1>2, <2>1, <3>1
    <3>3. QED
      BY <1>1, <2>1, <3>1, <3>2
  <2>2. CASE i = Len(items) + 1
    <3>1. x.part = "rest"
      BY <1>1, <1>3, <2>2
    <3>2. Len(items) # 0
      BY <1>2, <3>1, EmptySeq
    <3>3. Len(items) \in DOMAIN items /\ i > 1 /\ i - 1 = Len(items)
      BY <1>2, <2>2, <3>2
    <3>4. QED
      BY <1>1, <2>2, <3>1, <3>3
  <2>3. QED
    BY <1>1, <2>1, <2>2
<1>4. QED
  BY <1>3 DEF Paired

\* The new end of the log
LEMMA AppendFirst ==
  ASSUME Base, FirstItem, v1' = v1, NEW x \in Item, items' = Append(items, x),
         items = <<>> => x.seq <= Len(v1) + 1 /\ \A k \in DOMAIN v1 : v1[k] < x.num
  PROVE  FirstItem'
<1>1. DirTypeOK
  BY BaseIs
<1>2. /\ items'[Len(items) + 1] = x /\ (\A i \in DOMAIN items : items'[i] = items[i])
  BY <1>1, ItemsAppended
<1>3. CASE items = <<>>
  <2>1. items'[1] = x
    BY <1>2, <1>3, EmptyIs
  <2>2. QED
    BY <1>3, <2>1 DEF FirstItem
<1>4. CASE items # <<>>
  <2>1. Len(items) \in Nat /\ DOMAIN items = 1..Len(items) /\ items \in Seq(Item)
    BY <1>1, Values
  <2>2. 1 \in DOMAIN items
    BY <1>4, <2>1, EmptySeq
  <2>3. items'[1] = items[1]
    BY <1>2, <2>2
  <2>4. QED
    BY <1>4, <2>3 DEF FirstItem
<1>5. QED
  BY <1>3, <1>4

\* What stays when the log grows
LEMMA AppendComplete ==
  ASSUME DirTypeOK, NEW x \in Item, items' = Append(items, x), NEW y, Complete(Len(items), y)
  PROVE  Complete(Len(items), y)'
<1>1. Len(items') = Len(items) + 1 /\ \A i \in DOMAIN items : items'[i] = items[i]
  BY ItemsAppended
<1>2. Len(items) \in Nat /\ DOMAIN items = 1..Len(items)
  BY Values
<1>3. PICK i \in 1..Len(items) : items[i].num = y /\ items[i].part # "head"
  BY DEF Complete
<1>4. i \in 1..Len(items') /\ items'[i] = items[i]
  BY <1>1, <1>2
<1>5. QED
  BY <1>3, <1>4 DEF Complete

LEMMA WriteUnshared ==
  ASSUME Base, NEW h \in Handles, UnsharedOf(h), Paired, FirstItem, WriteBatch(h)
  PROVE  UnsharedOf(h)' /\ Paired' /\ FirstItem'
<1>1. DirTypeOK /\ Files /\ Numbers /\ HandleTypes /\ HandleInv(h) /\ ReadingOf(h)
  BY BaseIs DEF HandleInv
<1>2. /\ at[h] = "idle" /\ at'[h] \in {"rest", "sync"} /\ cur'[h] = NewFrame(h)
      /\ st'[h] = st[h] /\ v1' = v1
  BY <1>1, WriteBatchIs
<1>3. PICK x \in Item : /\ items' = Append(items, x) /\ x.num = n + 1 /\ x.seq = last[h] + 1
                        /\ \/ at'[h] = "sync" /\ x = NewFrame(h)
                           \/ at'[h] = "rest" /\ x = [NewFrame(h) EXCEPT !.part = "head"]
  BY <1>1, WriteKeepsNumbers
<1>4. n \in Nat /\ last[h] \in Nat /\ Len(v1) \in Nat /\ \A k \in DOMAIN v1 : v1[k] <= n /\ v1[k] \in Nat
  BY <1>1, Values, HandleValues DEF Numbers
<1>5. NewFrame(h).part = "whole" /\ NewFrame(h) = [NewFrame(h) EXCEPT !.part = "whole"]
      /\ [NewFrame(h) EXCEPT !.part = "head"].part = "head"
  BY DEF NewFrame
<1>6. Paired'
  BY <1>1, <1>3, <1>5, AppendPaired
<1>7. FirstItem'
  <2>1. items = <<>> => last[h] <= Len(v1)
    BY DEF UnsharedOf
  <2>2. items = <<>> => x.seq <= Len(v1) + 1 /\ \A k \in DOMAIN v1 : v1[k] < x.num
    BY <1>3, <1>4, <2>1
  <2>3. QED
    BY <1>2, <1>3, <2>2, AppendFirst
<1>8. /\ items' # <<>> /\ items'[Len(items')] = x
  BY <1>1, <1>3, ItemsAppended
<1>9. UnsharedOf(h)'
  <2>1. at'[h] = "rest" => items'[Len(items')] = [cur'[h] EXCEPT !.part = "head"]
    BY <1>2, <1>3, <1>8
  <2>2. at'[h] = "sync" => \E p \in {"whole", "rest"} : items'[Len(items')] = [cur'[h] EXCEPT !.part = p]
    BY <1>2, <1>3, <1>5, <1>8
  <2>3. Increasing(st[h])'
    BY <1>2 DEF UnsharedOf, Increasing
  <2>4. ASSUME NEW j \in DOMAIN st[h]
        PROVE  (\E k \in DOMAIN v1' : st'[h][j] = v1'[k]) \/ Complete(Len(items), st[h][j])'
    <3>1. (\E k \in DOMAIN v1 : st[h][j] = v1[k]) \/ Complete(Len(items), st[h][j])
      BY <1>2 DEF UnsharedOf
    <3>2. PICK y : y = st[h][j]
      OBVIOUS
    <3>3. Complete(Len(items), y) => Complete(Len(items), y)'
      BY <1>1, <1>3, AppendComplete
    <3>4. y = st'[h][j]
      BY <1>2, <3>2
    <3>5. QED
      BY <1>2, <3>1, <3>2, <3>3, <3>4 DEF Complete
  <2>5. QED
    BY <1>2, <1>8, <2>1, <2>2, <2>3, <2>4 DEF UnsharedOf
<1>10. QED
  BY <1>6, <1>7, <1>9

LEMMA RestUnshared ==
  ASSUME Base, NEW h \in Handles, UnsharedOf(h), Paired, FirstItem, WriteAll(h)
  PROVE  UnsharedOf(h)' /\ Paired' /\ FirstItem'
<1>1. DirTypeOK /\ HandleTypes
  BY BaseIs
<1>2. /\ at[h] = "rest" /\ at'[h] = "sync" /\ cur'[h] = cur[h] /\ st'[h] = st[h] /\ v1' = v1
      /\ items' = Append(items, [cur[h] EXCEPT !.part = "rest"])
  BY <1>1, WriteAllIs
<1>3. PICK x \in Item : x = [cur[h] EXCEPT !.part = "rest"] /\ x.part = "rest" /\ x.num = cur[h].num
                        /\ x.seq = cur[h].seq
  BY <1>1, RestIs
<1>4. items # <<>> /\ items[Len(items)] = [cur[h] EXCEPT !.part = "head"]
  BY <1>2 DEF UnsharedOf
<1>5. /\ items[Len(items)].part = "head" /\ items[Len(items)].num = x.num
      /\ items[Len(items)].seq = x.seq
  BY <1>1, <1>3, <1>4, HandleValues DEF Item
<1>6. Paired'
  BY <1>1, <1>2, <1>3, <1>4, <1>5, AppendPaired
<1>7. FirstItem'
  BY <1>2, <1>3, <1>4, AppendFirst
<1>8. items' # <<>> /\ items'[Len(items')] = x
  BY <1>1, <1>2, <1>3, ItemsAppended
<1>9. UnsharedOf(h)'
  <2>1. \E p \in {"whole", "rest"} : items'[Len(items')] = [cur'[h] EXCEPT !.part = p]
    BY <1>2, <1>3, <1>8
  <2>2. Increasing(st[h])'
    BY <1>2 DEF UnsharedOf, Increasing
  <2>3. ASSUME NEW j \in DOMAIN st[h]
        PROVE  (\E k \in DOMAIN v1' : st'[h][j] = v1'[k]) \/ Complete(Len(items), st[h][j])'
    <3>1. (\E k \in DOMAIN v1 : st[h][j] = v1[k]) \/ Complete(Len(items), st[h][j])
      BY <1>2 DEF UnsharedOf
    <3>2. PICK y : y = st[h][j]
      OBVIOUS
    <3>3. Complete(Len(items), y) => Complete(Len(items), y)'
      BY <1>1, <1>2, <1>3, AppendComplete
    <3>4. y = st'[h][j]
      BY <1>2, <3>2
    <3>5. QED
      BY <1>2, <3>1, <3>2, <3>3, <3>4 DEF Complete
  <2>4. QED
    BY <1>2, <1>8, <2>1, <2>2, <2>3 DEF UnsharedOf
<1>10. QED
  BY <1>6, <1>7, <1>9

LEMMA CommitUnshared ==
  ASSUME Base, NEW h \in Handles, UnsharedOf(h), Commit(h)
  PROVE  UnsharedOf(h)' /\ Complete(Len(items), cur[h].num)
<1>1. DirTypeOK /\ Numbers /\ HandleTypes /\ HandleInv(h)
  BY BaseIs
<1>2. at[h] = "sync" /\ at'[h] = "idle" /\ v1' = v1 /\ items' = items
  BY <1>1, CommitIs
<1>3. PICK w, m : w = st'[h] /\ m = Len(st[h])
  OBVIOUS
<1>4. /\ DOMAIN w = 1..(m + 1) /\ w[m + 1] = cur[h].num /\ \A i \in 1..m : w[i] = st[h][i]
  BY <1>1, <1>3, CommitHandle
<1>5. m \in Nat /\ DOMAIN st[h] = 1..m /\ cur[h] \in Item
      /\ Len(items) \in Nat /\ DOMAIN items = 1..Len(items) /\ items \in Seq(Item)
  BY <1>1, <1>3, HandleValues, Values
<1>6. PICK p \in {"whole", "rest"} : items # <<>> /\ items[Len(items)] = [cur[h] EXCEPT !.part = p]
  BY <1>2 DEF UnsharedOf
<1>7. items[Len(items)].num = cur[h].num /\ items[Len(items)].part = p
  BY <1>5, <1>6 DEF Item
<1>8. Len(items) \in 1..Len(items)
  BY <1>5, <1>6, EmptySeq
<1>9. Complete(Len(items), cur[h].num)
  BY <1>6, <1>7, <1>8 DEF Complete
<1>10. Increasing(st[h])'
  BY CommitIncreasing DEF UnsharedOf
<1>11. ASSUME NEW j \in DOMAIN w
       PROVE  (\E k \in DOMAIN v1 : w[j] = v1[k]) \/ Complete(Len(items), w[j])
  <2>1. CASE j \in 1..m
    BY <1>2, <1>4, <1>5, <2>1 DEF UnsharedOf
  <2>2. CASE j = m + 1
    BY <1>4, <1>9, <2>2
  <2>3. QED
    BY <1>4, <1>5, <2>1, <2>2
<1>12. \A j \in DOMAIN st'[h] :
         (\E k \in DOMAIN v1' : st'[h][j] = v1'[k]) \/ Complete(Len(items), st[h][j])'
  BY <1>2, <1>3, <1>11 DEF Complete
<1>13. QED
  BY <1>2, <1>6, <1>9, <1>10, <1>12 DEF UnsharedOf

LEMMA FailsUnshared ==
  ASSUME Base, NEW h \in Handles, UnsharedOf(h), WriteFails(h)
  PROVE  UnsharedOf(h)'
<1>1. HandleTypes
  BY BaseIs
<1>2. /\ at[h] \in {"rest", "sync"} /\ at'[h] = "idle" /\ st'[h] = st[h] /\ last'[h] = last[h]
      /\ v1' = v1 /\ items' = items
  BY <1>1, WriteFailsIs
<1>3. Increasing(st[h])'
  BY <1>2 DEF UnsharedOf, Increasing
<1>4. \A j \in DOMAIN st'[h] :
         (\E k \in DOMAIN v1' : st'[h][j] = v1'[k]) \/ Complete(Len(items), st[h][j])'
  BY <1>2 DEF Complete, UnsharedOf
<1>5. items' = <<>> => last'[h] <= Len(v1')
  BY <1>2 DEF UnsharedOf
<1>6. QED
  BY <1>2, <1>3, <1>4, <1>5 DEF UnsharedOf

\* A handle is opening or has ended, or its step is one of those after the replay.
LEMMA EarlyOrLate ==
  ASSUME Base, NEW h \in Handles, HandleStep(h)
  PROVE  \/ ~Replayed(h)' /\ items' = items /\ acked' = acked
         \/ ReadBdw4(h) /\ Replayed(h)'
         \/ RepairTail(h) \/ WriteBatch(h) \/ WriteAll(h) \/ Commit(h) \/ WriteFails(h)
<1>1. DirTypeOK /\ Files /\ Numbers /\ HandleTypes /\ HandleInv(h)
  BY BaseIs
<1>2. ASSUME OpenBatch(h) \/ OpenMigrated(h) \/ ListWals(h) \/ ReadWal(h) \/ Close(h) \/ Crash(h)
      PROVE  ~Replayed(h)'
  <2>1. at'[h] \in {"closed", "list", "wal", "replay"}
    <3>1. CASE OpenBatch(h) \/ OpenMigrated(h)
      BY <1>1, <3>1, OpenIs DEF OpenBatch, OpenMigrated
    <3>2. CASE ListWals(h)
      BY <1>1, <3>2, ListWalsIs
    <3>3. CASE ReadWal(h)
      BY <1>1, <3>3, ReadWalHandle
    <3>4. CASE Close(h) \/ Crash(h)
      BY <1>1, <3>4, EndIs DEF Ended
    <3>5. QED
      BY <1>2, <3>1, <3>2, <3>3, <3>4
  <2>2. QED
    BY <2>1 DEF Replayed, Up
<1>3. ASSUME \/ OpenBatch(h) \/ OpenMigrated(h) \/ ListWals(h) \/ ReadWal(h) \/ ReadBdw4(h)
             \/ Close(h) \/ Crash(h)
      PROVE  items' = items /\ acked' = acked
  BY <1>3 DEF OpenBatch, OpenMigrated, Begins, ListWals, ReadWal, ReadBdw4, Close, Crash
<1>4. QED
  BY <1>2, <1>3 DEF HandleStep

LEMMA UnsharedOwn ==
  ASSUME Base, Base', NEW h \in Handles, HandleStep(h), UnsharedOf(h), Paired, FirstItem
  PROVE  UnsharedOf(h)' /\ Paired' /\ FirstItem'
<1>1. HandleTypes /\ v1' = v1
  BY BaseIs, StepIs
<1>2. CASE ~Replayed(h)' /\ items' = items
  BY <1>1, <1>2, EarlyUnshared, LogKept
<1>3. CASE ReadBdw4(h) /\ Replayed(h)'
  <2>1. items' = items
    BY <1>3 DEF ReadBdw4
  <2>2. QED
    BY <1>1, <1>3, <2>1, ReplayUnshared, LogKept
<1>4. CASE RepairTail(h) \/ WriteBatch(h) \/ WriteAll(h)
  BY <1>4, RepairUnshared, WriteUnshared, RestUnshared
<1>5. CASE Commit(h) \/ WriteFails(h)
  <2>1. items' = items
    BY <1>5 DEF Commit, WriteFails
  <2>2. QED
    BY <1>1, <1>5, <2>1, CommitUnshared, FailsUnshared, LogKept
<1>6. QED
  BY <1>2, <1>3, <1>4, <1>5, EarlyOrLate

LEMMA PutUnshared ==
  ASSUME Base, V1Put, Paired, FirstItem, Solo, \A g \in Handles : UnsharedOf(g)
  PROVE  Paired' /\ FirstItem' /\ Solo' /\ \A g \in Handles : UnsharedOf(g)'
<1>1. DirTypeOK /\ Files /\ Numbers
  BY BaseIs
<1>2. items' = items /\ HandlesSame
  BY V1PutIs
<1>3. /\ Len(v1') = Len(v1) + 1 /\ DOMAIN v1' = 1..(Len(v1) + 1)
      /\ \A k \in DOMAIN v1 : v1'[k] = v1[k]
  BY <1>1, PutKeepsNumbers
<1>4. /\ Len(v1) \in Nat /\ DOMAIN v1 = 1..Len(v1) /\ items \in Seq(Item)
      /\ Len(items) \in Nat /\ DOMAIN items = 1..Len(items)
      /\ \A i \in DOMAIN items : items[i].seq \in Nat
  BY <1>1, Values
<1>5. Paired' /\ Solo'
  BY <1>2 DEF Paired, Solo, HandlesSame
<1>6. FirstItem'
  <2>1. SUFFICES ASSUME items # <<>>
                 PROVE  /\ items[1].seq <= Len(v1') + 1
                        /\ \A k \in DOMAIN v1' : k < items[1].seq => v1'[k] < items[1].num
    BY <1>2 DEF FirstItem
  <2>2. 1 \in DOMAIN items
    BY <1>4, <2>1, EmptySeq
  <2>3. /\ items[1].seq <= Len(v1) + 1 /\ items[1].seq \in Nat
        /\ \A k \in DOMAIN v1 : k < items[1].seq => v1[k] < items[1].num
    BY <1>4, <2>1, <2>2 DEF FirstItem
  <2>4. \A k \in DOMAIN v1' : k < items[1].seq => k \in DOMAIN v1
    BY <1>3, <1>4, <2>3
  <2>5. QED
    BY <1>3, <1>4, <2>3, <2>4
<1>7. ASSUME NEW g \in Handles PROVE UnsharedOf(g)'
  <2>1. UnsharedOf(g) /\ last[g] \in Nat
    BY <1>1, HandleValues
  <2>2. /\ at'[g] = at[g] /\ st'[g] = st[g] /\ last'[g] = last[g] /\ good'[g] = good[g] /\ cur'[g] = cur[g]
    BY <1>2 DEF HandlesSame
  <2>3. last[g] <= Len(v1) => last'[g] <= Len(v1')
    BY <1>3, <1>4, <2>1, <2>2
  <2>4. Increasing(st[g])'
    BY <2>1, <2>2 DEF UnsharedOf, Increasing
  <2>5. \A j \in DOMAIN st'[g] :
          \/ \E k \in DOMAIN v1' : st'[g][j] = v1'[k]
          \/ Complete(IF at[g] = "repair" THEN good[g] ELSE Len(items), st[g][j])'
    <3>1. ASSUME NEW j \in DOMAIN st[g], NEW k \in DOMAIN v1, st[g][j] = v1[k]
          PROVE  k \in DOMAIN v1' /\ st'[g][j] = v1'[k]
      BY <1>3, <1>4, <2>2, <3>1
    <3>2. QED
      BY <1>2, <2>1, <2>2, <3>1 DEF UnsharedOf, Complete
  <2>6. QED
    BY <1>2, <2>1, <2>2, <2>3, <2>4, <2>5 DEF UnsharedOf
<1>8. QED
  BY <1>5, <1>6, <1>7

LEMMA UnsharedStep == Base /\ Base' /\ Unshared /\ [DirNext]_dirVars => Unshared'
<1> SUFFICES ASSUME Base, Base', Unshared, [DirNext]_dirVars, "shared" \notin taint'
             PROVE  Solo' /\ Paired' /\ FirstItem' /\ \A g \in Handles : UnsharedOf(g)'
  BY UnsharedIsNext
<1>1. CASE V1Put
  <2>1. "shared" \notin taint
    BY <1>1, V1PutIs
  <2>2. QED
    BY <1>1, <2>1, UnsharedIs, PutUnshared
<1>2. CASE V1Checkpoint \/ UNCHANGED dirVars
  <2>1. /\ v1' = v1 /\ items' = items /\ at' = at /\ st' = st /\ last' = last /\ good' = good
        /\ cur' = cur /\ taint \subseteq taint'
    BY <1>2, V1CheckpointIs DEF HandlesSame, dirVars, v1Vars, hVars
  <2>2. Solo /\ Paired /\ FirstItem /\ \A g \in Handles : UnsharedOf(g)
    BY <2>1, UnsharedIs
  <2>3. Solo' /\ Paired' /\ FirstItem'
    BY <2>1, <2>2, LogKept DEF Solo
  <2>4. ASSUME NEW g \in Handles PROVE UnsharedOf(g)'
    BY <2>1, <2>2 DEF UnsharedOf, Increasing, Complete
  <2>5. QED
    BY <2>3, <2>4
<1>3. ASSUME NEW h \in Handles, HandleStep(h)
      PROVE  Solo' /\ Paired' /\ FirstItem' /\ \A g \in Handles : UnsharedOf(g)'
  <2>1. /\ "shared" \notin taint /\ Solo' /\ \A g \in Handles \ {h} : at'[g] = "closed"
    BY <1>3, SoloStep
  <2>2. Paired /\ FirstItem /\ UnsharedOf(h)
    BY <2>1, UnsharedIs
  <2>3. UnsharedOf(h)' /\ Paired' /\ FirstItem'
    BY <1>3, <2>2, UnsharedOwn
  <2>4. ASSUME NEW g \in Handles \ {h} PROVE UnsharedOf(g)'
    <3>1. ~Replayed(g)'
      BY <2>1 DEF Replayed, Up
    <3>2. QED
      BY <3>1, EarlyUnshared
  <2>5. QED
    BY <2>1, <2>3, <2>4
<1>4. QED
  BY <1>1, <1>2, <1>3 DEF DirNext, HandleStep

-----------------------------------------------------------------------------
(* No write has failed                                                     *)

AllComplete == \A x \in acked : Complete(Len(items), x)
Sole == taint \cap {"shared", "failed"} = {}

LEMMA FramedIs ==
  ASSUME Framed, Sole PROVE Followed /\ AllComplete /\ \A h \in Handles : FramedOf(h)
  BY Zenon DEF Framed, AllComplete, Sole

LEMMA FramedIsNext ==
  ASSUME Sole' => Followed' /\ AllComplete' /\ \A h \in Handles : FramedOf(h)'
  PROVE  Framed'
  BY Zenon DEF Framed, AllComplete, Sole

LEMMA EarlyFramed ==
  ASSUME NEW h \in Handles, ~Replayed(h)'
  PROVE  FramedOf(h)'
  BY DEF FramedOf, Replayed, Up

LEMMA FramedKept ==
  ASSUME Followed, AllComplete, items' = items, acked' = acked
  PROVE  Followed' /\ AllComplete'
  BY DEF Followed, AllComplete, Complete

\* A state that was read together with the whole log
LEMMA ReplayFramed ==
  ASSUME Base, NEW h \in Handles, Paired, Followed, AllComplete, ReadBdw4(h), Replayed(h)'
  PROVE  FramedOf(h)'
<1>1. DirTypeOK /\ Numbers /\ HandleTypes /\ HandleInv(h)
  BY BaseIs
<1>2. ~Ended(h)
  BY DEF Ended, Replayed, Up
<1>3. /\ at[h] \in {"replay", "wal"} /\ Quiet
      /\ \E long \in BOOLEAN, r \in {Recovered(st[h], last[h], TRUE), Recovered(st[h], last[h], FALSE)} :
              /\ r = Recovered(st[h], last[h], long) /\ r.end \notin {"gap", "garbage"}
              /\ st'[h] = r.ops /\ last'[h] = r.last /\ good'[h] = r.good
              /\ at'[h] = IF r.end = "torn" THEN "repair" ELSE "idle"
  BY <1>1, <1>2, ReadBdw4Is
<1>4. PICK long \in BOOLEAN, r \in {Recovered(st[h], last[h], TRUE), Recovered(st[h], last[h], FALSE)} :
              /\ r = Recovered(st[h], last[h], long) /\ r.end \notin {"gap", "garbage"}
              /\ st'[h] = r.ops /\ good'[h] = r.good
              /\ at'[h] = IF r.end = "torn" THEN "repair" ELSE "idle"
  BY <1>3
<1>5. st[h] \in Seq(Num) /\ last[h] \in Nat /\ last[h] <= n /\ Len(items) \in Nat /\ DOMAIN items = 1..Len(items)
      /\ items \in Seq(Item)
  BY <1>1, HandleValues, Values DEF HandleInv, ReadingOf
<1>6. /\ r.end \in {"none", "torn"}
      /\ \A i \in DOMAIN items : items[i].part # "head" =>
            i <= r.good /\ \E k \in 1..Len(r.ops) : r.ops[k] = items[i].num
      /\ r.good > 0 => items[r.good].part # "head"
      /\ r.end = "none" => r.good = Len(items)
  BY <1>1, <1>4, <1>5, RecoveredIsWhole
<1>7. items' = items /\ acked' = acked
  BY <1>3 DEF Quiet
<1>8. PICK w, y : w = r.ops /\ y = r.good
  OBVIOUS
<1>9. DOMAIN w = 1..Len(w)
  <2>1. w \in Seq(Num)
    BY <1>1, <1>4, <1>5, <1>8, RecoveredIs
  <2>2. QED
    BY <2>1, LenProperties
<1>10. ASSUME NEW x \in acked PROVE \E j \in DOMAIN w : w[j] = x
  <2>1. PICK i \in 1..Len(items) : items[i].num = x /\ items[i].part # "head"
    BY DEF AllComplete, Complete
  <2>2. \E k \in 1..Len(r.ops) : r.ops[k] = items[i].num
    BY <1>5, <1>6, <2>1
  <2>3. QED
    BY <1>8, <1>9, <2>1, <2>2
<1>11. at'[h] = "idle" /\ items' # <<>> => items'[Len(items')].part # "head"
  <2>1. SUFFICES ASSUME at'[h] = "idle", items # <<>> PROVE items[Len(items)].part # "head"
    BY <1>7
  <2>2. r.end = "none"
    BY <1>4, <1>6, <2>1
  <2>3. Len(items) > 0
    BY <1>5, <2>1, EmptySeq
  <2>4. QED
    BY <1>6, <1>8, <2>2, <2>3
<1>12. at'[h] \in {"repair", "idle"}
  BY <1>4
<1>13. /\ \A i \in DOMAIN items' : items'[i].part # "head" => i <= good'[h]
       /\ good'[h] > 0 => items'[good'[h]].part # "head"
  BY <1>4, <1>6, <1>7
<1>14. \A x \in acked' : \E j \in DOMAIN st'[h] : st'[h][j] = x
  BY <1>4, <1>7, <1>8, <1>10
<1>15. QED
  BY <1>11, <1>12, <1>13, <1>14 DEF FramedOf

LEMMA RepairFramed ==
  ASSUME Base, NEW h \in Handles, UnsharedOf(h), FramedOf(h), Followed, AllComplete, RepairTail(h)
  PROVE  FramedOf(h)' /\ Followed' /\ AllComplete'
<1>1. DirTypeOK /\ HandleTypes
  BY BaseIs
<1>2. /\ at[h] = "repair" /\ at'[h] = "idle" /\ st'[h] = st[h] /\ acked' = acked
      /\ items' = IF good[h] <= Len(items) THEN SubSeq(items, 1, good[h]) ELSE Append(items, Zeros)
  BY <1>1, RepairTailIs
<1>3. PICK m : m = good[h]
  OBVIOUS
<1>4. m \in Nat /\ m <= Len(items) /\ Len(items) \in Nat /\ DOMAIN items = 1..Len(items)
  BY <1>1, <1>2, <1>3, HandleValues, Values DEF UnsharedOf
<1>5. /\ items' = SubSeq(items, 1, m)
      /\ Len(items') = m /\ DOMAIN items' = 1..m /\ DOMAIN items' \subseteq DOMAIN items
      /\ \A i \in DOMAIN items' : items'[i] = items[i]
  BY <1>1, <1>2, <1>3, <1>4, ItemsCut
<1>6. /\ \A i \in DOMAIN items : items[i].part # "head" => i <= m
      /\ m > 0 => items[m].part # "head"
      /\ \A x \in acked : \E j \in DOMAIN st[h] : st[h][j] = x
  BY <1>2, <1>3 DEF FramedOf, Replayed
<1>7. Followed'
  <2>1. ASSUME NEW i \in DOMAIN items', items'[i].part = "head"
        PROVE  i = Len(items') \/ items'[i + 1].part = "rest"
    <3>1. i # m
      BY <1>4, <1>5, <1>6, <2>1
    <3>2. i + 1 \in DOMAIN items' /\ i # Len(items)
      BY <1>4, <1>5, <3>1
    <3>3. items[i + 1].part = "rest"
      BY <1>5, <2>1, <3>2 DEF Followed
    <3>4. QED
      BY <1>5, <3>2, <3>3
  <2>2. QED
    BY <2>1 DEF Followed
<1>8. AllComplete'
  <2>1. ASSUME NEW x \in acked PROVE \E i \in 1..Len(items') : items'[i].num = x /\ items'[i].part # "head"
    <3>1. PICK i \in 1..Len(items) : items[i].num = x /\ items[i].part # "head"
      BY DEF AllComplete, Complete
    <3>2. i \in DOMAIN items'
      BY <1>4, <1>5, <1>6, <3>1
    <3>3. QED
      BY <1>5, <3>1, <3>2
  <2>2. QED
    BY <1>2, <2>1 DEF AllComplete, Complete
<1>9. items' # <<>> => items'[Len(items')].part # "head"
  <2>1. CASE m = 0
    <3>1. items' \in Seq(Item)
      BY <1>1, <1>4, <1>5, ItemsCut
    <3>2. QED
      BY <1>5, <2>1, <3>1, EmptySeq
  <2>2. CASE m # 0
    <3>1. m > 0 /\ m \in DOMAIN items'
      BY <1>4, <1>5, <2>2
    <3>2. QED
      BY <1>5, <1>6, <3>1
  <2>3. QED
    BY <2>1, <2>2
<1>10. FramedOf(h)'
  BY <1>2, <1>6, <1>9 DEF FramedOf
<1>11. QED
  BY <1>7, <1>8, <1>10

LEMMA AppendFollowed ==
  ASSUME DirTypeOK, Followed, AllComplete, acked' = acked, NEW x \in Item, items' = Append(items, x),
         items # <<>> /\ items[Len(items)].part = "head" => x.part = "rest"
  PROVE  Followed' /\ AllComplete'
<1>1. /\ Len(items') = Len(items) + 1 /\ DOMAIN items' = 1..(Len(items) + 1)
      /\ items'[Len(items) + 1] = x /\ (\A i \in DOMAIN items : items'[i] = items[i])
      /\ \A i \in DOMAIN items' : i = Len(items) + 1 \/ i \in DOMAIN items
  BY ItemsAppended
<1>2. Len(items) \in Nat /\ DOMAIN items = 1..Len(items) /\ items \in Seq(Item)
  BY Values
<1>3. ASSUME NEW i \in DOMAIN items', items'[i].part = "head"
      PROVE  i = Len(items') \/ items'[i + 1].part = "rest"
  <2>1. CASE i = Len(items) + 1
    BY <1>1, <2>1
  <2>2. CASE i \in DOMAIN items /\ i = Len(items)
    <3>1. items # <<>> /\ items[Len(items)].part = "head"
      BY <1>1, <1>2, <1>3, <2>2, EmptyIs
    <3>2. QED
      BY <1>1, <2>2, <3>1
  <2>3. CASE i \in DOMAIN items /\ i # Len(items)
    <3>1. items[i + 1].part = "rest"
      BY <1>1, <1>3, <2>3 DEF Followed
    <3>2. i + 1 \in DOMAIN items
      BY <1>2, <2>3
    <3>3. QED
      BY <1>1, <3>1, <3>2
  <2>4. QED
    BY <1>1, <2>1, <2>2, <2>3
<1>4. ASSUME NEW y \in acked PROVE Complete(Len(items), y)'
  <2>1. Complete(Len(items), y)
    BY DEF AllComplete
  <2>2. QED
    BY <2>1, AppendComplete
<1>5. QED
  BY <1>3, <1>4 DEF Followed, AllComplete

LEMMA WriteFramed ==
  ASSUME Base, NEW h \in Handles, FramedOf(h), Followed, AllComplete, WriteBatch(h)
  PROVE  FramedOf(h)' /\ Followed' /\ AllComplete'
<1>1. DirTypeOK /\ Files /\ Numbers /\ HandleTypes /\ HandleInv(h) /\ ReadingOf(h)
  BY BaseIs DEF HandleInv
<1>2. /\ at[h] = "idle" /\ at'[h] \in {"rest", "sync"} /\ st'[h] = st[h] /\ acked' = acked
  BY <1>1, WriteBatchIs
<1>3. PICK x \in Item : /\ items' = Append(items, x)
                        /\ \/ at'[h] = "sync" /\ x = NewFrame(h)
                           \/ at'[h] = "rest" /\ x = [NewFrame(h) EXCEPT !.part = "head"]
  BY <1>1, WriteKeepsNumbers
<1>4. NewFrame(h).part = "whole"
  BY DEF NewFrame
<1>5. Followed' /\ AllComplete'
  BY <1>1, <1>2, <1>3, AppendFollowed DEF FramedOf
<1>6. items'[Len(items')] = x
  BY <1>1, <1>3, ItemsAppended
<1>7. at'[h] = "sync" => items'[Len(items')].part # "head"
  BY <1>3, <1>4, <1>6
<1>8. \A y \in acked' : \E j \in DOMAIN st'[h] : st'[h][j] = y
  BY <1>2 DEF FramedOf, Replayed, Up
<1>9. QED
  BY <1>2, <1>5, <1>7, <1>8 DEF FramedOf

LEMMA RestFramed ==
  ASSUME Base, NEW h \in Handles, FramedOf(h), Followed, AllComplete, WriteAll(h)
  PROVE  FramedOf(h)' /\ Followed' /\ AllComplete'
<1>1. DirTypeOK /\ HandleTypes
  BY BaseIs
<1>2. /\ at[h] = "rest" /\ at'[h] = "sync" /\ st'[h] = st[h] /\ acked' = acked
      /\ items' = Append(items, [cur[h] EXCEPT !.part = "rest"])
  BY <1>1, WriteAllIs
<1>3. PICK x \in Item : x = [cur[h] EXCEPT !.part = "rest"] /\ x.part = "rest"
  BY <1>1, RestIs
<1>4. Followed' /\ AllComplete'
  BY <1>1, <1>2, <1>3, AppendFollowed
<1>5. items'[Len(items')] = x
  BY <1>1, <1>2, <1>3, ItemsAppended
<1>6. \A y \in acked' : \E j \in DOMAIN st'[h] : st'[h][j] = y
  BY <1>2 DEF FramedOf, Replayed, Up
<1>7. QED
  BY <1>2, <1>3, <1>4, <1>5, <1>6 DEF FramedOf

LEMMA CommitFramed ==
  ASSUME Base, NEW h \in Handles, UnsharedOf(h), FramedOf(h), Followed, AllComplete, Commit(h)
  PROVE  FramedOf(h)' /\ Followed' /\ AllComplete'
<1>1. DirTypeOK /\ Numbers /\ HandleTypes /\ HandleInv(h)
  BY BaseIs
<1>2. at[h] = "sync" /\ at'[h] = "idle" /\ items' = items /\ acked' = acked \cup {cur[h].num}
  BY <1>1, CommitIs
<1>3. PICK w, m : w = st'[h] /\ m = Len(st[h])
  OBVIOUS
<1>4. /\ DOMAIN w = 1..(m + 1) /\ w[m + 1] = cur[h].num /\ \A i \in 1..m : w[i] = st[h][i]
  BY <1>1, <1>3, CommitHandle
<1>5. m \in Nat /\ DOMAIN st[h] = 1..m
  BY <1>1, <1>3, HandleValues
<1>6. Complete(Len(items), cur[h].num)
  BY CommitUnshared
<1>7. Followed' /\ AllComplete'
  BY <1>2, <1>6 DEF Followed, AllComplete, Complete
<1>8. ASSUME NEW x \in acked' PROVE \E j \in DOMAIN w : w[j] = x
  <2>1. CASE x = cur[h].num
    BY <1>4, <1>5, <2>1
  <2>2. CASE x \in acked
    <3>1. PICK j \in DOMAIN st[h] : st[h][j] = x
      BY <1>2, <2>2 DEF FramedOf, Replayed, Up
    <3>2. j \in DOMAIN w /\ w[j] = x
      BY <1>4, <1>5, <3>1
    <3>3. QED
      BY <3>2
  <2>3. QED
    BY <1>2, <2>1, <2>2
<1>9. items' # <<>> => items'[Len(items')].part # "head"
  BY <1>2 DEF FramedOf
<1>10. FramedOf(h)'
  BY <1>2, <1>3, <1>8, <1>9 DEF FramedOf
<1>11. QED
  BY <1>7, <1>10

LEMMA FramedOwn ==
  ASSUME Base, NEW h \in Handles, HandleStep(h), UnsharedOf(h), Paired,
         FramedOf(h), Followed, AllComplete, Sole'
  PROVE  FramedOf(h)' /\ Followed' /\ AllComplete'
<1>1. CASE ~Replayed(h)' /\ items' = items /\ acked' = acked
  BY <1>1, EarlyFramed, FramedKept
<1>2. CASE ReadBdw4(h) /\ Replayed(h)'
  <2>1. items' = items /\ acked' = acked
    BY <1>2 DEF ReadBdw4
  <2>2. QED
    BY <1>2, <2>1, ReplayFramed, FramedKept
<1>3. CASE RepairTail(h) \/ WriteBatch(h) \/ WriteAll(h) \/ Commit(h)
  BY <1>3, RepairFramed, WriteFramed, RestFramed, CommitFramed
<1>4. CASE WriteFails(h)
  <2>1. "failed" \in taint'
    BY <1>4 DEF WriteFails, Taint
  <2>2. QED
    BY <2>1 DEF Sole
<1>5. QED
  BY <1>1, <1>2, <1>3, <1>4, EarlyOrLate

LEMMA FramedStep == Base /\ Base' /\ Unshared /\ Framed /\ [DirNext]_dirVars => Framed'
<1> SUFFICES ASSUME Base, Base', Unshared, Framed, [DirNext]_dirVars, Sole'
             PROVE  Followed' /\ AllComplete' /\ \A g \in Handles : FramedOf(g)'
  BY FramedIsNext
<1>1. CASE V1Put \/ V1Checkpoint \/ UNCHANGED dirVars
  <2>1. /\ items' = items /\ acked' = acked /\ at' = at /\ st' = st /\ good' = good /\ taint \subseteq taint'
    BY <1>1, V1PutIs, V1CheckpointIs DEF HandlesSame, dirVars, v1Vars, hVars
  <2>2. Followed /\ AllComplete /\ \A g \in Handles : FramedOf(g)
    BY <2>1, FramedIs DEF Sole
  <2>3. Followed' /\ AllComplete'
    BY <2>1, <2>2, FramedKept
  <2>4. ASSUME NEW g \in Handles PROVE FramedOf(g)'
    BY <2>1, <2>2 DEF FramedOf, Replayed, Up
  <2>5. QED
    BY <2>3, <2>4
<1>2. ASSUME NEW h \in Handles, HandleStep(h)
      PROVE  Followed' /\ AllComplete' /\ \A g \in Handles : FramedOf(g)'
  <2>1. taint \subseteq taint' /\ "shared" \notin taint'
    BY <1>2, StepIs DEF Sole
  <2>2. Sole /\ "shared" \notin taint /\ \A g \in Handles \ {h} : at'[g] = "closed"
    BY <1>2, <2>1, SoloStep DEF Sole
  <2>3. Paired /\ UnsharedOf(h) /\ Followed /\ AllComplete /\ FramedOf(h)
    BY <2>2, UnsharedIs, FramedIs
  <2>4. FramedOf(h)' /\ Followed' /\ AllComplete'
    BY <1>2, <2>3, FramedOwn
  <2>5. ASSUME NEW g \in Handles \ {h} PROVE FramedOf(g)'
    <3>1. ~Replayed(g)'
      BY <2>2 DEF Replayed, Up
    <3>2. QED
      BY <3>1, EarlyFramed
  <2>6. QED
    BY <2>4, <2>5
<1>3. QED
  BY <1>1, <1>2 DEF DirNext, HandleStep

-----------------------------------------------------------------------------
(* The sequences of a sole user's log                                      *)

LEMMA EarlyConsecutive ==
  ASSUME Base, NEW h \in Handles, HandleStep(h), ConsecutiveOf(h), ~Replayed(h)'
  PROVE  ConsecutiveOf(h)'
<1>1. DirTypeOK /\ Files /\ Numbers /\ HandleTypes /\ HandleInv(h) /\ v1' = v1
  BY BaseIs, StepIs
<1>2. at'[h] \notin {"idle", "repair"}
  BY DEF Replayed, Up
<1>3. at'[h] # "closed" => begun'[h] = Len(v1)
  <2>1. CASE OpenBatch(h) \/ OpenMigrated(h)
    BY <1>1, <2>1, OpenIs DEF OpenBatch, OpenMigrated
  <2>2. CASE ListWals(h)
    BY <1>1, <2>2, ListWalsIs DEF ConsecutiveOf
  <2>3. CASE ReadWal(h)
    <3>1. CASE Ended(h)
      BY <3>1 DEF Ended
    <3>2. CASE ~Ended(h)
      BY <1>1, <2>3, <3>2, ReadWalIs DEF ConsecutiveOf
    <3>3. QED
      BY <3>1, <3>2
  <2>4. CASE ReadBdw4(h)
    <3>1. CASE Ended(h)
      BY <3>1 DEF Ended
    <3>2. CASE ~Ended(h)
      BY <1>1, <2>4, <3>2, ReadBdw4Is DEF ConsecutiveOf
    <3>3. QED
      BY <3>1, <3>2
  <2>5. CASE Close(h) \/ Crash(h)
    BY <1>1, <2>5, EndIs DEF Ended
  <2>6. CASE RepairTail(h)
    BY <1>1, <2>6, RepairTailIs DEF ConsecutiveOf
  <2>7. CASE WriteBatch(h)
    BY <1>1, <2>7, WriteBatchIs DEF ConsecutiveOf
  <2>8. CASE WriteAll(h)
    BY <1>1, <2>8, WriteAllIs DEF ConsecutiveOf
  <2>9. CASE Commit(h)
    BY <1>1, <2>9, CommitIs DEF ConsecutiveOf
  <2>10. CASE WriteFails(h)
    BY <1>1, <2>10, WriteFailsIs DEF ConsecutiveOf
  <2>11. QED
    BY <2>1, <2>2, <2>3, <2>4, <2>5, <2>6, <2>7, <2>8, <2>9, <2>10 DEF HandleStep
<1>4. QED
  BY <1>1, <1>2, <1>3 DEF ConsecutiveOf

LEMMA NumberedKept ==
  ASSUME Numbered, items' = items, v1' = v1
  PROVE  Numbered' /\ \A m \in Nat : LogEnd(m)' = LogEnd(m)
  BY DEF Numbered, LogEnd

\* A handle that opens has read all of v1.
LEMMA ReplayConsecutive ==
  ASSUME Base, NEW h \in Handles, UnracedOf(h), Paired, Followed, Numbered, ConsecutiveOf(h),
         ReadBdw4(h), Replayed(h)'
  PROVE  ConsecutiveOf(h)'
<1>1. DirTypeOK /\ Files /\ Numbers /\ HandleTypes /\ HandleInv(h)
  BY BaseIs
<1>2. ~Ended(h)
  BY DEF Ended, Replayed, Up
<1>3. /\ at[h] \in {"replay", "wal"} /\ todo[h] = {} /\ Quiet
      /\ \E long \in BOOLEAN, r \in {Recovered(st[h], last[h], TRUE), Recovered(st[h], last[h], FALSE)} :
              /\ r = Recovered(st[h], last[h], long)
              /\ st'[h] = r.ops /\ last'[h] = r.last /\ good'[h] = r.good /\ begun'[h] = begun[h]
              /\ r.end \notin {"gap", "garbage"}
              /\ at'[h] = IF r.end = "torn" THEN "repair" ELSE "idle"
  BY <1>1, <1>2, ReadBdw4Is
<1>4. PICK long \in BOOLEAN, r \in {Recovered(st[h], last[h], TRUE), Recovered(st[h], last[h], FALSE)} :
              /\ r = Recovered(st[h], last[h], long) /\ r.end \notin {"gap", "garbage"}
              /\ last'[h] = r.last /\ good'[h] = r.good /\ begun'[h] = begun[h]
              /\ at'[h] = IF r.end = "torn" THEN "repair" ELSE "idle"
  BY <1>3
<1>5. /\ st[h] \in Seq(Num) /\ last[h] \in Nat /\ Len(v1) \in Nat /\ Len(items) \in Nat
      /\ begun[h] \in Nat
  BY <1>1, HandleValues, Values
<1>6. last[h] <= n /\ last[h] <= Len(v1)
  BY <1>1, <1>3 DEF HandleInv, ReadingOf, Replayed, Up
<1>7. begun[h] = Len(v1)
  BY <1>3 DEF ConsecutiveOf
<1>8. last[h] = Len(v1)
  <2>1. CASE at[h] = "wal"
    <3>1. begun[h] <= last[h]
      BY <1>3, <2>1 DEF UnracedOf
    <3>2. QED
      BY <1>5, <1>6, <1>7, <3>1
  <2>2. CASE at[h] = "replay"
    BY <1>1, <1>7, <2>2 DEF HandleInv, ReadingOf
  <2>3. QED
    BY <1>3, <2>1, <2>2
<1>9. /\ r.end \in {"none", "torn"} /\ (r.end = "none" => r.good = Len(items))
      /\ r.last = LogEnd(r.good)
  BY <1>1, <1>4, <1>5, <1>6, <1>8, RecoveredIsWhole
<1>10. r.good \in Nat
  BY <1>1, <1>4, <1>5, <1>6, RecoveredIs
<1>11. v1' = v1 /\ items' = items
  BY <1>3 DEF Quiet
<1>12. \A m \in Nat : LogEnd(m)' = LogEnd(m)
  BY <1>11, NumberedKept
<1>13. PICK y : y = r.good
  OBVIOUS
<1>14. LogEnd(y)' = LogEnd(y) /\ good'[h] = y /\ last'[h] = LogEnd(y)
  BY <1>4, <1>9, <1>10, <1>12, <1>13
<1>15. at'[h] \in {"repair", "idle"} /\ (at'[h] = "idle" => y = Len(items'))
  BY <1>4, <1>9, <1>11, <1>13
<1>16. LogEnd(y)' = last'[h] /\ begun'[h] = Len(v1')
  BY <1>4, <1>7, <1>11, <1>14
<1>17. QED
  BY <1>14, <1>15, <1>16 DEF ConsecutiveOf, LogEnd

LEMMA RepairConsecutive ==
  ASSUME Base, NEW h \in Handles, UnsharedOf(h), Numbered, ConsecutiveOf(h), RepairTail(h)
  PROVE  ConsecutiveOf(h)' /\ Numbered'
<1>1. DirTypeOK /\ HandleTypes
  BY BaseIs
<1>2. /\ at[h] = "repair" /\ at'[h] = "idle" /\ last'[h] = last[h] /\ begun'[h] = begun[h] /\ v1' = v1
      /\ items' = IF good[h] <= Len(items) THEN SubSeq(items, 1, good[h]) ELSE Append(items, Zeros)
  BY <1>1, RepairTailIs
<1>3. PICK m : m = good[h]
  OBVIOUS
<1>4. m \in Nat /\ m <= Len(items) /\ Len(items) \in Nat /\ DOMAIN items = 1..Len(items)
  BY <1>1, <1>2, <1>3, HandleValues, Values DEF UnsharedOf
<1>5. /\ items' = SubSeq(items, 1, m)
      /\ Len(items') = m /\ DOMAIN items' = 1..m /\ DOMAIN items' \subseteq DOMAIN items
      /\ \A i \in DOMAIN items' : items'[i] = items[i]
  BY <1>1, <1>2, <1>3, <1>4, ItemsCut
<1>6. \A i \in 0..m : LogEnd(i)' = LogEnd(i)
  <2>1. ASSUME NEW i \in 0..m PROVE LogEnd(i)' = LogEnd(i)
    <3>1. i = 0 \/ i \in DOMAIN items'
      BY <1>4, <1>5
    <3>2. QED
      BY <1>2, <1>5, <3>1 DEF LogEnd
  <2>2. QED
    BY <2>1
<1>7. Numbered'
  <2>1. ASSUME NEW i \in DOMAIN items', items'[i].part # "rest"
        PROVE  items'[i].seq = LogEnd(i - 1)' + 1
    <3>1. items[i].seq = LogEnd(i - 1) + 1
      BY <1>5, <2>1 DEF Numbered
    <3>2. i - 1 \in 0..m
      BY <1>4, <1>5
    <3>3. QED
      BY <1>5, <1>6, <3>1, <3>2
  <2>2. QED
    BY <2>1 DEF Numbered
<1>8. last'[h] = LogEnd(m)' /\ begun'[h] = Len(v1')
  <2>1. last[h] = LogEnd(m) /\ begun[h] = Len(v1)
    BY <1>2, <1>3 DEF ConsecutiveOf
  <2>2. LogEnd(m)' = LogEnd(m)
    BY <1>4, <1>6
  <2>3. QED
    BY <1>2, <2>1, <2>2
<1>9. ConsecutiveOf(h)'
  BY <1>2, <1>5, <1>8 DEF ConsecutiveOf, LogEnd
<1>10. QED
  BY <1>7, <1>9

LEMMA AppendNumbered ==
  ASSUME DirTypeOK, Numbered, v1' = v1, NEW x \in Item, items' = Append(items, x),
         x.part # "rest" => x.seq = LogEnd(Len(items)) + 1
  PROVE  Numbered'
<1>1. /\ Len(items') = Len(items) + 1 /\ DOMAIN items' = 1..(Len(items) + 1)
      /\ items'[Len(items) + 1] = x /\ (\A i \in DOMAIN items : items'[i] = items[i])
      /\ \A i \in DOMAIN items' : i = Len(items) + 1 \/ i \in DOMAIN items
  BY ItemsAppended
<1>2. Len(items) \in Nat /\ DOMAIN items = 1..Len(items)
  BY Values
<1>3. ASSUME NEW i \in 0..Len(items) PROVE LogEnd(i)' = LogEnd(i)
  <2>1. i = 0 \/ i \in DOMAIN items
    BY <1>2
  <2>2. QED
    BY <1>1, <2>1 DEF LogEnd
<1>4. ASSUME NEW i \in DOMAIN items', items'[i].part # "rest"
      PROVE  items'[i].seq = LogEnd(i - 1)' + 1
  <2>1. i - 1 \in 0..Len(items)
    BY <1>1, <1>2
  <2>2. LogEnd(i - 1)' = LogEnd(i - 1)
    BY <1>3, <2>1
  <2>3. CASE i \in DOMAIN items
    BY <1>1, <1>4, <2>2, <2>3 DEF Numbered
  <2>4. CASE i = Len(items) + 1
    <3>1. i - 1 = Len(items)
      BY <1>2, <2>4
    <3>2. QED
      BY <1>1, <1>4, <2>2, <2>4, <3>1
  <2>5. QED
    BY <1>1, <2>3, <2>4
<1>5. QED
  BY <1>4 DEF Numbered

LEMMA WriteConsecutive ==
  ASSUME Base, NEW h \in Handles, Numbered, ConsecutiveOf(h), WriteBatch(h)
  PROVE  ConsecutiveOf(h)' /\ Numbered'
<1>1. DirTypeOK /\ Files /\ Numbers /\ HandleTypes /\ HandleInv(h) /\ ReadingOf(h)
  BY BaseIs DEF HandleInv
<1>2. /\ at[h] = "idle" /\ at'[h] \in {"rest", "sync"} /\ begun'[h] = begun[h] /\ v1' = v1
  BY <1>1, WriteBatchIs
<1>3. PICK x \in Item : items' = Append(items, x) /\ x.seq = last[h] + 1
  BY <1>1, WriteKeepsNumbers
<1>4. last[h] = LogEnd(Len(items)) /\ begun[h] = Len(v1)
  BY <1>2 DEF ConsecutiveOf
<1>5. x.seq = LogEnd(Len(items)) + 1
  BY <1>3, <1>4
<1>6. Numbered'
  BY <1>1, <1>2, <1>3, <1>5, AppendNumbered
<1>7. QED
  BY <1>2, <1>4, <1>6 DEF ConsecutiveOf

LEMMA RestConsecutive ==
  ASSUME Base, NEW h \in Handles, Numbered, ConsecutiveOf(h), WriteAll(h)
  PROVE  ConsecutiveOf(h)' /\ Numbered'
<1>1. DirTypeOK /\ HandleTypes
  BY BaseIs
<1>2. /\ at[h] = "rest" /\ at'[h] = "sync" /\ begun'[h] = begun[h] /\ v1' = v1
      /\ items' = Append(items, [cur[h] EXCEPT !.part = "rest"])
  BY <1>1, WriteAllIs
<1>3. PICK x \in Item : x = [cur[h] EXCEPT !.part = "rest"] /\ x.part = "rest"
  BY <1>1, RestIs
<1>4. Numbered'
  BY <1>1, <1>2, <1>3, AppendNumbered
<1>5. QED
  BY <1>2, <1>4 DEF ConsecutiveOf

LEMMA CommitConsecutive ==
  ASSUME Base, NEW h \in Handles, UnsharedOf(h), Numbered, ConsecutiveOf(h), Commit(h)
  PROVE  ConsecutiveOf(h)' /\ Numbered'
<1>1. DirTypeOK /\ HandleTypes
  BY BaseIs
<1>2. /\ at[h] = "sync" /\ at'[h] = "idle" /\ begun'[h] = begun[h] /\ v1' = v1 /\ items' = items
      /\ last'[h] = cur[h].seq
  BY <1>1, CommitIs
<1>3. cur[h] \in Item /\ Len(items) \in Nat /\ items \in Seq(Item)
  BY <1>1, HandleValues, Values
<1>4. PICK p \in {"whole", "rest"} : items # <<>> /\ items[Len(items)] = [cur[h] EXCEPT !.part = p]
  BY <1>2 DEF UnsharedOf
<1>5. items[Len(items)].seq = cur[h].seq
  BY <1>3, <1>4 DEF Item
<1>6. Len(items) # 0
  BY <1>3, <1>4, EmptySeq
<1>7. LogEnd(Len(items)) = cur[h].seq
  BY <1>5, <1>6 DEF LogEnd
<1>8. Numbered' /\ LogEnd(Len(items))' = LogEnd(Len(items))
  BY <1>2 DEF Numbered, LogEnd
<1>9. last'[h] = LogEnd(Len(items))'
  BY <1>2, <1>7, <1>8
<1>10. begun'[h] = Len(v1')
  BY <1>2 DEF ConsecutiveOf
<1>11. QED
  BY <1>2, <1>8, <1>9, <1>10 DEF ConsecutiveOf

LEMMA ConsecutiveStep ==
  Base /\ Base' /\ Unraced /\ Unshared /\ Framed /\ Consecutive /\ [DirNext]_dirVars => Consecutive'
<1> SUFFICES ASSUME Base, Base', Unraced, Unshared, Framed, Consecutive, [DirNext]_dirVars, taint' = {}
             PROVE  Numbered' /\ \A g \in Handles : ConsecutiveOf(g)'
  BY DEF Consecutive
<1>1. CASE V1Put
  <2>1. items' = items /\ items = <<>> /\ HandlesSame /\ \A g \in Handles : at[g] = "closed"
    BY <1>1, V1PutIs
  <2>2. Numbered'
    BY <2>1, EmptyIs DEF Numbered
  <2>3. \A g \in Handles : ConsecutiveOf(g)'
    BY <2>1 DEF HandlesSame, ConsecutiveOf
  <2>4. QED
    BY <2>2, <2>3
<1>2. CASE V1Checkpoint \/ UNCHANGED dirVars
  <2>1. /\ items' = items /\ v1' = v1 /\ at' = at /\ last' = last /\ good' = good /\ begun' = begun
        /\ taint \subseteq taint'
    BY <1>2, V1CheckpointIs DEF HandlesSame, dirVars, v1Vars, hVars
  <2>2. Numbered /\ \A g \in Handles : ConsecutiveOf(g)
    BY <2>1 DEF Consecutive
  <2>3. Numbered'
    BY <2>1, <2>2, NumberedKept
  <2>4. ASSUME NEW g \in Handles PROVE ConsecutiveOf(g)'
    BY <2>1, <2>2 DEF ConsecutiveOf, LogEnd
  <2>5. QED
    BY <2>3, <2>4
<1>3. ASSUME NEW h \in Handles, HandleStep(h)
      PROVE  Numbered' /\ \A g \in Handles : ConsecutiveOf(g)'
  <2>1. taint \subseteq taint' /\ v1' = v1
    BY <1>3, StepIs
  <2>2. taint = {} /\ \A g \in Handles \ {h} : at'[g] = "closed"
    BY <1>3, <2>1, SoloStep
  <2>3. UnracedOf(h) /\ Paired /\ UnsharedOf(h) /\ Followed /\ Numbered /\ ConsecutiveOf(h)
    BY <2>2, UnsharedIs, FramedIs DEF Unraced, Consecutive, Sole
  <2>4. ConsecutiveOf(h)' /\ Numbered'
    <3>1. CASE ~Replayed(h)' /\ items' = items
      BY <1>3, <2>1, <2>3, <3>1, EarlyConsecutive, NumberedKept
    <3>2. CASE ReadBdw4(h) /\ Replayed(h)'
      <4>1. items' = items
        BY <3>2 DEF ReadBdw4
      <4>2. QED
        BY <2>1, <2>3, <3>2, <4>1, ReplayConsecutive, NumberedKept
    <3>3. CASE RepairTail(h) \/ WriteBatch(h) \/ WriteAll(h) \/ Commit(h)
      BY <2>3, <3>3, RepairConsecutive, WriteConsecutive, RestConsecutive, CommitConsecutive
    <3>4. CASE WriteFails(h)
      <4>1. "failed" \in taint'
        BY <3>4 DEF WriteFails, Taint
      <4>2. QED
        BY <4>1
    <3>5. QED
      BY <1>3, <3>1, <3>2, <3>3, <3>4, EarlyOrLate
  <2>5. ASSUME NEW g \in Handles \ {h} PROVE ConsecutiveOf(g)'
    BY <2>2 DEF ConsecutiveOf
  <2>6. QED
    BY <2>4, <2>5
<1>4. QED
  BY <1>1, <1>2, <1>3 DEF DirNext, HandleStep

-----------------------------------------------------------------------------
(* The theorems                                                            *)

LEMMA DirInvInit == DirInit => DirInv
<1> SUFFICES ASSUME DirInit PROVE DirInv
  OBVIOUS
<1>1. Base
  BY BaseInit
<1>2. v1 = <<>> /\ items = <<>> /\ acked = {} /\ DOMAIN v1 = {} /\ DOMAIN items = {}
  BY EmptyIs DEF DirInit
<1>3. \A h \in Handles : at[h] = "closed" /\ st[h] = <<>> /\ last[h] = 0 /\ DOMAIN st[h] = {}
  BY EmptyIs DEF DirInit, ForAll
<1>4. Unraced
  BY <1>3 DEF Unraced, UnracedOf, Replayed, Up
<1>5. Unforked
  BY <1>2, <1>3 DEF Unforked, Writing, Increasing
<1>6. \A h \in Handles : UnsharedOf(h)
  <2>1. Len(v1) = 0
    BY <1>2, EmptyIs
  <2>2. QED
    BY <1>2, <1>3, <2>1 DEF UnsharedOf, Increasing
<1>7. Unshared
  BY <1>2, <1>3, <1>6 DEF Unshared, Paired
<1>8. Framed
  BY <1>2, <1>3 DEF Framed, Followed, FramedOf, Replayed, Up
<1>9. Consecutive
  BY <1>2, <1>3 DEF Consecutive, Numbered, ConsecutiveOf
<1>10. QED
  BY <1>1, <1>4, <1>5, <1>7, <1>8, <1>9 DEF DirInv

LEMMA DirInvStep == DirInv /\ [DirNext]_dirVars => DirInv'
<1> SUFFICES ASSUME DirInv, [DirNext]_dirVars PROVE DirInv'
  OBVIOUS
<1>1. Base /\ Unraced /\ Unforked /\ Unshared /\ Framed /\ Consecutive
  BY DEF DirInv
<1>2. Base'
  BY <1>1, BaseStep
<1>3. Unraced' /\ Unforked' /\ Unshared' /\ Framed' /\ Consecutive'
  BY <1>1, <1>2, UnracedStep, UnforkedStep, UnsharedStep, FramedStep, ConsecutiveStep
<1>4. QED
  BY <1>2, <1>3 DEF DirInv

\* The strengthening of the four properties below: what v1's files and the log hold, what
\* each handle has read of them, and what more is known while nobody else has interfered.
THEOREM DirectoryHolds == DirSpec => []DirInv
  BY DirInvInit, DirInvStep, PTL DEF DirSpec

LEMMA InOrderIs == DirInv => InOrder
<1> SUFFICES ASSUME DirInv PROVE InOrder
  OBVIOUS
<1>1. Base /\ Unforked /\ Unshared
  BY DEF DirInv
<1>2. DirTypeOK
  BY <1>1, BaseIs
<1>3. ASSUME "forked" \notin taint \/ "shared" \notin taint, NEW h \in Handles
      PROVE  Increasing(st[h])
  <2>1. CASE "forked" \notin taint
    BY <1>1, <2>1, UnforkedIs
  <2>2. CASE "shared" \notin taint
    BY <1>1, <2>2, UnsharedIs DEF UnsharedOf
  <2>3. QED
    BY <1>3, <2>1, <2>2
<1>4. QED
  BY <1>2, <1>3 DEF InOrder, Increasing

\* A handle shows the operations in the order in which they were made, unless v1 and a
\* second handle have both interfered.
THEOREM OrderIsKept == DirSpec => []InOrder
  BY DirectoryHolds, InOrderIs, PTL

LEMMA ReadsPrefixIs == DirInv => ReadsPrefixOfV1
<1> SUFFICES ASSUME DirInv, "raced" \notin taint, NEW h \in Handles, Up(h)
             PROVE  \E k \in begun[h]..Len(v1) :
                       /\ k <= Len(st[h]) /\ SubSeq(st[h], 1, k) = V1Ops(1, k)
                       /\ \A i \in (k + 1)..Len(st[h]) : st[h][i] \notin Range(v1)
  BY DEF ReadsPrefixOfV1
<1>1. Base /\ Unraced
  BY DEF DirInv
<1>2. DirTypeOK
  BY <1>1, BaseIs
<1>3. PICK k \in begun[h]..Len(v1) :
          StartsWith(st[h], k) /\ \A i \in (k + 1)..Len(st[h]) : \A l \in DOMAIN v1 : st[h][i] # v1[l]
  BY <1>1 DEF Unraced, UnracedOf, Replayed
<1>4. /\ st[h] \in Seq(Num) /\ v1 \in Seq(Num) /\ Len(st[h]) \in Nat /\ Len(v1) \in Nat /\ begun[h] \in Nat
  BY <1>2, HandleValues, Values
<1>5. k \in 0..Len(st[h]) /\ k \in 0..Len(v1)
  BY <1>3, <1>4 DEF StartsWith
<1>6. PICK s, a, b : s = st[h] /\ a = SubSeq(s, 1, k) /\ b = SubSeq(v1, 1, k)
  OBVIOUS
<1>7. a \in Seq(Num) /\ Len(a) = k /\ \A i \in 1..k : a[i] = s[i]
  BY <1>4, <1>5, <1>6, SubSeqIs
<1>8. b \in Seq(Num) /\ Len(b) = k /\ \A i \in 1..k : b[i] = v1[i]
  BY <1>4, <1>5, <1>6, SubSeqIs
<1>9. \A i \in 1..k : a[i] = b[i]
  BY <1>3, <1>6, <1>7, <1>8 DEF StartsWith
<1>10. a = b
  BY <1>7, <1>8, <1>9, SeqEqual
<1>11. \A i \in (k + 1)..Len(st[h]) : st[h][i] \notin Range(v1)
  BY <1>3 DEF Range
<1>12. SubSeq(st[h], 1, k) = V1Ops(1, k)
  BY ONLY <1>6, <1>10, Zenon DEF V1Ops
<1>13. k <= Len(st[h])
  BY ONLY <1>4, <1>5
<1>14. QED
  BY ONLY <1>3, <1>11, <1>12, <1>13, Zenon

\* An open handle has a prefix of v1's operations, all of those from before it opened, and
\* behind them only batches, unless a checkpoint overlapped the reading.
THEOREM PrefixIsRead == DirSpec => []ReadsPrefixOfV1
  BY DirectoryHolds, ReadsPrefixIs, PTL

LEMMA AckedShownIs == DirInv => AckedShown
<1> SUFFICES ASSUME DirInv, NEW h \in Handles, Up(h)
             PROVE  /\ taint \cap {"shared", "failed"} = {} => acked \subseteq Range(st[h])
                    /\ "shared" \notin taint =>
                         \A x \in Range(st[h]) \ Range(v1) :
                             \E i \in DOMAIN items : items[i].num = x /\ items[i].part # "head"
  BY DEF AckedShown
<1>1. DirTypeOK /\ Unshared /\ Framed
  BY BaseIs DEF DirInv
<1>2. ASSUME taint \cap {"shared", "failed"} = {} PROVE acked \subseteq Range(st[h])
  <2>1. FramedOf(h)
    BY <1>1, <1>2, FramedIs DEF Sole
  <2>2. \A x \in acked : \E j \in DOMAIN st[h] : st[h][j] = x
    BY <2>1 DEF FramedOf, Replayed
  <2>3. QED
    BY <2>2 DEF Range
<1>3. ASSUME "shared" \notin taint, NEW x \in Range(st[h]) \ Range(v1)
      PROVE  \E i \in DOMAIN items : items[i].num = x /\ items[i].part # "head"
  <2>1. PICK j \in DOMAIN st[h] : st[h][j] = x
    BY <1>3 DEF Range
  <2>2. ~ \E k \in DOMAIN v1 : st[h][j] = v1[k]
    BY <1>3, <2>1 DEF Range
  <2>3. at[h] # "repair"
    BY DEF Up
  <2>4. Complete(Len(items), st[h][j])
    BY <1>1, <1>3, <2>2, <2>3, UnsharedIs DEF UnsharedOf
  <2>5. DOMAIN items = 1..Len(items)
    BY <1>1, Values
  <2>6. QED
    BY <2>1, <2>4, <2>5 DEF Complete
<1>4. QED
  BY <1>2, <1>3

\* With one handle at a time, whoever is past the constructor shows every acknowledged
\* batch when no write has failed, and never one that is not wholly in the file.
THEOREM AckedIsShown == DirSpec => []AckedShown
  BY DirectoryHolds, AckedShownIs, PTL

LEMMA AckedRecoverableIs == DirInv => AckedRecoverable
<1> SUFFICES ASSUME DirInv, taint = {}, NEW long \in BOOLEAN, NEW r, r = Recovered(v1, Len(v1), long)
             PROVE  r.end \in {"none", "torn"} /\ acked \subseteq Range(r.ops)
  BY Zenon DEF AckedRecoverable
<1>1. DirTypeOK /\ Numbers /\ Unshared /\ Framed /\ Consecutive
  BY BaseIs DEF DirInv
<1>2. Paired /\ Followed /\ AllComplete /\ Numbered
  BY <1>1, UnsharedIs, FramedIs DEF Sole, Consecutive
<1>3. /\ v1 \in Seq(Num) /\ Len(v1) \in Nat /\ n \in Nat /\ DOMAIN items = 1..Len(items)
  BY <1>1, Values
<1>4. Len(v1) <= n
  <2>1. n - Len(v1) \in 0..MaxBatch
    BY <1>1 DEF Numbers, Batches
  <2>2. QED
    BY <1>3, <2>1
<1>5. /\ r.end \in {"none", "torn"}
      /\ \A i \in DOMAIN items : items[i].part # "head" => \E k \in 1..Len(r.ops) : r.ops[k] = items[i].num
  BY <1>1, <1>2, <1>3, <1>4, RecoveredIsWhole
<1>6. r.ops \in Seq(Num)
  BY <1>1, <1>3, <1>4, RecoveredIs
<1>7. ASSUME NEW x \in acked PROVE x \in Range(r.ops)
  <2>1. PICK i \in DOMAIN items : items[i].num = x /\ items[i].part # "head"
    BY <1>2, <1>3 DEF AllComplete, Complete
  <2>2. PICK k \in 1..Len(r.ops) : r.ops[k] = x
    BY <1>5, <2>1
  <2>3. PICK w : w = r.ops
    OBVIOUS
  <2>4. DOMAIN w = 1..Len(w)
    BY <1>6, <2>3, LenProperties
  <2>5. QED
    BY <2>2, <2>3, <2>4 DEF Range
<1>8. QED
  BY <1>5, <1>7

\* The directory of a sole user can always be opened again, with all it was acknowledged.
THEOREM AckedIsRecoverable == DirSpec => []AckedRecoverable
  BY DirectoryHolds, AckedRecoverableIs, PTL
=================================================================================
