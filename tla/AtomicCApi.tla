------------------------------ MODULE AtomicCApi ------------------------------
(***************************************************************************)
(* The C interface of AtomicDatabase (experimental/api_v86/src/             *)
(* atomic_c_api.cpp): threads of one process call it with one handle.      *)
(*                                                                         *)
(* A call of AtomicDatabase holds mutex_ to its end and is one step here    *)
(* (module AtomicDatabase has its inside); what interleaves are the several *)
(* calls that one function of the interface makes, and the blocks that     *)
(* malloc hands out and free takes back.  A value is the batch that wrote   *)
(* it and its size; a block is the sequence of its bytes.                  *)
(***************************************************************************)
EXTENDS Integers, Sequences, FiniteSets, SequencesExt

CONSTANTS
    Threads, Keys,
    Null,       \* a key argument that is null or has size 0
    Sizes,      \* sizes of values
    MaxKeys,    \* bound: keys of a bulk read, operations of a batch
    MaxBatch,   \* bound: batches
    MaxCalls,   \* bound: calls
    MaxFault    \* bound: failing allocations and I/O

ASSUME CApiAssumption ==
    /\ Null \notin Keys /\ Sizes \subseteq Nat
    /\ MaxKeys \in Nat \ {0} /\ MaxBatch \in Nat /\ MaxCalls \in Nat /\ MaxFault \in Nat

VARIABLES
    handle,         \* whether there is one
    hist, durable,  \* the maps after 0, 1, ... batches (sequence n at n + 1); durable_sequence
    heap,           \* blocks that are allocated: their bytes
    pc, fn, keys,   \* each thread: step, function, key arguments
    got,            \* what it has read: values of get_many_packed, or last_sequence
    bufs, found,    \* out_values (or out_arena), out_found
    slots,          \* out_offsets and out_sizes
    status, res,    \* what the function returned, and *out_result
    begin, end,     \* history: number of batches at the call and at the return
    calls, faults

dbVars  == <<handle, hist, durable>>
outVars == <<got, bufs, found, slots, status, res>>
vars == <<dbVars, heap, pc, fn, keys, outVars, begin, end, calls, faults>>

Newest == Len(hist) - 1
Absent == [by |-> 0, size |-> 0]
Value == [by : 1..MaxBatch, size : Sizes] \cup {Absent}
NullBuffer == [data |-> 0, size |-> 0]
NoResult == [sequence |-> 0, operations |-> 0, durable |-> FALSE]
KeyArgs == UNION {[1..n -> Keys \cup {Null}] : n \in 1..MaxKeys}
ForAll(v) == [t \in Threads |-> v]

Init ==
    /\ handle = FALSE /\ hist = <<[k \in Keys |-> Absent]>> /\ durable = 0
    /\ heap = [b \in {} |-> <<>>]
    /\ pc = ForAll("idle") /\ fn = ForAll("none") /\ keys = ForAll(<<>>)
    /\ got = ForAll(<<>>) /\ bufs = ForAll(<<>>) /\ found = ForAll(<<>>) /\ slots = ForAll(<<>>)
    /\ status = ForAll("OK") /\ res = ForAll(NoResult)
    /\ begin = ForAll(0) /\ end = ForAll(0) /\ calls = 0 /\ faults = 0

-----------------------------------------------------------------------------
(* malloc and free                                                         *)

\* The lowest address that is free, so that addresses are used again
NewBlock == CHOOSE b \in 1..(Cardinality(DOMAIN heap) + 1) :
                b \notin DOMAIN heap /\ \A c \in 1..(b - 1) : c \in DOMAIN heap
Bytes(v) == [i \in 1..v.size |-> <<v, i>>]
Allocated(bytes) == [b \in DOMAIN heap \cup {NewBlock} |-> IF b = NewBlock THEN bytes ELSE heap[b]]
Datas(buffers) == {buffers[i].data : i \in DOMAIN buffers}
\* free of every buffer; free(nullptr) does nothing.
Freed(buffers) == [b \in DOMAIN heap \ Datas(buffers) |-> heap[b]]

-----------------------------------------------------------------------------
(* Calls                                                                   *)

Calling(t) == /\ pc[t] = "idle" /\ handle /\ calls < MaxCalls /\ calls' = calls + 1
              /\ begin' = [begin EXCEPT ![t] = Newest]
Set(f, t, v) == [f EXCEPT ![t] = v]
Clean(t, g) ==
    /\ got' = Set(got, t, g) /\ bufs' = Set(bufs, t, <<>>) /\ found' = Set(found, t, <<>>)
    /\ slots' = Set(slots, t, <<>>)
Fault == faults < MaxFault /\ faults' = faults + 1
\* The function returns.
Returns(t, s) == pc' = Set(pc, t, "done") /\ status' = Set(status, t, s) /\ end' = Set(end, t, Newest)

\* bdr_atomic_c_open: the constructor of AtomicDatabase finds every batch, as no crash of
\* the host is modelled here, and calls all of them durable.
Open ==
    /\ ~handle /\ calls < MaxCalls /\ calls' = calls + 1
    /\ \/ handle' = TRUE /\ durable' = Newest /\ UNCHANGED faults
       \/ Fault /\ UNCHANGED <<handle, durable>>
    /\ UNCHANGED <<hist, heap, pc, fn, keys, outVars, begin, end>>

\* bdr_atomic_c_close, when no function is running: what was read stays allocated.
Close ==
    /\ handle /\ \A t \in Threads : pc[t] \in {"idle", "done"}
    /\ handle' = FALSE /\ res' = ForAll(NoResult)
    /\ UNCHANGED <<hist, durable, heap, pc, fn, keys, got, bufs, found, slots, status,
                   begin, end, calls, faults>>

\* AtomicDatabase::write_batch: the operations become visible together.
Committed(t, m, count, sync) ==
    /\ Newest < MaxBatch
    /\ hist' = Append(hist, m) /\ durable' = IF sync THEN Newest + 1 ELSE durable
    /\ res' = Set(res, t, [sequence |-> Newest + 1, operations |-> count, durable |-> sync])

\* to_durability, which rejects every other number
Modes == {"ASYNC", "BATCH_SYNC", "PER_OPERATION_SYNC", "unknown"}

\* bdr_atomic_c_write_batch_with_durability (bdr_atomic_c_write_batch: BATCH_SYNC); all
\* operations are converted before the database is called, and one that is not valid makes
\* the function return.  A failure here leaves no bytes in the log: AtomicDatabase has the
\* ones that do.
WriteBatch(t, ks, size, mode) ==
    LET valid == Null \notin Range(ks) /\ mode # "unknown"
        sync == mode # "ASYNC" IN
    /\ Calling(t) /\ Clean(t, <<>>) /\ fn' = Set(fn, t, "write_batch") /\ keys' = Set(keys, t, ks)
    /\ \/ /\ ~valid /\ Returns(t, "INVALID_ARGUMENT")
          /\ UNCHANGED <<hist, durable, res, faults>>
       \/ valid /\ Fault /\ Returns(t, "IO_ERROR") /\ UNCHANGED <<hist, durable, res>>
       \/ /\ valid /\ Returns(t, "OK") /\ UNCHANGED faults
          /\ LET v == IF size \in Sizes THEN [by |-> Newest + 1, size |-> size] ELSE Absent IN
             Committed(t, [k \in Keys |-> IF k \in Range(ks) THEN v ELSE hist[Newest + 1][k]], Len(ks), sync)
    /\ UNCHANGED <<handle, heap>>

\* Mutant: BatchSync was asked for, so the result says durable.
EmptyCleared(t) == res' = Set(res, t, [sequence |-> Newest, operations |-> 0, durable |-> TRUE])

\* clear() of an empty map: nothing is written, and nothing synced.
ClearedEmpty(t) == res' = Set(res, t, [sequence |-> Newest, operations |-> 0, durable |-> durable = Newest])

\* bdr_atomic_c_clear: BatchSync
Clear(t) ==
    LET m == hist[Newest + 1]
        there == {k \in Keys : m[k] # Absent} IN
    /\ Calling(t) /\ Clean(t, <<>>) /\ fn' = Set(fn, t, "clear") /\ keys' = Set(keys, t, <<>>)
    /\ \/ there = {} /\ Returns(t, "OK") /\ ClearedEmpty(t) /\ UNCHANGED <<hist, durable, faults>>
       \/ there # {} /\ Returns(t, "OK") /\ Committed(t, hist[1], Cardinality(there), TRUE) /\ UNCHANGED faults
       \/ there # {} /\ Fault /\ Returns(t, "IO_ERROR") /\ UNCHANGED <<hist, durable, res>>
    /\ UNCHANGED <<handle, heap>>

\* bdr_atomic_c_sync
Sync(t) ==
    /\ Calling(t) /\ Clean(t, <<>>) /\ fn' = Set(fn, t, "sync") /\ keys' = Set(keys, t, <<>>)
    /\ \/ Returns(t, "OK") /\ durable' = Newest /\ UNCHANGED faults
       \/ durable # Newest /\ Fault /\ Returns(t, "IO_ERROR") /\ UNCHANGED durable
    /\ UNCHANGED <<handle, hist, heap, res>>

-----------------------------------------------------------------------------
(* Reads                                                                   *)

\* The function begins: the outputs are cleared.  get and exists have one key, and look
\* at it first; get_many and get_many_packed come to theirs in the loop.
Read(t, f, ks) ==
    /\ Calling(t) /\ Clean(t, <<>>) /\ fn' = Set(fn, t, f) /\ keys' = Set(keys, t, ks)
    /\ IF f \in {"get", "exists"} /\ ks[1] = Null
       THEN Returns(t, "INVALID_ARGUMENT")
       ELSE pc' = Set(pc, t, f) /\ UNCHANGED <<status, end>>
    /\ UNCHANGED <<dbVars, heap, res, faults>>

Next1(t) == Len(found[t]) + 1
Current(t) == hist[Newest + 1][keys[t][Next1(t)]]
More(t) == Next1(t) <= Len(keys[t])

\* The out buffers of the loop are given up.
FreesAll(t) == heap' = Freed(bufs[t])
\* Mutant: they are not.
FreesNone(t) == UNCHANGED heap

\* Mutant: what get_many had allocated stays.
GetManyFailsUnfreed(t) ==
    /\ pc[t] = "get_many" /\ More(t) /\ FreesNone(t)
    /\ \/ keys[t][Next1(t)] = Null /\ Returns(t, "INVALID_ARGUMENT") /\ UNCHANGED faults
       \/ /\ keys[t][Next1(t)] # Null /\ Fault
          /\ \/ Returns(t, "IO_ERROR")
             \/ Current(t).size > 0 /\ Returns(t, "INTERNAL_ERROR")
    /\ UNCHANGED <<dbVars, fn, keys, got, bufs, found, slots, res, begin, calls>>

\* The error returns of get_many: a bad key, an exception, malloc fails.
GetManyFails(t) ==
    /\ pc[t] = "get_many" /\ More(t) /\ FreesAll(t)
    /\ \/ keys[t][Next1(t)] = Null /\ Returns(t, "INVALID_ARGUMENT") /\ UNCHANGED faults
       \/ /\ keys[t][Next1(t)] # Null /\ Fault
          /\ \/ Returns(t, "IO_ERROR")
             \/ Current(t).size > 0 /\ Returns(t, "INTERNAL_ERROR")
    /\ UNCHANGED <<dbVars, fn, keys, got, bufs, found, slots, res, begin, calls>>

\* Another slot: the value is copied into a block of its own, unless it is empty.
Slot(t, v) ==
    /\ found' = [found EXCEPT ![t] = Append(@, v # Absent)]
    /\ IF v.size > 0
       THEN /\ heap' = Allocated(Bytes(v))
            /\ bufs' = [bufs EXCEPT ![t] = Append(@, [data |-> NewBlock, size |-> v.size])]
       ELSE bufs' = [bufs EXCEPT ![t] = Append(@, NullBuffer)] /\ UNCHANGED heap

\* One turn of the loop of get_many: db->get holds mutex_ for this key only.
GetManyKey(t) ==
    /\ pc[t] = "get_many" /\ More(t) /\ keys[t][Next1(t)] # Null /\ Slot(t, Current(t))
    /\ UNCHANGED <<dbVars, pc, fn, keys, got, slots, status, res, begin, end, calls, faults>>

GetManyReturns(t) ==
    /\ pc[t] = "get_many" /\ ~More(t) /\ Returns(t, "OK")
    /\ UNCHANGED <<dbVars, heap, fn, keys, got, bufs, found, slots, res, begin, calls, faults>>

\* bdr_atomic_c_get
Get(t) ==
    /\ pc[t] = "get"
    /\ \/ Current(t) = Absent /\ Returns(t, "NOT_FOUND") /\ UNCHANGED <<heap, bufs, found, faults>>
       \/ Current(t) # Absent /\ Slot(t, Current(t)) /\ Returns(t, "OK") /\ UNCHANGED faults
       \/ Fault /\ Returns(t, "IO_ERROR") /\ UNCHANGED <<heap, bufs, found>>
       \/ Current(t).size > 0 /\ Fault /\ Returns(t, "INTERNAL_ERROR") /\ UNCHANGED <<heap, bufs, found>>
    /\ UNCHANGED <<dbVars, fn, keys, got, slots, res, begin, calls>>

\* bdr_atomic_c_exists
Exists(t) ==
    /\ pc[t] = "exists"
    /\ \/ found' = [found EXCEPT ![t] = <<Current(t) # Absent>>] /\ Returns(t, "OK") /\ UNCHANGED faults
       \/ Fault /\ Returns(t, "IO_ERROR") /\ UNCHANGED found
    /\ UNCHANGED <<dbVars, heap, fn, keys, got, bufs, slots, res, begin, calls>>

\* The first loop of get_many_packed: the values are kept, with their sizes.
PackedKey(t) ==
    /\ pc[t] = "get_many_packed" /\ Len(got[t]) < Len(keys[t])
    /\ LET k == keys[t][Len(got[t]) + 1] IN
       \/ /\ k # Null /\ got' = [got EXCEPT ![t] = Append(@, hist[Newest + 1][k])]
          /\ UNCHANGED <<pc, status, end, faults>>
       \/ k = Null /\ Returns(t, "INVALID_ARGUMENT") /\ UNCHANGED <<got, faults>>
       \/ k # Null /\ Fault /\ Returns(t, "IO_ERROR") /\ UNCHANGED got
    /\ UNCHANGED <<dbVars, heap, fn, keys, bufs, found, slots, res, begin, calls>>

\* The cursor and the arena after i values
Cursors(vs) ==
    LET at[i \in 0..Len(vs)] == IF i = 0 THEN 0 ELSE at[i - 1] + vs[i].size IN at
Arenas(vs) ==
    LET bytes[i \in 0..Len(vs)] == IF i = 0 THEN <<>> ELSE bytes[i - 1] \o Bytes(vs[i]) IN bytes

TotalSize(vs) == Cursors(vs)[Len(vs)]
\* Mutant: the cursor is moved before the offset is stored.
CursorAfter(vs, i) == Cursors(vs)[i]
\* out_offsets[i]
Cursor(vs, i) == Cursors(vs)[i - 1]

\* The arena, and the second loop
Pack(t) ==
    /\ pc[t] = "get_many_packed" /\ Len(got[t]) = Len(keys[t])
    /\ LET vs == got[t] total == TotalSize(vs) IN
       \/ /\ Returns(t, "OK") /\ UNCHANGED faults
          /\ found' = Set(found, t, [i \in DOMAIN vs |-> vs[i] # Absent])
          /\ slots' = Set(slots, t, [i \in DOMAIN vs |->
                        IF vs[i] = Absent THEN [off |-> 0, size |-> 0]
                        ELSE [off |-> Cursor(vs, i), size |-> vs[i].size]])
          /\ IF total > 0
             THEN /\ heap' = Allocated(Arenas(vs)[Len(vs)])
                  /\ bufs' = Set(bufs, t, <<[data |-> NewBlock, size |-> total]>>)
             ELSE bufs' = Set(bufs, t, <<NullBuffer>>) /\ UNCHANGED heap
       \/ total > 0 /\ Fault /\ Returns(t, "INTERNAL_ERROR") /\ UNCHANGED <<heap, bufs, found, slots>>
    /\ UNCHANGED <<dbVars, fn, keys, got, res, begin, calls>>

-----------------------------------------------------------------------------
(* Sequences and diagnostics                                               *)

\* bdr_atomic_c_diagnostics_get: both sequences under one lock
Diagnostics(t) ==
    /\ Calling(t) /\ fn' = Set(fn, t, "diagnostics") /\ keys' = Set(keys, t, <<>>)
    /\ Clean(t, <<Newest, durable>>) /\ Returns(t, "OK")
    /\ UNCHANGED <<dbVars, heap, res, faults>>

\* bdr_atomic_c_last_sequence, and the first half of bdr_atomic_c_integrity_check
LastSequence(t, f) ==
    /\ Calling(t) /\ fn' = Set(fn, t, f) /\ keys' = Set(keys, t, <<>>)
    /\ Clean(t, <<Newest>>)
    /\ IF f = "last_sequence" THEN Returns(t, "OK") ELSE pc' = Set(pc, t, f) /\ UNCHANGED <<status, end>>
    /\ UNCHANGED <<dbVars, heap, res, faults>>

\* bdr_atomic_c_durable_sequence, and the other half
DurableSequence(t) ==
    /\ Calling(t) /\ fn' = Set(fn, t, "durable_sequence") /\ keys' = Set(keys, t, <<>>)
    /\ Clean(t, <<durable>>) /\ Returns(t, "OK")
    /\ UNCHANGED <<dbVars, heap, res, faults>>

Inconsistent(last) == durable > last

IntegrityCheck(t) ==
    /\ pc[t] = "integrity_check"
    /\ Returns(t, IF Inconsistent(got[t][1]) THEN "INTERNAL_ERROR" ELSE "OK")
    /\ UNCHANGED <<dbVars, heap, fn, keys, got, bufs, found, slots, res, begin, calls, faults>>

-----------------------------------------------------------------------------
\* The caller looks at what it got, frees the buffers of a call that succeeded with
\* bdr_atomic_c_free_buffer, and leaves those of a failed one alone, as bdr/atomic.py does.
Release(t) ==
    /\ pc[t] = "done" /\ pc' = Set(pc, t, "idle")
    /\ heap' = IF status[t] = "OK" THEN Freed(bufs[t]) ELSE heap
    /\ Clean(t, <<>>) /\ keys' = Set(keys, t, <<>>)
    /\ begin' = Set(begin, t, 0) /\ end' = Set(end, t, 0)
    /\ fn' = Set(fn, t, "none") /\ status' = Set(status, t, "OK")
    /\ UNCHANGED <<dbVars, res, calls, faults>>

Next ==
    \/ Open \/ Close
    \/ \E t \in Threads :
         \/ \E ks \in KeyArgs, size \in Sizes \cup {-1}, mode \in Modes : WriteBatch(t, ks, size, mode)
         \/ Clear(t) \/ Sync(t)
         \/ \E k \in Keys \cup {Null}, f \in {"get", "exists"} : Read(t, f, <<k>>)
         \/ \E ks \in KeyArgs, f \in {"get_many", "get_many_packed"} : Read(t, f, ks)
         \/ Get(t) \/ Exists(t) \/ GetManyKey(t) \/ GetManyFails(t) \/ GetManyReturns(t)
         \/ PackedKey(t) \/ Pack(t)
         \/ Diagnostics(t) \/ DurableSequence(t) \/ IntegrityCheck(t)
         \/ \E f \in {"last_sequence", "integrity_check"} : LastSequence(t, f)
         \/ Release(t)

Spec == Init /\ [][Next]_vars

-----------------------------------------------------------------------------
Steps == {"idle", "get", "exists", "get_many", "get_many_packed", "integrity_check", "done"}
Statuses == {"OK", "INVALID_ARGUMENT", "NOT_FOUND", "IO_ERROR", "INTERNAL_ERROR"}

TypeOK ==
    /\ handle \in BOOLEAN /\ hist \in Seq([Keys -> Value]) /\ durable \in 0..Newest
    /\ \A b \in DOMAIN heap : b \in Nat \ {0} /\ heap[b] \in Seq(Value \X Nat) /\ heap[b] # <<>>
    /\ pc \in [Threads -> Steps] /\ status \in [Threads -> Statuses]
    /\ keys \in [Threads -> KeyArgs \cup {<<>>}]
    /\ \A t \in Threads : Len(bufs[t]) <= MaxKeys /\ Len(found[t]) <= MaxKeys /\ Len(slots[t]) <= MaxKeys
    /\ res \in [Threads -> [sequence : 0..MaxBatch, operations : Nat, durable : BOOLEAN]]
    /\ begin \in [Threads -> 0..MaxBatch] /\ end \in [Threads -> 0..MaxBatch]
    /\ calls \in 0..MaxCalls /\ faults \in 0..MaxFault

\* The buffers of threads that still have to free them, or hand them out
Owns(t) == pc[t] # "idle" /\ (pc[t] = "done" => status[t] = "OK")
Live == {x \in Threads \X (1..MaxKeys) :
            Owns(x[1]) /\ x[2] \in DOMAIN bufs[x[1]] /\ bufs[x[1]][x[2]].data # 0}

\* Every block has exactly one owner at every moment: nothing leaks when a bulk read gives
\* up in the middle or a handle is closed, and no block is freed that is still in use,
\* though addresses are used again by other threads.
BlocksOwned ==
    /\ TypeOK
    /\ \A x, y \in Live : bufs[x[1]][x[2]].data = bufs[y[1]][y[2]].data => x = y
    /\ DOMAIN heap = {bufs[x[1]][x[2]].data : x \in Live}
    /\ \A x \in Live : Len(heap[bufs[x[1]][x[2]].data]) = bufs[x[1]][x[2]].size

\* What the caller finds in slot i, or behind the end of the arena
BytesAt(t, i) ==
    IF fn[t] = "get_many_packed"
    THEN [j \in 1..slots[t][i].size |->
            LET arena == heap[bufs[t][1].data] at == slots[t][i].off + j IN
            IF at \in DOMAIN arena THEN arena[at] ELSE <<Absent, 0>>]
    ELSE IF bufs[t][i].data = 0 THEN <<>> ELSE heap[bufs[t][i].data]
Shows(t, i, v) ==
    IF ~found[t][i] THEN v = Absent
    ELSE v # Absent /\ (fn[t] # "exists" => BytesAt(t, i) = Bytes(v))

\* A read that returned OK has in every slot, in the order of the keys, the value its key had
\* at some moment of the call, and at no earlier moment than the slot before: missing and
\* empty values are told apart, a caller never finds a neighbour's bytes, and without a
\* batch during the call the slots are one snapshot.
ReadsWithinCall ==
    \A t \in Threads :
        pc[t] = "done" /\ status[t] = "OK" /\ fn[t] \in {"get", "exists", "get_many", "get_many_packed"} =>
            \E at \in [DOMAIN keys[t] -> begin[t]..end[t]] :
                /\ \A i, j \in DOMAIN keys[t] : i < j => at[i] <= at[j]
                /\ \A i \in DOMAIN keys[t] : Shows(t, i, hist[at[i] + 1][keys[t][i]])

\* What the functions say of durability is true.  A result that says durable stays so:
\* every batch up to its sequence is behind the frontier, also for the clear() of a map that
\* Async batches emptied, which has nothing to write.  And integrity_check, which reads the
\* two sequences under two locks, reports an error on a sound database only when a batch
\* was committed between them.
ResultsTrue ==
    \A t \in Threads :
        /\ res[t].durable => res[t].sequence <= durable
        /\ pc[t] = "done" /\ fn[t] = "integrity_check" /\ status[t] # "OK" => begin[t] < end[t]
=============================================================================
