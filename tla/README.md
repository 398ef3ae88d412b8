# A TLA+ verification of BDR

This directory models BDR (the engine of `experimental/api_v86` and the one it comes from,
the atomic batch path with its C interface, the indexes, and the Python engines), checks the models with TLC and proves
theorems about them with TLAPS. `PROJECT.json` has the same information in a form tools can read: every
definition with the source lines it models, every run, every mutant.

## 1. The system

BDR is an embedded key-value store. The repository keeps every step of its development
(`experimental/api_v55` ... `api_v111`); what a build of today installs is

| part | source | state | operations |
|---|---|---|---|
| v1 engine | `api_v86/src/database_v1.cpp` | in memory: `index`, `queue`, `next_seq`, `durable_seq`, `segment_id`, `wal_fd`, `writer_error`, `stop`, `closed`; on disk: `snapshot.bdr3`, `wal-*.bdw3`, `LOCK` | `open`, `put`/`erase`/`submit`, `put_sync`/`erase_sync`, `wait`, `sync`, `checkpoint`, `close`, `get` |
| its writer thread | same file, `writer_loop` | its batch `local` | takes up to `wal_batch` queued operations, writes and syncs them, publishes `durable_seq` |
| index | `api_v86/include/bdr/compact_index.hpp` (`database_v1.cpp`), `api_v86/src/resolutive_index.cpp` (older engines) | partitions with open addressing, the first with keys and values in one arena per partition | `put`, `get`, `erase`, `snapshot_items` |
| atomic database | `api_v111/atomic_database.cpp`, `api_v110/durable_database.cpp` | `state_`, `last_sequence_`, `durable_sequence_` | `write_batch`, `put`, `erase`, `put_many`, `erase_many`, `clear`, `sync` |
| its WAL | `api_v102/file_wal.cpp`, `api_v101/atomic_wal.cpp` | `atomic.bdw4`: one frame per batch | `append_batch`, `recover_file`, `replay` |
| reader of v1 files | `api_v106/migration.cpp` | none | `read_v1_state`: the map and sequence an atomic database starts from |
| C ABI | `api_v86/src/atomic_c_api.cpp`, `c_api.cpp` | a handle; blocks handed out to the caller | `open`, `write_batch`, `get`, `get_many`, `get_many_packed`, `exists`, `clear`, `sync`, `diagnostics_get`, `integrity_check`, `free_buffer`, `close` |
| steps towards the atomic database | `api_v103` ... `api_v107` | as the atomic database | `write_batch`, `put_many`, `get` |
| first ticketed engine | `api_v55/src/database.cpp` | as the v1 engine; no lock file, no `writer_error` | as the v1 engine |
| Python engine | `bdr/persistent_engine.py` | `state`, `seq`, `segment_index`, `segment_count`, `_pending_since_fsync`; on disk: `snapshot.bin`, `wal-*.log` | `put`, `delete`, `get`, `flush`, `checkpoint`, `close`, the constructor |
| Python in-memory engine | `bdr/core.py` | `_buckets` (list, dicts, dicts), `_size`, `_next_id` | `inserir`, `buscar`, `remover`, `limpar` |
| Python binding | `bdr/atomic.py` | a handle | one call of the C ABI each |

How they interact. A caller of the v1 engine takes `submit_mu`, puts a record into
`queue` and the index under `queue_mu`, and gets a ticket, the sequence number. The
writer thread empties the queue into the active WAL segment under `wal_mu`, syncs it,
stores `durable_seq` and notifies `durable_cv`, on which `wait` sleeps. `checkpoint`
keeps submitters out, waits for its ticket, writes the snapshot (temporary file, fsync,
rename, directory fsync), rotates the WAL and removes the older segments. `open` loads
the snapshot, replays the segments in order, cuts off a torn tail and goes on with the
last segment. The atomic database does everything in the caller's thread under one
mutex: a frame is appended and, unless the mode is `Async`, synced, and only then is the
map changed. The Python engine is a database of its own with the same plan (WAL
segments, snapshot, checkpoint) in one thread at a time under one lock. The C interface
adds memory: a bulk read allocates blocks that the caller gives back one by one, and gives
up half-way on a bad key, a failed allocation or an exception. Atomic databases read the
files of a v1 engine, take no file lock, and can find it, or each other, at work in the
same directory. The in-memory Python engine lets searches run without its lock.

What is hard, and hard to test: a crash or power loss between any two system calls of a
checkpoint; old segments that come back after a power loss; a failing system call in the
middle of a checkpoint or an append, after which the database goes on being used; the
reuse of sequence numbers whose records were lost; what "durable" means after a
recovery that read unsynced data; the steps of callers, writer and `close` between
their mutexes and condition variables; several users of one directory without a lock;
partial failure and reuse of memory behind the C interface; and long sequences of
insertions and deletions in the open-addressing tables, with compaction of the arena. `PROJECT.json` lists each hazard at its line with
the properties that would catch it.

What makes it correct:

- an operation that `wait`, `put_sync`, `sync`, `checkpoint` or `close` acknowledged
  survives everything (`AckedStable`);
- recovery gives an exact prefix of the accepted operations, and no lost record comes back
  beside its successor (`ExactPrefix`); for batches it gives a whole number of them
  (`RefinesStore`); it accepts what a crash left (`RecoveryErrors`, `LogSound`,
  `RejectsOnlyFaults`);
- nothing that might still be needed is removed: otherwise `AckedStable`, `AckedRecovered`
  or `AckedRecoverable` fails;
- the frontier `durable_seq` is exact and a checkpoint is quiescent (`FrontierExact`,
  `CheckpointQuiescent`), close drains (`DrainedExit`), an error stops everything
  (`NoWriteAfterError`) and reaches every waiter (`ErrorWakesWaiters`), and every accepted
  operation gets durable (`EventuallyDurable`);
- the index is a map: its table keeps the order that searches rely on, holds what a map
  would and never fills up (`TableSound`, `GetAgrees`, `LookupAgrees`, `SnapshotAgrees`); its
  arena knows its garbage and bounds it (`ArenaBounded`);
- what shares a directory sees v1 as a prefix, batches in order, every acknowledged one and
  none that is not logged (`ReadsPrefixOfV1`, `InOrder`, `AckedShown`);
- the C interface neither leaks nor reuses a block in use (`BlocksOwned`), what it returns
  was true during the call (`ReadsWithinCall`), and what it says of durability is true
  (`ResultsTrue`);
- a search without the lock returns what its key had during the call (`BuscarWithinCall`),
  in a structure that keeps no residue (`StructureSound`), with right ids and length
  (`CountersRight`).

## 2. The modules

**`DurableStore`** is the abstract specification: a sequence of maps, one per accepted
operation (or batch); an acknowledgement covers a prefix; a crash loses an
unacknowledged suffix; a reopened store shows the map of the prefix it kept.

**`DatabaseV1`** is the v1 engine with its files. One action is one system call, or one
critical section in memory. The files are in the page cache (`snap`, `wals`, `file`) with
a record of what is on the medium: `snapMaybe` is the set of snapshots of which a power
loss leaves one (a rename is not durable before the directory is synced), `walsD` the
directory entries on the medium, and each WAL file says how many of its records are
synced. The program counter `pc` is the step of `recover`, `checkpoint_impl` or
`close_impl`, which exclude each other; `w` is the step of the writer. `hist`, `base` and
`acked` are history variables: the maps after each accepted operation, the sequence the
last recovery ended with, and the greatest sequence acknowledged.

| code | actions |
|---|---|
| `Impl::Impl`, `recover`, `replay_snapshot`, `replay_wal` | `Open`, `ReplayHeader`, `ReplayCovered`, `ReplayRecord`, `ReplayTail`, `RecoverAttach`, `RepairTruncate`, `RepairSync`, `RecoverFails`, `RecoverFresh` |
| `create_wal` and the `fsync_dir` after it | `CwOpen`, `CwHeader`, `CwSync`, `CwDirSync`, `CwPreallocFail`, `CwOpenFail` |
| `submit_impl`; `wait_impl`, `sync_impl` | `Submit`; `Wait` |
| `writer_loop` | `WriterTake`, `WriterWrite`, `WriterSync`, `WriterPublish`, `WriterFail` |
| `checkpoint_impl` | `CkBegin`, `CkWrite`, `CkFsync`, `CkRename`, `CkDirSync`, `CkRotate`, `CkRemove`, `CkDone`, `CkFail` |
| `close_impl` | `CloseBegin`, `CloseClean`, `CloseError` |
| SIGKILL; loss of power | `ProcessCrash`; `PowerLoss` |

Records, headers and snapshots are abstracted to what recovery tells apart: sequence,
key, value, complete or torn, on the medium or not. `CkWrite` stands for the whole
streaming of `snapshot.tmp`, which nothing reads before its rename. `Wait` covers all the
calls that acknowledge: the history variable `acked` only grows.

**`TicketedWriter`** is the same engine seen from its threads: each lock, predicate,
sleep and notification of `put`, `put_sync`, `sync`, `checkpoint`, `close` and of the
writer is a step, an operation is its sequence number, and the I/O of a batch succeeds
or fails. `condition_variable::wait(lk, pred)` is two steps, the predicate and the sleep
(both with the mutex held), because a notification sent without the mutex can fall
between them. Spurious wake-ups may happen and are never relied on.

**`AtomicDatabase`** is the atomic path: the file as a sequence of whole and partial
frames, the steps of `replay` one frame at a time, append, sync and apply as separate
steps. The v1 state it starts from is a pair of constants. `AppendMayFail` decides
whether `write` and `fdatasync` can fail.

| code | actions |
|---|---|
| the constructor, `recover_file`, `replay` | `Open`, `ReplayFrame`, `ReplayGarbage`, `ReplayEnd`, `RepairFails` |
| `write_batch` (`put`, `erase`, `put_many`, `erase_many` make a batch and call it), `clear` | `WriteBatch`, `Clear`, then `AppendFrame`, `FrameSync`, `ApplyBatch`, or `AppendFails`, `FrameSyncFails` |
| `sync`; the destructor | `Sync`; `Close` |

**`ResolutiveIndex`** is one partition of the open-addressing table, one iteration of a
loop per step, for every function from keys to hash values. Partitions share only the
counter `size_`, which a thread changes after it has released the partition's mutex: the
threads on their way to it are counted in `adds` and `subs`. `dict`, a history variable,
is what a map would hold.

| code | actions |
|---|---|
| `Partition::put`, `rehash` | `PutBegin`, `RehashSkip`, `RehashMove`, `RehashDone` |
| `insert_nolock` | `InsertFree`, `InsertOverwrite`, `InsertDisplace` |
| `get`, and the search of `erase` | `FindBegin`, `FindMiss`, `FindHit`, `FindNext` |
| the backward shift of `erase` | `Shift`, `ShiftEnd` |
| `size_.fetch_add`, `size_.fetch_sub` | `Add`, `Sub` |

**`PersistentBDR`** is the Python engine with its files, in the page cache and on the
medium as in `DatabaseV1`. The bytes behind the last whole record of a segment are
abstracted to what `_iter_records` makes of them: nothing, a record cut short, or a cut
record with more bytes behind it, which reads as cut or fails the CRC. `faults` records
what happened to the log: bytes written behind a cut record or a short write
(`"spliced"`), a number lost in a `put` that raised (`"skipped"`), a record written by a
`put` whose `fsync` raised (`"unapplied"`). The history variable `acked` is the last sequence
that a durable `put`, a `put` that completed a group, `flush`, `checkpoint` or `close` has
called durable while the active segment was on the medium. That was so for every one of these
calls but a `flush` or `close` with nothing pending behind an `Open` that found unsynced
records: the code does not sync there either, so `Flush` and `Close` change nothing on disk, and
raise `acked` only if the segment happens to be on the medium (`ActiveOnMedium`).

| code | actions |
|---|---|
| the constructor, `_load`, `_iter_records`, `_open_segment` | `Open` (not enabled when the constructor raises: `Rejects`) |
| `put`, `delete`, `_append` | `Write`, `WriteShort`, `EncodeFails`, `AppendSync`, `AppendNoSync`, `SyncFails`, `Return` |
| `_rotate_segment` | `Rotate`, `RotateDirSync` |
| `flush`; `close` | `Flush`; `Close` |
| `checkpoint` | `CkBegin`, `CkReplace`, `CkDirSync`, `CkSegment`, `CkSegmentDirSync`, `CkUnlink`, `CkEnd`, `CkFails` |
| SIGKILL, also inside a write; loss of power | `Kill`, `KillInAppend`; `PowerLoss` |

Recovery is one step because it writes nothing before its last call, the opening of the
active segment; nothing can come between that a crash before or after it would not show.

**`DatabaseV55`** is the first ticketed engine, threads and files in one module, because
they meet there: `close` reads and sets `closed` without the mutex of `submit`, and the
writer answers a failed call with `abort`. Operations are numbers and the map is the
sequence of those applied; `late` are operations queued after `stop` was set. A sleep on
`durable_cv` is two steps, as in `TicketedWriter`.

| code | actions |
|---|---|
| `Impl::Impl`, `recover`, `replay_wal`; `create_new_wal` | `Open`; `OpenCreates`, `CkHeader` |
| `submit_impl` | `Begin`, `Submit`, `Push` |
| `wait_impl` | `WaitReturn`, `WaitBlocks`, `WaitSleeps` |
| `checkpoint_impl` | `CkLock`, `CkRename`, `CkRotate`, `CkHeader`, `CkRemove`, `CkFails` |
| `close_impl`; the destructor | `CloseStop`, `CloseJoin`; `Destroy` |
| `writer_loop` | `WriterTake`, `WriterIO`, `WriterPublish`, `WriterNotify`, `WriterAborts` |
| SIGKILL, also inside a batch | `Crash` |

**`SharedDirectory`** is one directory with a v1 engine and two handles of the atomic
classes. `read_v1_state` is one step per file, so that a checkpoint of v1 can come between
them; a frame can take two `write` calls, so that another handle's recovery can find the
first half and cut it off. A map is the sequence of operations and batches that made it.
`taint` records what a sole user would not do: v1 accepted operations behind a batch
(`"forked"`), a checkpoint overlapped an open (`"raced"`), two handles were in use
(`"shared"`), a write failed (`"failed"`). Each property says under which of them it holds.
`todo` is the set of the listed segments that are left to read, of which `ReadWal` takes the
lowest; `Replay` is the replay of the log, a recursive function over its pieces. The
specification is `DirSpec`, so that the proofs of this module and of `TicketedWriter` can share
a module.

| code | actions |
|---|---|
| v1: `submit`; `checkpoint` | `V1Put`; `V1Checkpoint` |
| constructors; `read_v1_state` | `OpenBatch`, `OpenMigrated`; `ListWals`, `ReadWal` |
| `recover_file`, `replay` | `ReadBdw4`, `RepairTail` |
| `write_batch` (`put_many` and the others call it), `append_batch`, `commit_batch` | `WriteBatch`, `WriteAll`, `Commit`, `WriteFails` |
| the destructor; SIGKILL | `Close`; `Crash` |

**`AtomicCApi`** is `atomic_c_api.cpp` with its callers: several threads on one handle,
each function with its early returns, its allocations and its exceptions. `heap` is the
set of blocks with their bytes; addresses are used again. `hist` are the maps after each
batch, and `begin` and `end` say which of them a call can have seen. The database behind
it is reduced to that history and its durable prefix.

| code | actions |
|---|---|
| `open`; `close`; `free_buffer` | `Open`; `Close`; `Release` |
| `write_batch`, `write_batch_with_durability`; `clear`; `sync` | `WriteBatch`; `Clear`; `Sync` |
| `get`, `exists` | `Read`, then `Get`, `Exists` |
| `get_many` | `GetManyKey`, `GetManyFails`, `GetManyReturns` |
| `get_many_packed` | `PackedKey`, `Pack` |
| `last_sequence`, `durable_sequence`, `diagnostics_get`, `integrity_check` | `LastSequence`, `DurableSequence`, `Diagnostics`, `IntegrityCheck` |

**`CompactIndex`** is one partition of `compact_index.hpp`: slots with offsets into an
arena of bytes, `append`, `compact_arena`, `maybe_compact`, `insert_nolock`, `rehash`,
`get` and `erase`. An operation is one step (`Put`, `Erase`), since it holds the mutex of
its partition. A loop that only looks for a slot is the least number of turns after which it
stops (`SlotOf`, `ShiftLength`); one that moves slots or bytes is a recursive function of
that number (`Probe`, `Grown`, `Swept`). Keys and values are byte sequences, because offsets
and lengths are what it is about; keys are not empty, since `submit_impl` refuses those
(`database_v1.cpp:217`), and `content` is what a map would hold. A put that throws (`"offset"`)
is part of the model.

**`BancoResolutivo`** is `bdr/core.py`: lists and dicts as objects with identities, since a
search keeps references to ones that are no longer in the structure. One access to a list
or dict is one step.

| code | actions |
|---|---|
| `encode`; `with self._lock` | `Begin`; `Acquire` |
| `buscar`, `_locate` (`obter`, `contem`) | `BuscarList`, `BuscarBucket`, `BuscarPhase`, `BuscarEntity` |
| `inserir` | `InserirBucket`, `InserirPhase`, `InserirCount`, `InserirStore` |
| `remover` | `RemoverAbsent`, `RemoverEntity`, `RemoverCount`, `RemoverPhase`, `RemoverBucket` |
| `limpar` | `LimparList`, `LimparReset` |

**The `MC` modules** instantiate these for TLC. The **`_proofs`** modules have the theorems.
`DatabaseV1_proofs` has three parts, each on top of the one before: types, files, contents.
`Sharing_proofs` has those of `TicketedWriter` and, after them, those of `SharedDirectory`;
`Index_proofs` has those of `ResolutiveIndex` and those of `CompactIndex`.

Operators whose comment starts with "Mutant" are variants of the definition after them,
with a bug that code could plausibly have; `PROJECT.json` says which property each of
them breaks. They are no part of any specification.

### What the environment may do

- A process crash keeps the page cache, and can cut a write in the middle.
- A power loss keeps what was synced and any prefix of the rest of each file,
  independently for each file, possibly cut inside a record; each directory entry that
  was created or removed and not synced is there or not; of a rename that was not synced
  the old or the new file remains. Writes of one file are not reordered, and a failed
  `fdatasync` does not silently drop pages.
- `FileSyncLinks = TRUE` says that syncing a newly created file makes its directory entry
  durable too, as the common journaling file systems do. POSIX does not promise it.
  Without it `AckedStable` fails in both models: in `DatabaseV1` a segment whose creator
  ended before its `fsync_dir` is taken over by a process that never syncs the directory,
  and `append_batch` of the atomic path never does. `PersistentBDR` makes the assumption
  too.
- `flock` keeps a second process out of a v1 directory.

## 3. The runs

| run | bounds | checks | result |
|---|---|---|---|
| `v1_persistence` | 1 key, put or delete, 2 operations, 3 segments, 2 crashes | `TypeOK`, `AckedStable`, `ExactPrefix`, `RecoveryErrors`, `RefinesStore` | holds, 2.5 million states |
| `writer` | 2 callers, 2 calls each, 3 operations, batches of up to 2 | `TypeOK`, `FrontierExact`, `CheckpointQuiescent`, `DrainedExit`, `EventuallyDurable`, `ErrorWakesWaiters` | holds |
| `writer_wakeup` | the same with 2 operations | `WaitReturns` | violated |
| `atomic_recovery` | 2 keys, batches of up to 2 operations, 2 frames, 3 crashes, a v1 state with one key | `LogSound`, `AckedStable`, `RefinesStore` | holds |
| `atomic_faults` | 1 key, 4 frames, 3 crashes, failing appends | `RejectsOnlyReuse` | holds |
| `resolutive_index` | 3 keys, hashes 0, 3, 6, 7, tables of 2, 4 and 8 slots, load limit 0.9, 2 threads on their way to `size_` | `TableSound`, `SizeCatchesUp`, `GetAgrees`, `OperationEnds` | holds |
| `compact_index` | 3 keys, one a prefix of another, values of 0 and 1 byte, fingerprints 0, 3, 7, tables of 2, 4 and 8 slots, an arena of 9 bytes, compaction from 3 bytes of garbage on | `LookupAgrees`, `SnapshotAgrees`, `ArenaBounded` | holds, 0.6 million states |
| `persistent_bdr` | 1 key, put or delete, 3 operations, 3 segments of 2 records, groups of 2, 2 crashes, failing calls | `AckedRecovered`, `ExactPrefix`, `RejectsOnlyFaults` | holds, 2.6 million states |
| `v55_engine` | 2 callers, 2 calls each, 2 operations, 3 segments, 2 crashes or failures | `AckedRecoverable`, `OnlyHeaderMissing`, `FrontierContiguous`, `StrandedOnlyByClose`, `EventuallyDurable` | holds |
| `shared_directory` | 2 handles, 2 operations of v1, 3 batches, 2 segments, 3 opens, 1 crash or failing write | `InOrder`, `ReadsPrefixOfV1`, `AckedShown`, `AckedRecoverable` | holds |
| `c_api` | 2 threads, 2 keys, values of 0 or 1 byte, 4 calls, 2 batches, 1 failing allocation, lookup or I/O | `BlocksOwned`, `ReadsWithinCall`, `ResultsTrue` | holds |
| `core_engine` | 2 threads, 2 keys in 2 buckets and 2 phases, 2 payloads, 5 calls | `StructureSound`, `BuscarWithinCall`, `CountersRight` | holds, 2.6 million states |

Why the bounds are enough for the interesting cases. Two operations and three segments
give two complete checkpoints with an operation before, between or after them; two
crashes give a crash inside the recovery, or the repair, that follows another one, and a
sequence number used for a put, lost and used again for a delete. The atomic database gets
three: one that cuts a frame, one in the next append, behind the tail that `open` cut off,
and a power loss that brings the tail back. One key is enough
because the history keeps whole maps and a put and a delete of the same key do not
commute. Two callers give a submitter or waiter against a checkpoint or a close, with the
writer as the third thread, and the theorems of section 4 cover any number of callers.
The code starts a partition of an index with 8 slots, and a full one needs more keys
than TLC can take: the runs start with 2, so that the load limit, growth and keys that
are displaced around the end of the table happen with three keys. The hash values fall
together modulo 2 and 4 in different ways. The limits of the arena, 2^32 bytes and 8192
bytes of garbage in the code, are as small as the operations need to reach them: the three
keys and their values fit into 7 bytes of live data, so that a put can be refused with and
without garbage to reclaim. Two records per segment and groups of two make
rotation and group commit meet in every order; the constraint `Claimed` of
`persistent_bdr` stops after the first fault that its properties except. In
`shared_directory` three opens give a handle that is reopened beside another one, or after
a crash, and three batches one of each handle and one more behind a cut tail. Four calls
on the C interface give a bulk read of two keys with two batches inside it, and the
release of its blocks. In `core_engine` writers exclude each other, so a second writing
thread adds nothing; five calls give a search of a key that is stored, removed and stored
again meanwhile, with another key beside it.

Deadlock is checked for the C++ databases (some crash or call is always possible until the
bounds are used up, and recovery can always be tried again) and for the indexes. The thread
models (`TicketedWriter`, `DatabaseV55`, `SharedDirectory`, `AtomicCApi`,
`BancoResolutivo`) stop when all calls have been made, and `PersistentBDR` does where the
constructor raises or a bound is reached, so it is not checked there.

Fairness. `writer`, `writer_wakeup`: weak fairness of the writer and of each caller inside
a call, that is, the scheduler runs every thread that can run and mutexes are eventually
granted. Nothing obliges a caller to make another call, and no spurious wake-up is
assumed. `v55_engine`: the same, for each step of the writer and of a caller inside a
call. `resolutive_index`: weak fairness of the thread inside an operation, which waits
for nobody.

### What the runs say about failures

`writer_wakeup` is violated: the writer stores `durable_seq` and notifies `durable_cv`
without holding `queue_mu`. A waiter that has just found the predicate false misses it; if
it was the last operation, it sleeps for ever.

The Python engine can call a record durable that a power loss takes, against the docstring of
`flush` ("durable=True also issues fsync") and `docs/DISK_FORMAT_V1.md` ("an explicit group-commit
boundary"): `flush` and `close` sync only what this object has written (`_pending_since_fsync`,
which the constructor sets to 0). `put`, SIGKILL, open, `flush(durable=True)` or `close()`, power
loss, open without the record is a behaviour of `PersistentBDR`. `AckedRecovered` leaves such a
promise out, and, apart from the two faults named below, no other; if `Flush` and `Close` raised
`acked` whatever they found, TLC would give this trace.

The other properties hold, and say exactly how far the code's promises go:

- `RecoveryErrors` and `OnlyHeaderMissing`: `create_wal` creates a file and writes its header
  in two calls. A crash between them leaves an empty segment, on which every later open
  fails with "BDW3 header truncated"; it is always the newest segment and holds nothing.
  Nothing else stops a recovery.
- The second half of `AckedStable` leaves out what a recovery read: records or frames that a killed process
  had written and not synced count as durable at once (`durable_seq`,
  `durable_sequence_`), and `sync` does nothing for them. Once the engine has synced
  anything itself, all of it is on the medium. `AckedRecovered`
  leaves out the same effect in the Python engine.
- `RejectsOnlyReuse`: a failed append of the atomic database leaves its bytes; the next batch
  gets the same sequence behind them, is acknowledged, and cannot be replayed. `open`
  throws only on such traces.
- `RejectsOnlyFaults` and `AckedRecovered` (`PersistentBDR`) leave out two faults. `_append`
  takes a number before `_encode` can raise, for a value outside 0..2^64-1: a record behind the
  number that was lost can be called durable, and no constructor opens the directory any more.
  And `_open_segment` appends behind a record that a crash or a short write has cut: the bytes
  of the next record complete it, so that the constructor raises, or reads less than was
  called durable. No other crash, power loss, failing `fsync` or order of rotation and
  checkpoint has these effects.
- `StrandedOnlyByClose`: in `api_v55` an operation that was let in before `close` and queued
  after it is never written, and whoever waits for it never returns. The property is about
  operations: a waiter whose operation is written can still miss its notification, as in
  `writer_wakeup`.
- `InOrder`, `ReadsPrefixOfV1`, `AckedShown`: a v1 engine that accepts operations behind a
  batch makes later opens throw, and never mixes the orders. A checkpoint during an open
  can hide operations from that handle; a second atomic handle can cut off a live frame.
- `ResultsTrue`: `integrity_check` can report a sound database as damaged, but
  only when a batch commits between its two reads.
- `CountersRight`: `len` counts at most one entity too many, apart from the moment in `limpar`.

## 4. What is proved

`DatabaseV1_proofs!TypeCorrect`: `Spec => []TypeOK`, for all keys, values, batch sizes and
bounds, from the assumptions on the constants in `ConstantAssumption`. `TypeOK` is not
inductive: that `create_wal` finds a segment id in range depends on where the checkpoint
is (`RoomForSegment`), and that `replay_wal` reads inside a file depends on the replay
position (`ReplayPosition`: nothing is open before the first header, the replayed segment
is in the directory and is the highest so far). The proof has a lemma for each operator
on records, files and snapshots, a frame lemma for the parts a step leaves alone, one for
the end of the process, and then one step per action.

`Sharing_proofs`, its first part on `TicketedWriter`, for any set of callers and any batch
size, from `ThreadAssumption`: `FrontierIsExact`, `CheckpointIsQuiescent`, `WriterDrains`,
`TypeCorrect`, that is, every invariant of run `writer`, and `ErrorFreezesFrontier`, the
action property `NoWriteAfterError`, which no run repeats.
The inductive invariant `Inv` says in addition to the types: the writer's batch and the
queue continue `durable_seq` without gap or repetition up to `next_seq` (`Pending`); a
submit, and a checkpoint from its ticket to its end, hold `submit_mu` (`SubmitHeld`), so a
checkpoint's ticket stays the last one (`CheckpointTicket`); behind `close` nobody is about
to enqueue (`CloseShuts`); and how batch, error and end of the writer depend on its
program counter (`WriterPhase`). `CheckpointQuiescent` needs `Pending` and
`CheckpointTicket` together, `DrainedExit` needs `CloseShuts` and `Pending`: none is
inductive by itself. One lemma per group of actions shows that a step preserves `Inv`.

`DatabaseV1_proofs!RecoveryNeverRefuses`: `Spec => []RecoveryErrors`, without any
hypothesis on the file system. Its invariant has two halves. `Disk` is what every crash
keeps: `snapshot.bdr3` is the newest of the snapshots a power loss can leave and none is
damaged (`SnapOK`); a segment that was removed and may come back is followed by one that is
there (`Links`); every segment but the last is whole on the medium and covered by each of
those snapshots (`Sealed`), from each of which the records go on without a gap
(`Gapless`); and what only the newer snapshot covers is still in a segment (`Between`),
since a power loss may bring the older one back. `Process` is what the running engine adds:
the segment that is written is the last one, and what it holds continues every snapshot up
to the last record written (`Active`, `Held`); after a rotation that failed there is none,
and the snapshots cover all that is durable (`NoActive`); batch and queue go on from there
(`Batches`); a checkpoint has nothing pending from its snapshot on, and no old snapshot can
come back from its `fsync_dir` on (`Quiet`); and how far `replay` has come (`Walk`).
`Gapless` is the reason a rotation may create a segment, `Quiet` the reason the old ones may
be removed; both depend on `Batches`.

In the same module, `AcknowledgedIsStable`, `RecoveredIsPrefix` and `ImplementsStore`:
under `FileSyncLinks` (without it TLC finds `AckedStable` violated, see section 2), the v1
engine keeps what it acknowledged, recovers a prefix of what it accepted, and implements
`DurableStore`. To `RecoveryInv` the proof adds `Content`: each snapshot is the map of the
history at its number (`SnapsFit`), and each record in a segment, the queue or the batch makes
one map of the history out of the one before (`RecordsFit`, `PendingFit`), so that a number
which was lost and used again has no second record anywhere; and `Durable`: every number up to
`durable_seq` that a snapshot leaves out is synced in a segment whose entry is on the medium.
The refinement takes each action to a step of `DurableStore` or a stutter.

`AtomicDatabase_proofs!RejectsOnlyAfterReuse`, without hypothesis: up to the first trace of a
failed append the frames are numbered without gap, and `last_sequence_` is the number of the
last frame or one less (`Numbered`), so that only an append that failed, followed by one with
the same number, makes `replay` throw. `LogStaysSound` is about the run of an atomic database
in which no append fails (`~AppendMayFail`, as in run `atomic_recovery`): the frames are
consecutive, and only the last can be incomplete, but not while the database runs or a tail
that was cut off can come back (`Contiguous`). With `FileSyncLinks`, `AcknowledgedIsStable`
and `ImplementsStore` follow from that, from `Traced` (each frame makes one map of the history
out of the one before, the map in memory is one of them) and `OnMedium`. The invariant needs
the variable `cut`: a repair that is not synced yet leaves the tail on the medium.

`BancoResolutivo_proofs`, for any threads, keys and placement of the keys in buckets and
phases: `StructureStaysSound`, `SearchWithinCall`, `CountersStayRight`, every invariant of run
`core_engine`. Of the objects on the heap it says that none is referred to from two
places (`Distinct`), that the structure shows what a map would hold (`Agree`), and that an
empty bucket or slot is there only at the steps of the call that makes or removes it
(`NoHusk`). A search without the lock can hold a reference to an object that has left the
structure; the invariant `Reads` says that what is found below any such reference is a value
its key has had since the call began. `Counts` says where `_size` and `_next_id` are while
they and the structure change one after the other.

`AtomicCApi_proofs`, for any threads, keys, sizes of values and bounds: `OwnersAreUnique`,
`ReadsAreOfTheCall` and `ResultsStayTrue`, every invariant of run `c_api`. An address that
was freed is used again, so a step of one thread changes the memory that the outputs of all
others point into: that a read keeps what it shows (`ShowsKept`, `Bystander`) needs that
blocks have one owner (`Owned`), and that `malloc` finds an address (`NewBlockIsFree`, by
counting). `Reading` says of a loop in the middle that moments of the call, in key order, give
what it has so far; the next key adds the present moment (`Extended`), and no other thread's
batch takes one away, as the history only grows. `ArenaIs` shows by induction over the
values that each of them lies in the arena from its cursor on and ends before the next, so
that an offset shows a value's own bytes; the induction is that of well-founded sets over
the indices for which it holds, and `CursorsAre` and `ArenasAre` show in the same way that
the recursive functions of the model exist.

`Index_proofs`, its first part on `ResolutiveIndex`, for any keys, hashes and values, any table sizes and any load limit
below one: `TableStaysSound`, `SizeStaysExact` and `GetIsRight`, every invariant of run
`resolutive_index`. Its part `Robin` holds at every iteration of every loop, the hole of a
backward shift included: an entry stands at its distance from the start of its key, and the
slot before it is used and at most one closer to its own. The lemma `Passed` draws from it
that every slot between the start of a key and its entry is used and as far from its own
start, which is why a search may stop at the first closer one. `Contents` says what the table
holds in each loop: the map; the map less the key while it is shifted out; while `rehash` runs,
what stood in the first `pos` slots of the old table; and during an insertion these together
with the entry in hand (`Carries`), whose key no slot that has been passed can have. `Cursor`
says where a search or an insertion stands. `Growing` says that the old table, which still
holds the map, is half as large as the new one, which has at most `pos` records, so that a
record has a free slot and `put_impl` never overflows; in an ordinary insertion the load limit leaves
one. `Sizes` ties `size_`, which wraps and lags behind by the calls between unlock and
`fetch_add`, to the number of keys (lemma `ModStep`).

`Index_proofs`, its second part on `CompactIndex`, for any byte strings, fingerprints, table
sizes, limits and loads below one, from `CompactAssumption`: `LookupIsRight`, `SnapshotIsRight`
and `ArenaIsBounded`, every invariant of run `compact_index`. The inductive invariant
`PartInv` (theorem `PartHolds`) is about the body of a slot, what it says wherever it stands:
fingerprint, offsets and lengths.

- `Table`: the slots are in Robin Hood order (`Ordered`) and no body stands twice (`Apart`).
  `TurnIs`, `FilledIs` and `CloseGapIs` show that a displacement, an insertion and a backward shift
  keep that order, and what becomes of the set of bodies: one more, one less, or the same.
  `Reached` gives, as `Passed` does above, that a search may stop where it does, and
  `Unmoved` that an insertion comes to the slot of its key before it displaces a record,
  whose new place would otherwise be overwritten.
- `Records`: of every body, the arena shows a key and the value that a map would hold for it
  (`Shows`); different bodies have different keys and different places (`Separate`); and every
  key of the map has a body. `BuiltIs` says what the arena of a compaction has after each slot,
  and `GoesViews` that each body shows in it what it showed in the old one.
- `records` is the number of bodies and leaves a slot free, so that the overflow of
  `insert_nolock` is never reached; `garbage` is the length of the arena less the bytes that
  belong to a body (`Covered`), counted by `CoveredMore` and `CoveredLess`. `Lean` is what
  `maybe_compact` leaves. It needs a positive threshold and keys that are not empty: a record of
  no bytes would stand at the place of another.

`ProbeIs`, `GrownIs` and `SweptIs` show that the recursive functions of the model exist.

`DatabaseV55_proofs`, for any threads, batch size and bounds: `AcknowledgedIsRecoverable`,
`OnlyHeaderErrs`, `FrontierIsExact` and `OnlyCloseStrands`, every invariant of run `v55_engine`.
The invariant meets at one number, `Reach`, the last operation on disk. On the side of the
files (`Disk`), the newest segment continues the snapshot without a gap (`Latest`), the older
ones are whole and have nothing that the snapshot has not (`Older`), and only the newest can
lack its header, and then is empty; the lemma `RecoverReads` shows by induction over records and segments that `recover` then gives the operations up to
`Reach`, or stops at a newest segment without header. On the side of the engine, `Reach` is `durable_seq` and, between the write of a
batch and its publication, the batch (`Written`); the batch, the queue and the operation that
a `submit` has a ticket for go on from there (`Pending`); a checkpoint holds `submit_mu`, so
that its ticket stays the last one (`SubmitHeld`); and the segment that is written is the
newest, except between the steps of a rotation (`Active`). `FrontierContiguous` needs
`SubmitHeld`, since a ticket is taken before its operation is queued, and
`StrandedOnlyByClose` follows from what `stop` and the end of the writer leave in the queue.

`PersistentBDR_proofs`, for any segment size, group size and bounds, with failing calls or
without: `AcknowledgedIsRecovered`, `StateIsExact` and `RejectsOnlyAfterFaults`, every invariant
of run `persistent_bdr`. `AckedRecovered` is about `acked`: every call that
syncs, and a `flush` or `close` with nothing pending while the active segment is on the medium;
for the others there is nothing to prove, as section 3 says. While bytes were neither written behind a cut record nor a number
lost, there is a number `r` (of an open object, `seq`) such that (`Log(r)`): nothing on disk
is later (`Bounded`); behind each snapshot that a power loss can leave no record up to `r` is
missing, and only in the last segment one can get lost (`Held`); whatever stands between a
snapshot and a record is before it in its file, or in an older segment and safe (`Gapless`);
and what was acknowledged is safe (`AckedFirm`). A record is safe (`Firm`) when it is
synced in a segment whose name is on the medium. `Settled` says why the segment that a
rotation leaves is safe, `Snapshot` why the segments that a checkpoint removes are not needed, also
when only some are removed, or come back. The lemma `Recovers` shows by induction over
records and segments that `_load` then reads `r` and finds no gap, and `PowerLossLog` that
any loss of unsynced records, names and snapshots leaves such a log, with a smaller `r` that
is at least what was acknowledged. `Recorded` and `Applied` say that files, snapshots and
state are those of the history.

`Sharing_proofs`, its second part on `SharedDirectory`, for any number of handles and any
bounds, from `SharedAssumption`: `OrderIsKept`, `PrefixIsRead`, `AckedIsShown` and
`AckedIsRecoverable`, every invariant of run `shared_directory`. The inductive invariant
`DirInv` (theorem `DirectoryHolds`) has one part that always holds and five that hold while
`taint` lacks what would break them; a step that adds to `taint` owes only the others.

- `Base`: the segments and the snapshot are those of v1 (`Files`); operations and pieces of
  the log are numbered in the order in which they were made (`Numbers`); a handle writes a
  frame with its own next sequence (`FrameOf`), and before it replays the log it has nothing
  but operations of v1 (`ReadingOf`).
- `Unraced`, without a checkpoint during an open: a handle that reads has the operations 1 to
  `last`, the files it still has to read exist, and once the newest is read it has all of those
  from before it began; v1's part of what it shows stays a prefix (`UnracedOf`).
- `Unforked`: all of v1 is older than the log. `Unshared`: at most one handle is open, the rest
  of a frame stands behind its head, and what a handle shows is of v1 or whole in the file.
  `OrderIsKept` needs only one of the two, by different arguments: either the log is newer than
  v1, or the log was written by one handle after another and its sequences do not let a replay
  pass when v1 has taken them meanwhile.
- `Framed`, with neither a second handle nor a failing write: an incomplete frame is the last (`Followed`), every
  acknowledged batch is complete in the file, before the place where a repair will cut it,
  and shown. `Consecutive`, with no taint at all: the frames are numbered on from v1's
  last operation, and so is the handle (`LogEnd`), so that no replay meets a gap.

Recovery of a log is one function, `Replay`; the lemmas `RecoveredIs`, `ReplayIncreasing`,
`ReplayUnraced`, `ReplayUnshared`, `ReplayFramed` and `ReplayConsecutive` say, from an induction
over the pieces, what it makes of a log of which the parts above hold, with the one duplicate
that it lets pass and whatever a length read from the middle of a frame is.

The recoveries of these three are recursive functions. As `ArenasAre` does, `ReplayIs`
(`SharedDirectory`), `StatesOfIs`, `ReplayFileIs` and `ReplayFilesIs` (`PersistentBDR`) and their
like in `DatabaseV55_proofs` show that these exist, by induction over the length.

The SMT translation of `tlapm` 1.4.5 has an axiom that is too strong: that `Len(s) = n`
implies `DOMAIN s = 1..n` for any value `s`, a sequence or not. Together with a function that
is no sequence it can prove anything. No leaf of these proofs depends on it: they are all
proved as well when the axiom is weakened to the other direction, that `DOMAIN s = 1..n`
implies `Len(s) = n`. Where a leaf used to need it, a step now says that the value is a sequence.

Only model-checked, and why:

- the liveness properties `EventuallyDurable`, `ErrorWakesWaiters` and `OperationEnds`: temporal
  reasoning under fairness is left to TLC. Every invariant and every other action or refinement property
  of a passing run is stated by a theorem.

## 5. What is not modelled

- The byte formats: CRCs, lengths and magic numbers are modelled by what they decide
  (complete, torn, damaged). The size limits (a value of 2^24 bytes passes `submit_impl`
  and is refused by `replay_wal`) are in the list of hazards without a property yet.
- `contains`, `size`, statistics and iterators, which only read; of the hash functions,
  that they are functions of the key. In `CompactIndex` the counter `size_`, which
  `ResolutiveIndex` has.
- Power losses in `DatabaseV55` and `SharedDirectory`: the first writes as `DatabaseV1`
  does, the second as `AtomicDatabase`, and both of those have them.
- `api_v86/src/database.cpp`, the fallback engine: the control of `database_v1.cpp`.
- The C interfaces of the v1 engine and the ctypes bindings, one call each; the tools,
  tests and benchmarks. See `PROJECT.json`.

## 6. Plan

1. *(done)* `DatabaseV1`, `TicketedWriter`, `AtomicDatabase`, `DurableStore`, their runs,
   the type theorem of `DatabaseV1`, the safety theorems of `TicketedWriter`.
2. *(done)* The indexes, `ResolutiveIndex` and `CompactIndex`; the Python engines,
   `PersistentBDR` and `BancoResolutivo`; the engine of `api_v55`; `SharedDirectory`; the C
   interface.
3. *(done)* Proofs: the safety properties of `DatabaseV1`, `TicketedWriter`, `AtomicDatabase`,
   `BancoResolutivo`, `ResolutiveIndex`, `CompactIndex`, `AtomicCApi`, `DatabaseV55`,
   `PersistentBDR` and `SharedDirectory`, and that `DatabaseV1` and `AtomicDatabase` implement
   `DurableStore`.
