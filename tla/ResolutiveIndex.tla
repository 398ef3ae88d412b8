---------------------------- MODULE ResolutiveIndex ----------------------------
(***************************************************************************)
(* One partition of bdr::ResolutiveIndex                                    *)
(* (experimental/api_v86/src/resolutive_index.cpp): an open-addressing table *)
(* with Robin Hood insertion, backward-shift deletion and growth by a factor *)
(* of two, one iteration of a loop at a time, and the counter size_, which   *)
(* threads update after they have released the mutex of the partition.       *)
(*                                                                         *)
(* Partitions share nothing but size_, and a thread in put or erase holds    *)
(* the mutex of its partition alone: one loop is under way at a time.  A     *)
(* fingerprint is a function of the key, and slots are compared by           *)
(* fingerprint and key, which is comparing the keys.                       *)
(***************************************************************************)
EXTENDS Integers, FiniteSets

CONSTANTS
    Keys, Vals,
    NoVal,             \* std::nullopt, and the contents of a free slot
    Hashes,            \* the values mix64(fingerprint) can take
    InitialCap,        \* slots of a new partition, a power of two (8 in the code)
    LoadNum, LoadDen,  \* max_load = LoadNum / LoadDen
    MaxCap,            \* bound: slots
    SizeMod,           \* size_ counts modulo SizeMod (2^64 in the code)
    MaxThreads         \* bound: threads between the mutex and size_

ASSUME IndexAssumption ==
    /\ NoVal \notin Vals /\ NoVal \notin Keys
    /\ Hashes \subseteq Nat
    /\ InitialCap \in Nat \ {0, 1} /\ MaxCap \in Nat /\ InitialCap <= MaxCap
    /\ LoadNum \in Nat \ {0} /\ LoadDen \in Nat /\ LoadNum < LoadDen
    /\ SizeMod \in Nat \ {0} /\ MaxThreads \in Nat

VARIABLES
    hash,       \* mix64(fingerprint) of each key, any function
    cap, slots, records,        \* slots.size(), slots, records
    pc,         \* the loop under way
    arg,        \* the operation it belongs to
    idx, dist, cur,             \* idx, dist, cur of that loop; idx is `hole' in the shift loop
    old, pos,   \* rehash: the old slots, and the next of them
    size, adds, subs,           \* size_, and the threads that have still to add to it or subtract
    result,     \* what a get that has just ended returned
    dict        \* what a map would hold (not in the code)

table == <<cap, slots, records>>
loop  == <<idx, dist, cur>>
count == <<size, adds, subs>>
vars  == <<hash, table, pc, arg, loop, old, pos, count, result, dict>>

Slot(k, v, d) == [used |-> TRUE, key |-> k, val |-> v, dist |-> d]
Free == [used |-> FALSE, key |-> NoVal, val |-> NoVal, dist |-> 0]
Empty(n) == [i \in 0..(n - 1) |-> Free]

NoOp == [op |-> "none", key |-> NoVal, val |-> NoVal]

\* start(fp, mask); slots.size() is a power of two
Start(k, n) == hash[k] % n

After(i, n) == (i + 1) % n

Init ==
    /\ hash \in [Keys -> Hashes]
    /\ cap = InitialCap /\ slots = Empty(InitialCap) /\ records = 0
    /\ pc = "idle" /\ arg = NoOp
    /\ idx = 0 /\ dist = 0 /\ cur = Free
    /\ old = Empty(InitialCap) /\ pos = 0
    /\ size = 0 /\ adds = 0 /\ subs = 0
    /\ result = NoVal /\ dict = [k \in Keys |-> NoVal]

\* The operation returns and releases the mutex.
Leave == pc' = "idle" /\ arg' = NoOp /\ idx' = 0 /\ dist' = 0 /\ cur' = Free

-----------------------------------------------------------------------------
(* put                                                                     *)

\* The head of insert_nolock
EnterInsert(k, v, n) ==
    /\ pc' = "insert" /\ cur' = Slot(k, v, 0) /\ idx' = Start(k, n) /\ dist' = 0

\* double(records + 1) / double(slots.size()) > max_load
TooFull == (records + 1) * LoadDen > LoadNum * cap

\* The load is looked at before the key: an overwrite may grow the table too.
PutBegin(k, v) ==
    /\ pc = "idle" /\ adds + subs < MaxThreads
    /\ arg' = [op |-> "put", key |-> k, val |-> v]
    /\ \/ /\ TooFull /\ 2 * cap <= MaxCap
          /\ old' = slots /\ pos' = 0
          /\ cap' = 2 * cap /\ slots' = Empty(2 * cap) /\ records' = 0
          /\ pc' = "rehash"
          /\ UNCHANGED loop
       \/ /\ ~TooFull
          /\ EnterInsert(k, v, cap)
          /\ UNCHANGED <<old, pos, table>>
    /\ result' = NoVal /\ UNCHANGED <<hash, count, dict>>

\* rehash: the used slots of the old table are inserted into the new one.
RehashSkip ==
    /\ pc = "rehash" /\ pos \in DOMAIN old /\ ~old[pos].used
    /\ pos' = pos + 1
    /\ UNCHANGED <<hash, table, pc, arg, loop, old, count, result, dict>>

RehashMove ==
    /\ pc = "rehash" /\ pos \in DOMAIN old /\ old[pos].used
    /\ pos' = pos + 1
    /\ EnterInsert(old[pos].key, old[pos].val, cap)
    /\ UNCHANGED <<hash, table, arg, old, count, result, dict>>

\* The operation that found the table too full goes on.
RehashDone ==
    /\ pc = "rehash" /\ pos \notin DOMAIN old
    /\ EnterInsert(arg.key, arg.val, cap)
    /\ old' = Empty(InitialCap) /\ pos' = 0
    /\ UNCHANGED <<hash, table, arg, count, result, dict>>

\* Mutant: an overwrite is counted as an insertion.
InsertReturnNew(new) ==
    IF pos > 0
    THEN pc' = "rehash" /\ UNCHANGED <<arg, loop, count, dict>>
    ELSE /\ Leave
         /\ dict' = [dict EXCEPT ![arg.key] = arg.val]
         /\ adds' = adds + 1
         /\ UNCHANGED <<size, subs>>

\* insert_nolock is over: back to rehash, or out of put with what it returned.
InsertReturn(new) ==
    IF pos > 0
    THEN pc' = "rehash" /\ UNCHANGED <<arg, loop, count, dict>>
    ELSE /\ Leave
         /\ dict' = [dict EXCEPT ![arg.key] = arg.val]
         /\ adds' = IF new THEN adds + 1 ELSE adds
         /\ UNCHANGED <<size, subs>>

InsertFree ==
    /\ pc = "insert" /\ ~slots[idx].used
    /\ slots' = [slots EXCEPT ![idx] = cur] /\ records' = records + 1
    /\ InsertReturn(TRUE)
    /\ UNCHANGED <<hash, cap, old, pos, result>>

InsertOverwrite ==
    /\ pc = "insert" /\ slots[idx].used /\ slots[idx].key = cur.key
    /\ slots' = [slots EXCEPT ![idx].val = cur.val]
    /\ InsertReturn(FALSE)
    /\ UNCHANGED <<hash, cap, records, old, pos, result>>

\* A slot closer to its start gives way; on to the next slot, or overflow.
InsertDisplace ==
    /\ pc = "insert" /\ slots[idx].used /\ slots[idx].key # cur.key
    /\ LET swap == slots[idx].dist < cur.dist
           out  == IF swap THEN slots[idx] ELSE cur IN
       /\ slots' = IF swap THEN [slots EXCEPT ![idx] = cur] ELSE slots
       /\ idx' = After(idx, cap)
       /\ cur' = [out EXCEPT !.dist = @ + 1]
       /\ pc' = IF out.dist + 1 >= cap THEN "overflow" ELSE "insert"
    /\ UNCHANGED <<hash, cap, records, arg, dist, old, pos, count, result, dict>>

-----------------------------------------------------------------------------
(* get and erase                                                           *)

FindBegin(op, k) ==
    /\ pc = "idle" /\ op \in {"get", "erase"} /\ adds + subs < MaxThreads
    /\ arg' = [op |-> op, key |-> k, val |-> NoVal]
    /\ pc' = "find" /\ idx' = Start(k, cap) /\ dist' = 0
    /\ result' = NoVal /\ UNCHANGED <<hash, table, cur, old, pos, count, dict>>

\* Mutant: the search also ends at a slot as far from its start as the key would be.
MissEarly == ~slots[idx].used \/ slots[idx].dist <= dist

\* The search ends: the key would have taken this slot.
Miss == ~slots[idx].used \/ slots[idx].dist < dist

FindEnd(v) == Leave /\ result' = IF arg.op = "get" THEN v ELSE result

FindMiss ==
    /\ pc = "find" /\ Miss
    /\ FindEnd(NoVal)
    /\ UNCHANGED <<hash, table, old, pos, count, dict>>

FindHit ==
    /\ pc = "find" /\ ~Miss /\ slots[idx].key = arg.key
    /\ \/ /\ arg.op = "get"
          /\ FindEnd(slots[idx].val)
       \/ /\ arg.op = "erase"
          /\ pc' = "shift" /\ UNCHANGED <<arg, loop, result>>
    /\ UNCHANGED <<hash, table, old, pos, count, dict>>

FindNext ==
    /\ pc = "find" /\ ~Miss /\ slots[idx].key # arg.key
    /\ IF dist + 1 >= cap
       THEN FindEnd(NoVal)
       ELSE idx' = After(idx, cap) /\ dist' = dist + 1 /\ UNCHANGED <<pc, arg, cur, result>>
    /\ UNCHANGED <<hash, table, old, pos, count, dict>>

Successor == slots[After(idx, cap)]

\* Mutant: the shift stops one slot early.
ShiftableTwo == Successor.used /\ Successor.dist > 1

\* The loop condition of the backward shift
Shiftable == Successor.used /\ Successor.dist > 0

\* Mutant: the hole does not move on.
ShiftInPlace ==
    /\ pc = "shift" /\ Shiftable
    /\ slots' = [slots EXCEPT ![idx] = [Successor EXCEPT !.dist = @ - 1]]
    /\ UNCHANGED <<hash, cap, records, idx, pc, arg, dist, cur, old, pos, count, result, dict>>

Shift ==
    /\ pc = "shift" /\ Shiftable
    /\ slots' = [slots EXCEPT ![idx] = [Successor EXCEPT !.dist = @ - 1]]
    /\ idx' = After(idx, cap)
    /\ UNCHANGED <<hash, cap, records, pc, arg, dist, cur, old, pos, count, result, dict>>

ShiftEnd ==
    /\ pc = "shift" /\ ~Shiftable
    /\ slots' = [slots EXCEPT ![idx] = Free] /\ records' = records - 1
    /\ Leave
    /\ subs' = subs + 1 /\ dict' = [dict EXCEPT ![arg.key] = NoVal]
    /\ UNCHANGED <<hash, cap, old, pos, size, adds, result>>

-----------------------------------------------------------------------------
(* size_, an unsigned counter changed after the mutex is released          *)

Add == /\ adds > 0 /\ adds' = adds - 1 /\ size' = (size + 1) % SizeMod
       /\ UNCHANGED <<hash, table, pc, arg, loop, old, pos, subs, result, dict>>

Sub == /\ subs > 0 /\ subs' = subs - 1 /\ size' = (size - 1) % SizeMod
       /\ UNCHANGED <<hash, table, pc, arg, loop, old, pos, adds, result, dict>>

Step == \/ RehashSkip \/ RehashMove \/ RehashDone
        \/ InsertFree \/ InsertOverwrite \/ InsertDisplace
        \/ FindMiss \/ FindHit \/ FindNext \/ Shift \/ ShiftEnd

Next == \/ Step \/ Add \/ Sub
        \/ \E k \in Keys : \/ \E v \in Vals : PutBegin(k, v)
                           \/ \E op \in {"get", "erase"} : FindBegin(op, k)

Spec == Init /\ [][Next]_vars
\* A thread inside an operation keeps running.
FairSpec == Spec /\ WF_vars(Step)

-----------------------------------------------------------------------------
SlotType == [used : BOOLEAN, key : Keys \cup {NoVal}, val : Vals \cup {NoVal}, dist : 0..MaxCap]

TypeOK ==
    /\ hash \in [Keys -> Hashes]
    /\ cap \in InitialCap..MaxCap /\ slots \in [0..(cap - 1) -> SlotType]
    /\ records \in 0..cap
    /\ pc \in {"idle", "insert", "rehash", "find", "shift", "overflow"}
    /\ arg \in [op : {"none", "put", "get", "erase"}, key : Keys \cup {NoVal}, val : Vals \cup {NoVal}]
    /\ idx \in 0..(cap - 1) /\ dist \in 0..cap /\ cur \in SlotType
    /\ DOMAIN old \subseteq 0..(MaxCap - 1) /\ \A i \in DOMAIN old : old[i] \in SlotType
    /\ pos \in 0..MaxCap
    /\ size \in 0..(SizeMod - 1) /\ adds \in 0..MaxThreads /\ subs \in 0..MaxThreads
    /\ result \in Vals \cup {NoVal} /\ dict \in [Keys -> Vals \cup {NoVal}]

Used == {i \in DOMAIN slots : slots[i].used}

\* Between operations the table is a Robin Hood table: every slot is as far from its
\* start as it says, and behind a displaced slot stands one displaced nearly as far,
\* so that a search may stop where it does.
RobinHood == pc \in {"idle", "find"} =>
    \A i \in Used : LET s == slots[i]  p == slots[(i + cap - 1) % cap] IN
        /\ i = (Start(s.key, cap) + s.dist) % cap
        /\ s.dist > 0 => p.used /\ p.dist >= s.dist - 1

\* Between operations the table holds exactly what a map would hold, each key once.
HoldsDict == pc \in {"idle", "find"} =>
    /\ \A i \in Used : dict[slots[i].key] = slots[i].val
    /\ \A k \in Keys : dict[k] # NoVal => \E i \in Used : slots[i].key = k
    /\ \A i, j \in Used : slots[i].key = slots[j].key => i = j
    /\ records = Cardinality(Used)

\* The partition is sound through every sequence of displacements, shifts and growth, and
\* `throw "Robin Hood partition overflow"' is never reached: growth comes first.
TableSound == TypeOK /\ RobinHood /\ HoldsDict /\ pc # "overflow"

\* A search never passes the key by: a get that ends returns what the map holds.
GetAgrees == [][pc = "find" /\ pc' = "idle" /\ arg.op = "get" => result' = dict[arg.key]]_vars

\* size_ differs from the table only by the operations their threads have still to count:
\* it may wrap below zero while an erase overtakes the put it undoes, and is exact again
\* when every thread has returned.
SizeCatchesUp == pc = "idle" => size = (records - adds + subs) % SizeMod

\* Every operation ends, the shift loop of erase included, which counts nothing.
OperationEnds == pc # "idle" ~> pc = "idle"
=============================================================================
