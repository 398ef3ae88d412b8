---------------------------- MODULE BancoResolutivo ----------------------------
(***************************************************************************)
(* BancoDeDadosResolutivo (bdr/core.py), the in-memory engine: a list of     *)
(* buckets, a dict from phases to slots in each, a dict from fingerprints    *)
(* to entities in each slot.                                               *)
(*                                                                         *)
(* inserir, remover and limpar run under _lock; buscar (and obter, contem    *)
(* through it) takes no lock and goes down the three levels while they      *)
(* change, holding references to objects that may no longer be part of the   *)
(* structure.  So objects have identities here, and every access to a list   *)
(* or dict that another thread can see is a step; one access is atomic.      *)
(*                                                                         *)
(* Fingerprints are taken to differ for different keys, as the code does;    *)
(* buckets and phases can be any function of the key.                       *)
(***************************************************************************)
EXTENDS Integers, Sequences, FiniteSets

CONSTANTS
    Threads, NoOne,     \* callers; nobody holds _lock
    Keys, Payloads,
    Buckets, Phases,    \* values of rho_R and phi
    MaxCalls            \* bound: calls of all threads together

ASSUME BancoAssumption ==
    NoOne \notin Threads /\ Keys # {} /\ Payloads # {} /\ MaxCalls \in Nat

VARIABLES
    address,            \* rho_R and phi of each key
    current,            \* self._buckets
    lists, dicts, slots,\* all lists, bucket dicts and slot dicts ever made; 0 is None
    size, nextId,       \* _size, _next_id
    lock,
    pc, call, key,      \* of each thread: step, operation, argument
    payload, ref, ent,  \* ... object it has reached, entity it found or builds
    dict, since, calls  \* history: a plain map; what key[t] was mapped to since the call began; bound

heap == <<current, lists, dicts, slots>>
thr  == <<pc, call, key, payload, ref, ent>>
vars == <<address, heap, size, nextId, lock, thr, dict, since, calls>>

None     == [id |-> 0]
Entity   == [id : Nat \ {0}, payload : Payloads]
NoBucket == [r \in Buckets |-> 0]
NoSlot   == [p \in Phases |-> 0]
NoEntity == [k \in Keys |-> None]

Init ==
    /\ address \in [Keys -> [rho : Buckets, phi : Phases]]
    /\ current = 1 /\ lists = <<NoBucket>> /\ dicts = <<>> /\ slots = <<>>
    /\ size = 0 /\ nextId = 1 /\ lock = NoOne
    /\ pc = [t \in Threads |-> "idle"] /\ call = [t \in Threads |-> "none"]
    /\ key = [t \in Threads |-> CHOOSE k \in Keys : TRUE]
    /\ payload = [t \in Threads |-> CHOOSE p \in Payloads : TRUE]
    /\ ref = [t \in Threads |-> 0] /\ ent = [t \in Threads |-> None]
    /\ dict = NoEntity /\ since = [t \in Threads |-> {}] /\ calls = 0

Rho(t) == address[key[t]].rho
Phi(t) == address[key[t]].phi
BucketOf(t) == lists[current][Rho(t)]
SlotIn(b, t) == IF b = 0 THEN 0 ELSE dicts[b][Phi(t)]
EntityIn(s, k) == IF s = 0 THEN None ELSE slots[s][k]

Goto(t, step) == pc' = [pc EXCEPT ![t] = step]
Hold(t, obj) == ref' = [ref EXCEPT ![t] = obj]
Holds(t, step) == pc[t] = step /\ lock = t

\* The plain map changes; calls that run have seen its new values too.
Becomes(m) ==
    /\ dict' = m
    /\ since' = [u \in Threads |-> IF pc[u] = "idle" THEN since[u] ELSE since[u] \cup {m[key[u]]}]

\* encode() and _payload_bytes() come first and touch nothing that is shared.
Begin(t, c, k, p) ==
    /\ pc[t] = "idle" /\ calls < MaxCalls
    /\ calls' = calls + 1
    /\ Goto(t, IF c = "buscar" THEN "list" ELSE "lock")
    /\ call' = [call EXCEPT ![t] = c] /\ key' = [key EXCEPT ![t] = k]
    /\ payload' = [payload EXCEPT ![t] = p] /\ Hold(t, 0) /\ ent' = [ent EXCEPT ![t] = None]
    /\ since' = [since EXCEPT ![t] = {dict[k]}]
    /\ UNCHANGED <<address, heap, size, nextId, lock, dict>>

Acquire(t) ==
    /\ pc[t] = "lock" /\ lock = NoOne
    /\ lock' = t /\ Goto(t, call[t])
    /\ UNCHANGED <<address, heap, size, nextId, call, key, payload, ref, ent, dict, since, calls>>

\* The end of `with self._lock', and of the call
Return(t) == lock' = NoOne /\ Goto(t, "idle")

-----------------------------------------------------------------------------
(* buscar, without the lock                                                *)

\* self._buckets is read, and then a bucket of the list it was.
BuscarList(t) ==
    /\ pc[t] = "list" /\ Hold(t, current) /\ Goto(t, "bucket")
    /\ UNCHANGED <<address, heap, size, nextId, lock, call, key, payload, ent, dict, since, calls>>

\* A level further down, or None
Descend(t, obj, step) ==
    /\ Hold(t, obj) /\ Goto(t, IF obj = 0 THEN "idle" ELSE step)
    /\ UNCHANGED <<address, heap, size, nextId, lock, call, key, payload, ent, dict, since, calls>>

BuscarBucket(t) == pc[t] = "bucket" /\ Descend(t, lists[ref[t]][Rho(t)], "phase")
BuscarPhase(t)  == pc[t] = "phase" /\ Descend(t, dicts[ref[t]][Phi(t)], "fingerprint")

BuscarEntity(t) ==
    /\ pc[t] = "fingerprint" /\ Goto(t, "idle")
    /\ ent' = [ent EXCEPT ![t] = slots[ref[t]][key[t]]]
    /\ UNCHANGED <<address, heap, size, nextId, lock, call, key, payload, ref, dict, since, calls>>

-----------------------------------------------------------------------------
(* inserir                                                                 *)

\* A bucket is put into the list, empty, when there is none ...
InserirBucket(t) ==
    /\ Holds(t, "inserir") /\ Goto(t, "setdefault")
    /\ IF BucketOf(t) # 0 THEN UNCHANGED <<lists, dicts>>
       ELSE /\ dicts' = Append(dicts, NoSlot)
            /\ lists' = [lists EXCEPT ![current][Rho(t)] = Len(dicts')]
    /\ UNCHANGED <<address, current, slots, size, nextId, lock, call, key, payload, ref, ent,
                   dict, since, calls>>

\* ... then a slot into the bucket
InserirPhase(t) ==
    /\ Holds(t, "setdefault") /\ Goto(t, "count")
    /\ LET b == BucketOf(t) IN
       IF SlotIn(b, t) # 0 THEN Hold(t, SlotIn(b, t)) /\ UNCHANGED <<dicts, slots>>
       ELSE /\ slots' = Append(slots, NoEntity) /\ Hold(t, Len(slots'))
            /\ dicts' = [dicts EXCEPT ![b][Phi(t)] = Len(slots')]
    /\ UNCHANGED <<address, current, lists, size, nextId, lock, call, key, payload, ent, dict,
                   since, calls>>

\* Mutant: the id is not used up.
NumberedAgain(existing) ==
    IF existing = None THEN [id |-> nextId, next |-> nextId, new |-> 1]
    ELSE [id |-> existing.id, next |-> nextId, new |-> 0]

\* An entity that is replaced keeps its id; a new one takes the next.
Numbered(existing) ==
    IF existing = None THEN [id |-> nextId, next |-> nextId + 1, new |-> 1]
    ELSE [id |-> existing.id, next |-> nextId, new |-> 0]

InserirCount(t) ==
    LET n == Numbered(slots[ref[t]][key[t]]) IN
    /\ Holds(t, "count") /\ Goto(t, "store")
    /\ nextId' = n.next /\ size' = size + n.new
    /\ ent' = [ent EXCEPT ![t] = [id |-> n.id, payload |-> payload[t]]]
    /\ UNCHANGED <<address, heap, lock, call, key, payload, ref, dict, since, calls>>

InserirStore(t) ==
    /\ Holds(t, "store") /\ Return(t)
    /\ slots' = [slots EXCEPT ![ref[t]][key[t]] = ent[t]]
    /\ Becomes([dict EXCEPT ![key[t]] = ent[t]])
    /\ UNCHANGED <<address, current, lists, dicts, size, nextId, call, key, payload, ref, ent, calls>>

-----------------------------------------------------------------------------
(* remover                                                                 *)

RemoverAbsent(t) ==
    /\ Holds(t, "remover") /\ Return(t)
    /\ EntityIn(SlotIn(BucketOf(t), t), key[t]) = None
    /\ UNCHANGED <<address, heap, size, nextId, call, key, payload, ref, ent, dict, since, calls>>

RemoverEntity(t) ==
    LET s == SlotIn(BucketOf(t), t) IN
    /\ Holds(t, "remover") /\ EntityIn(s, key[t]) # None
    /\ slots' = [slots EXCEPT ![s][key[t]] = None] /\ Hold(t, s) /\ Goto(t, "uncount")
    /\ Becomes([dict EXCEPT ![key[t]] = None])
    /\ UNCHANGED <<address, current, lists, dicts, size, nextId, lock, call, key, payload, ent, calls>>

RemoverCount(t) ==
    /\ Holds(t, "uncount") /\ Goto(t, "drop_slot")
    /\ size' = size - 1
    /\ UNCHANGED <<address, heap, nextId, lock, call, key, payload, ref, ent, dict, since, calls>>

\* Mutant: the slot goes with the first of its entities.
DropsAnySlot(s) == TRUE

DropsSlot(s) == slots[s] = NoEntity

RemoverPhase(t) ==
    /\ Holds(t, "drop_slot") /\ Goto(t, "drop_bucket")
    /\ dicts' = IF DropsSlot(ref[t]) THEN [dicts EXCEPT ![BucketOf(t)][Phi(t)] = 0] ELSE dicts
    /\ UNCHANGED <<address, current, lists, slots, size, nextId, lock, call, key, payload, ref,
                   ent, dict, since, calls>>

\* Mutant: empty buckets stay.
DropsNoBucket(b) == FALSE

DropsBucket(b) == dicts[b] = NoSlot

RemoverBucket(t) ==
    /\ Holds(t, "drop_bucket") /\ Return(t)
    /\ lists' = IF DropsBucket(BucketOf(t)) THEN [lists EXCEPT ![current][Rho(t)] = 0] ELSE lists
    /\ UNCHANGED <<address, current, dicts, slots, size, nextId, call, key, payload, ref, ent,
                   dict, since, calls>>

-----------------------------------------------------------------------------
(* limpar                                                                  *)

\* The list is replaced and not emptied: who has the old one reads on in it.
LimparList(t) ==
    /\ Holds(t, "limpar") /\ Goto(t, "reset")
    /\ lists' = Append(lists, NoBucket) /\ current' = Len(lists')
    /\ Becomes(NoEntity)
    /\ UNCHANGED <<address, dicts, slots, size, nextId, lock, call, key, payload, ref, ent, calls>>

LimparReset(t) ==
    /\ Holds(t, "reset") /\ Return(t)
    /\ size' = 0 /\ nextId' = 1
    /\ UNCHANGED <<address, heap, call, key, payload, ref, ent, dict, since, calls>>

Next ==
    \E t \in Threads :
        \/ \E k \in Keys : \/ \E p \in Payloads : Begin(t, "inserir", k, p)
                           \/ \E c \in {"buscar", "remover"} : Begin(t, c, k, payload[t])
        \/ Begin(t, "limpar", key[t], payload[t])
        \/ Acquire(t)
        \/ BuscarList(t) \/ BuscarBucket(t) \/ BuscarPhase(t) \/ BuscarEntity(t)
        \/ InserirBucket(t) \/ InserirPhase(t) \/ InserirCount(t) \/ InserirStore(t)
        \/ RemoverAbsent(t) \/ RemoverEntity(t) \/ RemoverCount(t) \/ RemoverPhase(t)
        \/ RemoverBucket(t)
        \/ LimparList(t) \/ LimparReset(t)

Spec == Init /\ [][Next]_vars

-----------------------------------------------------------------------------
TypeOK ==
    /\ address \in [Keys -> [rho : Buckets, phi : Phases]]
    /\ current \in 1..Len(lists) /\ lists \in Seq([Buckets -> 0..Len(dicts)])
    /\ dicts \in Seq([Phases -> 0..Len(slots)]) /\ slots \in Seq([Keys -> Entity \cup {None}])
    /\ size \in Nat /\ nextId \in Nat /\ lock \in Threads \cup {NoOne}
    /\ pc \in [Threads -> {"idle", "lock", "list", "bucket", "phase", "fingerprint", "inserir",
                           "setdefault", "count", "store", "remover", "uncount", "drop_slot",
                           "drop_bucket", "limpar", "reset"}]
    /\ ent \in [Threads -> Entity \cup {None}] /\ dict \in [Keys -> Entity \cup {None}]
    /\ calls \in 0..MaxCalls

\* What a search finds that nothing interrupts
Found(k) ==
    LET b == lists[current][address[k].rho]
        s == IF b = 0 THEN 0 ELSE dicts[b][address[k].phi]
    IN EntityIn(s, k)

\* At every step of inserir, remover and limpar the structure holds what a map would: no
\* half-done change hides or shows a key it is not about, whichever buckets and phases
\* keys share.  Between operations no empty slot or bucket is left in it.
StructureSound ==
    /\ TypeOK
    /\ \A k \in Keys : Found(k) = dict[k]
    /\ lock = NoOne =>
          \A r \in Buckets : LET b == lists[current][r] IN
              b # 0 => /\ dicts[b] # NoSlot
                       /\ \A p \in Phases : dicts[b][p] # 0 => slots[dicts[b][p]] # NoEntity

\* buscar takes no lock and may go down into objects that have been taken out of the
\* structure, and still returns the entity, or None, that its key had at some moment of
\* the call.
BuscarWithinCall ==
    \A t \in Threads : pc[t] = "idle" /\ call[t] = "buscar" => ent[t] \in since[t]

\* Where the thread is that holds the lock
Inside == IF lock = NoOne THEN "idle" ELSE pc[lock]
Live == {k \in Keys : dict[k] # None}

\* Two entities never have one id, though limpar starts again at 1 while entities that are
\* replaced keep theirs; an id given out is below _next_id.  len(), which takes no lock
\* either, counts at most the one entity too many that is being stored or removed, and is
\* exact when nobody holds the lock; only inside limpar it is older than the list.
CountersRight ==
    /\ \A j, k \in Live : dict[j].id = dict[k].id => j = k
    /\ lock = NoOne => size = Cardinality(Live)
    /\ Inside # "reset" => /\ \A k \in Live : dict[k].id < nextId
                           /\ size - Cardinality(Live) \in
                                 IF Inside \in {"store", "uncount"} THEN {0, 1} ELSE {0}
=============================================================================
