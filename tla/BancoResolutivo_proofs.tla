------------------------ MODULE BancoResolutivo_proofs ------------------------
(***************************************************************************)
(* Theorems about BancoResolutivo, for any threads, keys, buckets and        *)
(* phases and for every way of placing keys in them.                       *)
(***************************************************************************)
EXTENDS BancoResolutivo, SequenceTheorems, FiniteSetTheorems, TLAPS

Values  == Entity \cup {None}
Reading == {"list", "bucket", "phase", "fingerprint"}
Writing == {"inserir", "setdefault", "count", "store", "remover", "uncount", "drop_slot",
            "drop_bucket", "limpar", "reset"}

HeapType ==
    /\ address \in [Keys -> [rho : Buckets, phi : Phases]]
    /\ lists \in Seq([Buckets -> Nat]) /\ dicts \in Seq([Phases -> Nat])
    /\ slots \in Seq([Keys -> Values])
    /\ current \in 1..Len(lists)
    /\ \A l \in 1..Len(lists), r \in Buckets : lists[l][r] <= Len(dicts)
    /\ \A d \in 1..Len(dicts), p \in Phases : dicts[d][p] <= Len(slots)

ThreadType ==
    /\ lock \in Threads \cup {NoOne} /\ nextId \in Nat \ {0} /\ calls \in 0..MaxCalls
    /\ pc \in [Threads -> {"idle", "lock"} \cup Reading \cup Writing]
    /\ call \in [Threads -> {"none", "buscar", "inserir", "remover", "limpar"}]
    /\ key \in [Threads -> Keys] /\ payload \in [Threads -> Payloads]
    /\ ref \in [Threads -> Nat] /\ ent \in [Threads -> Values]
    /\ dict \in [Keys -> Values] /\ since \in [Threads -> SUBSET Values]

\* A thread changes the structure exactly while it holds the lock.
Mutual == \A t \in Threads : pc[t] \in Writing <=> lock = t

\* What the steps of each operation carry along
CarriesAt(t) ==
    /\ pc[t] = "lock" => call[t] \in {"inserir", "remover", "limpar"}
    /\ pc[t] \in Writing => call[t] # "buscar"
    /\ pc[t] \in Reading => call[t] = "buscar" /\ ent[t] = None
    /\ pc[t] = "bucket" => ref[t] \in 1..Len(lists)
    /\ pc[t] = "phase" => ref[t] \in 1..Len(dicts)
    /\ pc[t] = "fingerprint" => ref[t] \in 1..Len(slots)
    /\ pc[t] \in {"setdefault", "count", "store", "uncount", "drop_slot", "drop_bucket"}
          => BucketOf(t) # 0
    /\ pc[t] \in {"count", "store", "uncount", "drop_slot"}
          => ref[t] # 0 /\ ref[t] = dicts[BucketOf(t)][Phi(t)]
    /\ pc[t] = "store" => ent[t] \in Entity
Carries == \A t \in Threads : CarriesAt(t)

HeapInv == HeapType /\ ThreadType /\ Mutual /\ Carries

\* What is found below an object; Found(k) is FromList(current, k).
FromDict(d, k) == IF d = 0 THEN None ELSE EntityIn(dicts[d][address[k].phi], k)
FromList(l, k) == FromDict(lists[l][address[k].rho], k)

\* No object is referred to from two places.
Once(q, X) ==
    \A l, m \in 1..Len(q) : \A r, v \in X : q[l][r] = q[m][v] /\ q[l][r] # 0 => l = m /\ r = v
Distinct == Once(lists, Buckets) /\ Once(dicts, Phases)

\* The lock is held at one of these steps, by a call on a key of this bucket or slot.
EditsBucket(steps, r) == \E t \in Threads : pc[t] \in steps /\ Rho(t) = r
EditsSlot(steps, r, p) == \E t \in Threads : pc[t] \in steps /\ Rho(t) = r /\ Phi(t) = p

\* Empty buckets and slots are in the structure only where they are being made or removed.
HuskAt(r) ==
    LET b == lists[current][r] IN b # 0 =>
        /\ dicts[b] = NoSlot => EditsBucket({"setdefault", "drop_bucket"}, r)
        /\ \A p \in Phases : dicts[b][p] # 0 /\ slots[dicts[b][p]] = NoEntity =>
              EditsSlot({"count", "store", "uncount", "drop_slot"}, r, p)
NoHusk == \A r \in Buckets : HuskAt(r)

Agree == \A k \in Keys : Found(k) = dict[k]

StructInv == HeapInv /\ Agree /\ Distinct /\ NoHusk

\* What a search has returned, or would return if it ran on without interruption, is a value
\* its key has had since the call began.
ReadsAt(t) ==
    /\ pc[t] # "idle" => dict[key[t]] \in since[t]
    /\ pc[t] = "bucket" => FromList(ref[t], key[t]) \in since[t]
    /\ pc[t] = "phase" => FromDict(ref[t], key[t]) \in since[t]
    /\ pc[t] = "fingerprint" => slots[ref[t]][key[t]] \in since[t]
    /\ pc[t] = "idle" /\ call[t] = "buscar" => ent[t] \in since[t]
Reads == \A t \in Threads : ReadsAt(t)

ReadInv == HeapInv /\ Agree /\ Reads

\* Where _size and _next_id are while they and the structure change one after the other
Counts ==
    /\ IsFiniteSet(Live) /\ size \in Nat
    /\ \A j, k \in Live : dict[j].id = dict[k].id => j = k
    /\ Inside # "reset" =>
          /\ \A k \in Live : dict[k].id < nextId
          /\ size = Cardinality(Live)
                    + IF Inside = "uncount" \/ (Inside = "store" /\ key[lock] \notin Live)
                      THEN 1 ELSE 0
    /\ Inside = "reset" => Live = {}
    /\ Inside = "store" => /\ ent[lock].id < nextId
                           /\ \A k \in Live : dict[k].id = ent[lock].id <=> k = key[lock]

CountInv == HeapInv /\ Agree /\ Counts
-----------------------------------------------------------------------------
(* The heap                                                                *)

\* One entry of one of the objects changes.
LEMMA Update ==
  ASSUME NEW X, NEW Y, NEW s \in Seq([X -> Y]), NEW i \in 1..Len(s), NEW x \in X, NEW y \in Y,
         NEW n, n = [s EXCEPT ![i][x] = y]
  PROVE  /\ n \in Seq([X -> Y]) /\ Len(n) = Len(s)
         /\ n[i][x] = y
         /\ \A j \in 1..Len(s) : \A z \in X : j # i \/ z # x => n[j][z] = s[j][z]
<1>1. s \in [1..Len(s) -> [X -> Y]] /\ Len(s) \in Nat
  OBVIOUS
<1>2. n \in [1..Len(s) -> [X -> Y]]
  BY <1>1
<1>3. n \in Seq([X -> Y]) /\ Len(n) = Len(s)
  BY <1>1, <1>2
<1>4. QED
  BY <1>1, <1>3

LEMMA UpdateNat ==
  ASSUME NEW X, NEW s \in Seq([X -> Nat]), NEW i \in 1..Len(s), NEW x \in X, NEW y \in Nat,
         NEW n, n = [s EXCEPT ![i][x] = y]
  PROVE  /\ n \in Seq([X -> Nat]) /\ Len(n) = Len(s) /\ n[i][x] = y
         /\ \A j \in 1..Len(s) : \A z \in X : j # i \/ z # x => n[j][z] = s[j][z]
  BY SMTT(30), Update

LEMMA Entries ==
  ASSUME HeapType
  PROVE  /\ \A l \in 1..Len(lists) : \A r \in Buckets : lists[l][r] \in 0..Len(dicts)
         /\ \A d \in 1..Len(dicts) : \A p \in Phases : dicts[d][p] \in 0..Len(slots)
         /\ \A s \in 1..Len(slots) : \A k \in Keys : slots[s][k] \in Values
<1>1. ASSUME NEW l \in 1..Len(lists), NEW r \in Buckets PROVE lists[l][r] \in 0..Len(dicts)
  BY DEF HeapType
<1>2. ASSUME NEW d \in 1..Len(dicts), NEW p \in Phases PROVE dicts[d][p] \in 0..Len(slots)
  BY DEF HeapType
<1>3. ASSUME NEW s \in 1..Len(slots), NEW k \in Keys PROVE slots[s][k] \in Values
  BY DEF HeapType
<1>4. QED
  BY <1>1, <1>2, <1>3

LEMMA Values0 == None \in Values /\ None \notin Entity /\ NoEntity \in [Keys -> Values]
                 /\ NoSlot \in [Phases -> Nat] /\ NoBucket \in [Buckets -> Nat]
<1>1. \A e \in Entity : e.id # 0
  BY DEF Entity
<1>2. None.id = 0
  BY DEF None
<1>3. None \notin Entity
  BY <1>1, <1>2
<1>4. QED
  BY <1>3 DEF Values, NoEntity, NoSlot, NoBucket

\* Where the thread that holds the lock works
LEMMA Coordinates ==
  ASSUME HeapInv, NEW t \in Threads
  PROVE  /\ key[t] \in Keys /\ Rho(t) \in Buckets /\ Phi(t) \in Phases
         /\ current \in 1..Len(lists) /\ BucketOf(t) \in 0..Len(dicts)
         /\ \A b \in 1..Len(dicts) : dicts[b][Phi(t)] \in 0..Len(slots)
         /\ Len(lists) \in Nat /\ Len(dicts) \in Nat /\ Len(slots) \in Nat
<1>1. key[t] \in Keys /\ Rho(t) \in Buckets /\ Phi(t) \in Phases
  BY DEF HeapInv, HeapType, ThreadType, Rho, Phi
<1>2. Len(lists) \in Nat /\ Len(dicts) \in Nat /\ Len(slots) \in Nat /\ current \in 1..Len(lists)
  BY DEF HeapInv, HeapType
<1>3. lists[current][Rho(t)] \in Nat /\ lists[current][Rho(t)] <= Len(dicts)
  BY <1>1, <1>2 DEF HeapInv, HeapType
<1>4. ASSUME NEW b \in 1..Len(dicts) PROVE dicts[b][Phi(t)] \in 0..Len(slots)
  BY <1>1, <1>2 DEF HeapInv, HeapType
<1>5. QED
  BY <1>1, <1>2, <1>3, <1>4 DEF BucketOf

\* inserir puts an empty bucket into the list.
LEMMA BucketMade ==
  ASSUME HeapInv, NEW t \in Threads, InserirBucket(t), BucketOf(t) = 0
  PROVE  /\ HeapType' /\ Len(lists') = Len(lists) /\ Len(dicts') = Len(dicts) + 1
         /\ dicts'[Len(dicts) + 1] = NoSlot
         /\ \A d \in 1..Len(dicts) : dicts'[d] = dicts[d]
         /\ lists'[current][Rho(t)] = Len(dicts) + 1
         /\ \A l \in 1..Len(lists) : \A r \in Buckets :
               l # current \/ r # Rho(t) => lists'[l][r] = lists[l][r]
<1>0. PICK D \in Nat : D = Len(dicts)
  BY Coordinates
<1>1. /\ HeapType /\ lists \in Seq([Buckets -> Nat]) /\ dicts \in Seq([Phases -> Nat])
      /\ UNCHANGED <<address, current, slots>>
  BY DEF HeapInv, HeapType, InserirBucket
<1>2. /\ dicts' \in Seq([Phases -> Nat]) /\ Len(dicts') = D + 1 /\ dicts'[D + 1] = NoSlot
      /\ \A d \in 1..D : dicts'[d] = dicts[d]
  <2>1. dicts' = Append(dicts, NoSlot)
    BY DEF InserirBucket
  <2>2. QED
    BY <1>0, <1>1, <2>1, Values0, AppendProperties
<1>3. /\ lists' \in Seq([Buckets -> Nat]) /\ Len(lists') = Len(lists)
      /\ lists'[current][Rho(t)] = D + 1
      /\ \A l \in 1..Len(lists) : \A r \in Buckets :
            l # current \/ r # Rho(t) => lists'[l][r] = lists[l][r]
  <2>1. PICK E \in Nat : E = D + 1
    OBVIOUS
  <2>2. lists' = [lists EXCEPT ![current][Rho(t)] = E]
    BY <1>2, <2>1 DEF InserirBucket
  <2>3. current \in 1..Len(lists) /\ Rho(t) \in Buckets /\ E \in Nat
    BY Coordinates
  <2>4. /\ lists' \in Seq([Buckets -> Nat]) /\ Len(lists') = Len(lists)
        /\ lists'[current][Rho(t)] = E
        /\ \A l \in 1..Len(lists) : \A r \in Buckets :
              l # current \/ r # Rho(t) => lists'[l][r] = lists[l][r]
    BY SMTT(30), <1>1, <2>2, <2>3, UpdateNat
  <2>5. QED
    BY <2>1, <2>4
<1>4. \A l \in 1..Len(lists') : \A r \in Buckets : lists'[l][r] <= Len(dicts')
  <2> SUFFICES ASSUME NEW l \in 1..Len(lists), NEW r \in Buckets PROVE lists'[l][r] <= D + 1
    BY <1>2, <1>3
  <2>1. lists[l][r] \in 0..D
    BY <1>0, <1>1, Entries
  <2>2. CASE l = current /\ r = Rho(t)
    BY <1>3, <2>2
  <2>3. CASE ~(l = current /\ r = Rho(t))
    BY <1>3, <2>1, <2>3
  <2>4. QED
    BY <2>2, <2>3
<1>5. \A d \in 1..Len(dicts') : \A p \in Phases : dicts'[d][p] <= Len(slots')
  <2>1. \A p \in Phases : NoSlot[p] = 0
    BY DEF NoSlot
  <2> SUFFICES ASSUME NEW d \in 1..(D + 1), NEW p \in Phases PROVE dicts'[d][p] <= Len(slots)
    BY <1>1, <1>2
  <2>2. CASE d = D + 1
    BY <1>2, <2>1, <2>2, Coordinates
  <2>3. CASE d \in 1..D
    <3>1. dicts[d][p] \in 0..Len(slots) /\ dicts'[d] = dicts[d]
      BY <1>0, <1>1, <1>2, <2>3, Entries
    <3>2. QED
      BY <3>1, Coordinates
  <2>4. QED
    BY <2>2, <2>3
<1>6. QED
  BY <1>0, <1>1, <1>2, <1>3, <1>4, <1>5 DEF HeapType

\* inserir puts an empty slot into the bucket.
LEMMA SlotMade ==
  ASSUME HeapInv, NEW t \in Threads, InserirPhase(t), BucketOf(t) # 0,
         dicts[BucketOf(t)][Phi(t)] = 0
  PROVE  /\ HeapType' /\ Len(dicts') = Len(dicts) /\ Len(slots') = Len(slots) + 1
         /\ slots'[Len(slots) + 1] = NoEntity /\ ref' = [ref EXCEPT ![t] = Len(slots) + 1]
         /\ \A s \in 1..Len(slots) : slots'[s] = slots[s]
         /\ dicts'[BucketOf(t)][Phi(t)] = Len(slots) + 1
         /\ \A d \in 1..Len(dicts) : \A p \in Phases :
               d # BucketOf(t) \/ p # Phi(t) => dicts'[d][p] = dicts[d][p]
<1>0. PICK S \in Nat : S = Len(slots)
  BY Coordinates
<1>1. /\ HeapType /\ slots \in Seq([Keys -> Values]) /\ dicts \in Seq([Phases -> Nat])
      /\ UNCHANGED <<address, current, lists>>
  BY DEF HeapInv, HeapType, InserirPhase
<1>2. /\ slots' \in Seq([Keys -> Values]) /\ Len(slots') = S + 1 /\ slots'[S + 1] = NoEntity
      /\ \A s \in 1..S : slots'[s] = slots[s]
  <2>1. slots' = Append(slots, NoEntity)
    BY DEF InserirPhase, SlotIn
  <2>2. QED
    BY <1>0, <1>1, <2>1, Values0, AppendProperties
<1>3. /\ dicts' \in Seq([Phases -> Nat]) /\ Len(dicts') = Len(dicts)
      /\ dicts'[BucketOf(t)][Phi(t)] = S + 1
      /\ \A d \in 1..Len(dicts) : \A p \in Phases :
            d # BucketOf(t) \/ p # Phi(t) => dicts'[d][p] = dicts[d][p]
  <2>1. PICK E \in Nat : E = S + 1
    OBVIOUS
  <2>2. dicts' = [dicts EXCEPT ![BucketOf(t)][Phi(t)] = E]
    BY <1>2, <2>1 DEF InserirPhase, SlotIn
  <2>3. BucketOf(t) \in 1..Len(dicts) /\ Phi(t) \in Phases /\ E \in Nat
    BY Coordinates
  <2>4. /\ dicts' \in Seq([Phases -> Nat]) /\ Len(dicts') = Len(dicts)
        /\ dicts'[BucketOf(t)][Phi(t)] = E
        /\ \A d \in 1..Len(dicts) : \A p \in Phases :
              d # BucketOf(t) \/ p # Phi(t) => dicts'[d][p] = dicts[d][p]
    BY SMTT(30), <1>1, <2>2, <2>3, UpdateNat
  <2>5. QED
    BY <2>1, <2>4
<1>4. ref' = [ref EXCEPT ![t] = S + 1]
  BY <1>2 DEF InserirPhase, SlotIn, Hold
<1>5. \A d \in 1..Len(dicts') : \A p \in Phases : dicts'[d][p] <= Len(slots')
  <2> SUFFICES ASSUME NEW d \in 1..Len(dicts), NEW p \in Phases PROVE dicts'[d][p] <= S + 1
    BY <1>2, <1>3
  <2>1. dicts[d][p] \in 0..S
    BY <1>0, <1>1, Entries
  <2>2. CASE d = BucketOf(t) /\ p = Phi(t)
    BY <1>3, <2>2
  <2>3. CASE ~(d = BucketOf(t) /\ p = Phi(t))
    BY <1>3, <2>1, <2>3
  <2>4. QED
    BY <2>2, <2>3
<1>6. QED
  BY <1>0, <1>1, <1>2, <1>3, <1>4, <1>5 DEF HeapType

\* inserir and remover change one entity of one slot.
LEMMA EntityChanged ==
  ASSUME HeapInv, NEW t \in Threads, NEW s \in 1..Len(slots), NEW e \in Values,
         slots' = [slots EXCEPT ![s][key[t]] = e], UNCHANGED <<address, current, lists, dicts>>
  PROVE  /\ HeapType' /\ Len(slots') = Len(slots)
         /\ slots'[s][key[t]] = e
         /\ \A i \in 1..Len(slots) : \A k \in Keys :
               i # s \/ k # key[t] => slots'[i][k] = slots[i][k]
<1>1. HeapType /\ slots \in Seq([Keys -> Values])
  BY DEF HeapInv, HeapType
<1>2. /\ slots' \in Seq([Keys -> Values]) /\ Len(slots') = Len(slots)
      /\ slots'[s][key[t]] = e
      /\ \A i \in 1..Len(slots) : \A k \in Keys :
            i # s \/ k # key[t] => slots'[i][k] = slots[i][k]
  <2>1. key[t] \in Keys
    BY Coordinates
  <2>2. QED
    BY SMTT(30), <1>1, <2>1, Update
<1>3. QED
  BY <1>1, <1>2 DEF HeapType

\* remover takes a slot out of its bucket, and a bucket out of the list.
LEMMA SlotDropped ==
  ASSUME HeapInv, NEW t \in Threads, BucketOf(t) # 0,
         dicts' = [dicts EXCEPT ![BucketOf(t)][Phi(t)] = 0],
         UNCHANGED <<address, current, lists, slots>>
  PROVE  /\ HeapType' /\ Len(dicts') = Len(dicts)
         /\ dicts'[BucketOf(t)][Phi(t)] = 0
         /\ \A d \in 1..Len(dicts) : \A p \in Phases :
               d # BucketOf(t) \/ p # Phi(t) => dicts'[d][p] = dicts[d][p]
<1>1. HeapType /\ dicts \in Seq([Phases -> Nat]) /\ BucketOf(t) \in 1..Len(dicts)
  BY Coordinates DEF HeapInv, HeapType
<1>2. /\ dicts' \in Seq([Phases -> Nat]) /\ Len(dicts') = Len(dicts)
      /\ dicts'[BucketOf(t)][Phi(t)] = 0
      /\ \A d \in 1..Len(dicts) : \A p \in Phases :
            d # BucketOf(t) \/ p # Phi(t) => dicts'[d][p] = dicts[d][p]
  <2>1. Phi(t) \in Phases /\ 0 \in Nat
    BY Coordinates
  <2>2. QED
    BY <1>1, <2>1, Update
<1>3. \A d \in 1..Len(dicts') : \A p \in Phases : dicts'[d][p] <= Len(slots')
  BY <1>1, <1>2, Coordinates, Entries
<1>4. QED
  BY <1>1, <1>2, <1>3 DEF HeapType

LEMMA BucketDropped ==
  ASSUME HeapInv, NEW t \in Threads,
         lists' = [lists EXCEPT ![current][Rho(t)] = 0],
         UNCHANGED <<address, current, dicts, slots>>
  PROVE  /\ HeapType' /\ Len(lists') = Len(lists)
         /\ lists'[current][Rho(t)] = 0
         /\ \A l \in 1..Len(lists) : \A r \in Buckets :
               l # current \/ r # Rho(t) => lists'[l][r] = lists[l][r]
<1>1. HeapType /\ lists \in Seq([Buckets -> Nat])
  BY DEF HeapInv, HeapType
<1>2. /\ lists' \in Seq([Buckets -> Nat]) /\ Len(lists') = Len(lists)
      /\ lists'[current][Rho(t)] = 0
      /\ \A l \in 1..Len(lists) : \A r \in Buckets :
            l # current \/ r # Rho(t) => lists'[l][r] = lists[l][r]
  <2>1. current \in 1..Len(lists) /\ Rho(t) \in Buckets /\ 0 \in Nat
    BY Coordinates
  <2>2. QED
    BY <1>1, <2>1, Update
<1>3. \A l \in 1..Len(lists') : \A r \in Buckets : lists'[l][r] <= Len(dicts')
  BY <1>1, <1>2, Coordinates, Entries
<1>4. QED
  BY <1>1, <1>2, <1>3 DEF HeapType

\* limpar starts a new list.
LEMMA ListMade ==
  ASSUME HeapInv, NEW t \in Threads, LimparList(t)
  PROVE  /\ HeapType' /\ Len(lists') = Len(lists) + 1 /\ current' = Len(lists) + 1
         /\ lists'[Len(lists) + 1] = NoBucket
         /\ \A l \in 1..Len(lists) : lists'[l] = lists[l]
<1>0. PICK L \in Nat : L = Len(lists)
  BY Coordinates
<1>1. /\ HeapType /\ lists \in Seq([Buckets -> Nat]) /\ UNCHANGED <<address, dicts, slots>>
  BY DEF HeapInv, HeapType, LimparList
<1>2. /\ lists' \in Seq([Buckets -> Nat]) /\ Len(lists') = L + 1 /\ lists'[L + 1] = NoBucket
      /\ \A l \in 1..L : lists'[l] = lists[l]
  <2>1. lists' = Append(lists, NoBucket)
    BY DEF LimparList
  <2>2. QED
    BY <1>0, <1>1, <2>1, Values0, AppendProperties
<1>3. current' = L + 1
  BY <1>2 DEF LimparList
<1>4. \A r \in Buckets : NoBucket[r] = 0
  BY DEF NoBucket
<1>5. \A l \in 1..Len(lists') : \A r \in Buckets : lists'[l][r] <= Len(dicts')
  <2> SUFFICES ASSUME NEW l \in 1..(L + 1), NEW r \in Buckets PROVE lists'[l][r] <= Len(dicts)
    BY <1>1, <1>2
  <2>1. CASE l = L + 1
    BY <1>2, <1>4, <2>1, Coordinates
  <2>2. CASE l \in 1..L
    <3>1. lists[l][r] \in 0..Len(dicts) /\ lists'[l] = lists[l]
      BY <1>0, <1>1, <1>2, <2>2, Entries
    <3>2. QED
      BY <3>1, Coordinates
  <2>3. QED
    BY <2>1, <2>2
<1>6. QED
  BY <1>0, <1>1, <1>2, <1>3, <1>5 DEF HeapType
-----------------------------------------------------------------------------
(* Types, the lock and what each call carries along                        *)

\* A step of t leaves what other threads carry: the objects stay, and while t writes no
\* other thread does.
LEMMA StepOf ==
  ASSUME HeapInv, NEW t \in Threads, HeapType', ThreadType', Mutual', address' = address,
         \A u \in Threads \ {t} : /\ pc'[u] = pc[u] /\ call'[u] = call[u] /\ key'[u] = key[u]
                                   /\ ref'[u] = ref[u] /\ ent'[u] = ent[u],
         \/ UNCHANGED heap
         \/ /\ pc[t] \in Writing /\ Len(lists') >= Len(lists)
            /\ Len(dicts') >= Len(dicts) /\ Len(slots') >= Len(slots),
         CarriesAt(t)'
  PROVE  HeapInv'
<1>1. Len(lists) \in Nat /\ Len(dicts) \in Nat /\ Len(slots) \in Nat
      /\ Len(lists') \in Nat /\ Len(dicts') \in Nat /\ Len(slots') \in Nat
  BY LenProperties DEF HeapInv, HeapType
<1>2. ASSUME NEW u \in Threads \ {t} PROVE CarriesAt(u)'
  <2>1. CarriesAt(u)
    BY DEF HeapInv, Carries
  <2>2. CASE UNCHANGED heap
    BY <2>1, <2>2 DEF CarriesAt, BucketOf, Rho, Phi, heap
  <2>3. CASE pc[t] \in Writing /\ Len(lists') >= Len(lists)
             /\ Len(dicts') >= Len(dicts) /\ Len(slots') >= Len(slots)
    <3>1. pc[u] \notin Writing
      BY <2>3 DEF HeapInv, Mutual
    <3>2. QED
      BY <1>1, <2>1, <2>3, <3>1 DEF CarriesAt, Writing, HeapInv, ThreadType
  <2>4. QED
    BY <2>2, <2>3
<1>3. QED
  BY <1>2 DEF HeapInv, Carries

LEMMA BecomesType ==
  ASSUME HeapInv, NEW m \in [Keys -> Values], Becomes(m)
  PROVE  dict' \in [Keys -> Values] /\ since' \in [Threads -> SUBSET Values]
  BY DEF Becomes, HeapInv, ThreadType

LEMMA EntityChangedStep ==
  ASSUME HeapInv, NEW t \in Threads, pc[t] \in Writing, HeapType', ThreadType', Mutual',
         UNCHANGED <<address, current, lists, dicts, call, key, ent>>,
         Len(slots') = Len(slots), \A u \in Threads \ {t} : pc'[u] = pc[u] /\ ref'[u] = ref[u],
         CarriesAt(t)'
  PROVE  HeapInv'
<1>1. Len(lists) \in Nat /\ Len(dicts) \in Nat /\ Len(slots) \in Nat
  BY Coordinates
<1>2. QED
  BY <1>1, StepOf

LEMMA HeapInit == Init => HeapInv
<1> SUFFICES ASSUME Init PROVE HeapInv
  OBVIOUS
<1>1. HeapType
  <2>1. lists \in Seq([Buckets -> Nat]) /\ Len(lists) = 1 /\ lists[1] = NoBucket
    BY Values0 DEF Init
  <2>2. \A r \in Buckets : NoBucket[r] = 0
    BY DEF NoBucket
  <2>3. dicts = <<>> /\ slots = <<>> /\ Len(dicts) = 0 /\ Len(slots) = 0
    BY DEF Init
  <2>4. QED
    BY <2>1, <2>2, <2>3 DEF Init, HeapType
<1>2. ThreadType
  <2>1. (CHOOSE k \in Keys : TRUE) \in Keys /\ (CHOOSE p \in Payloads : TRUE) \in Payloads
    BY BancoAssumption
  <2>2. key \in [Threads -> Keys] /\ payload \in [Threads -> Payloads]
    BY <2>1 DEF Init
  <2>3. QED
    BY <2>2, Values0, BancoAssumption DEF Init, ThreadType
<1>3. Mutual /\ Carries
  BY BancoAssumption DEF Init, Mutual, Carries, CarriesAt, Writing, Reading
<1>4. QED
  BY <1>1, <1>2, <1>3 DEF HeapInv

LEMMA HeapStep == HeapInv /\ [Next]_vars => HeapInv'
<1> SUFFICES ASSUME HeapInv, [Next]_vars PROVE HeapInv'
  OBVIOUS
<1> USE BancoAssumption
<1>0. HeapType /\ ThreadType /\ Mutual /\ \A t \in Threads : CarriesAt(t)
  BY DEF HeapInv, Carries
<1>1. ASSUME NEW t \in Threads, NEW c \in {"buscar", "inserir", "remover", "limpar"},
             NEW k \in Keys, NEW p \in Payloads, Begin(t, c, k, p)
      PROVE  HeapInv'
  <2>1. ThreadType'
    BY <1>0, <1>1, Values0 DEF Begin, Goto, Hold, ThreadType, Reading, Values
  <2>2. HeapType'
    BY <1>0, <1>1 DEF Begin, heap, HeapType
  <2>3. Mutual' /\ CarriesAt(t)'
    BY <1>0, <1>1 DEF Begin, Goto, Mutual, CarriesAt, Writing, Reading, ThreadType
  <2>4. QED
    BY <1>0, <1>1, <2>1, <2>2, <2>3, StepOf DEF Begin, Goto, Hold, ThreadType
<1>2. ASSUME NEW t \in Threads, Acquire(t) PROVE HeapInv'
  <2>1. pc[t] = "lock" /\ call[t] \in {"inserir", "remover", "limpar"} /\ lock = NoOne
    BY <1>0, <1>2 DEF Acquire, CarriesAt
  <2>2. ThreadType'
    BY <1>0, <1>2, <2>1 DEF Acquire, Goto, ThreadType, Writing
  <2>3. HeapType'
    BY <1>0, <1>2 DEF Acquire, heap, HeapType
  <2>4. Mutual' /\ CarriesAt(t)'
    BY <1>0, <1>2, <2>1 DEF Acquire, Goto, Mutual, CarriesAt, Writing, Reading, ThreadType
  <2>5. QED
    BY <1>0, <1>2, <2>2, <2>3, <2>4, StepOf DEF Acquire, Goto, ThreadType
<1>3. ASSUME NEW t \in Threads, BuscarList(t) PROVE HeapInv'
  <2>1. ThreadType'
    BY SMTT(30), <1>0, <1>3 DEF BuscarList, Goto, Hold, ThreadType, Reading, HeapType
  <2>2. HeapType'
    BY <1>0, <1>3 DEF BuscarList, heap, HeapType
  <2>3. Mutual' /\ CarriesAt(t)'
    BY <1>0, <1>3 DEF BuscarList, Goto, Hold, Mutual, CarriesAt, Writing, Reading, ThreadType,
       heap, HeapType
  <2>4. QED
    BY <1>0, <1>3, <2>1, <2>2, <2>3, StepOf DEF BuscarList, Goto, Hold, ThreadType
<1>4. ASSUME NEW t \in Threads, NEW obj \in Nat, NEW step \in {"phase", "fingerprint"},
             pc[t] \in Reading, Descend(t, obj, step),
             step = "phase" => obj <= Len(dicts), step = "fingerprint" => obj <= Len(slots)
      PROVE  HeapInv'
  <2>1. ThreadType'
    BY <1>0, <1>4 DEF Descend, Goto, Hold, ThreadType, Reading
  <2>2. HeapType'
    BY <1>0, <1>4 DEF Descend, heap, HeapType
  <2>3. Mutual'
    BY <1>0, <1>4 DEF Descend, Goto, Mutual, Writing, Reading, ThreadType
  <2>4. CarriesAt(t)'
    <3>1. /\ pc'[t] = IF obj = 0 THEN "idle" ELSE step
          /\ ref'[t] = obj /\ call'[t] = call[t] /\ ent'[t] = ent[t] /\ UNCHANGED heap
      BY <1>0, <1>4 DEF Descend, Goto, Hold, ThreadType
    <3>2. call[t] = "buscar" /\ ent[t] = None
      BY <1>0, <1>4 DEF CarriesAt
    <3>3. QED
      BY <1>0, <1>4, <3>1, <3>2 DEF CarriesAt, Writing, Reading, heap
  <2>5. QED
    BY <1>0, <1>4, <2>1, <2>2, <2>3, <2>4, StepOf DEF Descend, Goto, Hold, ThreadType
<1>5. ASSUME NEW t \in Threads, BuscarBucket(t) PROVE HeapInv'
  <2>1. ref[t] \in 1..Len(lists) /\ pc[t] = "bucket" /\ Rho(t) \in Buckets
    BY <1>0, <1>5, Coordinates DEF BuscarBucket, CarriesAt
  <2>2. PICK b \in Nat : b = lists[ref[t]][Rho(t)] /\ b <= Len(dicts)
    BY <1>0, <2>1, Entries, Coordinates
  <2>3. QED
    BY <1>4, <1>5, <2>1, <2>2 DEF BuscarBucket, Reading
<1>6. ASSUME NEW t \in Threads, BuscarPhase(t) PROVE HeapInv'
  <2>1. ref[t] \in 1..Len(dicts) /\ pc[t] = "phase" /\ Phi(t) \in Phases
    BY <1>0, <1>6, Coordinates DEF BuscarPhase, CarriesAt
  <2>2. PICK b \in Nat : b = dicts[ref[t]][Phi(t)] /\ b <= Len(slots)
    BY <1>0, <2>1, Entries, Coordinates
  <2>3. QED
    BY <1>4, <1>6, <2>1, <2>2 DEF BuscarPhase, Reading
<1>7. ASSUME NEW t \in Threads, BuscarEntity(t) PROVE HeapInv'
  <2>1. ref[t] \in 1..Len(slots) /\ pc[t] = "fingerprint" /\ key[t] \in Keys
    BY <1>0, <1>7, Coordinates DEF BuscarEntity, CarriesAt
  <2>2. slots[ref[t]][key[t]] \in Values
    BY <1>0, <2>1, Entries
  <2>3. ThreadType'
    BY <1>0, <1>7, <2>2 DEF BuscarEntity, Goto, ThreadType
  <2>4. HeapType'
    BY <1>0, <1>7 DEF BuscarEntity, heap, HeapType
  <2>5. Mutual' /\ CarriesAt(t)'
    BY <1>0, <1>7 DEF BuscarEntity, Goto, Mutual, CarriesAt, Writing, Reading, ThreadType
  <2>6. QED
    BY <1>0, <1>7, <2>3, <2>4, <2>5, StepOf DEF BuscarEntity, Goto, ThreadType
<1>8. ASSUME NEW t \in Threads, InserirBucket(t) PROVE HeapInv'
  <2>1. pc[t] = "inserir" /\ lock = t
    BY <1>8 DEF InserirBucket, Holds
  <2>2. ThreadType' /\ Mutual'
    BY <1>0, <1>8, <2>1 DEF InserirBucket, Goto, ThreadType, Mutual, Writing
  <2>3. pc'[t] = "setdefault" /\ UNCHANGED <<address, current, call, key, ref, ent>>
        /\ \A u \in Threads \ {t} : pc'[u] = pc[u]
    BY <1>0, <1>8 DEF InserirBucket, Goto, ThreadType
  <2>4. HeapType' /\ BucketOf(t)' # 0 /\ Len(lists') >= Len(lists)
        /\ Len(dicts') >= Len(dicts) /\ Len(slots') >= Len(slots)
    <3>1. CASE BucketOf(t) # 0
      <4>1. UNCHANGED <<lists, dicts, slots>>
        BY <1>8, <3>1 DEF InserirBucket
      <4>2. QED
        BY <1>0, <2>3, <3>1, <4>1, Coordinates DEF HeapType, BucketOf, Rho
    <3>2. CASE BucketOf(t) = 0
      <4>1. /\ HeapType' /\ Len(lists') = Len(lists) /\ Len(dicts') = Len(dicts) + 1
            /\ lists'[current][Rho(t)] = Len(dicts) + 1 /\ slots' = slots
        BY <1>8, <3>2, BucketMade DEF InserirBucket
      <4>2. QED
        BY <2>3, <4>1, Coordinates DEF BucketOf, Rho
    <3>3. QED
      BY <3>1, <3>2
  <2>5. CarriesAt(t)'
    BY <1>0, <2>1, <2>3, <2>4 DEF CarriesAt, Writing, Reading
  <2>6. QED
    BY <2>1, <2>2, <2>3, <2>4, <2>5, StepOf DEF Writing
<1>9. ASSUME NEW t \in Threads, InserirPhase(t) PROVE HeapInv'
  <2>1. pc[t] = "setdefault" /\ lock = t /\ BucketOf(t) # 0
    BY <1>0, <1>9 DEF InserirPhase, Holds, CarriesAt
  <2>2. BucketOf(t) \in 1..Len(dicts)
    BY <2>1, Coordinates
  <2>3. pc' = [pc EXCEPT ![t] = "count"]
        /\ UNCHANGED <<address, current, lists, nextId, lock, call, key, payload, ent, dict,
                       since, calls>>
    BY <1>9 DEF InserirPhase, Goto
  <2>4. /\ HeapType' /\ ref' \in [Threads -> Nat] /\ ref'[t] # 0
        /\ ref'[t] = dicts'[BucketOf(t)][Phi(t)]
        /\ \A u \in Threads \ {t} : ref'[u] = ref[u]
        /\ Len(dicts') >= Len(dicts) /\ Len(slots') >= Len(slots)
    <3>1. CASE dicts[BucketOf(t)][Phi(t)] # 0
      <4>1. UNCHANGED <<dicts, slots>> /\ ref' = [ref EXCEPT ![t] = dicts[BucketOf(t)][Phi(t)]]
        BY <1>9, <2>1, <3>1 DEF InserirPhase, SlotIn, Hold
      <4>2. dicts[BucketOf(t)][Phi(t)] \in Nat
        BY <2>2, Coordinates
      <4>3. QED
        <5>1. HeapType'
          BY <1>0, <2>3, <4>1 DEF HeapType
        <5>2. Len(dicts') >= Len(dicts) /\ Len(slots') >= Len(slots)
          BY <4>1, Coordinates
        <5>3. ref \in [Threads -> Nat]
          BY <1>0 DEF ThreadType
        <5>4. QED
          BY <3>1, <4>1, <4>2, <5>1, <5>2, <5>3
    <3>2. CASE dicts[BucketOf(t)][Phi(t)] = 0
      <4>1. /\ HeapType' /\ Len(dicts') = Len(dicts) /\ Len(slots') = Len(slots) + 1
            /\ ref' = [ref EXCEPT ![t] = Len(slots) + 1]
            /\ dicts'[BucketOf(t)][Phi(t)] = Len(slots) + 1
        BY <1>9, <2>1, <3>2, SlotMade
      <4>2. QED
        BY <1>0, <4>1, Coordinates DEF ThreadType
    <3>3. QED
      BY <3>1, <3>2
  <2>5. ThreadType' /\ Mutual'
    BY <1>0, <2>1, <2>3, <2>4 DEF ThreadType, Mutual, Writing
  <2>6. BucketOf(t)' = BucketOf(t) /\ Phi(t)' = Phi(t) /\ pc'[t] = "count"
    BY <1>0, <2>3 DEF BucketOf, Rho, Phi, ThreadType
  <2>7. CarriesAt(t)'
    BY <1>0, <2>1, <2>3, <2>4, <2>6 DEF CarriesAt, Writing, Reading
  <2>8. QED
    <3>1. Len(lists') >= Len(lists) /\ pc[t] \in Writing
      BY <2>1, <2>3, Coordinates DEF Writing
    <3>2. \A u \in Threads \ {t} : pc'[u] = pc[u]
      BY <1>0, <2>3 DEF ThreadType
    <3>3. QED
      BY <2>3, <2>4, <2>5, <2>7, <3>1, <3>2, StepOf
<1>10. ASSUME NEW t \in Threads, InserirCount(t) PROVE HeapInv'
  <2>1. pc[t] = "count" /\ lock = t
    BY <1>10 DEF InserirCount, Holds
  <2>2. ref[t] \in 1..Len(slots) /\ key[t] \in Keys
    BY <1>0, <2>1, Coordinates DEF CarriesAt
  <2>3. slots[ref[t]][key[t]] \in Values
    BY <1>0, <2>2, Entries
  <2> DEFINE n == Numbered(slots[ref[t]][key[t]])
  <2>4. n.id \in Nat \ {0} /\ n.next \in Nat \ {0}
    BY <1>0, <2>3 DEF Numbered, ThreadType, Values, Entity
  <2>5. /\ nextId' = n.next /\ ent' = [ent EXCEPT ![t] = [id |-> n.id, payload |-> payload[t]]]
        /\ pc' = [pc EXCEPT ![t] = "store"]
        /\ UNCHANGED <<address, heap, lock, call, key, payload, ref, dict, since, calls>>
    BY <1>10 DEF InserirCount, Goto
  <2> HIDE DEF n
  <2>6. [id |-> n.id, payload |-> payload[t]] \in Entity
    BY <1>0, <2>4 DEF Entity, ThreadType
  <2>7. ThreadType' /\ Mutual'
    BY <1>0, <2>1, <2>4, <2>5, <2>6 DEF ThreadType, Mutual, Writing, Values
  <2>8. HeapType'
    BY <1>0, <2>5 DEF HeapType, heap
  <2>9. CarriesAt(t)'
    BY <1>0, <2>1, <2>5, <2>6 DEF CarriesAt, Writing, Reading, BucketOf, Rho, Phi, heap, ThreadType
  <2>10. QED
    BY <1>0, <2>1, <2>5, <2>7, <2>8, <2>9, StepOf DEF ThreadType
<1>11. ASSUME NEW t \in Threads, InserirStore(t) PROVE HeapInv'
  <2>1. pc[t] = "store" /\ lock = t /\ ent[t] \in Entity
    BY <1>0, <1>11 DEF InserirStore, Holds, CarriesAt
  <2>2. ref[t] \in 1..Len(slots) /\ key[t] \in Keys
    BY <1>0, <2>1, Coordinates DEF CarriesAt
  <2>3. HeapType' /\ Len(slots') = Len(slots)
    BY <1>11, <2>1, <2>2, EntityChanged DEF InserirStore, Values
  <2>4. dict' \in [Keys -> Values] /\ since' \in [Threads -> SUBSET Values]
    <3>1. [dict EXCEPT ![key[t]] = ent[t]] \in [Keys -> Values]
      BY <1>0, <2>1 DEF ThreadType, Values
    <3>2. QED
      BY <1>11, <3>1, BecomesType DEF InserirStore
  <2>5. lock' = NoOne /\ pc' = [pc EXCEPT ![t] = "idle"]
        /\ UNCHANGED <<address, current, lists, dicts, nextId, call, key, payload, ref, ent, calls>>
    BY <1>11 DEF InserirStore, Return, Goto
  <2>6. ThreadType' /\ Mutual' /\ CarriesAt(t)'
    BY <1>0, <2>1, <2>4, <2>5 DEF ThreadType, Mutual, CarriesAt, Writing, Reading
  <2>7. QED
    BY <1>0, <2>1, <2>3, <2>5, <2>6, EntityChangedStep DEF Writing, ThreadType
<1>12. ASSUME NEW t \in Threads, RemoverAbsent(t) \/ LimparReset(t) PROVE HeapInv'
  <2>1. pc[t] \in Writing /\ lock = t /\ lock' = NoOne /\ pc' = [pc EXCEPT ![t] = "idle"]
        /\ nextId' \in {nextId, 1}
        /\ UNCHANGED <<address, heap, call, key, payload, ref, ent, dict, since, calls>>
    BY <1>12 DEF RemoverAbsent, LimparReset, Holds, Return, Goto, Writing
  <2>2. ThreadType' /\ Mutual' /\ CarriesAt(t)'
    BY <1>0, <2>1 DEF ThreadType, Mutual, CarriesAt, Writing, Reading
  <2>3. HeapType'
    BY <1>0, <2>1 DEF HeapType, heap
  <2>4. QED
    BY <1>0, <2>1, <2>2, <2>3, StepOf DEF ThreadType
<1>13. ASSUME NEW t \in Threads, RemoverEntity(t) PROVE HeapInv'
  <2> DEFINE s == SlotIn(BucketOf(t), t)
  <2>1. pc[t] = "remover" /\ lock = t /\ EntityIn(s, key[t]) # None
    BY <1>13 DEF RemoverEntity, Holds
  <2>2. BucketOf(t) \in 1..Len(dicts) /\ s = dicts[BucketOf(t)][Phi(t)]
    BY <2>1, Coordinates DEF SlotIn, EntityIn
  <2>3. s \in 1..Len(slots)
    BY <2>1, <2>2, Coordinates DEF EntityIn
  <2>4. /\ slots' = [slots EXCEPT ![s][key[t]] = None] /\ ref' = [ref EXCEPT ![t] = s]
        /\ pc' = [pc EXCEPT ![t] = "uncount"] /\ Becomes([dict EXCEPT ![key[t]] = None])
        /\ UNCHANGED <<address, current, lists, dicts, nextId, lock, call, key, payload, ent, calls>>
    BY <1>13 DEF RemoverEntity, Hold, Goto
  <2> HIDE DEF s
  <2>5. HeapType' /\ Len(slots') = Len(slots)
    BY <2>3, <2>4, EntityChanged, Values0
  <2>6. dict' \in [Keys -> Values] /\ since' \in [Threads -> SUBSET Values]
    <3>1. [dict EXCEPT ![key[t]] = None] \in [Keys -> Values]
      BY <1>0, Values0 DEF ThreadType
    <3>2. QED
      BY <2>4, <3>1, BecomesType
  <2>7. ThreadType' /\ Mutual'
    <3>1. s \in Nat
      BY <2>3
    <3>2. ThreadType'
      BY <1>0, <2>4, <2>6, <3>1 DEF ThreadType, Writing
    <3>3. Mutual'
      BY <1>0, <2>1, <2>4 DEF ThreadType, Mutual, Writing
    <3>4. QED
      BY <3>2, <3>3
  <2>8. CarriesAt(t)'
    <3>1. pc'[t] = "uncount" /\ ref'[t] = s /\ s # 0 /\ BucketOf(t) # 0
      BY <1>0, <2>2, <2>3, <2>4 DEF ThreadType
    <3>2. BucketOf(t)' = BucketOf(t) /\ dicts'[BucketOf(t)'][Phi(t)'] = s
      BY <2>2, <2>4 DEF BucketOf, Rho, Phi
    <3>3. QED
      BY <1>0, <2>1, <2>4, <3>1, <3>2 DEF CarriesAt, Writing, Reading
  <2>9. QED
    BY <1>0, <2>1, <2>4, <2>5, <2>7, <2>8, EntityChangedStep DEF Writing, ThreadType
<1>14. ASSUME NEW t \in Threads, RemoverCount(t) PROVE HeapInv'
  <2>1. pc[t] = "uncount" /\ lock = t /\ pc' = [pc EXCEPT ![t] = "drop_slot"]
        /\ UNCHANGED <<address, heap, nextId, lock, call, key, payload, ref, ent, dict, since, calls>>
    BY <1>14 DEF RemoverCount, Holds, Goto
  <2>2. ThreadType' /\ Mutual'
    BY <1>0, <2>1 DEF ThreadType, Mutual, Writing
  <2>3. CarriesAt(t)'
    BY <1>0, <2>1 DEF CarriesAt, Writing, Reading, BucketOf, Rho, Phi, heap, ThreadType
  <2>4. HeapType'
    BY <1>0, <2>1 DEF HeapType, heap
  <2>5. QED
    BY <1>0, <2>1, <2>2, <2>3, <2>4, StepOf DEF ThreadType
<1>15. ASSUME NEW t \in Threads, RemoverPhase(t) PROVE HeapInv'
  <2>1. pc[t] = "drop_slot" /\ lock = t /\ pc' = [pc EXCEPT ![t] = "drop_bucket"]
        /\ UNCHANGED <<address, current, lists, slots, nextId, lock, call, key, payload, ref,
                       ent, dict, since, calls>>
    BY <1>15 DEF RemoverPhase, Holds, Goto
  <2>2. BucketOf(t) # 0
    BY <1>0, <2>1 DEF CarriesAt
  <2>3. HeapType' /\ Len(dicts') = Len(dicts)
    <3>1. CASE DropsSlot(ref[t])
      BY <1>15, <2>1, <2>2, <3>1, SlotDropped DEF RemoverPhase
    <3>2. CASE ~DropsSlot(ref[t])
      BY <1>0, <1>15, <2>1, <3>2 DEF RemoverPhase, HeapType
    <3>3. QED
      BY <3>1, <3>2
  <2>4. ThreadType' /\ Mutual'
    BY <1>0, <2>1 DEF ThreadType, Mutual, Writing
  <2>5. CarriesAt(t)'
    BY <1>0, <2>1, <2>2 DEF CarriesAt, Writing, Reading, BucketOf, Rho, ThreadType
  <2>6. QED
    <3>1. pc[t] \in Writing /\ Len(lists') >= Len(lists)
          /\ Len(dicts') >= Len(dicts) /\ Len(slots') >= Len(slots)
      BY <2>1, <2>3, Coordinates DEF Writing
    <3>2. \A u \in Threads \ {t} : pc'[u] = pc[u]
      BY <1>0, <2>1 DEF ThreadType
    <3>3. QED
      BY <2>1, <2>3, <2>4, <2>5, <3>1, <3>2, StepOf
<1>16. ASSUME NEW t \in Threads, RemoverBucket(t) PROVE HeapInv'
  <2>1. pc[t] = "drop_bucket" /\ lock = t /\ lock' = NoOne /\ pc' = [pc EXCEPT ![t] = "idle"]
        /\ UNCHANGED <<address, current, dicts, slots, nextId, call, key, payload, ref, ent,
                       dict, since, calls>>
    BY <1>16 DEF RemoverBucket, Holds, Return, Goto
  <2>2. HeapType' /\ Len(lists') = Len(lists)
    <3>1. CASE DropsBucket(BucketOf(t))
      BY <1>16, <2>1, <3>1, BucketDropped DEF RemoverBucket
    <3>2. CASE ~DropsBucket(BucketOf(t))
      BY <1>0, <1>16, <2>1, <3>2 DEF RemoverBucket, HeapType
    <3>3. QED
      BY <3>1, <3>2
  <2>3. ThreadType' /\ Mutual' /\ CarriesAt(t)'
    BY <1>0, <2>1 DEF ThreadType, Mutual, CarriesAt, Writing, Reading
  <2>4. QED
    <3>1. pc[t] \in Writing /\ Len(lists') >= Len(lists)
          /\ Len(dicts') >= Len(dicts) /\ Len(slots') >= Len(slots)
      BY <2>1, <2>2, Coordinates DEF Writing
    <3>2. \A u \in Threads \ {t} : pc'[u] = pc[u]
      BY <1>0, <2>1 DEF ThreadType
    <3>3. QED
      BY <2>1, <2>2, <2>3, <3>1, <3>2, StepOf
<1>17. ASSUME NEW t \in Threads, LimparList(t) PROVE HeapInv'
  <2>1. pc[t] = "limpar" /\ lock = t /\ pc' = [pc EXCEPT ![t] = "reset"]
        /\ UNCHANGED <<address, dicts, slots, nextId, lock, call, key, payload, ref, ent, calls>>
    BY <1>17 DEF LimparList, Holds, Goto
  <2>2. HeapType' /\ Len(lists') >= Len(lists)
    BY <1>17, ListMade, Coordinates
  <2>3. dict' \in [Keys -> Values] /\ since' \in [Threads -> SUBSET Values]
    BY <1>17, Values0, BecomesType DEF LimparList
  <2>4. ThreadType' /\ Mutual' /\ CarriesAt(t)'
    BY <1>0, <2>1, <2>3 DEF ThreadType, Mutual, CarriesAt, Writing, Reading
  <2>5. QED
    <3>1. pc[t] \in Writing /\ Len(lists') >= Len(lists)
          /\ Len(dicts') >= Len(dicts) /\ Len(slots') >= Len(slots)
      BY <2>1, <2>2, Coordinates DEF Writing
    <3>2. \A u \in Threads \ {t} : pc'[u] = pc[u]
      BY <1>0, <2>1 DEF ThreadType
    <3>3. QED
      BY <2>1, <2>2, <2>4, <3>1, <3>2, StepOf
<1>18. CASE UNCHANGED vars
  BY <1>0, <1>18 DEF HeapInv, HeapType, ThreadType, Mutual, Carries, CarriesAt, BucketOf, Rho, Phi,
     vars, heap, thr
<1>19. QED
  <2>1. ASSUME NEW t \in Threads PROVE key[t] \in Keys /\ payload[t] \in Payloads
    BY <1>0 DEF ThreadType
  <2>2. QED
    BY <1>1, <1>2, <1>3, <1>5, <1>6, <1>7, <1>8, <1>9, <1>10, <1>11, <1>12, <1>13, <1>14, <1>15,
       <1>16, <1>17, <1>18, <2>1 DEF Next
-----------------------------------------------------------------------------
(* What is found below the objects that a step changes                     *)

\* The step shows or hides nothing below any object there was before it.
Keeps ==
    \A k \in Keys :
        /\ \A s \in 1..Len(slots) : slots'[s][k] = slots[s][k]
        /\ \A d \in 1..Len(dicts) : FromDict(d, k)' = FromDict(d, k)
        /\ \A l \in 1..Len(lists) : FromList(l, k)' = FromList(l, k)

\* Where something else is found after the step, it is what the key is mapped to now.
Shows ==
    \A k \in Keys :
        /\ \A s \in 1..Len(slots) : slots'[s][k] \in {slots[s][k], dict'[k]}
        /\ \A d \in 1..Len(dicts) : FromDict(d, k)' \in {FromDict(d, k), dict'[k]}
        /\ \A l \in 1..Len(lists) : FromList(l, k)' \in {FromList(l, k), dict'[k]}

LEMMA FoundFromList == ASSUME NEW k \in Keys PROVE Found(k) = FromList(current, k)
  BY DEF Found, FromList, FromDict, EntityIn

LEMMA Places ==
  ASSUME HeapType, NEW k \in Keys
  PROVE  address[k].rho \in Buckets /\ address[k].phi \in Phases
  BY DEF HeapType

LEMMA HeapKeeps ==
  ASSUME HeapType, UNCHANGED <<address, heap>> PROVE Keeps
  BY DEF heap, Keeps, FromDict, FromList, EntityIn

LEMMA KeepsAgree ==
  ASSUME HeapType, Agree, Keeps, current' = current, dict' = dict PROVE Agree' /\ Shows
<1>1. current \in 1..Len(lists)
  BY DEF HeapType
<1>2. ASSUME NEW k \in Keys PROVE Found(k)' = dict'[k]
  <2>1. FromList(current, k)' = FromList(current, k)
    BY <1>1 DEF Keeps, FromList
  <2>2. Found(k)' = FromList(current, k)'
    BY DEF Found, FromList, FromDict, EntityIn
  <2>3. QED
    BY <2>1, <2>2, FoundFromList DEF Agree
<1>3. QED
  BY <1>2 DEF Agree, Keeps, Shows

LEMMA InserirBucketKeeps ==
  ASSUME HeapInv, NEW t \in Threads, InserirBucket(t) PROVE Keeps
<1>0. HeapType /\ UNCHANGED <<address, current, slots>>
  BY DEF HeapInv, InserirBucket
<1>1. CASE BucketOf(t) # 0
  <2>1. UNCHANGED <<address, heap>>
    BY <1>0, <1>1 DEF InserirBucket, heap
  <2>2. QED
    BY <1>0, <2>1, HeapKeeps
<1>2. CASE BucketOf(t) = 0
  <2>1. PICK D \in Nat : D = Len(dicts)
    BY Coordinates
  <2>2. /\ dicts'[D + 1] = NoSlot /\ lists'[current][Rho(t)] = D + 1
        /\ \A d \in 1..D : dicts'[d] = dicts[d]
        /\ \A l \in 1..Len(lists) : \A r \in Buckets :
              l # current \/ r # Rho(t) => lists'[l][r] = lists[l][r]
    BY <1>2, <2>1, BucketMade
  <2> SUFFICES ASSUME NEW k \in Keys
               PROVE  /\ \A s \in 1..Len(slots) : slots'[s][k] = slots[s][k]
                      /\ \A d \in 1..Len(dicts) : FromDict(d, k)' = FromDict(d, k)
                      /\ \A l \in 1..Len(lists) : FromList(l, k)' = FromList(l, k)
    BY DEF Keeps
  <2>3. ASSUME NEW d \in 1..D PROVE FromDict(d, k)' = FromDict(d, k)
    BY <1>0, <2>2 DEF FromDict, EntityIn
  <2>4. ASSUME NEW l \in 1..Len(lists) PROVE FromList(l, k)' = FromList(l, k)
    <3>1. CASE l = current /\ address[k].rho = Rho(t)
      <4>1. FromList(l, k) = None
        BY <1>2, <3>1 DEF FromList, FromDict, BucketOf
      <4>2. lists'[l][address'[k].rho] = D + 1
        BY <1>0, <2>2, <3>1
      <4>3. NoSlot[address[k].phi] = 0
        BY <1>0, Places DEF NoSlot
      <4>4. FromList(l, k)' = None
        BY <1>0, <2>2, <4>2, <4>3 DEF FromList, FromDict, EntityIn, None
      <4>5. QED
        BY <4>1, <4>4
    <3>2. CASE ~(l = current /\ address[k].rho = Rho(t))
      <4>1. lists'[l][address'[k].rho] = lists[l][address[k].rho]
        BY <1>0, <2>2, <3>2, Places
      <4>2. PICK d \in 0..D : d = lists[l][address[k].rho]
        BY <1>0, <2>1, Places, Entries
      <4>3. FromDict(d, k)' = FromDict(d, k)
        <5>1. CASE d = 0
          BY ONLY <5>1 DEF FromDict, None
        <5>2. CASE d # 0
          BY <2>1, <2>3, <5>2
        <5>3. QED
          BY <5>1, <5>2
      <4>4. FromList(l, k) = FromDict(d, k)
        BY ONLY <4>2, Zenon DEF FromList
      <4>5. FromList(l, k)' = FromDict(d, k)'
        BY ONLY <4>1, <4>2, Zenon DEF FromList, FromDict
      <4>6. QED
        BY ONLY <4>3, <4>4, <4>5, Zenon
    <3>3. QED
      BY <3>1, <3>2
  <2>5. QED
    BY <1>0, <2>1, <2>3, <2>4
<1>3. QED
  BY <1>1, <1>2

LEMMA InserirPhaseKeeps ==
  ASSUME HeapInv, NEW t \in Threads, InserirPhase(t) PROVE Keeps
<1>0. /\ HeapType /\ UNCHANGED <<address, current, lists>>
      /\ BucketOf(t) # 0 /\ BucketOf(t) \in 1..Len(dicts)
  BY Coordinates DEF HeapInv, Carries, CarriesAt, InserirPhase, Holds
<1>1. CASE dicts[BucketOf(t)][Phi(t)] # 0
  <2>1. UNCHANGED <<address, heap>>
    BY <1>0, <1>1 DEF InserirPhase, SlotIn, heap
  <2>2. QED
    BY <1>0, <2>1, HeapKeeps
<1>2. CASE dicts[BucketOf(t)][Phi(t)] = 0
  <2>1. PICK S \in Nat : S = Len(slots)
    BY Coordinates
  <2>2. /\ slots'[S + 1] = NoEntity /\ dicts'[BucketOf(t)][Phi(t)] = S + 1
        /\ \A s \in 1..S : slots'[s] = slots[s]
        /\ \A d \in 1..Len(dicts) : \A p \in Phases :
              d # BucketOf(t) \/ p # Phi(t) => dicts'[d][p] = dicts[d][p]
    BY <1>0, <1>2, <2>1, SlotMade
  <2> SUFFICES ASSUME NEW k \in Keys
               PROVE  /\ \A s \in 1..Len(slots) : slots'[s][k] = slots[s][k]
                      /\ \A d \in 1..Len(dicts) : FromDict(d, k)' = FromDict(d, k)
                      /\ \A l \in 1..Len(lists) : FromList(l, k)' = FromList(l, k)
    BY DEF Keeps
  <2>3. ASSUME NEW d \in 1..Len(dicts) PROVE FromDict(d, k)' = FromDict(d, k)
    <3>1. CASE d = BucketOf(t) /\ address[k].phi = Phi(t)
      <4>1. FromDict(d, k) = None
        BY <1>2, <3>1 DEF FromDict, EntityIn
      <4>2. dicts'[d][address'[k].phi] = S + 1
        BY <1>0, <2>2, <3>1
      <4>3. NoEntity[k] = None
        BY DEF NoEntity
      <4>4. FromDict(d, k)' = None
        BY <2>2, <4>2, <4>3 DEF FromDict, EntityIn, None
      <4>5. QED
        BY <4>1, <4>4
    <3>2. CASE ~(d = BucketOf(t) /\ address[k].phi = Phi(t))
      <4>1. dicts'[d][address'[k].phi] = dicts[d][address[k].phi]
        BY <1>0, <2>2, <3>2, Places
      <4>2. dicts[d][address[k].phi] \in 0..S
        BY <1>0, <2>1, Places, Entries
      <4>3. QED
        BY <2>2, <4>1, <4>2 DEF FromDict, EntityIn, None
    <3>3. QED
      BY <3>1, <3>2
  <2>4. ASSUME NEW l \in 1..Len(lists) PROVE FromList(l, k)' = FromList(l, k)
    <3>1. PICK b \in 0..Len(dicts) : b = lists[l][address[k].rho] /\ b = lists'[l][address'[k].rho]
      BY <1>0, Places, Entries
    <3>2. FromDict(b, k)' = FromDict(b, k)
      BY <2>3, <3>1 DEF FromDict, None
    <3>3. FromList(l, k)' = FromDict(b, k)' /\ FromList(l, k) = FromDict(b, k)
      BY <3>1 DEF FromList, FromDict, EntityIn
    <3>4. QED
      BY <3>2, <3>3
  <2>5. QED
    BY <2>1, <2>2, <2>3, <2>4
<1>3. QED
  BY <1>1, <1>2

LEMMA RemoverPhaseKeeps ==
  ASSUME HeapInv, NEW t \in Threads, RemoverPhase(t) PROVE Keeps
<1>0. /\ HeapType /\ UNCHANGED <<address, current, lists, slots>>
      /\ BucketOf(t) # 0 /\ ref[t] # 0 /\ ref[t] = dicts[BucketOf(t)][Phi(t)]
  BY DEF HeapInv, Carries, CarriesAt, RemoverPhase, Holds
<1>1. CASE ~DropsSlot(ref[t])
  <2>1. UNCHANGED <<address, heap>>
    BY <1>0, <1>1 DEF RemoverPhase, heap
  <2>2. QED
    BY <1>0, <2>1, HeapKeeps
<1>2. CASE DropsSlot(ref[t])
  <2>1. /\ dicts'[BucketOf(t)][Phi(t)] = 0
        /\ \A d \in 1..Len(dicts) : \A p \in Phases :
              d # BucketOf(t) \/ p # Phi(t) => dicts'[d][p] = dicts[d][p]
    <3>1. dicts' = [dicts EXCEPT ![BucketOf(t)][Phi(t)] = 0]
      BY <1>2 DEF RemoverPhase
    <3>2. BucketOf(t) \in 1..Len(dicts) /\ Phi(t) \in Phases /\ dicts \in Seq([Phases -> Nat])
      BY <1>0, Coordinates DEF HeapType
    <3>3. QED
      BY <1>0, <3>1, <3>2, SlotDropped
  <2> SUFFICES ASSUME NEW k \in Keys
               PROVE  /\ \A d \in 1..Len(dicts) : FromDict(d, k)' = FromDict(d, k)
                      /\ \A l \in 1..Len(lists) : FromList(l, k)' = FromList(l, k)
    BY <1>0 DEF Keeps
  <2>2. ASSUME NEW d \in 1..Len(dicts) PROVE FromDict(d, k)' = FromDict(d, k)
    <3>1. CASE d = BucketOf(t) /\ address[k].phi = Phi(t)
      <4>1. FromDict(d, k) = slots[ref[t]][k] /\ slots[ref[t]][k] = None
        BY <1>0, <1>2, <3>1 DEF FromDict, EntityIn, DropsSlot, NoEntity
      <4>2. FromDict(d, k)' = None
        BY <1>0, <2>1, <3>1 DEF FromDict, EntityIn, None
      <4>3. QED
        BY <4>1, <4>2
    <3>2. CASE ~(d = BucketOf(t) /\ address[k].phi = Phi(t))
      <4>1. dicts'[d][address'[k].phi] = dicts[d][address[k].phi]
        BY <1>0, <2>1, <3>2, Places
      <4>2. QED
        BY <1>0, <4>1 DEF FromDict, EntityIn, None
    <3>3. QED
      BY <3>1, <3>2
  <2>3. ASSUME NEW l \in 1..Len(lists) PROVE FromList(l, k)' = FromList(l, k)
    <3>1. PICK b \in 0..Len(dicts) : b = lists[l][address[k].rho] /\ b = lists'[l][address'[k].rho]
      BY <1>0, Places, Entries
    <3>2. FromDict(b, k)' = FromDict(b, k)
      BY <2>2, <3>1 DEF FromDict, None
    <3>3. FromList(l, k)' = FromDict(b, k)' /\ FromList(l, k) = FromDict(b, k)
      BY <3>1 DEF FromList, FromDict, EntityIn
    <3>4. QED
      BY <3>2, <3>3
  <2>4. QED
    BY <2>2, <2>3
<1>3. QED
  BY <1>1, <1>2

LEMMA RemoverBucketKeeps ==
  ASSUME HeapInv, NEW t \in Threads, RemoverBucket(t) PROVE Keeps
<1>0. /\ HeapType /\ UNCHANGED <<address, current, dicts, slots>> /\ BucketOf(t) # 0
  BY DEF HeapInv, Carries, CarriesAt, RemoverBucket, Holds
<1>1. CASE ~DropsBucket(BucketOf(t))
  <2>1. UNCHANGED <<address, heap>>
    BY <1>0, <1>1 DEF RemoverBucket, heap
  <2>2. QED
    BY <1>0, <2>1, HeapKeeps
<1>2. CASE DropsBucket(BucketOf(t))
  <2>1. /\ lists'[current][Rho(t)] = 0
        /\ \A l \in 1..Len(lists) : \A r \in Buckets :
              l # current \/ r # Rho(t) => lists'[l][r] = lists[l][r]
    <3>1. lists' = [lists EXCEPT ![current][Rho(t)] = 0]
      BY <1>2 DEF RemoverBucket
    <3>2. current \in 1..Len(lists) /\ Rho(t) \in Buckets /\ lists \in Seq([Buckets -> Nat])
      BY <1>0, Coordinates DEF HeapType
    <3>3. QED
      BY <1>0, <3>1, <3>2, BucketDropped
  <2> SUFFICES ASSUME NEW k \in Keys, NEW l \in 1..Len(lists)
               PROVE  FromList(l, k)' = FromList(l, k)
    BY <1>0 DEF Keeps, FromDict, EntityIn
  <2>2. CASE l = current /\ address[k].rho = Rho(t)
    <3>1. dicts[BucketOf(t)][address[k].phi] = 0
      BY <1>0, <1>2, Places DEF DropsBucket, NoSlot
    <3>2. FromList(l, k) = None
      BY <1>0, <2>2, <3>1 DEF FromList, FromDict, EntityIn, BucketOf
    <3>3. FromList(l, k)' = None
      BY <1>0, <2>1, <2>2 DEF FromList, FromDict, None
    <3>4. QED
      BY <3>2, <3>3
  <2>3. CASE ~(l = current /\ address[k].rho = Rho(t))
    <3>1. lists'[l][address'[k].rho] = lists[l][address[k].rho]
      BY <1>0, <2>1, <2>3, Places
    <3>2. QED
      BY <1>0, <3>1 DEF FromList, FromDict, EntityIn, None
  <2>4. QED
    BY <2>2, <2>3
<1>3. QED
  BY <1>1, <1>2

LEMMA LimparListKeeps ==
  ASSUME HeapInv, NEW t \in Threads, LimparList(t)
  PROVE  Keeps /\ Agree'
<1>0. HeapType /\ UNCHANGED <<address, dicts, slots>> /\ dict' = NoEntity
  BY DEF HeapInv, LimparList, Becomes
<1>1. PICK L \in Nat : L = Len(lists)
  BY Coordinates
<1>2. /\ current' = L + 1 /\ lists'[L + 1] = NoBucket
      /\ \A l \in 1..L : lists'[l] = lists[l]
  BY <1>1, ListMade
<1>3. Keeps
  BY <1>0, <1>1, <1>2 DEF Keeps, FromDict, FromList, EntityIn
<1>4. ASSUME NEW k \in Keys PROVE Found(k)' = dict'[k]
  <2>1. lists'[current'][address'[k].rho] = 0
    BY <1>0, <1>2, Places DEF NoBucket
  <2>2. QED
    BY <1>0, <2>1 DEF Found, EntityIn, NoEntity, None
<1>5. QED
  BY <1>3, <1>4 DEF Agree

\* An entity is stored or removed: below every object this shows for its key what the map
\* has for it from now on.
LEMMA EntityShows ==
  ASSUME HeapInv, Agree, NEW t \in Threads, NEW s \in 1..Len(slots), NEW e \in Values,
         slots' = [slots EXCEPT ![s][key[t]] = e], UNCHANGED <<address, current, lists, dicts>>,
         dict' = [dict EXCEPT ![key[t]] = e],
         BucketOf(t) # 0, s = dicts[BucketOf(t)][Phi(t)]
  PROVE  Shows /\ Agree'
<1>0. HeapType /\ dict \in [Keys -> Values] /\ key[t] \in Keys
  BY DEF HeapInv, ThreadType
<1>1. /\ slots'[s][key[t]] = e
      /\ \A i \in 1..Len(slots) : \A k \in Keys :
            i # s \/ k # key[t] => slots'[i][k] = slots[i][k]
  <2>1. slots \in Seq([Keys -> Values])
    BY <1>0 DEF HeapType
  <2>2. PICK z \in Keys : z = key[t]
    BY <1>0
  <2>3. slots' = [slots EXCEPT ![s][z] = e]
    BY <2>2
  <2>4. /\ slots'[s][z] = e
        /\ \A i \in 1..Len(slots) : \A k \in Keys : i # s \/ k # z => slots'[i][k] = slots[i][k]
    BY ONLY <2>1, <2>3, s \in 1..Len(slots), z \in Keys, e \in Values, Update
  <2>5. QED
    BY <2>2, <2>4
<1>2. dict'[key[t]] = e /\ \A k \in Keys : k # key[t] => dict'[k] = dict[k]
  BY <1>0
<1>3. ASSUME NEW k \in Keys, NEW i \in 1..Len(slots)
      PROVE  slots'[i][k] \in {slots[i][k], dict'[k]} /\ (k # key[t] => slots'[i][k] = slots[i][k])
  BY <1>1, <1>2
<1>4. ASSUME NEW k \in Keys, NEW d \in 0..Len(dicts)
      PROVE  /\ FromDict(d, k)' \in {FromDict(d, k), dict'[k]}
             /\ k # key[t] => FromDict(d, k)' = FromDict(d, k)
  <2>1. CASE d = 0
    BY <2>1 DEF FromDict, None
  <2>2. CASE d \in 1..Len(dicts)
    <3>1. PICK i \in 0..Len(slots) : i = dicts[d][address[k].phi] /\ i = dicts'[d][address'[k].phi]
      BY <1>0, <2>2, Places, Entries
    <3>2. CASE i = 0
      BY <2>2, <3>1, <3>2 DEF FromDict, EntityIn, None
    <3>3. CASE i \in 1..Len(slots)
      <4>1. FromDict(d, k) = slots[i][k] /\ FromDict(d, k)' = slots'[i][k]
        BY <2>2, <3>1, <3>3 DEF FromDict, EntityIn
      <4>2. QED
        BY <1>3, <3>3, <4>1
    <3>4. QED
      BY <3>2, <3>3
  <2>3. QED
    BY <2>1, <2>2
<1>5. ASSUME NEW k \in Keys, NEW l \in 1..Len(lists)
      PROVE  /\ FromList(l, k)' \in {FromList(l, k), dict'[k]}
             /\ k # key[t] => FromList(l, k)' = FromList(l, k)
  <2>1. PICK b \in 0..Len(dicts) : b = lists[l][address[k].rho] /\ b = lists'[l][address'[k].rho]
    BY <1>0, Places, Entries
  <2>2. FromList(l, k)' = FromDict(b, k)' /\ FromList(l, k) = FromDict(b, k)
    BY <2>1 DEF FromList, FromDict, EntityIn
  <2>3. QED
    BY <1>4, <2>2
<1>6. Shows
  BY <1>3, <1>4, <1>5 DEF Shows
<1>7. ASSUME NEW k \in Keys PROVE Found(k)' = dict'[k]
  <2>1. CASE k = key[t]
    <3>1. Found(k)' = slots'[s][k]
      <4>1. lists'[current'][address'[k].rho] = BucketOf(t)
        BY <2>1 DEF BucketOf, Rho
      <4>2. dicts'[BucketOf(t)][address'[k].phi] = s
        BY <2>1 DEF Phi
      <4>3. s # 0
        OBVIOUS
      <4>4. QED
        BY <4>1, <4>2, <4>3 DEF Found, EntityIn
    <3>2. QED
      BY <1>1, <1>2, <2>1, <3>1
  <2>2. CASE k # key[t]
    <3>1. PICK l \in 1..Len(lists) : l = current
      BY <1>0 DEF HeapType
    <3>2. FromList(l, k)' = FromList(l, k)
      BY <1>5, <2>2
    <3>3. Found(k)' = FromList(l, k)'
      <4>1. l = current'
        BY <3>1
      <4>2. CASE lists'[l][address'[k].rho] = 0
        BY ONLY <4>1, <4>2 DEF Found, FromList, FromDict, EntityIn
      <4>3. CASE lists'[l][address'[k].rho] # 0
        BY ONLY <4>1, <4>3, Zenon DEF Found, FromList, FromDict
      <4>4. QED
        BY <4>2, <4>3
    <3>4. QED
      BY <1>2, <2>2, <3>1, <3>2, <3>3, FoundFromList DEF Agree
  <2>3. QED
    BY <2>1, <2>2
<1>8. QED
  BY <1>6, <1>7 DEF Agree

LEMMA InserirStoreShows ==
  ASSUME HeapInv, Agree, NEW t \in Threads, InserirStore(t) PROVE Shows /\ Agree'
<1>1. pc[t] = "store" /\ CarriesAt(t)
  BY DEF HeapInv, Carries, InserirStore, Holds
<1>2. PICK s \in Nat : s = ref[t] /\ s \in 1..Len(slots)
  BY <1>1, Coordinates DEF CarriesAt
<1>3. PICK e \in Values : e = ent[t]
  BY <1>1 DEF CarriesAt, Values
<1>4. /\ slots' = [slots EXCEPT ![s][key[t]] = e] /\ dict' = [dict EXCEPT ![key[t]] = e]
      /\ UNCHANGED <<address, current, lists, dicts>>
  BY <1>2, <1>3 DEF InserirStore, Becomes
<1>5. BucketOf(t) # 0 /\ s = dicts[BucketOf(t)][Phi(t)]
  BY <1>1, <1>2 DEF CarriesAt
<1>6. QED
  BY ONLY HeapInv, Agree, t \in Threads, <1>2, e \in Values, <1>4, <1>5, EntityShows

LEMMA RemoverEntityShows ==
  ASSUME HeapInv, Agree, NEW t \in Threads, RemoverEntity(t) PROVE Shows /\ Agree'
<1>1. EntityIn(SlotIn(BucketOf(t), t), key[t]) # None
  BY DEF RemoverEntity
<1>2. BucketOf(t) # 0 /\ SlotIn(BucketOf(t), t) = dicts[BucketOf(t)][Phi(t)]
  BY <1>1 DEF EntityIn, SlotIn
<1>3. PICK s \in 1..Len(slots) : s = SlotIn(BucketOf(t), t)
  BY <1>1, <1>2, Coordinates DEF EntityIn
<1>4. /\ slots' = [slots EXCEPT ![s][key[t]] = None] /\ dict' = [dict EXCEPT ![key[t]] = None]
      /\ UNCHANGED <<address, current, lists, dicts>>
  BY <1>3 DEF RemoverEntity, Becomes
<1>5. None \in Values /\ s = dicts[BucketOf(t)][Phi(t)]
  BY <1>2, <1>3, Values0
<1>6. QED
  BY ONLY HeapInv, Agree, t \in Threads, <1>2, s \in 1..Len(slots), <1>4, <1>5, EntityShows

\* The steps that leave the structure alone
Aside(t) ==
    \/ \E c \in {"buscar", "inserir", "remover", "limpar"} : \E k \in Keys, p \in Payloads :
          Begin(t, c, k, p)
    \/ Acquire(t) \/ BuscarList(t) \/ BuscarBucket(t) \/ BuscarPhase(t) \/ BuscarEntity(t)
    \/ InserirCount(t) \/ RemoverAbsent(t) \/ RemoverCount(t) \/ LimparReset(t)

LEMMA Cases ==
  ASSUME HeapInv, [Next]_vars
  PROVE  \/ \E t \in Threads :
               \/ Aside(t)
               \/ InserirBucket(t) \/ InserirPhase(t) \/ InserirStore(t)
               \/ RemoverEntity(t) \/ RemoverPhase(t) \/ RemoverBucket(t) \/ LimparList(t)
         \/ UNCHANGED vars
<1>1. ASSUME NEW t \in Threads PROVE key[t] \in Keys /\ payload[t] \in Payloads
  BY DEF HeapInv, ThreadType
<1>2. QED
  BY <1>1 DEF Next, Aside

LEMMA AsideHeap ==
  ASSUME NEW t \in Threads, Aside(t) PROVE UNCHANGED <<address, heap, dict>>
  BY DEF Aside, Begin, Acquire, BuscarList, BuscarBucket, BuscarPhase, Descend, BuscarEntity,
     InserirCount, RemoverAbsent, RemoverCount, LimparReset

LEMMA AgreeStep ==
  ASSUME HeapInv, Agree, [Next]_vars PROVE Shows /\ Agree'
<1>0. HeapType
  BY DEF HeapInv
<1>1. ASSUME NEW t \in Threads, Aside(t) PROVE Shows /\ Agree'
  BY <1>0, <1>1, AsideHeap, HeapKeeps, KeepsAgree DEF heap
<1>2. ASSUME NEW t \in Threads,
             InserirBucket(t) \/ InserirPhase(t) \/ RemoverPhase(t) \/ RemoverBucket(t)
      PROVE  Shows /\ Agree'
  <2>1. Keeps
    BY <1>2, InserirBucketKeeps, InserirPhaseKeeps, RemoverPhaseKeeps, RemoverBucketKeeps
  <2>2. UNCHANGED <<current, dict>>
    BY <1>2 DEF InserirBucket, InserirPhase, RemoverPhase, RemoverBucket
  <2>3. QED
    BY <1>0, <2>1, <2>2, KeepsAgree
<1>3. ASSUME NEW t \in Threads, InserirStore(t) \/ RemoverEntity(t) PROVE Shows /\ Agree'
  BY <1>3, InserirStoreShows, RemoverEntityShows
<1>4. ASSUME NEW t \in Threads, LimparList(t) PROVE Shows /\ Agree'
  BY <1>4, LimparListKeeps DEF Keeps, Shows
<1>5. CASE UNCHANGED vars
  BY <1>0, <1>5, HeapKeeps, KeepsAgree DEF vars, heap
<1>6. QED
  BY <1>1, <1>2, <1>3, <1>4, <1>5, Cases
-----------------------------------------------------------------------------
(* Searches without the lock                                               *)

\* The history keeps the values a running call has seen, and takes up the one there is now.
Lasts(u) ==
    /\ pc[u] = "idle" => since'[u] = since[u]
    /\ pc[u] # "idle" => since[u] \subseteq since'[u] /\ dict'[key[u]] \in since'[u]

LEMMA LastsSame ==
  ASSUME Reads, UNCHANGED <<dict, since>>, NEW u \in Threads PROVE Lasts(u)
  BY DEF Reads, ReadsAt, Lasts

LEMMA LastsBecomes ==
  ASSUME NEW m, Becomes(m), NEW u \in Threads PROVE Lasts(u)
  BY DEF Becomes, Lasts

\* A thread that does not move itself
LEMMA ReadsOther ==
  ASSUME ReadInv, Shows, NEW u \in Threads, Lasts(u), pc'[u] = pc[u], call'[u] = call[u],
         key'[u] = key[u], ref'[u] = ref[u], ent'[u] = ent[u]
  PROVE  ReadsAt(u)'
<1>0. ReadsAt(u) /\ CarriesAt(u) /\ key[u] \in Keys
  BY DEF ReadInv, Reads, HeapInv, Carries, ThreadType
<1>1. PICK k \in Keys : k = key[u]
  BY <1>0
<1>2. pc[u] = "bucket" => FromList(ref[u], key[u])' \in since'[u]
  <2> SUFFICES ASSUME pc[u] = "bucket" PROVE FromList(ref[u], key[u])' \in since'[u]
    OBVIOUS
  <2>1. PICK l \in 1..Len(lists) : l = ref[u]
    BY <1>0 DEF CarriesAt
  <2>2. FromList(l, k) \in since'[u] /\ dict'[k] \in since'[u]
    BY <1>0, <1>1, <2>1 DEF ReadsAt, Lasts
  <2>3. FromList(l, k)' \in {FromList(l, k), dict'[k]}
    BY DEF Shows
  <2>4. FromList(ref[u], key[u])' = FromList(l, k)'
    BY <1>1, <2>1 DEF FromList, FromDict, EntityIn
  <2>5. QED
    BY <2>2, <2>3, <2>4
<1>3. pc[u] = "phase" => FromDict(ref[u], key[u])' \in since'[u]
  <2> SUFFICES ASSUME pc[u] = "phase" PROVE FromDict(ref[u], key[u])' \in since'[u]
    OBVIOUS
  <2>1. PICK d \in 1..Len(dicts) : d = ref[u]
    BY <1>0 DEF CarriesAt
  <2>2. FromDict(d, k) \in since'[u] /\ dict'[k] \in since'[u]
    BY <1>0, <1>1, <2>1 DEF ReadsAt, Lasts
  <2>3. FromDict(d, k)' \in {FromDict(d, k), dict'[k]}
    BY DEF Shows
  <2>4. FromDict(ref[u], key[u])' = FromDict(d, k)'
    BY <1>1, <2>1 DEF FromDict, EntityIn
  <2>5. QED
    BY <2>2, <2>3, <2>4
<1>4. pc[u] = "fingerprint" => slots'[ref'[u]][key'[u]] \in since'[u]
  <2> SUFFICES ASSUME pc[u] = "fingerprint" PROVE slots'[ref'[u]][key'[u]] \in since'[u]
    OBVIOUS
  <2>1. PICK s \in 1..Len(slots) : s = ref[u]
    BY <1>0 DEF CarriesAt
  <2>2. slots[s][k] \in since'[u] /\ dict'[k] \in since'[u]
    BY <1>0, <1>1, <2>1 DEF ReadsAt, Lasts
  <2>3. slots'[s][k] \in {slots[s][k], dict'[k]}
    BY DEF Shows
  <2>4. QED
    BY <1>1, <2>1, <2>2, <2>3
<1>5. QED
  BY <1>0, <1>2, <1>3, <1>4 DEF ReadsAt, Lasts

\* A thread that is on its way to change the structure, or has done so
LEMMA ReadsWriter ==
  ASSUME NEW t \in Threads, pc'[t] \notin {"bucket", "phase", "fingerprint"},
         pc'[t] = "idle" => call'[t] # "buscar",
         pc'[t] # "idle" => dict'[key'[t]] \in since'[t]
  PROVE  ReadsAt(t)'
  BY DEF ReadsAt

Still(u) == /\ pc'[u] = pc[u] /\ call'[u] = call[u] /\ key'[u] = key[u]
            /\ ref'[u] = ref[u] /\ ent'[u] = ent[u]

LEMMA ReadsOthers ==
  ASSUME ReadInv, Shows, NEW t \in Threads, ReadsAt(t)',
         \A u \in Threads \ {t} : Still(u) /\ Lasts(u)
  PROVE  Reads'
<1>1. ASSUME NEW u \in Threads, u # t PROVE ReadsAt(u)'
  BY <1>1, ReadsOther DEF Still
<1>2. QED
  BY <1>1 DEF Reads

LEMMA ReadsOfWriter ==
  ASSUME ReadInv, Shows, NEW t \in Threads, pc[t] \in Writing, UNCHANGED <<call, key>>,
         pc'[t] \in Writing \cup {"idle"},
         \A u \in Threads : Lasts(u),
         \A u \in Threads \ {t} : Still(u)
  PROVE  Reads'
<1>1. CarriesAt(t) /\ Lasts(t)
  BY DEF ReadInv, HeapInv, Carries
<1>2. ReadsAt(t)'
  BY <1>1, ReadsWriter DEF Lasts, CarriesAt, Writing
<1>3. QED
  BY <1>2, ReadsOthers

\* The threads' variables under the steps of operations that hold the lock
LEMMA WriterMoves ==
  ASSUME HeapInv, NEW t \in Threads,
         \/ InserirBucket(t) \/ InserirPhase(t) \/ InserirCount(t) \/ InserirStore(t)
         \/ RemoverAbsent(t) \/ RemoverEntity(t) \/ RemoverCount(t) \/ RemoverPhase(t)
         \/ RemoverBucket(t) \/ LimparList(t) \/ LimparReset(t)
  PROVE  /\ pc[t] \in Writing /\ lock = t /\ UNCHANGED <<address, call, key, payload, calls>>
         /\ pc'[t] \in Writing \cup {"idle"}
         /\ lock' = IF pc'[t] = "idle" THEN NoOne ELSE t
         /\ \A u \in Threads \ {t} : Still(u)
<1>0. /\ pc \in [Threads -> {"idle", "lock"} \cup Reading \cup Writing]
      /\ ref \in [Threads -> Nat] /\ ent \in [Threads -> Values]
  BY DEF HeapInv, ThreadType
<1>1. CASE InserirBucket(t)
  BY <1>0, <1>1 DEF InserirBucket, Holds, Goto, Writing, Still
<1>2. CASE InserirPhase(t)
  BY <1>0, <1>2 DEF InserirPhase, Holds, Goto, Hold, Writing, Still
<1>3. CASE InserirCount(t)
  BY <1>0, <1>3 DEF InserirCount, Holds, Goto, Writing, Still
<1>4. CASE InserirStore(t)
  BY <1>0, <1>4 DEF InserirStore, Holds, Return, Goto, Writing, Still
<1>5. CASE RemoverAbsent(t)
  BY <1>0, <1>5 DEF RemoverAbsent, Holds, Return, Goto, Writing, Still
<1>6. CASE RemoverEntity(t)
  BY <1>0, <1>6 DEF RemoverEntity, Holds, Goto, Hold, Writing, Still
<1>7. CASE RemoverCount(t)
  BY <1>0, <1>7 DEF RemoverCount, Holds, Goto, Writing, Still
<1>8. CASE RemoverPhase(t)
  BY <1>0, <1>8 DEF RemoverPhase, Holds, Goto, Writing, Still
<1>9. CASE RemoverBucket(t)
  BY <1>0, <1>9 DEF RemoverBucket, Holds, Return, Goto, Writing, Still
<1>10. CASE LimparList(t)
  BY <1>0, <1>10 DEF LimparList, Holds, Goto, Writing, Still
<1>11. CASE LimparReset(t)
  BY <1>0, <1>11 DEF LimparReset, Holds, Return, Goto, Writing, Still
<1>12. QED
  BY <1>1, <1>2, <1>3, <1>4, <1>5, <1>6, <1>7, <1>8, <1>9, <1>10, <1>11

LEMMA ReadsStep ==
  ASSUME ReadInv, [Next]_vars PROVE Reads'
<1>0. HeapInv /\ Agree /\ Reads /\ Shows
  BY AgreeStep DEF ReadInv
<1>1. ASSUME NEW t \in Threads PROVE ReadsAt(t) /\ CarriesAt(t) /\ key[t] \in Keys
  BY <1>0 DEF Reads, HeapInv, Carries, ThreadType
<1>2. /\ pc \in [Threads -> {"idle", "lock"} \cup Reading \cup Writing]
      /\ call \in [Threads -> {"none", "buscar", "inserir", "remover", "limpar"}]
      /\ key \in [Threads -> Keys] /\ ref \in [Threads -> Nat] /\ ent \in [Threads -> Values]
      /\ since \in [Threads -> SUBSET Values]
  BY <1>0 DEF HeapInv, ThreadType
<1>3. ASSUME NEW t \in Threads,
             NEW c \in {"buscar", "inserir", "remover", "limpar"}, NEW k \in Keys,
             NEW p \in Payloads, Begin(t, c, k, p)
      PROVE  Reads'
  <2>1. /\ pc' = [pc EXCEPT ![t] = IF c = "buscar" THEN "list" ELSE "lock"]
        /\ call' = [call EXCEPT ![t] = c] /\ key' = [key EXCEPT ![t] = k]
        /\ ref' = [ref EXCEPT ![t] = 0] /\ ent' = [ent EXCEPT ![t] = None]
        /\ since' = [since EXCEPT ![t] = {dict[k]}] /\ dict' = dict
    BY <1>3 DEF Begin, Goto, Hold
  <2>2. pc'[t] \in {"list", "lock"} /\ dict'[key'[t]] \in since'[t]
    BY <1>2, <2>1
  <2>3. ReadsAt(t)'
    BY <2>2, ReadsWriter
  <2>4. ASSUME NEW u \in Threads \ {t} PROVE Still(u) /\ Lasts(u)
    BY <1>1, <1>2, <2>1 DEF Still, Lasts, ReadsAt
  <2>5. QED
    BY <2>3, <2>4, <1>0, ReadsOthers
<1>4. ASSUME NEW t \in Threads, Acquire(t) PROVE Reads'
  <2>1. /\ pc[t] = "lock" /\ pc' = [pc EXCEPT ![t] = call[t]]
        /\ UNCHANGED <<call, key, ref, ent, dict, since>>
    BY <1>4 DEF Acquire, Goto
  <2>2. pc'[t] \in {"inserir", "remover", "limpar"}
    BY <1>1, <1>2, <2>1 DEF CarriesAt
  <2>3. ReadsAt(t)'
    BY <1>1, <2>1, <2>2, ReadsWriter DEF ReadsAt
  <2>4. ASSUME NEW u \in Threads \ {t} PROVE Still(u) /\ Lasts(u)
    BY <1>1, <1>2, <2>1 DEF Still, Lasts, ReadsAt
  <2>5. QED
    BY <2>3, <2>4, <1>0, ReadsOthers
<1>5. ASSUME NEW t \in Threads, BuscarList(t) PROVE Reads'
  <2>1. /\ pc[t] = "list" /\ pc' = [pc EXCEPT ![t] = "bucket"]
        /\ ref' = [ref EXCEPT ![t] = current]
        /\ UNCHANGED <<address, heap, call, key, ent, dict, since>>
    BY <1>5 DEF BuscarList, Goto, Hold
  <2>2. PICK l \in 1..Len(lists) : l = current
    BY <1>0, Coordinates
  <2>3. FromList(l, key[t]) \in since[t]
    BY <1>0, <1>1, <2>1, <2>2, FoundFromList DEF Agree, ReadsAt
  <2>4. pc'[t] = "bucket" /\ FromList(ref[t], key[t])' = FromList(l, key[t])
    BY <1>2, <2>1, <2>2 DEF FromList, FromDict, EntityIn, heap
  <2>5. ReadsAt(t)'
    BY <1>1, <2>1, <2>3, <2>4 DEF ReadsAt
  <2>6. ASSUME NEW u \in Threads \ {t} PROVE Still(u) /\ Lasts(u)
    BY <1>1, <1>2, <2>1 DEF Still, Lasts, ReadsAt
  <2>7. QED
    BY <2>5, <2>6, <1>0, ReadsOthers
<1>6. ASSUME NEW t \in Threads, BuscarBucket(t) PROVE Reads'
  <2> DEFINE b == lists[ref[t]][Rho(t)]
  <2>1. /\ pc[t] = "bucket" /\ pc' = [pc EXCEPT ![t] = IF b = 0 THEN "idle" ELSE "phase"]
        /\ ref' = [ref EXCEPT ![t] = b]
        /\ UNCHANGED <<address, heap, call, key, ent, dict, since>>
    BY <1>6 DEF BuscarBucket, Descend, Goto, Hold
  <2>2. FromDict(b, key[t]) \in since[t] /\ ent[t] = None
    BY <1>1, <2>1 DEF ReadsAt, FromList, Rho, CarriesAt, Reading
  <2>3. ReadsAt(t)'
    <3>1. CASE b = 0
      <4>1. pc'[t] = "idle" /\ None \in since[t]
        BY <1>2, <2>1, <2>2, <3>1 DEF FromDict
      <4>2. QED
        BY <2>1, <2>2, <4>1 DEF ReadsAt
    <3>2. CASE b # 0
      <4>1. pc'[t] = "phase" /\ ref'[t] = b
        BY <1>2, <2>1, <3>2
      <4>2. FromDict(ref[t], key[t])' = FromDict(b, key[t])
        <5> HIDE DEF b
        <5>1. UNCHANGED <<address, dicts, slots, key>>
          BY <2>1 DEF heap
        <5>2. QED
          BY ONLY <4>1, <5>1, Zenon DEF FromDict, EntityIn
      <4>3. QED
        BY <1>1, <2>1, <2>2, <4>1, <4>2 DEF ReadsAt
    <3>3. QED
      BY <3>1, <3>2
  <2>4. ASSUME NEW u \in Threads \ {t} PROVE Still(u) /\ Lasts(u)
    BY <1>1, <1>2, <2>1 DEF Still, Lasts, ReadsAt
  <2>5. QED
    BY <2>3, <2>4, <1>0, ReadsOthers
<1>7. ASSUME NEW t \in Threads, BuscarPhase(t) PROVE Reads'
  <2> DEFINE s == dicts[ref[t]][Phi(t)]
  <2>1. /\ pc[t] = "phase" /\ pc' = [pc EXCEPT ![t] = IF s = 0 THEN "idle" ELSE "fingerprint"]
        /\ ref' = [ref EXCEPT ![t] = s]
        /\ UNCHANGED <<address, heap, call, key, ent, dict, since>>
    BY <1>7 DEF BuscarPhase, Descend, Goto, Hold
  <2>2. EntityIn(s, key[t]) \in since[t] /\ ent[t] = None
    BY <1>1, <2>1 DEF ReadsAt, FromDict, Phi, CarriesAt, Reading
  <2>3. ReadsAt(t)'
    <3>1. CASE s = 0
      <4>1. pc'[t] = "idle" /\ None \in since[t]
        BY <1>2, <2>1, <2>2, <3>1 DEF EntityIn
      <4>2. QED
        BY <2>1, <2>2, <4>1 DEF ReadsAt
    <3>2. CASE s # 0
      <4>1. pc'[t] = "fingerprint" /\ ref'[t] = s
        BY <1>2, <2>1, <3>2
      <4>2. slots'[ref'[t]][key'[t]] \in since'[t]
        BY <2>1, <2>2, <3>2, <4>1 DEF EntityIn, heap
      <4>3. QED
        BY <1>1, <2>1, <4>1, <4>2 DEF ReadsAt
    <3>3. QED
      BY <3>1, <3>2
  <2>4. ASSUME NEW u \in Threads \ {t} PROVE Still(u) /\ Lasts(u)
    BY <1>1, <1>2, <2>1 DEF Still, Lasts, ReadsAt
  <2>5. QED
    BY <2>3, <2>4, <1>0, ReadsOthers
<1>8. ASSUME NEW t \in Threads, BuscarEntity(t) PROVE Reads'
  <2>1. /\ pc[t] = "fingerprint" /\ pc' = [pc EXCEPT ![t] = "idle"]
        /\ ent' = [ent EXCEPT ![t] = slots[ref[t]][key[t]]]
        /\ UNCHANGED <<call, key, ref, dict, since>>
    BY <1>8 DEF BuscarEntity, Goto
  <2>2. ReadsAt(t)'
    BY <1>1, <1>2, <2>1 DEF ReadsAt
  <2>3. ASSUME NEW u \in Threads \ {t} PROVE Still(u) /\ Lasts(u)
    BY <1>1, <1>2, <2>1 DEF Still, Lasts, ReadsAt
  <2>4. QED
    BY <2>2, <2>3, <1>0, ReadsOthers
<1>9. ASSUME NEW t \in Threads,
             \/ InserirBucket(t) \/ InserirPhase(t) \/ InserirCount(t)
             \/ RemoverAbsent(t) \/ RemoverCount(t) \/ RemoverPhase(t)
             \/ RemoverBucket(t) \/ LimparReset(t)
      PROVE  Reads'
  <2>1. UNCHANGED <<dict, since>>
    BY <1>9 DEF InserirBucket, InserirPhase, InserirCount, RemoverAbsent, RemoverCount,
       RemoverPhase, RemoverBucket, LimparReset
  <2>2. \A u \in Threads : Lasts(u)
    BY <1>0, <2>1, LastsSame
  <2>3. QED
    BY <1>0, <1>9, <2>2, WriterMoves, ReadsOfWriter
<1>10. ASSUME NEW t \in Threads, InserirStore(t) \/ RemoverEntity(t) \/ LimparList(t)
       PROVE  Reads'
  <2>1. \A u \in Threads : Lasts(u)
    BY <1>10, LastsBecomes DEF InserirStore, RemoverEntity, LimparList
  <2>2. QED
    BY <1>0, <1>10, <2>1, WriterMoves, ReadsOfWriter
<1>11. CASE UNCHANGED vars
  <2>1. UNCHANGED <<address, heap, pc, call, key, ref, ent, dict, since>>
    BY <1>11 DEF vars, thr
  <2>2. QED
    BY <1>0, <2>1 DEF Reads, ReadsAt, FromList, FromDict, EntityIn, heap
<1>12. QED
  BY <1>0, <1>3, <1>4, <1>5, <1>6, <1>7, <1>8, <1>9, <1>10, <1>11, Cases DEF Aside

\* What each thread finds of its key is among the values the key has had during its call.
LEMMA ReadInit == Init => Agree /\ Reads
<1> SUFFICES ASSUME Init PROVE Agree /\ Reads
  OBVIOUS
<1>1. ASSUME NEW k \in Keys PROVE Found(k) = dict[k]
  <2>1. address[k].rho \in Buckets /\ lists[current] = NoBucket
    BY DEF Init
  <2>2. lists[current][address[k].rho] = 0
    BY <2>1 DEF NoBucket
  <2>3. Found(k) = None /\ dict[k] = None
    BY <2>2 DEF Init, Found, EntityIn, NoEntity
  <2>4. QED
    BY <2>3
<1>2. ASSUME NEW t \in Threads PROVE ReadsAt(t)
  BY DEF Init, ReadsAt
<1>3. QED
  BY <1>1, <1>2 DEF Agree, Reads

\* buscar, which takes no lock, returns what its key was mapped to at some moment of the call,
\* through every interleaving with inserir, remover and limpar, whichever buckets and phases
\* keys share.
THEOREM SearchWithinCall == Spec => []BuscarWithinCall
<1>1. Init => ReadInv
  BY HeapInit, ReadInit DEF ReadInv
<1>2. ReadInv /\ [Next]_vars => ReadInv'
  BY HeapStep, AgreeStep, ReadsStep DEF ReadInv
<1>3. ReadInv => BuscarWithinCall
  BY DEF ReadInv, Reads, ReadsAt, BuscarWithinCall
<1>4. QED
  BY <1>1, <1>2, <1>3, PTL DEF Spec
-----------------------------------------------------------------------------
(* _size and _next_id                                                      *)

LEMMA LiveSet ==
  ASSUME HeapInv
  PROVE  /\ \A k \in Live : k \in Keys /\ dict[k] \in Entity /\ dict[k].id \in Nat \ {0}
         /\ \A k \in Keys : k \notin Live => dict[k] = None
<1>1. \A k \in Keys : dict[k] \in Entity \cup {None}
  BY DEF HeapInv, ThreadType, Values
<1>2. \A e \in Entity : e.id \in Nat \ {0}
  BY DEF Entity
<1>3. QED
  BY <1>1, <1>2 DEF Live

\* The thread that holds the lock finds in the slot what the map has.
LEMMA InSlot ==
  ASSUME HeapInv, Agree, NEW t \in Threads, pc[t] \in {"count", "store"}
  PROVE  slots[ref[t]][key[t]] = dict[key[t]]
<1>1. CarriesAt(t) /\ key[t] \in Keys
  BY DEF HeapInv, Carries, ThreadType
<1>2. BucketOf(t) # 0 /\ ref[t] # 0 /\ ref[t] = dicts[BucketOf(t)][Phi(t)]
  BY <1>1 DEF CarriesAt
<1>3. Found(key[t]) = slots[ref[t]][key[t]]
  BY <1>2 DEF Found, EntityIn, BucketOf, Rho, Phi
<1>4. QED
  BY <1>1, <1>3 DEF Agree

\* Steps that change neither the counters nor the map
LEMMA CountsPlain ==
  ASSUME Counts, UNCHANGED <<dict, size, nextId>>, Inside \notin {"reset", "uncount", "store"},
         Inside' \notin {"reset", "uncount", "store"}
  PROVE  Counts'
  BY DEF Counts, Live

LEMMA CountsSame ==
  ASSUME Counts, UNCHANGED <<dict, size, nextId, lock>>, Inside' = Inside,
         key'[lock] = key[lock], ent'[lock] = ent[lock]
  PROVE  Counts'
  BY DEF Counts, Live

\* Inside is the step of the thread that holds the lock.
LEMMA InsideHolder ==
  ASSUME HeapInv, NEW t \in Threads, lock = t PROVE Inside = pc[t]
  BY BancoAssumption DEF Inside

LEMMA CountsAside ==
  ASSUME CountInv, NEW t \in Threads,
         \/ \E c \in {"buscar", "inserir", "remover", "limpar"} : \E k \in Keys, p \in Payloads :
               Begin(t, c, k, p)
         \/ BuscarList(t) \/ BuscarBucket(t) \/ BuscarPhase(t) \/ BuscarEntity(t)
  PROVE  Counts'
<1>1. /\ pc[t] \in {"idle"} \cup Reading /\ UNCHANGED <<dict, size, nextId, lock>>
      /\ \A u \in Threads \ {t} : pc'[u] = pc[u] /\ key'[u] = key[u] /\ ent'[u] = ent[u]
  <2>1. /\ pc \in [Threads -> {"idle", "lock"} \cup Reading \cup Writing]
        /\ key \in [Threads -> Keys] /\ ent \in [Threads -> Values]
    BY DEF CountInv, HeapInv, ThreadType
  <2>2. QED
    BY <2>1 DEF Begin, BuscarList, BuscarBucket, BuscarPhase, BuscarEntity, Descend, Goto, Reading
<1>2. lock # t /\ lock \in Threads \cup {NoOne}
  BY <1>1 DEF CountInv, HeapInv, ThreadType, Mutual, Reading, Writing
<1>3. CASE lock \in Threads
  BY <1>1, <1>2, <1>3, CountsSame, BancoAssumption DEF Inside, CountInv
<1>4. CASE lock = NoOne
  BY <1>1, <1>4, CountsPlain DEF Inside, CountInv
<1>5. QED
  BY <1>2, <1>3, <1>4

LEMMA CountsStore ==
  ASSUME CountInv, NEW t \in Threads, InserirStore(t) PROVE Counts'
<1>0. /\ HeapInv /\ Counts /\ pc[t] = "store" /\ lock = t /\ lock' = NoOne
      /\ dict' = [dict EXCEPT ![key[t]] = ent[t]] /\ UNCHANGED <<size, nextId>>
      /\ dict \in [Keys -> Values] /\ key[t] \in Keys /\ ent[t] \in Entity
  BY DEF CountInv, InserirStore, Holds, Return, Becomes, HeapInv, ThreadType, Carries, CarriesAt
<1>1. Inside = "store" /\ Inside' = "idle"
  BY <1>0, InsideHolder DEF Inside
<1>2. /\ dict'[key[t]] = ent[t] /\ ent[t] # None
      /\ \A k \in Keys : k # key[t] => dict'[k] = dict[k]
  BY <1>0, Values0
<1>3. Live' = Live \cup {key[t]}
  BY <1>0, <1>2 DEF Live
<1>4. /\ IsFiniteSet(Live) /\ size \in Nat
      /\ size = Cardinality(Live) + (IF key[t] \notin Live THEN 1 ELSE 0)
      /\ \A j, k \in Live : dict[j].id = dict[k].id => j = k
      /\ \A k \in Live : dict[k].id < nextId
      /\ ent[t].id < nextId /\ \A k \in Live : dict[k].id = ent[t].id <=> k = key[t]
  BY <1>0, <1>1 DEF Counts
<1>5. IsFiniteSet(Live') /\ size = Cardinality(Live')
  BY <1>3, <1>4, FS_AddElement, FS_CardinalityType
<1>6. \A k \in Live' : dict'[k].id < nextId'
  BY <1>0, <1>2, <1>3, <1>4, LiveSet
<1>7. \A j, k \in Live' : dict'[j].id = dict'[k].id => j = k
  BY <1>0, <1>2, <1>3, <1>4, LiveSet
<1>8. QED
  BY <1>0, <1>1, <1>4, <1>5, <1>6, <1>7, FS_CardinalityType DEF Counts

LEMMA CountsRemoved ==
  ASSUME CountInv, NEW t \in Threads, RemoverEntity(t) PROVE Counts'
<1>0. /\ HeapInv /\ Agree /\ Counts /\ pc[t] = "remover" /\ lock = t /\ lock' = t
      /\ pc' = [pc EXCEPT ![t] = "uncount"] /\ pc \in [Threads -> {"idle", "lock"} \cup Reading \cup Writing]
      /\ dict' = [dict EXCEPT ![key[t]] = None] /\ UNCHANGED <<size, nextId>>
      /\ dict \in [Keys -> Values] /\ key[t] \in Keys
  BY DEF CountInv, RemoverEntity, Holds, Goto, Becomes, HeapInv, ThreadType
<1>1. Inside = "remover" /\ Inside' = "uncount"
  BY <1>0, InsideHolder, BancoAssumption DEF Inside
<1>2. key[t] \in Live
  <2>1. EntityIn(SlotIn(BucketOf(t), t), key[t]) # None
    BY DEF RemoverEntity
  <2>2. Found(key[t]) = EntityIn(SlotIn(BucketOf(t), t), key[t])
    BY DEF Found, SlotIn, BucketOf, Rho, Phi
  <2>3. QED
    BY <1>0, <2>1, <2>2 DEF Agree, Live
<1>3. Live' = Live \ {key[t]} /\ \A k \in Live' : dict'[k] = dict[k]
  BY <1>0 DEF Live
<1>4. /\ IsFiniteSet(Live) /\ size \in Nat /\ size = Cardinality(Live)
      /\ \A j, k \in Live : dict[j].id = dict[k].id => j = k
      /\ \A k \in Live : dict[k].id < nextId
  <2>1. size = Cardinality(Live) + 0 /\ IsFiniteSet(Live)
    BY <1>0, <1>1 DEF Counts
  <2>2. QED
    BY <1>0, <1>1, <2>1, FS_CardinalityType DEF Counts
<1>5. IsFiniteSet(Live') /\ size = Cardinality(Live') + 1
  <2>1. /\ IsFiniteSet(Live \ {key[t]})
        /\ Cardinality(Live \ {key[t]}) = Cardinality(Live) - 1
    BY <1>2, <1>4, FS_RemoveElement
  <2>2. QED
    BY <1>3, <1>4, <2>1
<1>6. QED
  BY <1>0, <1>1, <1>3, <1>4, <1>5 DEF Counts

LEMMA CountsNumbered ==
  ASSUME CountInv, NEW t \in Threads, InserirCount(t) PROVE Counts'
<1> DEFINE n == Numbered(dict[key[t]])
<1>0. /\ HeapInv /\ Agree /\ Counts /\ pc[t] = "count" /\ lock = t /\ lock' = t
      /\ pc' = [pc EXCEPT ![t] = "store"] /\ pc \in [Threads -> {"idle", "lock"} \cup Reading \cup Writing]
      /\ dict' = dict /\ key' = key /\ key[t] \in Keys /\ nextId \in Nat
      /\ ent \in [Threads -> Values]
  BY DEF CountInv, InserirCount, Holds, Goto, HeapInv, ThreadType
<1>1. Inside = "count" /\ Inside' = "store"
  BY <1>0, InsideHolder, BancoAssumption DEF Inside
<1>2. /\ nextId' = n.next /\ size' = size + n.new
      /\ ent'[t].id = n.id
  <2>1. slots[ref[t]][key[t]] = dict[key[t]]
    BY <1>0, InSlot
  <2>2. ent' = [ent EXCEPT ![t] = [id |-> n.id, payload |-> payload[t]]]
    BY <2>1 DEF InserirCount
  <2>3. QED
    BY <1>0, <2>1, <2>2 DEF InserirCount
<1>3. /\ IsFiniteSet(Live) /\ size \in Nat
      /\ \A j, k \in Live : dict[j].id = dict[k].id => j = k
      /\ \A k \in Live : dict[k].id < nextId
      /\ size = Cardinality(Live) + 0
  BY <1>0, <1>1 DEF Counts
<1>4. Live' = Live /\ Cardinality(Live) \in Nat
  BY <1>0, <1>3, FS_CardinalityType DEF Live
<1>5. CASE key[t] \in Live
  <2>1. n.id = dict[key[t]].id /\ n.next = nextId /\ n.new = 0
    BY <1>5 DEF Numbered, Live
  <2> HIDE DEF n
  <2>2. size' = size /\ nextId' = nextId /\ ent'[t].id = dict[key[t]].id
    BY <1>2, <1>3, <2>1
  <2>3. \A k \in Live : dict[k].id = ent'[t].id <=> k = key[t]
    BY <1>3, <1>5, <2>2
  <2>4. ent'[t].id < nextId'
    BY <1>3, <1>5, <2>2
  <2>5. QED
    BY <1>0, <1>1, <1>3, <1>4, <1>5, <2>2, <2>3, <2>4 DEF Counts
<1>6. CASE key[t] \notin Live
  <2>1. n.id = nextId /\ n.next = nextId + 1 /\ n.new = 1
    BY <1>0, <1>6, LiveSet DEF Numbered
  <2> HIDE DEF n
  <2>2. size' = size + 1 /\ nextId' = nextId + 1 /\ ent'[t].id = nextId
    BY <1>2, <2>1
  <2>3. \A k \in Live : dict[k].id # ent'[t].id /\ dict[k].id < nextId' /\ k # key[t]
    BY <1>0, <1>3, <1>6, <2>2, LiveSet
  <2>4. QED
    BY <1>0, <1>1, <1>3, <1>4, <1>6, <2>2, <2>3 DEF Counts
<1>7. QED
  BY <1>5, <1>6

LEMMA CountsStep ==
  ASSUME CountInv, [Next]_vars PROVE Counts'
<1>0. HeapInv /\ Agree /\ Counts
  BY DEF CountInv
<1>1. pc \in [Threads -> {"idle", "lock"} \cup Reading \cup Writing]
  BY <1>0 DEF HeapInv, ThreadType
<1>2. ASSUME NEW t \in Threads, Acquire(t) PROVE Counts'
  <2>1. Inside = "idle" /\ Inside' \in {"inserir", "remover", "limpar"}
    <3>1. /\ pc[t] = "lock" /\ lock = NoOne /\ lock' = t /\ pc' = [pc EXCEPT ![t] = call[t]]
          /\ call[t] \in {"inserir", "remover", "limpar"}
      BY <1>0, <1>2 DEF Acquire, Goto, HeapInv, Carries, CarriesAt
    <3>2. QED
      BY <1>1, <3>1, BancoAssumption DEF Inside
  <2>2. QED
    BY <1>0, <1>2, <2>1, CountsPlain DEF Acquire
<1>3. ASSUME NEW t \in Threads,
             \/ InserirBucket(t) \/ InserirPhase(t) \/ RemoverAbsent(t) \/ RemoverPhase(t)
             \/ RemoverBucket(t)
      PROVE  Counts'
  <2>1. /\ lock = t /\ pc[t] \in {"inserir", "setdefault", "remover", "drop_slot", "drop_bucket"}
        /\ lock' = t \/ lock' = NoOne
        /\ pc'[t] \in {"setdefault", "count", "drop_bucket", "idle"}
        /\ UNCHANGED <<dict, size, nextId>>
    BY <1>1, <1>3 DEF InserirBucket, InserirPhase, RemoverAbsent, RemoverPhase, RemoverBucket, Holds,
       Return, Goto
  <2>2. Inside = pc[t] /\ Inside' \in {pc'[t], "idle"}
    BY <2>1, BancoAssumption DEF Inside
  <2>3. QED
    BY <1>0, <2>1, <2>2, CountsPlain
<1>4. ASSUME NEW t \in Threads, RemoverCount(t) PROVE Counts'
  <2>1. /\ lock = t /\ lock' = t /\ pc[t] = "uncount" /\ pc'[t] = "drop_slot" /\ size' = size - 1
        /\ UNCHANGED <<dict, nextId>>
    BY <1>1, <1>4 DEF RemoverCount, Holds, Goto
  <2>2. Inside = "uncount" /\ Inside' = "drop_slot" /\ Live' = Live
    BY <2>1, BancoAssumption DEF Inside, Live
  <2>3. IsFiniteSet(Live) /\ size = Cardinality(Live) + 1 /\ Cardinality(Live) \in Nat
    BY <1>0, <2>2, FS_CardinalityType DEF Counts
  <2>4. size' \in Nat /\ size' = Cardinality(Live)
    BY <2>1, <2>3
  <2>5. QED
    BY <1>0, <2>1, <2>2, <2>3, <2>4 DEF Counts
<1>5. ASSUME NEW t \in Threads, LimparList(t) PROVE Counts'
  <2>1. lock' = t /\ pc'[t] = "reset" /\ dict' = NoEntity /\ size' = size
    BY <1>1, <1>5 DEF LimparList, Holds, Goto, Becomes
  <2>2. Inside' = "reset" /\ Live' = {}
    BY <2>1, BancoAssumption DEF Inside, Live, NoEntity
  <2>3. QED
    BY <1>0, <2>1, <2>2, FS_EmptySet DEF Counts
<1>6. ASSUME NEW t \in Threads, LimparReset(t) PROVE Counts'
  <2>1. lock = t /\ pc[t] = "reset" /\ lock' = NoOne /\ size' = 0 /\ dict' = dict
    BY <1>6 DEF LimparReset, Holds, Return
  <2>2. Inside = "reset" /\ Inside' = "idle"
    BY <2>1, BancoAssumption DEF Inside
  <2>3. Live' = {}
    BY <1>0, <2>1, <2>2 DEF Counts, Live
  <2>4. QED
    BY <2>1, <2>2, <2>3, FS_EmptySet DEF Counts
<1>7. CASE UNCHANGED vars
  BY <1>0, <1>7 DEF Counts, Live, Inside, vars, thr
<1>8. QED
  BY <1>2, <1>3, <1>4, <1>5, <1>6, <1>7, Cases, <1>0, CountsAside, CountsStore, CountsRemoved,
     CountsNumbered DEF Aside

\* Ids stay different and below _next_id although limpar starts again at 1, and len(), which
\* takes no lock, is off by at most the entity that is being stored or removed.
THEOREM CountersStayRight == Spec => []CountersRight
<1>1. Init => CountInv
  <2> SUFFICES ASSUME Init PROVE CountInv
    OBVIOUS
  <2>1. Live = {} /\ Inside = "idle" /\ size = 0
    BY DEF Init, Live, NoEntity, Inside
  <2>2. Counts
    BY <2>1, FS_EmptySet DEF Counts
  <2>3. QED
    BY <2>2, HeapInit, ReadInit DEF CountInv
<1>2. CountInv /\ [Next]_vars => CountInv'
  BY HeapStep, AgreeStep, CountsStep DEF CountInv
<1>3. CountInv => CountersRight
  <2> SUFFICES ASSUME CountInv PROVE CountersRight
    OBVIOUS
  <2>1. Counts /\ Cardinality(Live) \in Nat
    BY FS_CardinalityType DEF CountInv, Counts
  <2>2. lock = NoOne => Inside = "idle"
    BY DEF Inside
  <2>3. QED
    BY <2>1, <2>2 DEF Counts, CountersRight
<1>4. QED
  BY <1>1, <1>2, <1>3, PTL DEF Spec
-----------------------------------------------------------------------------
(* No object has two places, and none stays empty                          *)

LEMMA DistinctStep ==
  ASSUME HeapInv, Distinct, [Next]_vars PROVE Distinct'
<1>0. HeapType /\ Once(lists, Buckets) /\ Once(dicts, Phases)
  BY DEF HeapInv, Distinct
<1>1. PICK L \in Nat, D \in Nat, S \in Nat : L = Len(lists) /\ D = Len(dicts) /\ S = Len(slots)
  BY <1>0 DEF HeapType
<1>2. ASSUME NEW t \in Threads, InserirBucket(t) PROVE Distinct'
  <2>1. CASE BucketOf(t) = 0
    <3>1. /\ Len(lists') = L /\ Len(dicts') = D + 1 /\ dicts'[D + 1] = NoSlot
          /\ \A d \in 1..D : dicts'[d] = dicts[d]
          /\ lists'[current][Rho(t)] = D + 1
          /\ \A l \in 1..L : \A r \in Buckets :
                l # current \/ r # Rho(t) => lists'[l][r] = lists[l][r]
      BY <1>1, <1>2, <2>1, BucketMade
    <3>2. \A p \in Phases : dicts'[D + 1][p] = 0
      BY <3>1 DEF NoSlot
    <3>3. Once(dicts', Phases)
      BY ONLY <1>0, <1>1, D \in Nat, <3>1, <3>2 DEF Once
    <3>4. \A l \in 1..L : \A r \in Buckets : lists[l][r] # lists'[current][Rho(t)]
      BY <1>0, <1>1, <3>1, Entries
    <3>5. /\ current \in 1..L /\ Rho(t) \in Buckets /\ Len(lists) = L /\ Len(lists') = L
          /\ Once(lists, Buckets)
          /\ \A l \in 1..L : \A r \in Buckets :
                l # current \/ r # Rho(t) => lists'[l][r] = lists[l][r]
      BY <1>0, <1>1, <3>1, Coordinates
    <3>6. Once(lists', Buckets)
      <4>1. PICK c \in 1..L, x \in Buckets : c = current /\ x = Rho(t)
        BY <3>5
      <4>2. /\ \A l \in 1..L : \A r \in Buckets : l # c \/ r # x => lists'[l][r] = lists[l][r]
            /\ \A l \in 1..L : \A r \in Buckets : lists[l][r] # lists'[c][x]
        BY <3>4, <3>5, <4>1
      <4>3. QED
        BY ONLY L \in Nat, c \in 1..L, x \in Buckets, <3>5, <4>2 DEF Once
    <3>7. QED
      BY <3>3, <3>6 DEF Distinct
  <2>2. CASE BucketOf(t) # 0
    BY <1>2, <2>2 DEF InserirBucket, Distinct, Once
  <2>3. QED
    BY <2>1, <2>2
<1>3. ASSUME NEW t \in Threads, InserirPhase(t) PROVE Distinct'
  <2>0. BucketOf(t) # 0 /\ BucketOf(t) \in 1..D /\ lists' = lists /\ Phi(t) \in Phases
    BY <1>1, <1>3, Coordinates DEF HeapInv, Carries, CarriesAt, InserirPhase, Holds
  <2>1. CASE dicts[BucketOf(t)][Phi(t)] = 0
    <3>1. /\ Len(dicts') = D /\ dicts'[BucketOf(t)][Phi(t)] = S + 1
          /\ \A d \in 1..D : \A p \in Phases :
                d # BucketOf(t) \/ p # Phi(t) => dicts'[d][p] = dicts[d][p]
      BY <1>1, <1>3, <2>0, <2>1, SlotMade
    <3>2. \A d \in 1..D : \A p \in Phases : dicts[d][p] # dicts'[BucketOf(t)][Phi(t)]
      BY <1>0, <1>1, <3>1, Entries
    <3>3. Once(dicts', Phases)
      BY ONLY <1>0, <1>1, D \in Nat, <2>0, <3>1, <3>2 DEF Once
    <3>4. QED
      BY <1>0, <2>0, <3>3 DEF Distinct
  <2>2. CASE dicts[BucketOf(t)][Phi(t)] # 0
    BY <1>3, <2>0, <2>2 DEF InserirPhase, SlotIn, Distinct, Once
  <2>3. QED
    BY <2>1, <2>2
<1>4. ASSUME NEW t \in Threads, RemoverPhase(t) PROVE Distinct'
  <2>0. /\ BucketOf(t) # 0 /\ BucketOf(t) \in 1..D /\ Phi(t) \in Phases
        /\ UNCHANGED <<address, current, lists, slots>>
    BY <1>1, <1>4, Coordinates DEF HeapInv, Carries, CarriesAt, RemoverPhase, Holds
  <2>1. CASE DropsSlot(ref[t])
    <3>1. dicts' = [dicts EXCEPT ![BucketOf(t)][Phi(t)] = 0]
      BY <1>4, <2>1 DEF RemoverPhase
    <3>2. /\ Len(dicts') = D /\ dicts'[BucketOf(t)][Phi(t)] = 0
          /\ \A d \in 1..D : \A p \in Phases :
                d # BucketOf(t) \/ p # Phi(t) => dicts'[d][p] = dicts[d][p]
      BY <1>1, <2>0, <3>1, SlotDropped
    <3>3. Once(dicts', Phases)
      BY ONLY <1>0, <1>1, L \in Nat, D \in Nat, <2>0, <3>2 DEF Once
    <3>4. QED
      BY <1>0, <2>0, <3>3 DEF Distinct
  <2>2. CASE ~DropsSlot(ref[t])
    BY <1>4, <2>0, <2>2 DEF RemoverPhase, Distinct, Once
  <2>3. QED
    BY <2>1, <2>2
<1>5. ASSUME NEW t \in Threads, RemoverBucket(t) PROVE Distinct'
  <2>0. current \in 1..L /\ Rho(t) \in Buckets /\ UNCHANGED <<address, current, dicts, slots>>
    BY <1>1, <1>5, Coordinates DEF RemoverBucket
  <2>1. CASE DropsBucket(BucketOf(t))
    <3>1. lists' = [lists EXCEPT ![current][Rho(t)] = 0]
      BY <1>5, <2>1 DEF RemoverBucket
    <3>2. /\ Len(lists') = L /\ lists'[current][Rho(t)] = 0
          /\ \A l \in 1..L : \A r \in Buckets :
                l # current \/ r # Rho(t) => lists'[l][r] = lists[l][r]
      BY <1>1, <2>0, <3>1, BucketDropped
    <3>3. Once(lists', Buckets)
      BY ONLY <1>0, <1>1, L \in Nat, D \in Nat, <2>0, <3>2 DEF Once
    <3>4. QED
      BY <1>0, <2>0, <3>3 DEF Distinct
  <2>2. CASE ~DropsBucket(BucketOf(t))
    BY <1>5, <2>0, <2>2 DEF RemoverBucket, Distinct, Once
  <2>3. QED
    BY <2>1, <2>2
<1>6. ASSUME NEW t \in Threads, LimparList(t) PROVE Distinct'
  <2>1. /\ Len(lists') = L + 1 /\ lists'[L + 1] = NoBucket /\ \A l \in 1..L : lists'[l] = lists[l]
    BY <1>1, <1>6, ListMade
  <2>2. \A r \in Buckets : lists'[L + 1][r] = 0
    BY <2>1 DEF NoBucket
  <2>3. Once(lists', Buckets)
    <3>1. Once(lists, Buckets) /\ Len(lists) = L
      BY ONLY <1>0, <1>1
    <3>2. \A l, m \in 1..L : \A r, v \in Buckets :
             lists[l][r] = lists[m][v] /\ lists[l][r] # 0 => l = m /\ r = v
      BY ONLY <3>1, Zenon DEF Once
    <3>3. ASSUME NEW l \in 1..(L + 1), NEW m \in 1..(L + 1), NEW r \in Buckets, NEW v \in Buckets,
                 lists'[l][r] = lists'[m][v], lists'[l][r] # 0
          PROVE  l = m /\ r = v
      <4>1. l # L + 1 /\ m # L + 1
        BY ONLY <2>2, <3>3, Zenon
      <4>2. l \in 1..L /\ m \in 1..L
        BY ONLY L \in Nat, <3>3, <4>1
      <4>3. lists[l][r] = lists[m][v] /\ lists[l][r] # 0
        BY ONLY <2>1, <3>3, <4>2, Zenon
      <4>4. QED
        BY ONLY <3>2, <4>2, <4>3
    <3>4. QED
      BY ONLY <2>1, <3>3 DEF Once
  <2>4. dicts' = dicts
    BY <1>6 DEF LimparList
  <2>5. QED
    BY <1>0, <2>3, <2>4 DEF Distinct
<1>7. ASSUME UNCHANGED <<lists, dicts>> PROVE Distinct'
  BY <1>7 DEF Distinct, Once
<1>8. QED
  <2>1. ASSUME NEW t \in Threads, Aside(t) \/ InserirStore(t) \/ RemoverEntity(t)
        PROVE  UNCHANGED <<lists, dicts>>
    BY <2>1, AsideHeap DEF heap, InserirStore, RemoverEntity
  <2>2. UNCHANGED vars => UNCHANGED <<lists, dicts>>
    BY DEF vars, heap
  <2>3. QED
    BY <1>2, <1>3, <1>4, <1>5, <1>6, <1>7, <2>1, <2>2, Cases

\* The only bucket or slot that is empty is the one of the thread that holds the lock.
LEMMA HuskOfHolder ==
  ASSUME HeapInv, NoHusk, NEW t \in Threads, pc[t] \in Writing, NEW r \in Buckets,
         lists[current][r] # 0
  PROVE  /\ dicts[lists[current][r]] = NoSlot =>
               pc[t] \in {"setdefault", "drop_bucket"} /\ Rho(t) = r
         /\ \A p \in Phases :
               dicts[lists[current][r]][p] # 0 /\ slots[dicts[lists[current][r]][p]] = NoEntity =>
                  pc[t] \in {"count", "store", "uncount", "drop_slot"} /\ Rho(t) = r /\ Phi(t) = p
<1>1. \A u \in Threads : pc[u] \in Writing => u = t
  BY DEF HeapInv, Mutual
<1>2. \A u \in Threads : pc[u] \in {"setdefault", "drop_bucket"} => u = t
  BY <1>1 DEF Writing
<1>3. \A u \in Threads : pc[u] \in {"count", "store", "uncount", "drop_slot"} => u = t
  BY <1>1 DEF Writing
<1>4. QED
  BY <1>2, <1>3 DEF NoHusk, HuskAt, EditsBucket, EditsSlot

\* Steps that leave the heap alone, and the thread that edits it where it is
LEMMA HuskStill ==
  ASSUME NoHusk, UNCHANGED <<address, heap>>,
         \A u \in Threads :
            /\ pc[u] \in {"setdefault", "drop_bucket"} =>
                  pc'[u] \in {"setdefault", "drop_bucket"} /\ key'[u] = key[u]
            /\ pc[u] \in {"count", "store", "uncount", "drop_slot"} =>
                  pc'[u] \in {"count", "store", "uncount", "drop_slot"} /\ key'[u] = key[u]
  PROVE  NoHusk'
<1>1. UNCHANGED <<address, current, lists, dicts, slots>>
  BY DEF heap
<1>2. ASSUME NEW r, EditsBucket({"setdefault", "drop_bucket"}, r)
      PROVE  EditsBucket({"setdefault", "drop_bucket"}, r)'
  BY <1>1, <1>2 DEF EditsBucket, Rho
<1>3. ASSUME NEW r, NEW p, EditsSlot({"count", "store", "uncount", "drop_slot"}, r, p)
      PROVE  EditsSlot({"count", "store", "uncount", "drop_slot"}, r, p)'
  BY <1>1, <1>3 DEF EditsSlot, Rho, Phi
<1>4. QED
  BY <1>1, <1>2, <1>3 DEF NoHusk, HuskAt

LEMMA Others ==
  ASSUME NEW X, NEW Y, NEW s \in Seq([X -> Y]), NEW i \in 1..Len(s), NEW x \in X, NEW y,
         NEW n, n = [s EXCEPT ![i][x] = y]
  PROVE  \A j \in 1..Len(s) : j # i => n[j] = s[j]
<1>1. s \in [1..Len(s) -> [X -> Y]]
  OBVIOUS
<1>2. QED
  BY <1>1

LEMMA HuskAside ==
  ASSUME HeapInv, NoHusk, NEW t \in Threads, Aside(t) PROVE NoHusk'
<1>0. /\ UNCHANGED <<address, heap>>
      /\ pc \in [Threads -> {"idle", "lock"} \cup Reading \cup Writing] /\ key \in [Threads -> Keys]
  BY AsideHeap DEF HeapInv, ThreadType
<1>1. CASE InserirCount(t) \/ RemoverCount(t)
  <2>1. /\ pc[t] \in {"count", "uncount"} /\ pc'[t] \in {"store", "drop_slot"} /\ key' = key
        /\ \A u \in Threads \ {t} : pc'[u] = pc[u]
    BY <1>0, <1>1 DEF InserirCount, RemoverCount, Holds, Goto
  <2>2. QED
    BY <1>0, <2>1, HuskStill
<1>2. CASE RemoverAbsent(t) \/ LimparReset(t)
  <2>1. /\ pc[t] \in {"remover", "reset"} /\ key' = key
        /\ \A u \in Threads \ {t} : pc'[u] = pc[u]
    BY <1>0, <1>2 DEF RemoverAbsent, LimparReset, Holds, Return, Goto
  <2>2. QED
    BY <1>0, <2>1, HuskStill
<1>3. CASE ~(InserirCount(t) \/ RemoverCount(t) \/ RemoverAbsent(t) \/ LimparReset(t))
  <2>1. /\ pc[t] \in {"idle", "lock"} \cup Reading
        /\ \A u \in Threads \ {t} : pc'[u] = pc[u] /\ key'[u] = key[u]
    BY <1>0, <1>3 DEF Aside, Begin, Acquire, BuscarList, BuscarBucket, BuscarPhase, Descend,
       BuscarEntity, Goto, Reading
  <2>2. pc[t] \notin {"setdefault", "drop_bucket", "count", "store", "uncount", "drop_slot"}
    BY <2>1 DEF Reading
  <2>3. QED
    BY <1>0, <2>1, <2>2, HuskStill
<1>4. QED
  BY <1>1, <1>2, <1>3

LEMMA HuskInserirBucket ==
  ASSUME HeapInv, NoHusk, NEW t \in Threads, InserirBucket(t) PROVE NoHusk'
<1>0. /\ pc[t] = "inserir" /\ pc'[t] = "setdefault" /\ key' = key
      /\ UNCHANGED <<address, current, slots>> /\ HeapType
  BY DEF InserirBucket, Holds, Goto, HeapInv, ThreadType
<1>1. PICK D \in Nat : D = Len(dicts)
  BY Coordinates
<1>2. ASSUME NEW r \in Buckets, lists[current][r] # 0
      PROVE  /\ dicts[lists[current][r]] # NoSlot
             /\ \A p \in Phases : dicts[lists[current][r]][p] # 0 =>
                   slots[dicts[lists[current][r]][p]] # NoEntity
  BY <1>0, <1>2, HuskOfHolder DEF Writing
<1>3. CASE BucketOf(t) # 0
  <2>1. UNCHANGED <<lists, dicts>>
    BY <1>3 DEF InserirBucket
  <2>2. QED
    BY <1>0, <1>2, <2>1 DEF NoHusk, HuskAt
<1>4. CASE BucketOf(t) = 0
  <2>1. /\ dicts'[D + 1] = NoSlot /\ lists'[current][Rho(t)] = D + 1
        /\ \A d \in 1..D : dicts'[d] = dicts[d]
        /\ \A r \in Buckets : r # Rho(t) => lists'[current][r] = lists[current][r]
    BY <1>1, <1>4, BucketMade, Coordinates
  <2>3. ASSUME NEW r \in Buckets, r = Rho(t) PROVE HuskAt(r)'
    <3>1. EditsBucket({"setdefault", "drop_bucket"}, r)'
      BY <1>0, <2>3 DEF EditsBucket, Rho
    <3>2. \A p \in Phases : dicts'[lists'[current'][r]][p] = 0
      BY <1>0, <2>1, <2>3 DEF NoSlot
    <3>3. QED
      BY <3>1, <3>2 DEF HuskAt
  <2>4. ASSUME NEW r \in Buckets, r # Rho(t) PROVE HuskAt(r)'
    <3>1. lists'[current'][r] = lists[current][r] /\ lists[current][r] \in 0..D
      BY <1>0, <1>1, <2>1, <2>4, Entries DEF HeapType
    <3>2. CASE lists[current][r] = 0
      BY <3>1, <3>2 DEF HuskAt
    <3>3. CASE lists[current][r] \in 1..D
      <4>1. dicts'[lists[current][r]] = dicts[lists[current][r]]
        BY <2>1, <3>3
      <4>2. QED
        BY <1>0, <1>2, <3>1, <3>3, <4>1 DEF HuskAt
    <3>4. QED
      BY <3>1, <3>2, <3>3
  <2>5. QED
    BY <2>3, <2>4 DEF NoHusk
<1>5. QED
  BY <1>3, <1>4

LEMMA HuskInserirPhase ==
  ASSUME HeapInv, Distinct, NoHusk, NEW t \in Threads, InserirPhase(t) PROVE NoHusk'
<1>0. /\ pc[t] = "setdefault" /\ pc'[t] = "count" /\ key' = key /\ CarriesAt(t)
      /\ UNCHANGED <<address, current, lists>> /\ HeapType /\ dicts \in Seq([Phases -> Nat])
  <2>1. pc[t] = "setdefault" /\ key' = key /\ UNCHANGED <<address, current, lists>>
    BY DEF InserirPhase, Holds
  <2>2. HeapType /\ ThreadType /\ CarriesAt(t)
    BY DEF HeapInv, Carries
  <2>3. t \in DOMAIN pc
    BY <2>2 DEF ThreadType
  <2>4. pc' = [pc EXCEPT ![t] = "count"]
    BY DEF InserirPhase, Goto
  <2>5. pc'[t] = "count"
    BY ONLY <2>3, <2>4, Zenon
  <2>6. dicts \in Seq([Phases -> Nat])
    BY <2>2, Zenon DEF HeapType
  <2>7. QED
    BY <2>1, <2>2, <2>5, <2>6
<1>1. PICK S \in Nat, b \in 1..Len(dicts), f \in Phases, w \in Buckets :
         S = Len(slots) /\ b = BucketOf(t) /\ f = Phi(t) /\ w = Rho(t)
  <2>1. /\ Len(slots) \in Nat /\ Len(dicts) \in Nat /\ BucketOf(t) \in 0..Len(dicts)
        /\ Phi(t) \in Phases /\ Rho(t) \in Buckets
    BY Coordinates
  <2>2. BucketOf(t) # 0
    BY <1>0, Zenon DEF CarriesAt
  <2>3. BucketOf(t) \in 1..Len(dicts)
    BY ONLY <2>1, <2>2
  <2>4. QED
    BY ONLY <2>1, <2>3, Zenon
<1>2. ASSUME NEW r \in Buckets, lists[current][r] # 0
      PROVE  /\ dicts[lists[current][r]] = NoSlot => r = w
             /\ \A p \in Phases : dicts[lists[current][r]][p] # 0 =>
                   slots[dicts[lists[current][r]][p]] # NoEntity
  BY <1>0, <1>1, <1>2, HuskOfHolder DEF Writing
<1>3. /\ lists[current][w] = b /\ current \in 1..Len(lists)
      /\ \A r \in Buckets : lists[current][r] \in 0..Len(dicts)
      /\ \A r \in Buckets : r # w => lists[current][r] # b
  <2>1. lists[current][w] = b /\ current \in 1..Len(lists)
    BY <1>1, Coordinates DEF BucketOf
  <2>2. \A r \in Buckets : lists[current][r] \in 0..Len(dicts)
    BY <1>0, <2>1, Entries
  <2>3. \A r \in Buckets : r # w => lists[current][r] # b
    BY <2>1, <1>1 DEF Distinct, Once
  <2>4. QED
    BY <2>1, <2>2, <2>3
<1>4. CASE dicts[b][f] # 0
  <2>1. UNCHANGED <<dicts, slots>>
    BY <1>1, <1>4 DEF InserirPhase, SlotIn
  <2>2. ASSUME NEW r \in Buckets PROVE HuskAt(r)'
    <3>1. CASE r = w
      <4>1. dicts[b] # NoSlot
        BY <1>4 DEF NoSlot
      <4>2. QED
        BY <1>0, <1>2, <1>3, <2>1, <3>1, <4>1 DEF HuskAt
    <3>2. CASE r # w
      BY <1>0, <1>2, <2>1, <3>2 DEF HuskAt
    <3>3. QED
      BY <3>1, <3>2
  <2>3. QED
    BY <2>2 DEF NoHusk
<1>5. CASE dicts[b][f] = 0
  <2>1. /\ slots'[S + 1] = NoEntity /\ dicts'[b][f] = S + 1
        /\ \A s \in 1..S : slots'[s] = slots[s]
        /\ \A d \in 1..Len(dicts) : \A p \in Phases :
              d # b \/ p # f => dicts'[d][p] = dicts[d][p]
    BY SMTT(30), <1>1, <1>5, SlotMade
  <2>2. \A d \in 1..Len(dicts) : \A p \in Phases : dicts[d][p] \in 0..S
    BY <1>0, <1>1, Entries
  <2>3. \A d \in 1..Len(dicts) : d # b => dicts'[d] = dicts[d]
    <3>1. dicts' = [dicts EXCEPT ![b][f] = Len(slots')]
      BY <1>1, <1>5 DEF InserirPhase, SlotIn
    <3>2. QED
      BY ONLY <1>0, <3>1, b \in 1..Len(dicts), f \in Phases, Others
  <2>4. ASSUME NEW r \in Buckets, r = w PROVE HuskAt(r)'
    <3>1. dicts'[b] # NoSlot
      BY <2>1 DEF NoSlot
    <3>2. EditsSlot({"count", "store", "uncount", "drop_slot"}, r, f)'
      BY <1>0, <1>1, <2>4 DEF EditsSlot, Rho, Phi
    <3>3. ASSUME NEW p \in Phases, p # f, dicts'[b][p] # 0 PROVE slots'[dicts'[b][p]] # NoEntity
      <4>1. dicts'[b][p] = dicts[b][p] /\ dicts[b][p] \in 1..S
        BY <2>1, <2>2, <3>3
      <4>2. slots[dicts[b][p]] # NoEntity
        BY <1>2, <1>3, <3>3, <4>1
      <4>3. QED
        BY <2>1, <4>1, <4>2
    <3>4. lists'[current'][r] = b
      BY <1>0, <1>3, <2>4
    <3>5. QED
      BY <3>1, <3>2, <3>3, <3>4 DEF HuskAt
  <2>5. ASSUME NEW r \in Buckets, r # w PROVE HuskAt(r)'
    <3>1. lists'[current'][r] = lists[current][r] /\ lists[current][r] # b
      BY <1>0, <1>3, <2>5
    <3>2. PICK d \in 0..Len(dicts) : d = lists[current][r]
      BY <1>3
    <3>3. CASE d = 0
      BY <3>1, <3>2, <3>3 DEF HuskAt
    <3>4. CASE d \in 1..Len(dicts)
      <4>1. dicts'[d] = dicts[d] /\ dicts[d] # NoSlot
        BY <1>2, <2>3, <2>5, <3>1, <3>2, <3>4
      <4>2. ASSUME NEW p \in Phases, dicts'[d][p] # 0 PROVE slots'[dicts'[d][p]] # NoEntity
        <5>1. dicts[d][p] \in 1..S /\ slots[dicts[d][p]] # NoEntity
          BY <1>2, <2>2, <3>2, <3>4, <4>1, <4>2
        <5>2. QED
          BY <2>1, <4>1, <5>1
      <4>3. QED
        BY <3>1, <3>2, <4>1, <4>2 DEF HuskAt
    <3>5. QED
      BY <3>3, <3>4
  <2>6. QED
    BY <2>4, <2>5 DEF NoHusk
<1>6. QED
  BY <1>4, <1>5

\* One entity changes: slots that are empty afterwards were so before, or are this one.
LEMMA HuskInserirStore ==
  ASSUME HeapInv, NoHusk, NEW t \in Threads, InserirStore(t) PROVE NoHusk'
<1>0. /\ pc[t] = "store" /\ CarriesAt(t) /\ HeapType /\ slots \in Seq([Keys -> Values])
      /\ UNCHANGED <<address, current, lists, dicts>> /\ key[t] \in Keys
  BY DEF InserirStore, Holds, HeapInv, ThreadType, Carries, HeapType
<1>1. PICK s \in 1..Len(slots), z \in Keys : s = ref[t] /\ z = key[t]
  BY <1>0, Coordinates DEF CarriesAt
<1>2. slots' = [slots EXCEPT ![s][z] = ent[t]] /\ ent[t] # None /\ ent[t] \in Values
  BY <1>0, <1>1, Values0 DEF InserirStore, CarriesAt, Values
<1>3. slots'[s] # NoEntity
  <2>1. slots'[s][z] = ent[t]
    BY <1>0, <1>2
  <2>2. QED
    BY <1>2, <2>1 DEF NoEntity
<1>4. \A i \in 1..Len(slots) : i # s => slots'[i] = slots[i]
  BY ONLY <1>0, <1>2, s \in 1..Len(slots), z \in Keys, Others
<1>5. ASSUME NEW r \in Buckets PROVE HuskAt(r)'
  <2>1. PICK d \in 0..Len(dicts) : d = lists[current][r] /\ d = lists'[current'][r]
    BY <1>0, Entries DEF HeapType
  <2>2. CASE d = 0
    BY <2>1, <2>2 DEF HuskAt
  <2>3. CASE d \in 1..Len(dicts)
    <3>1. dicts[d] # NoSlot
      BY <1>0, <2>1, <2>3, HuskOfHolder DEF Writing
    <3>2. ASSUME NEW p \in Phases, dicts[d][p] # 0 PROVE slots'[dicts[d][p]] # NoEntity
      <4>1. PICK i \in 1..Len(slots) : i = dicts[d][p]
        BY <1>0, <2>3, <3>2, Entries
      <4>2. CASE i = s
        BY <1>3, <4>1, <4>2
      <4>3. CASE i # s
        <5>1. ~(Rho(t) = r /\ Phi(t) = p)
          BY <1>0, <1>1, <2>1, <4>1, <4>3 DEF CarriesAt, BucketOf
        <5>2. slots[i] # NoEntity
          BY <1>0, <2>1, <2>3, <3>2, <4>1, <5>1, HuskOfHolder DEF Writing
        <5>3. QED
          BY <1>4, <4>1, <4>3, <5>2
      <4>4. QED
        BY <4>2, <4>3
    <3>3. QED
      BY <1>0, <2>1, <3>1, <3>2 DEF HuskAt
  <2>4. QED
    BY <2>2, <2>3
<1>6. QED
  BY <1>5 DEF NoHusk

LEMMA HuskRemoverEntity ==
  ASSUME HeapInv, Distinct, NoHusk, NEW t \in Threads, RemoverEntity(t) PROVE NoHusk'
<1>0. /\ pc[t] = "remover" /\ pc'[t] = "uncount" /\ HeapType /\ slots \in Seq([Keys -> Values])
      /\ UNCHANGED <<address, current, lists, dicts, key>> /\ key[t] \in Keys
  BY DEF RemoverEntity, Holds, Goto, HeapInv, ThreadType, HeapType
<1>1. EntityIn(SlotIn(BucketOf(t), t), key[t]) # None
  BY DEF RemoverEntity
<1>2. BucketOf(t) # 0 /\ SlotIn(BucketOf(t), t) = dicts[BucketOf(t)][Phi(t)]
  BY <1>1 DEF EntityIn, SlotIn
<1>3. PICK s \in 1..Len(slots), z \in Keys, b \in 1..Len(dicts), f \in Phases, w \in Buckets :
         /\ s = SlotIn(BucketOf(t), t) /\ z = key[t] /\ b = BucketOf(t) /\ f = Phi(t) /\ w = Rho(t)
  BY <1>1, <1>2, Coordinates DEF EntityIn
<1>4. slots' = [slots EXCEPT ![s][z] = None] /\ s = dicts[b][f] /\ b = lists[current][w]
  BY <1>2, <1>3 DEF RemoverEntity, BucketOf
<1>5. \A i \in 1..Len(slots) : i # s => slots'[i] = slots[i]
  BY ONLY <1>0, <1>4, s \in 1..Len(slots), z \in Keys, Others
<1>6. ASSUME NEW r \in Buckets PROVE HuskAt(r)'
  <2>1. PICK d \in 0..Len(dicts) : d = lists[current][r] /\ d = lists'[current'][r]
    BY <1>0, Entries DEF HeapType
  <2>2. CASE d = 0
    BY <2>1, <2>2 DEF HuskAt
  <2>3. CASE d \in 1..Len(dicts)
    <3>1. dicts[d] # NoSlot
      BY <1>0, <2>1, <2>3, HuskOfHolder DEF Writing
    <3>2. ASSUME NEW p \in Phases, dicts[d][p] # 0, slots'[dicts[d][p]] = NoEntity
          PROVE  EditsSlot({"count", "store", "uncount", "drop_slot"}, r, p)'
      <4>1. PICK i \in 1..Len(slots) : i = dicts[d][p]
        BY <1>0, <2>3, <3>2, Entries
      <4>2. slots[i] # NoEntity
        BY <1>0, <2>1, <2>3, <3>2, <4>1, HuskOfHolder DEF Writing
      <4>3. i = s
        BY <1>5, <3>2, <4>1, <4>2
      <4>4. d = b /\ p = f
        <5>1. dicts[d][p] = dicts[b][f] /\ dicts[d][p] # 0
          BY <1>4, <4>1, <4>3
        <5>2. Once(dicts, Phases)
          BY DEF Distinct
        <5>3. QED
          BY ONLY <2>3, b \in 1..Len(dicts), p \in Phases, f \in Phases, <5>1, <5>2 DEF Once
      <4>5. /\ current \in 1..Len(lists) /\ Once(lists, Buckets)
            /\ lists[current][r] = lists[current][w] /\ lists[current][r] # 0
        BY <1>0, <1>4, <2>1, <2>3, <4>4 DEF HeapType, Distinct
      <4>6. r = w
        BY ONLY <4>5, r \in Buckets, w \in Buckets DEF Once
      <4>7. QED
        BY <1>0, <1>3, <4>4, <4>6 DEF EditsSlot, Rho, Phi
    <3>3. QED
      BY <1>0, <2>1, <3>1, <3>2 DEF HuskAt
  <2>4. QED
    BY <2>2, <2>3
<1>7. QED
  BY <1>6 DEF NoHusk

LEMMA HuskRemoverPhase ==
  ASSUME HeapInv, Distinct, NoHusk, NEW t \in Threads, RemoverPhase(t) PROVE NoHusk'
<1>0. /\ pc[t] = "drop_slot" /\ pc'[t] = "drop_bucket" /\ CarriesAt(t) /\ HeapType
      /\ dicts \in Seq([Phases -> Nat]) /\ UNCHANGED <<address, current, lists, slots, key>>
  BY DEF RemoverPhase, Holds, Goto, HeapInv, ThreadType, Carries, HeapType
<1>1. PICK b \in 1..Len(dicts), f \in Phases, w \in Buckets :
         b = BucketOf(t) /\ f = Phi(t) /\ w = Rho(t)
  BY <1>0, Coordinates DEF CarriesAt
<1>2. ASSUME NEW r \in Buckets, lists[current][r] # 0
      PROVE  /\ dicts[lists[current][r]] # NoSlot
             /\ \A p \in Phases :
                   dicts[lists[current][r]][p] # 0 /\ slots[dicts[lists[current][r]][p]] = NoEntity
                      => r = w /\ p = f
  BY <1>0, <1>1, <1>2, HuskOfHolder DEF Writing
<1>3. lists[current][w] = b /\ dicts[b][f] = ref[t]
  BY <1>0, <1>1 DEF BucketOf, CarriesAt
<1>4. CASE ~DropsSlot(ref[t])
  <2>1. dicts' = dicts /\ slots[ref[t]] # NoEntity
    BY <1>4 DEF RemoverPhase, DropsSlot
  <2>2. ASSUME NEW r \in Buckets PROVE HuskAt(r)'
    <3>1. CASE r = w
      BY <1>0, <1>2, <1>3, <2>1, <3>1 DEF HuskAt
    <3>2. CASE r # w
      BY <1>0, <1>2, <2>1, <3>2 DEF HuskAt
    <3>3. QED
      BY <3>1, <3>2
  <2>3. QED
    BY <2>2 DEF NoHusk
<1>5. CASE DropsSlot(ref[t])
  <2>1. dicts' = [dicts EXCEPT ![b][f] = 0]
    BY <1>1, <1>5 DEF RemoverPhase
  <2>2. \A d \in 1..Len(dicts) : d # b => dicts'[d] = dicts[d]
    BY ONLY <1>0, <2>1, b \in 1..Len(dicts), f \in Phases, Others
  <2>3. /\ dicts'[b][f] = 0
        /\ \A p \in Phases : p # f => dicts'[b][p] = dicts[b][p]
    <3>1. 0 \in Nat
      OBVIOUS
    <3>2. QED
      BY ONLY <1>0, <2>1, <3>1, b \in 1..Len(dicts), f \in Phases, UpdateNat
  <2>4. ASSUME NEW r \in Buckets, r = w PROVE HuskAt(r)'
    <3>1. EditsBucket({"setdefault", "drop_bucket"}, r)'
      BY <1>0, <1>1, <2>4 DEF EditsBucket, Rho
    <3>2. ASSUME NEW p \in Phases, dicts'[b][p] # 0 PROVE slots[dicts'[b][p]] # NoEntity
      BY <1>2, <1>3, <2>3, <3>2
    <3>3. lists'[current'][r] = b
      BY <1>0, <1>3, <2>4
    <3>4. QED
      BY <1>0, <3>1, <3>2, <3>3 DEF HuskAt
  <2>5. ASSUME NEW r \in Buckets, r # w PROVE HuskAt(r)'
    <3>1. PICK d \in 0..Len(dicts) : d = lists[current][r] /\ d = lists'[current'][r]
      BY <1>0, Entries DEF HeapType
    <3>2. CASE d = 0
      BY <3>1, <3>2 DEF HuskAt
    <3>3. CASE d \in 1..Len(dicts)
      <4>1. d # b
        <5>1. current \in 1..Len(lists) /\ Once(lists, Buckets)
          BY <1>0 DEF HeapType, Distinct
        <5>2. ASSUME d = b PROVE FALSE
          <6>1. lists[current][r] = lists[current][w] /\ lists[current][r] # 0
            BY <1>3, <3>1, <3>3, <5>2
          <6>2. QED
            BY ONLY <2>5, <5>1, <6>1, r \in Buckets, w \in Buckets DEF Once
        <5>3. QED
          BY <5>2
      <4>2. dicts'[d] = dicts[d]
        BY <2>2, <3>3, <4>1
      <4>3. QED
        BY <1>0, <1>2, <2>5, <3>1, <3>3, <4>2 DEF HuskAt
    <3>4. QED
      BY <3>2, <3>3
  <2>6. QED
    BY <2>4, <2>5 DEF NoHusk
<1>6. QED
  BY <1>4, <1>5

LEMMA HuskRemoverBucket ==
  ASSUME HeapInv, NoHusk, NEW t \in Threads, RemoverBucket(t) PROVE NoHusk'
<1>0. /\ pc[t] = "drop_bucket" /\ HeapType /\ lists \in Seq([Buckets -> Nat])
      /\ UNCHANGED <<address, current, dicts, slots>>
  BY DEF RemoverBucket, Holds, HeapInv, HeapType
<1>1. PICK w \in Buckets, c \in 1..Len(lists) : w = Rho(t) /\ c = current
  BY Coordinates
<1>2. ASSUME NEW r \in Buckets, lists[c][r] # 0
      PROVE  /\ dicts[lists[c][r]] = NoSlot => r = w
             /\ \A p \in Phases : dicts[lists[c][r]][p] # 0 =>
                   slots[dicts[lists[c][r]][p]] # NoEntity
  BY <1>0, <1>1, <1>2, HuskOfHolder DEF Writing
<1>3. CASE ~DropsBucket(BucketOf(t))
  <2>1. lists' = lists /\ dicts[lists[c][w]] # NoSlot
    BY <1>1, <1>3 DEF RemoverBucket, DropsBucket, BucketOf
  <2>2. ASSUME NEW r \in Buckets PROVE HuskAt(r)'
    BY <1>0, <1>1, <1>2, <2>1 DEF HuskAt
  <2>3. QED
    BY <2>2 DEF NoHusk
<1>4. CASE DropsBucket(BucketOf(t))
  <2>1. lists' = [lists EXCEPT ![c][w] = 0]
    BY <1>1, <1>4 DEF RemoverBucket
  <2>2. /\ lists'[c][w] = 0
        /\ \A r \in Buckets : r # w => lists'[c][r] = lists[c][r]
    <3>1. 0 \in Nat
      OBVIOUS
    <3>2. QED
      BY ONLY <1>0, <2>1, <3>1, c \in 1..Len(lists), w \in Buckets, UpdateNat
  <2>3. ASSUME NEW r \in Buckets PROVE HuskAt(r)'
    <3>1. CASE r = w
      BY <1>0, <1>1, <2>2, <3>1 DEF HuskAt
    <3>2. CASE r # w
      BY <1>0, <1>1, <1>2, <2>2, <3>2 DEF HuskAt
    <3>3. QED
      BY <3>1, <3>2
  <2>4. QED
    BY <2>3 DEF NoHusk
<1>5. QED
  BY <1>3, <1>4

LEMMA HuskLimparList ==
  ASSUME HeapInv, NEW t \in Threads, LimparList(t) PROVE NoHusk'
<1>1. lists'[current'] = NoBucket
  BY ListMade
<1>2. ASSUME NEW r \in Buckets PROVE HuskAt(r)'
  BY <1>1 DEF HuskAt, NoBucket
<1>3. QED
  BY <1>2 DEF NoHusk

LEMMA HuskStep ==
  ASSUME HeapInv, Distinct, NoHusk, [Next]_vars PROVE NoHusk'
<1>1. CASE UNCHANGED vars
  <2>1. UNCHANGED <<address, heap, pc, key>>
    BY <1>1 DEF vars, thr
  <2>2. QED
    BY <2>1, HuskStill
<1>2. QED
  BY <1>1, Cases, HuskAside, HuskInserirBucket, HuskInserirPhase, HuskInserirStore,
     HuskRemoverEntity, HuskRemoverPhase, HuskRemoverBucket, HuskLimparList

LEMMA SeqOf == ASSUME NEW T, NEW q, Len(q) \in Nat, q \in [1..Len(q) -> T] PROVE q \in Seq(T)
  OBVIOUS

\* The sequences of objects, with the ranges that TypeOK gives their entries
LEMMA Ranges ==
  ASSUME NEW X, NEW q \in Seq([X -> Nat]), NEW m \in Nat,
         \A l \in 1..Len(q) : \A r \in X : q[l][r] <= m
  PROVE  q \in Seq([X -> 0..m])
<1>1. Len(q) \in Nat /\ q \in [1..Len(q) -> [X -> Nat]]
  OBVIOUS
<1>2. ASSUME NEW l \in 1..Len(q) PROVE q[l] \in [X -> 0..m]
  <2>1. q[l] \in [X -> Nat]
    BY <1>1
  <2>2. \A r \in X : q[l][r] \in 0..m
    BY <2>1
  <2>3. QED
    BY <2>1, <2>2
<1>3. q \in [1..Len(q) -> [X -> 0..m]]
  BY <1>1, <1>2
<1>4. QED
  BY ONLY <1>1, <1>3, SeqOf

LEMMA Typed ==
  ASSUME HeapInv, size \in Nat PROVE TypeOK
<1>1. HeapType /\ ThreadType /\ Len(dicts) \in Nat /\ Len(slots) \in Nat
  BY DEF HeapInv, HeapType
<1>2. lists \in Seq([Buckets -> 0..Len(dicts)])
  <2>1. PICK D \in Nat : D = Len(dicts)
    BY <1>1
  <2>2. lists \in Seq([Buckets -> Nat]) /\ \A l \in 1..Len(lists) : \A r \in Buckets : lists[l][r] <= D
    BY <1>1, <2>1 DEF HeapType
  <2>3. lists \in Seq([Buckets -> 0..D])
    BY ONLY <2>2, D \in Nat, Ranges
  <2>4. QED
    BY <2>1, <2>3
<1>3. dicts \in Seq([Phases -> 0..Len(slots)])
  <2>1. PICK S \in Nat : S = Len(slots)
    BY <1>1
  <2>2. dicts \in Seq([Phases -> Nat]) /\ \A d \in 1..Len(dicts) : \A p \in Phases : dicts[d][p] <= S
    BY <1>1, <2>1 DEF HeapType
  <2>3. dicts \in Seq([Phases -> 0..S])
    BY ONLY <2>2, S \in Nat, Ranges
  <2>4. QED
    BY <2>1, <2>3
<1>4. pc \in [Threads -> {"idle", "lock", "list", "bucket", "phase", "fingerprint", "inserir",
                         "setdefault", "count", "store", "remover", "uncount", "drop_slot",
                         "drop_bucket", "limpar", "reset"}]
  <2> DEFINE W == {"idle", "lock"} \cup Reading \cup Writing
  <2>1. pc \in [Threads -> W]
    BY <1>1 DEF ThreadType
  <2>2. W \subseteq {"idle", "lock", "list", "bucket", "phase", "fingerprint", "inserir",
                     "setdefault", "count", "store", "remover", "uncount", "drop_slot",
                     "drop_bucket", "limpar", "reset"}
    BY DEF Reading, Writing
  <2> HIDE DEF W
  <2>3. QED
    BY <2>1, <2>2
<1>5. /\ address \in [Keys -> [rho : Buckets, phi : Phases]] /\ current \in 1..Len(lists)
      /\ slots \in Seq([Keys -> Entity \cup {None}])
  BY <1>1 DEF HeapType, Values
<1>6. /\ nextId \in Nat /\ lock \in Threads \cup {NoOne} /\ calls \in 0..MaxCalls
      /\ ent \in [Threads -> Entity \cup {None}] /\ dict \in [Keys -> Entity \cup {None}]
  BY <1>1 DEF ThreadType, Values
<1>7. QED
  BY <1>2, <1>3, <1>4, <1>5, <1>6 DEF TypeOK

\* At every step of inserir, remover and limpar the structure holds what a map would, for keys
\* that share buckets and phases in any way, and leaves no empty bucket or slot behind.
THEOREM StructureStaysSound == Spec => []StructureSound
<1> DEFINE Inv == StructInv /\ Counts
<1>1. Init => Inv
  <2> SUFFICES ASSUME Init PROVE Inv
    OBVIOUS
  <2>1. Live = {} /\ Inside = "idle" /\ size = 0
    BY DEF Init, Live, NoEntity, Inside
  <2>2. Counts
    BY <2>1, FS_EmptySet DEF Counts
  <2>3. lists = <<NoBucket>> /\ dicts = <<>> /\ current = 1
    BY DEF Init
  <2>4. Distinct
    BY <2>3 DEF Distinct, Once, NoBucket
  <2>5. NoHusk
    BY <2>3 DEF NoHusk, HuskAt, NoBucket
  <2>6. QED
    BY <2>2, <2>4, <2>5, HeapInit, ReadInit DEF StructInv
<1>2. Inv /\ [Next]_vars => Inv'
  BY HeapStep, AgreeStep, DistinctStep, HuskStep, CountsStep DEF StructInv, CountInv
<1>3. Inv => StructureSound
  <2> SUFFICES ASSUME StructInv, Counts PROVE StructureSound
    OBVIOUS
  <2>1. TypeOK
    BY Typed DEF StructInv, Counts
  <2>2. ASSUME lock = NoOne, NEW t \in Threads
        PROVE  pc[t] \notin {"setdefault", "drop_bucket", "count", "store", "uncount", "drop_slot"}
    BY <2>2, BancoAssumption DEF StructInv, HeapInv, Mutual, Writing
  <2>3. ASSUME lock = NoOne, NEW r \in Buckets, lists[current][r] # 0
        PROVE  /\ dicts[lists[current][r]] # NoSlot
               /\ \A p \in Phases : dicts[lists[current][r]][p] # 0 =>
                     slots[dicts[lists[current][r]][p]] # NoEntity
    BY <2>2, <2>3 DEF StructInv, NoHusk, HuskAt, EditsBucket, EditsSlot
  <2>4. QED
    BY <2>1, <2>3 DEF StructInv, Agree, StructureSound
<1>4. QED
  BY <1>1, <1>2, <1>3, PTL DEF Spec
=============================================================================
