----------------------------- MODULE Index_proofs -----------------------------
(***************************************************************************)
(* Theorems about the two indexes, for any keys, values and hashes, any      *)
(* table sizes and any load limit below one: the Robin Hood table holds      *)
(* what a map would, searches find it, and insertion never overflows.       *)
(*                                                                         *)
(* In ResolutiveIndex the invariant holds between any two turns of a loop.   *)
(* In CompactIndex an operation is one step, and its loops are recursive     *)
(* functions: each is proved to exist (Upto is the induction), and then what *)
(* it returns.  There the argument is about the bodies of the slots, what    *)
(* they say wherever they stand: displacement, growth and backward shift     *)
(* keep the set of bodies, put adds one and takes away the one of the same   *)
(* key, erase takes away one, and a compaction moves the bytes of all.       *)
(***************************************************************************)
EXTENDS ResolutiveIndex, CompactIndex, NaturalsInduction, FiniteSetTheorems, SequenceTheorems, TLAPS

-----------------------------------------------------------------------------
(* ResolutiveIndex: the inductive invariant                                *)

Dom == 0..(cap - 1)

\* The slot at distance d from the start of key k, and the one before slot i
At(k, d) == (Start(k, cap) + d) % cap
Pred(i) == (i + cap - 1) % cap

UsedIn(t) == {i \in DOMAIN t : t[i].used}

TableOf(t, n) ==
    /\ t \in [0..(n - 1) -> SlotType]
    /\ \A i \in UsedIn(t) : t[i].key \in Keys /\ t[i].val \in Vals /\ t[i].dist \in 0..(n - 1)

Ops == [op : {"none", "put", "get", "erase"}, key : Keys \cup {NoVal},
        val : Vals \cup {NoVal}]

\* In every state, also in the middle of an insertion or a backward shift
Robin(t) ==
    \A i \in UsedIn(t) :
        /\ i = At(t[i].key, t[i].dist)
        /\ t[i].dist > 0 => Pred(i) \in UsedIn(t) /\ t[Pred(i)].dist >= t[i].dist - 1

\* The slots S of the table hold the map m.
Holds(t, S, m) ==
    /\ \A i \in S : m[t[i].key] = t[i].val
    /\ \A k \in Keys : m[k] # NoVal => \E i \in S : t[i].key = k
    /\ \A i, j \in S : t[i].key = t[j].key => i = j

\* The table and the entry in hand hold the map m, and no slot that has been passed can
\* have the key of that entry.
Carries(t, c, m) ==
    /\ \A i \in UsedIn(t) : t[i].key # c.key => m[t[i].key] = t[i].val
    /\ m[c.key] = c.val
    /\ \A i \in UsedIn(t) : t[i].key = c.key => t[i].dist >= c.dist
    /\ \A k \in Keys : m[k] # NoVal => k = c.key \/ \E i \in UsedIn(t) : t[i].key = k
    /\ \A i, j \in UsedIn(t) : t[i].key = t[j].key => i = j

\* A map less one key; what of it stood in the first p slots of the old table
Without(m, k) == [m EXCEPT ![k] = NoVal]
Moved(p) ==
    [k \in Keys |-> IF \E j \in UsedIn(old) : j < p /\ old[j].key = k THEN dict[k] ELSE NoVal]

\* What the table will hold when the insertion is over
Goal == IF pos = 0 THEN [dict EXCEPT ![arg.key] = arg.val] ELSE Moved(pos)

Types ==
    /\ TypeOK /\ TableOf(slots, cap) /\ cap \in Nat \ {0, 1}
    /\ records = Cardinality(Used)
    /\ adds + subs <= MaxThreads /\ (pc # "idle" => adds + subs < MaxThreads)
    /\ pc # "idle" => arg.key \in Keys
    /\ pc \in {"insert", "rehash"} => arg.op = "put" /\ arg.val \in Vals
    /\ pc = "find" => arg.op \in {"get", "erase"}
    /\ pc = "shift" => arg.op = "erase"
    /\ pc \notin {"insert", "rehash"} => pos = 0
    /\ pc # "overflow"

\* The old table while it is moved; every entry of the new one has come from it.
Growing ==
    pc = "rehash" \/ pos > 0 =>
        \E n \in 2..cap :
            /\ cap = 2 * n /\ TableOf(old, n) /\ pos <= n
            /\ Holds(old, UsedIn(old), dict)
            /\ records <= pos /\ (pc = "insert" => records < pos)

Contents ==
    /\ pc \in {"idle", "find"} => Holds(slots, Used, dict)
    /\ pc = "shift" => idx \in Used /\ Holds(slots, Used \ {idx}, Without(dict, arg.key))
    /\ pc = "rehash" => Holds(slots, Used, Moved(pos))
    /\ pc = "insert" => Carries(slots, cur, Goal)

\* Where a search or an insertion is
Cursor ==
    /\ pc = "find" =>
          /\ dist < cap /\ idx = At(arg.key, dist)
          /\ \A i \in Used : slots[i].key = arg.key => slots[i].dist >= dist
    /\ pc = "insert" =>
          /\ cur.used /\ cur.key \in Keys /\ cur.val \in Vals /\ cur.dist < cap
          /\ idx = At(cur.key, cur.dist)
          /\ cur.dist > 0 => Pred(idx) \in Used /\ slots[Pred(idx)].dist >= cur.dist - 1
          /\ records < cap

\* The keys of the map
Live == {k \in Keys : dict[k] # NoVal}

Sizes ==
    /\ IsFiniteSet(Live)
    /\ pc # "rehash" /\ pos = 0 => records = Cardinality(Live)
    /\ size = (Cardinality(Live) - adds + subs) % SizeMod

IndexInv == Types /\ Robin(slots) /\ Growing /\ Contents /\ Cursor /\ Sizes

-----------------------------------------------------------------------------
(* Remainders                                                              *)

LEMMA ModRange ==
  ASSUME NEW n \in Nat \ {0}, NEW a \in Int PROVE a % n \in 0..(n - 1)
  OBVIOUS

LEMMA ModWrap ==
  ASSUME NEW n \in Nat \ {0}, NEW a \in Int, 0 <= a, a < 2 * n
  PROVE  a % n = IF a < n THEN a ELSE a - n
  OBVIOUS

LEMMA ModUnique ==
  ASSUME NEW n \in Nat \ {0}, NEW q \in Int, NEW r \in 0..(n - 1), NEW a, a = q * n + r
  PROVE  a % n = r
<1>1. (q * n + r) % n = r
  OBVIOUS
<1>2. QED
  BY <1>1

LEMMA Division ==
  ASSUME NEW n \in Nat \ {0}, NEW a \in Int
  PROVE  \E q \in Int, r \in 0..(n - 1) : a = q * n + r /\ a % n = r
<1>1. a \div n \in Int /\ a % n \in 0..(n - 1) /\ a = (a \div n) * n + (a % n)
  OBVIOUS
<1>2. QED
  BY <1>1, Zenon

LEMMA ModNext ==
  ASSUME NEW n \in Nat \ {0}, NEW q \in Int, NEW r \in 0..(n - 1), NEW b \in Int, NEW c \in Int,
         b = q * n + r + 1, c = r + 1
  PROVE  b % n = c % n
<1>1. CASE c < n
  <2>1. c \in 0..(n - 1) /\ b = q * n + c
    BY <1>1
  <2>2. b % n = c
    BY ONLY <2>1, ModUnique, n \in Nat \ {0}, q \in Int
  <2>3. QED
    BY <2>1, <2>2
<1>2. CASE c = n
  <2>1. PICK p \in Int, z \in 0..(n - 1) : p = q + 1 /\ z = 0
    OBVIOUS
  <2>2. b = p * n + z
    BY <1>2, <2>1
  <2>3. b % n = z
    BY ONLY <2>1, <2>2, ModUnique, n \in Nat \ {0}
  <2>4. c % n = 0
    BY ONLY <1>2, ModWrap, n \in Nat \ {0}, c \in Int
  <2>5. QED
    BY <2>1, <2>3, <2>4
<1>3. QED
  BY <1>1, <1>2

LEMMA ModPrevious ==
  ASSUME NEW n \in Nat \ {0}, NEW q \in Int, NEW r \in 0..(n - 1), NEW b \in Int, NEW c \in Int,
         b = q * n + r - 1, c = r - 1
  PROVE  b % n = c % n
<1>1. CASE r > 0
  <2>1. c \in 0..(n - 1) /\ b = q * n + c
    BY <1>1
  <2>2. b % n = c
    BY ONLY <2>1, ModUnique, n \in Nat \ {0}, q \in Int
  <2>3. QED
    BY <2>1, <2>2
<1>2. CASE r = 0
  <2>1. PICK p \in Int, z \in 0..(n - 1) : p = q - 1 /\ z = n - 1
    OBVIOUS
  <2>2. b = p * n + z
    BY <1>2, <2>1
  <2>3. b % n = z
    BY ONLY <2>1, <2>2, ModUnique, n \in Nat \ {0}
  <2>4. c % n = n - 1
    BY <1>2
  <2>5. QED
    BY <2>1, <2>3, <2>4
<1>3. QED
  BY <1>1, <1>2

\* A counter that wraps may be reduced before or after it is changed by one.
LEMMA ModStep ==
  ASSUME NEW n \in Nat \ {0}, NEW a \in Int, NEW b \in Int
  PROVE  /\ b = a + 1 => ((a % n) + 1) % n = b % n
         /\ b = a - 1 => ((a % n) - 1) % n = b % n
<1>1. PICK q \in Int, r \in 0..(n - 1) : a = q * n + r /\ a % n = r
  BY Division, Zenon
<1>2. ASSUME b = a + 1 PROVE (r + 1) % n = b % n
  <2>1. PICK c \in Int : c = r + 1
    OBVIOUS
  <2>2. b = q * n + r + 1
    BY <1>1, <1>2
  <2>3. b % n = c % n
    BY ONLY <2>1, <2>2, ModNext, n \in Nat \ {0}, q \in Int, r \in 0..(n - 1), b \in Int
  <2>4. QED
    BY <2>1, <2>3
<1>3. ASSUME b = a - 1 PROVE (r - 1) % n = b % n
  <2>1. PICK c \in Int : c = r - 1
    OBVIOUS
  <2>2. b = q * n + r - 1
    BY <1>1, <1>3
  <2>3. b % n = c % n
    BY ONLY <2>1, <2>2, ModPrevious, n \in Nat \ {0}, q \in Int, r \in 0..(n - 1), b \in Int
  <2>4. QED
    BY <2>1, <2>3
<1>4. QED
  BY <1>1, <1>2, <1>3

-----------------------------------------------------------------------------
(* Slots in the order a search visits them                                 *)

Wide == cap \in Nat \ {0, 1} /\ hash \in [Keys -> Hashes]

LEMMA StartType ==
  ASSUME Wide, NEW k \in Keys PROVE Start(k, cap) \in Dom
<1>1. PICK h \in Hashes : h = hash[k]
  BY DEF Wide
<1>2. h \in Int
  BY IndexAssumption
<1>3. PICK n \in Nat \ {0}, a \in Int : n = cap /\ a = h
  BY <1>2 DEF Wide
<1>4. a % n \in 0..(n - 1)
  BY ONLY ModRange, n \in Nat \ {0}, a \in Int
<1>5. QED
  BY <1>1, <1>3, <1>4 DEF Start, Dom

LEMMA AtValue ==
  ASSUME Wide, NEW k \in Keys, NEW d \in Dom
  PROVE  /\ At(k, d) = IF Start(k, cap) + d < cap THEN Start(k, cap) + d
                       ELSE Start(k, cap) + d - cap
         /\ At(k, d) \in Dom
<1>1. PICK s \in Dom : s = Start(k, cap)
  BY StartType
<1>2. PICK n \in Nat \ {0} : n = cap
  BY DEF Wide
<1>3. PICK a \in Int : a = s + d
  BY DEF Dom
<1>4. 0 <= a /\ a < 2 * n
  BY <1>2, <1>3 DEF Dom
<1>5. a % n = IF a < n THEN a ELSE a - n
  BY ONLY <1>4, ModWrap, n \in Nat \ {0}, a \in Int
<1>6. At(k, d) = IF a < n THEN a ELSE a - n
  BY <1>1, <1>2, <1>3, <1>5 DEF At
<1>7. QED
  BY <1>1, <1>2, <1>3, <1>4, <1>6 DEF Dom

LEMMA AfterValue ==
  ASSUME Wide, NEW i \in Dom
  PROVE  /\ After(i, cap) = IF i + 1 < cap THEN i + 1 ELSE 0
         /\ After(i, cap) \in Dom /\ After(i, cap) # i
<1>1. PICK n \in Nat \ {0, 1}, a \in Int : n = cap /\ a = i + 1
  BY DEF Wide, Dom
<1>2. 0 <= a /\ a < 2 * n
  BY <1>1 DEF Dom
<1>3. a % n = IF a < n THEN a ELSE a - n
  BY ONLY <1>2, ModWrap, n \in Nat \ {0, 1}, a \in Int
<1>4. After(i, cap) = IF a < n THEN a ELSE a - n
  BY <1>1, <1>3 DEF After
<1>5. QED
  BY <1>1, <1>2, <1>4 DEF Dom

LEMMA PredValue ==
  ASSUME Wide, NEW i \in Dom
  PROVE  /\ Pred(i) = IF i = 0 THEN cap - 1 ELSE i - 1
         /\ Pred(i) \in Dom /\ Pred(i) # i
<1>1. PICK n \in Nat \ {0, 1}, a \in Int : n = cap /\ a = i + cap - 1
  BY DEF Wide, Dom
<1>2. 0 <= a /\ a < 2 * n
  BY <1>1 DEF Dom
<1>3. a % n = IF a < n THEN a ELSE a - n
  BY ONLY <1>2, ModWrap, n \in Nat \ {0, 1}, a \in Int
<1>4. Pred(i) = IF a < n THEN a ELSE a - n
  BY <1>1, <1>3 DEF Pred
<1>5. QED
  BY <1>1, <1>2, <1>4 DEF Dom

LEMMA PredAfter ==
  ASSUME Wide, NEW i \in Dom
  PROVE  Pred(After(i, cap)) = i /\ \A j \in Dom : Pred(j) = i => j = After(i, cap)
<1>1. Pred(After(i, cap)) = i
  BY AfterValue, PredValue DEF Wide, Dom
<1>2. ASSUME NEW j \in Dom, Pred(j) = i PROVE j = After(i, cap)
  BY <1>2, AfterValue, PredValue DEF Wide, Dom
<1>3. QED
  BY <1>1, <1>2

\* One step of a search, forwards and backwards
LEMMA AtNext ==
  ASSUME Wide, NEW k \in Keys, NEW d \in Dom, d + 1 \in Dom
  PROVE  After(At(k, d), cap) = At(k, d + 1) /\ Pred(At(k, d + 1)) = At(k, d)
<1>1. Start(k, cap) \in Dom
  BY StartType
<1>2. PICK s \in Dom, i \in Dom, e \in Dom, j \in Dom :
          s = Start(k, cap) /\ i = At(k, d) /\ e = d + 1 /\ j = At(k, e)
  BY <1>1, AtValue
<1>3. i = IF s + d < cap THEN s + d ELSE s + d - cap
  BY <1>2, AtValue
<1>4. j = IF s + e < cap THEN s + e ELSE s + e - cap
  BY <1>2, AtValue
<1>5. After(i, cap) = IF i + 1 < cap THEN i + 1 ELSE 0
  BY AfterValue
<1>6. After(i, cap) = j
  BY <1>2, <1>3, <1>4, <1>5 DEF Wide, Dom
<1>7. Pred(j) = i
  BY <1>6, PredAfter
<1>8. QED
  BY <1>2, <1>6, <1>7

LEMMA AtStart ==
  ASSUME Wide, NEW k \in Keys PROVE At(k, 0) = Start(k, cap)
<1>1. Start(k, cap) \in Dom /\ 0 \in Dom
  BY StartType DEF Wide, Dom
<1>2. QED
  BY <1>1, AtValue DEF Wide, Dom

\* Within one round no slot is visited twice, and none is left out.
LEMMA AtOnce ==
  ASSUME Wide, NEW k \in Keys, NEW d \in Dom, NEW e \in Dom, At(k, d) = At(k, e) PROVE d = e
<1>1. Start(k, cap) \in Dom
  BY StartType
<1>2. QED
  BY <1>1, AtValue DEF Wide, Dom

LEMMA AtAll ==
  ASSUME Wide, NEW k \in Keys, NEW i \in Dom PROVE \E d \in Dom : i = At(k, d)
<1>1. PICK s \in Dom : s = Start(k, cap)
  BY StartType
<1>2. PICK d \in Dom : d = IF s <= i THEN i - s ELSE i - s + cap
  <2>1. (IF s <= i THEN i - s ELSE i - s + cap) \in Dom
    BY DEF Wide, Dom
  <2>2. QED
    BY <2>1
<1>3. At(k, d) = i
  BY <1>1, <1>2, AtValue DEF Wide, Dom
<1>4. QED
  BY <1>3

-----------------------------------------------------------------------------
(* Tables                                                                  *)

LEMMA UsedType ==
  ASSUME Wide, NEW t, TableOf(t, cap)
  PROVE  /\ UsedIn(t) \subseteq Dom
         /\ \A i \in Dom : i \in UsedIn(t) <=> t[i].used
         /\ \A i \in UsedIn(t) : t[i].key \in Keys /\ t[i].val \in Vals /\ t[i].dist \in Dom
  BY DEF TableOf, UsedIn, Dom

\* On the way from the start of an entry to where it is, every slot is used by an entry
\* that is at least as far from its own start.
LEMMA Passed ==
  ASSUME Wide, NEW t, TableOf(t, cap), Robin(t), NEW i \in UsedIn(t), NEW d \in 0..t[i].dist
  PROVE  At(t[i].key, d) \in UsedIn(t) /\ t[At(t[i].key, d)].dist >= d
<1> DEFINE Bad == {e \in Nat : /\ e <= t[i].dist
                               /\ LET x == At(t[i].key, t[i].dist - e) IN
                                    ~(x \in UsedIn(t) /\ t[x].dist >= t[i].dist - e)}
<1>0. PICK m \in Dom, k \in Keys : m = t[i].dist /\ k = t[i].key
  BY UsedType
<1>1. SUFFICES ASSUME m - d \in Bad PROVE FALSE
  <2>1. m - d \in Nat /\ m - d <= m /\ m - (m - d) = d
    BY <1>0 DEF Dom
  <2>2. m - d \notin Bad
    BY <1>1
  <2>3. QED
    BY <1>0, <2>1, <2>2
<1>2. PICK e \in Bad : \A f \in Bad : ~(<<f, e>> \in OpToRel(<, Nat))
  BY <1>1, NatLessThanWellFounded, WFMin
<1>3. e > 0
  <2>1. i = At(k, m) /\ e \in Nat
    BY <1>0 DEF Robin
  <2>2. ASSUME e = 0 PROVE FALSE
    <3>1. m - e = m
      BY <2>2 DEF Dom
    <3>2. QED
      BY <1>0, <2>1, <3>1 DEF Dom
  <2>3. QED
    BY <2>1, <2>2
<1>4. PICK f \in Nat, g \in Dom, h \in Dom : f = e - 1 /\ g = m - e /\ h = m - f /\ h = g + 1
  <2>1. e \in Nat /\ e <= m /\ m \in Nat /\ m < cap
    BY <1>0 DEF Dom, Wide
  <2>2. e - 1 \in Nat /\ m - e \in Dom /\ m - (e - 1) \in Dom /\ m - (e - 1) = m - e + 1
    BY <1>3, <2>1 DEF Dom, Wide
  <2>3. QED
    BY <2>2
<1>5. f \notin Bad
  <2>1. <<f, e>> \in Nat \X Nat /\ <<f, e>>[1] < <<f, e>>[2]
    BY <1>4
  <2>2. <<f, e>> \in OpToRel(<, Nat)
    BY <2>1, Zenon DEF OpToRel
  <2>3. QED
    BY <1>2, <2>2, Zenon
<1>6. PICK x \in Dom, y \in Dom : x = At(k, h) /\ y = At(k, g)
  BY AtValue
<1>7. x \in UsedIn(t) /\ t[x].dist >= h
  BY <1>0, <1>4, <1>5, <1>6
<1>8. Pred(x) = y
  BY ONLY Wide, <1>4, <1>6, AtNext, k \in Keys, g \in Dom
<1>9. y \in UsedIn(t) /\ t[y].dist >= t[x].dist - 1
  BY <1>4, <1>7, <1>8, UsedType DEF Robin, Dom
<1>10. t[y].dist >= g
  BY <1>4, <1>7, <1>9, UsedType DEF Dom
<1>11. e \notin Bad
  BY <1>0, <1>4, <1>6, <1>9, <1>10
<1>12. QED
  BY <1>11

\* A search for a key that is in the table, not nearer than d, may go on at distance d.
LEMMA NotPassed ==
  ASSUME Wide, NEW t, TableOf(t, cap), Robin(t), NEW d \in Dom, NEW i \in UsedIn(t), t[i].dist >= d
  PROVE  At(t[i].key, d) \in UsedIn(t) /\ t[At(t[i].key, d)].dist >= d
<1>1. d \in 0..t[i].dist
  BY UsedType DEF Dom
<1>2. QED
  BY <1>1, Passed

\* In a table with a free slot every entry is nearer to its start than a whole round.
LEMMA NoFullRound ==
  ASSUME Wide, NEW t, TableOf(t, cap), Robin(t), NEW x \in Dom, ~t[x].used, NEW i \in UsedIn(t)
  PROVE  t[i].dist + 1 < cap
<1>1. PICK m \in Dom, k \in Keys : m = t[i].dist /\ k = t[i].key
  BY UsedType
<1>2. PICK d \in Dom : x = At(k, d)
  BY AtAll
<1>3. ~(m >= d)
  BY <1>1, <1>2, NotPassed, UsedType
<1>4. QED
  BY <1>1, <1>3 DEF Dom, Wide

LEMMA UsedFinite ==
  ASSUME Wide, NEW t, TableOf(t, cap)
  PROVE  IsFiniteSet(UsedIn(t)) /\ Cardinality(UsedIn(t)) \in 0..cap
<1>1. IsFiniteSet(Dom) /\ Cardinality(Dom) = cap
  BY FS_Interval DEF Dom, Wide
<1>2. IsFiniteSet(UsedIn(t)) /\ Cardinality(UsedIn(t)) <= cap
  BY <1>1, UsedType, FS_Subset
<1>3. QED
  BY <1>2, FS_CardinalityType DEF Wide

LEMMA FreeSlot ==
  ASSUME Wide, NEW t, TableOf(t, cap), Cardinality(UsedIn(t)) < cap
  PROVE  \E x \in Dom : ~t[x].used
<1>1. IsFiniteSet(Dom) /\ Cardinality(Dom) = cap
  BY FS_Interval DEF Dom, Wide
<1>2. SUFFICES ASSUME \A x \in Dom : t[x].used PROVE FALSE
  OBVIOUS
<1>3. UsedIn(t) = Dom
  BY <1>2, UsedType
<1>4. QED
  BY <1>1, <1>3 DEF Wide

\* A table that holds a map has one slot for each of its keys.
LEMMA SlotsOfMap ==
  ASSUME NEW t, NEW S, NEW m, IsFiniteSet(S), Holds(t, S, m),
         \A i \in S : t[i].key \in Keys /\ t[i].val # NoVal
  PROVE  LET L == {k \in Keys : m[k] # NoVal} IN IsFiniteSet(L) /\ Cardinality(L) = Cardinality(S)
<1> DEFINE L == {k \in Keys : m[k] # NoVal}
           f == [i \in S |-> t[i].key]
<1>1. ASSUME NEW i \in S PROVE f[i] \in L
  BY DEF Holds
<1>2. \A k \in L : \E i \in S : f[i] = k
  BY DEF Holds
<1>3. \A i, j \in S : f[i] = f[j] => i = j
  BY DEF Holds
<1>4. f \in [S -> L]
  BY <1>1
<1>5. f \in Bijection(S, L)
  BY <1>2, <1>3, <1>4 DEF Bijection, Injection, Surjection, IsInjective
<1>6. ExistsBijection(S, L)
  BY <1>5 DEF ExistsBijection
<1>7. QED
  BY <1>6, FS_Bijection

-----------------------------------------------------------------------------
(* What one assignment to a slot does to the table                         *)

Fit(c) == c \in SlotType /\ c.used /\ c.key \in Keys /\ c.val \in Vals /\ c.dist \in Dom

\* An entry may be put where it belongs, unless the one behind it would be too far away.
LEMMA PlaceEntry ==
  ASSUME Wide, NEW t, TableOf(t, cap), Robin(t), NEW i \in Dom, NEW c, Fit(c),
         i = At(c.key, c.dist),
         c.dist > 0 => Pred(i) \in UsedIn(t) /\ t[Pred(i)].dist >= c.dist - 1,
         \A j \in UsedIn(t) : Pred(j) = i => t[j].dist <= c.dist + 1,
         NEW u, u = [t EXCEPT ![i] = c]
  PROVE  TableOf(u, cap) /\ Robin(u) /\ UsedIn(u) = UsedIn(t) \cup {i}
<1>1. t \in [Dom -> SlotType] /\ u \in [Dom -> SlotType] /\ u[i] = c
  BY DEF TableOf, Fit, Dom
<1>2. \A j \in Dom : j # i => u[j] = t[j]
  BY <1>1
<1>3. UsedIn(u) = UsedIn(t) \cup {i}
  BY <1>1, <1>2 DEF UsedIn, Fit
<1>4. TableOf(u, cap)
  BY <1>1, <1>2, <1>3, UsedType DEF TableOf, Fit, Dom
<1>5. ASSUME NEW j \in UsedIn(u)
      PROVE  /\ j = At(u[j].key, u[j].dist)
             /\ u[j].dist > 0 => Pred(j) \in UsedIn(u) /\ u[Pred(j)].dist >= u[j].dist - 1
  <2>1. j \in Dom /\ Pred(j) \in Dom /\ Pred(j) # j
    BY <1>4, UsedType, PredValue
  <2>2. CASE j = i
    BY <1>1, <1>2, <1>3, <2>1, <2>2 DEF Fit
  <2>3. CASE j # i /\ Pred(j) # i
    BY <1>2, <1>3, <2>1, <2>3 DEF Robin
  <2>4. CASE j # i /\ Pred(j) = i
    <3>1. j \in UsedIn(t) /\ u[j] = t[j] /\ u[Pred(j)] = c
      BY <1>1, <1>2, <1>3, <2>1, <2>4
    <3>2. t[j].dist <= c.dist + 1 /\ t[j].dist \in Dom /\ c.dist \in Dom
      BY <2>4, <3>1, UsedType DEF Fit
    <3>3. c.dist >= t[j].dist - 1
      BY <3>2 DEF Dom
    <3>4. QED
      BY <1>3, <2>4, <3>1, <3>3 DEF Robin
  <2>5. QED
    BY <2>2, <2>3, <2>4
<1>6. Robin(u)
  BY <1>5 DEF Robin
<1>7. QED
  BY <1>3, <1>4, <1>6

\* The next slot, if it is used, cannot be much further from its start.
LEMMA NextNear ==
  ASSUME Wide, NEW t, TableOf(t, cap), Robin(t), NEW i \in Dom, NEW j \in UsedIn(t), Pred(j) = i
  PROVE  t[j].dist = 0 \/ (i \in UsedIn(t) /\ t[j].dist <= t[i].dist + 1)
<1>1. t[j].dist \in Dom /\ (t[j].dist > 0 => i \in UsedIn(t) /\ t[i].dist >= t[j].dist - 1)
  BY UsedType DEF Robin
<1>2. i \in UsedIn(t) => t[i].dist \in Dom
  BY UsedType
<1>3. QED
  BY <1>1, <1>2 DEF Dom

\* A slot may be freed when the one behind it is not used or at its start.
LEMMA FreeEntry ==
  ASSUME Wide, NEW t, TableOf(t, cap), Robin(t), NEW i \in Dom,
         \A j \in UsedIn(t) : Pred(j) = i => t[j].dist = 0,
         NEW u, u = [t EXCEPT ![i] = Free]
  PROVE  TableOf(u, cap) /\ Robin(u) /\ UsedIn(u) = UsedIn(t) \ {i}
<1>1. t \in [Dom -> SlotType] /\ Free \in SlotType
  BY IndexAssumption DEF TableOf, Free, SlotType, Dom
<1>2. u \in [Dom -> SlotType] /\ u[i] = Free /\ ~u[i].used
  BY <1>1 DEF Free
<1>3. \A j \in Dom : j # i => u[j] = t[j]
  BY <1>1
<1>4. UsedIn(u) = UsedIn(t) \ {i}
  BY <1>1, <1>2, <1>3 DEF UsedIn
<1>5. TableOf(u, cap)
  BY <1>2, <1>3, <1>4, UsedType DEF TableOf, Dom
<1>6. ASSUME NEW j \in UsedIn(u)
      PROVE  /\ j = At(u[j].key, u[j].dist)
             /\ u[j].dist > 0 => Pred(j) \in UsedIn(u) /\ u[Pred(j)].dist >= u[j].dist - 1
  <2>1. j \in UsedIn(t) /\ j # i /\ j \in Dom /\ u[j] = t[j] /\ Pred(j) \in Dom
    BY <1>3, <1>4, UsedType, PredValue
  <2>2. j = At(t[j].key, t[j].dist)
    BY <2>1 DEF Robin
  <2>3. ASSUME t[j].dist > 0
        PROVE  Pred(j) \in UsedIn(u) /\ u[Pred(j)].dist >= t[j].dist - 1
    <3>1. Pred(j) \in UsedIn(t) /\ t[Pred(j)].dist >= t[j].dist - 1
      BY <2>1, <2>3 DEF Robin
    <3>2. Pred(j) # i
      BY <2>1, <2>3
    <3>3. QED
      BY <1>3, <1>4, <2>1, <3>1, <3>2
  <2>4. QED
    BY <2>1, <2>2, <2>3
<1>7. Robin(u)
  BY <1>6 DEF Robin
<1>8. QED
  BY <1>4, <1>5, <1>7

LEMMA NewValue ==
  ASSUME Wide, NEW t, TableOf(t, cap), Robin(t), NEW i \in UsedIn(t),
         NEW u \in [Dom -> SlotType], u[i].val \in Vals, \A j \in Dom : j # i => u[j] = t[j],
         u[i].key = t[i].key, u[i].dist = t[i].dist, u[i].used = t[i].used
  PROVE  TableOf(u, cap) /\ Robin(u) /\ UsedIn(u) = UsedIn(t)
<1>1. t \in [Dom -> SlotType] /\ i \in Dom
  BY UsedType DEF TableOf, Dom
<1>2. \A j \in Dom : /\ u[j].key = t[j].key /\ u[j].dist = t[j].dist /\ u[j].used = t[j].used
                     /\ u[j].val = IF j = i THEN u[i].val ELSE t[j].val
  OBVIOUS
<1>3. UsedIn(u) = UsedIn(t)
  BY <1>1, <1>2 DEF UsedIn
<1>4. TableOf(u, cap)
  BY <1>2, <1>3, UsedType DEF TableOf, Dom
<1>5. Robin(u)
  BY <1>2, <1>3, UsedType DEF Robin
<1>6. QED
  BY <1>3, <1>4, <1>5

-----------------------------------------------------------------------------
(* What it does to the map                                                 *)

Maps == [Keys -> Vals \cup {NoVal}]

\* An insertion begins.
LEMMA CarryNew ==
  ASSUME Wide, NEW t, TableOf(t, cap), NEW m \in Maps, Holds(t, UsedIn(t), m),
         NEW k \in Keys, NEW v \in Vals
  PROVE  Carries(t, Slot(k, v, 0), [m EXCEPT ![k] = v])
<1>1. PICK c : c = Slot(k, v, 0)
  OBVIOUS
<1>2. PICK g : g = [m EXCEPT ![k] = v]
  OBVIOUS
<1>3. c.key = k /\ c.val = v /\ c.dist = 0
  BY <1>1 DEF Slot
<1>4. \A j \in Keys : g[j] = IF j = k THEN v ELSE m[j]
  BY <1>2 DEF Maps
<1>5. \A i \in UsedIn(t) : t[i].key \in Keys /\ t[i].dist >= 0
  BY UsedType DEF Dom
<1>6. Carries(t, c, g)
  BY <1>3, <1>4, <1>5 DEF Carries, Holds
<1>7. QED
  BY <1>1, <1>2, <1>6

\* The entry goes into a free slot: the key was not in the table.
LEMMA CarryFree ==
  ASSUME Wide, NEW t, TableOf(t, cap), Robin(t), NEW i \in Dom, ~t[i].used, NEW c, Fit(c),
         i = At(c.key, c.dist), NEW m, Carries(t, c, m), NEW u, u = [t EXCEPT ![i] = c]
  PROVE  Holds(u, UsedIn(t) \cup {i}, m)
<1>1. u[i] = c /\ \A j \in UsedIn(t) : u[j] = t[j] /\ j # i
  BY UsedType DEF TableOf, Dom
<1>2. ASSUME NEW j \in UsedIn(t), t[j].key = c.key PROVE FALSE
  <2>1. t[j].dist >= c.dist
    BY <1>2 DEF Carries
  <2>2. i \in UsedIn(t)
    BY <1>2, <2>1, NotPassed DEF Fit
  <2>3. QED
    BY <2>2, UsedType
<1>3. QED
  BY <1>1, <1>2 DEF Holds, Carries

\* The key is found, and its value replaced.
LEMMA CarryOver ==
  ASSUME NEW t, NEW i \in UsedIn(t), NEW c, t[i].key = c.key, NEW m, Carries(t, c, m),
         NEW u, u[i].val = c.val,
         \A j \in UsedIn(t) : u[j].key = t[j].key /\ (j # i => u[j] = t[j])
  PROVE  Holds(u, UsedIn(t), m)
  BY DEF Holds, Carries

\* The entry takes the slot of one that is nearer to its start, which is carried on.
LEMMA CarrySwap ==
  ASSUME Wide, NEW t, TableOf(t, cap), Robin(t), NEW i \in UsedIn(t), NEW c, Fit(c),
         i = At(c.key, c.dist), t[i].dist < c.dist, NEW m, Carries(t, c, m), t[i].key # c.key,
         NEW u, u = [t EXCEPT ![i] = c], NEW d, d.key = t[i].key, d.val = t[i].val,
         UsedIn(u) = UsedIn(t)
  PROVE  Carries(u, d, m)
<1>1. i \in Dom /\ u[i] = c /\ \A j \in UsedIn(t) : j # i => u[j] = t[j]
  BY UsedType DEF TableOf, Dom
<1>2. ASSUME NEW j \in UsedIn(t), t[j].key = c.key PROVE FALSE
  <2>1. t[j].dist >= c.dist
    BY <1>2 DEF Carries
  <2>2. t[i].dist >= c.dist /\ t[i].dist \in Dom /\ c.dist \in Dom
    BY <1>2, <2>1, NotPassed, UsedType DEF Fit
  <2>3. QED
    BY <2>2 DEF Dom
<1>3. \A j \in UsedIn(u) : u[j].key # d.key
  BY <1>1 DEF Carries
<1>4. \A j \in UsedIn(u) : m[u[j].key] = u[j].val
  BY <1>1, <1>2 DEF Carries
<1>5. m[d.key] = d.val
  BY DEF Carries
<1>6. \A k \in Keys : m[k] # NoVal => k = d.key \/ \E j \in UsedIn(u) : u[j].key = k
  BY <1>1 DEF Carries
<1>7. \A j, l \in UsedIn(u) : u[j].key = u[l].key => j = l
  BY <1>1, <1>2 DEF Carries
<1>8. QED
  BY <1>3, <1>4, <1>5, <1>6, <1>7 DEF Carries

\* The slot is taken by an entry as far from its start, or further.
LEMMA CarryOn ==
  ASSUME Wide, NEW t, TableOf(t, cap), Robin(t), NEW i \in UsedIn(t), NEW c, Fit(c),
         i = At(c.key, c.dist), NEW m, Carries(t, c, m), t[i].key # c.key,
         NEW d, d.key = c.key, d.val = c.val, d.dist = c.dist + 1
  PROVE  Carries(t, d, m)
<1>1. ASSUME NEW j \in UsedIn(t), t[j].key = c.key PROVE t[j].dist >= c.dist + 1
  <2>1. t[j].dist >= c.dist /\ t[j].dist \in Dom /\ c.dist \in Dom /\ j = At(t[j].key, t[j].dist)
    BY <1>1, UsedType DEF Carries, Fit, Robin
  <2>2. t[j].dist # c.dist
    BY <1>1, <2>1
  <2>3. QED
    BY <2>1, <2>2 DEF Dom
<1>2. QED
  BY <1>1 DEF Carries

-----------------------------------------------------------------------------
(* Steps                                                                   *)

LEMMA Context ==
  ASSUME IndexInv
  PROVE  /\ Wide /\ TableOf(slots, cap) /\ Robin(slots) /\ Used = UsedIn(slots)
         /\ IsFiniteSet(Used) /\ records = Cardinality(Used) /\ records \in 0..cap
         /\ cap \in Nat \ {0, 1} /\ cap <= MaxCap /\ MaxCap \in Nat /\ idx \in Dom /\ pos \in Nat
         /\ dict \in Maps /\ Used \subseteq Dom
<1>1. Wide /\ TableOf(slots, cap) /\ Robin(slots) /\ Used = UsedIn(slots)
  BY DEF IndexInv, Types, TypeOK, Wide, Used, UsedIn
<1>2. IsFiniteSet(Used) /\ records = Cardinality(Used) /\ records \in 0..cap
  BY <1>1, UsedFinite DEF IndexInv, Types
<1>3. cap \in Nat \ {0, 1} /\ MaxCap \in Nat /\ cap <= MaxCap
  BY IndexAssumption DEF IndexInv, Types, TypeOK
<1>4. idx \in Dom /\ pos \in Nat /\ dict \in Maps
  BY <1>3 DEF IndexInv, Types, TypeOK, Dom, Maps
<1>5. QED
  BY <1>1, <1>2, <1>3, <1>4, UsedType

LEMMA SameTable ==
  ASSUME IndexInv, UNCHANGED <<hash, table>>
  PROVE  Robin(slots)' /\ TableOf(slots, cap)' /\ Used' = Used
<1>1. hash' = hash /\ cap' = cap /\ slots' = slots
  BY DEF table
<1>2. QED
  BY <1>1 DEF IndexInv, Types, Robin, TableOf, Used, UsedIn, At, Pred, Start

LEMMA NewTable ==
  ASSUME UNCHANGED <<hash, cap>>, NEW u, u = slots', Robin(u), TableOf(u, cap)
  PROVE  Robin(slots)' /\ TableOf(slots, cap)' /\ Used' = UsedIn(u)
  BY DEF Robin, TableOf, Used, UsedIn, At, Pred, Start

\* The keys of a sound table are those of the map.
LEMMA CountedKeys ==
  ASSUME Wide, NEW t, TableOf(t, cap), NEW m, Holds(t, UsedIn(t), m)
  PROVE  LET L == {k \in Keys : m[k] # NoVal} IN
         IsFiniteSet(L) /\ Cardinality(L) = Cardinality(UsedIn(t))
<1>1. IsFiniteSet(UsedIn(t))
  BY UsedFinite
<1>2. \A i \in UsedIn(t) : t[i].key \in Keys /\ t[i].val # NoVal
  BY UsedType, IndexAssumption
<1>3. QED
  BY <1>1, <1>2, SlotsOfMap

-----------------------------------------------------------------------------
(* Growth                                                                  *)

LEMMA MovedType ==
  ASSUME dict \in Maps, NEW p PROVE Moved(p) \in Maps
  BY DEF Maps, Moved

\* The old table is read from the front to the back.
LEMMA MovedNone ==
  ASSUME UsedIn(old) \subseteq Nat, NEW k \in Keys PROVE Moved(0)[k] = NoVal
<1>1. ~ \E j \in UsedIn(old) : j < 0 /\ old[j].key = k
  OBVIOUS
<1>2. QED
  BY <1>1 DEF Moved

LEMMA MovedSkip ==
  ASSUME UsedIn(old) \subseteq Nat, NEW p \in Nat, p \notin UsedIn(old)
  PROVE  Moved(p + 1) = Moved(p)
<1>1. \A j \in UsedIn(old) : j < p + 1 <=> j < p
  OBVIOUS
<1>2. QED
  BY <1>1 DEF Moved

LEMMA MovedOne ==
  ASSUME UsedIn(old) \subseteq Nat, NEW p \in UsedIn(old), dict \in Maps,
         Holds(old, UsedIn(old), dict), old[p].key \in Keys
  PROVE  Moved(p + 1) = [Moved(p) EXCEPT ![old[p].key] = old[p].val]
<1>1. \A j \in UsedIn(old) : j < p + 1 <=> j < p \/ j = p
  OBVIOUS
<1>2. Moved(p + 1) \in Maps /\ Moved(p) \in Maps
  BY MovedType
<1>3. ASSUME NEW k \in Keys, k # old[p].key PROVE Moved(p + 1)[k] = Moved(p)[k]
  BY <1>1, <1>3 DEF Moved
<1>4. Moved(p + 1)[old[p].key] = old[p].val
  BY <1>1 DEF Moved, Holds
<1>5. QED
  BY <1>2, <1>3, <1>4 DEF Maps

LEMMA MovedAll ==
  ASSUME dict \in Maps, Holds(old, UsedIn(old), dict), NEW n, \A j \in UsedIn(old) : j < n
  PROVE  Moved(n) = dict
<1>1. \A k \in Keys : Moved(n)[k] = dict[k]
  BY DEF Moved, Holds
<1>2. QED
  BY <1>1, MovedType DEF Maps

LEMMA OldTable ==
  ASSUME IndexInv, pc = "rehash" \/ pos > 0
  PROVE  \E n \in 2..cap :
            /\ cap = 2 * n /\ TableOf(old, n) /\ pos <= n /\ DOMAIN old = 0..(n - 1)
            /\ Holds(old, UsedIn(old), dict) /\ UsedIn(old) \subseteq 0..(n - 1)
            /\ \A i \in UsedIn(old) : old[i].key \in Keys /\ old[i].val \in Vals
            /\ records <= pos /\ (pc = "insert" => records < pos)
  BY DEF IndexInv, Growing, TableOf, UsedIn

LEMMA RehashSkipStep == ASSUME IndexInv, RehashSkip PROVE IndexInv'
<1> USE DEF RehashSkip
<1>1. PICK n \in 2..cap :
            /\ cap = 2 * n /\ TableOf(old, n) /\ pos <= n /\ DOMAIN old = 0..(n - 1)
            /\ Holds(old, UsedIn(old), dict) /\ UsedIn(old) \subseteq 0..(n - 1)
            /\ records <= pos
  BY OldTable
<1>2. /\ pos \in Nat /\ cap \in Nat /\ cap <= MaxCap /\ MaxCap \in Nat /\ pos + 1 <= n
      /\ records \in 0..cap
  BY <1>1, Context
<1>3. Robin(slots)' /\ TableOf(slots, cap)' /\ Used' = Used
  BY SameTable
<1>4. Types'
  <2>1. TypeOK'
    BY <1>2 DEF IndexInv, Types, TypeOK, table, loop, count
  <2>2. QED
    BY <1>3, <2>1 DEF IndexInv, Types, table, loop, count
<1>5. Growing'
  BY <1>1, <1>2 DEF table, TableOf, UsedIn, Holds, Growing
<1>6. Contents'
  <2>1. pos \notin UsedIn(old) /\ UsedIn(old) \subseteq Nat
    BY <1>1 DEF UsedIn
  <2>2. Moved(pos + 1) = Moved(pos)
    BY <1>2, <2>1, MovedSkip
  <2>3. Holds(slots, Used, Moved(pos + 1))
    BY <2>2 DEF IndexInv, Contents
  <2>4. QED
    BY <1>3, <2>3 DEF Contents, Holds, Moved, table, UsedIn
<1>7. Cursor' /\ Sizes'
  BY <1>2 DEF IndexInv, Sizes, Cursor, Live, table, count
<1>8. QED
  BY <1>3, <1>4, <1>5, <1>6, <1>7 DEF IndexInv

\* insert_nolock begins with an entry of its own or of the old table.
LEMMA Enter ==
  ASSUME Wide, cap <= MaxCap, MaxCap \in Nat, NEW k \in Keys, NEW v \in Vals, EnterInsert(k, v, cap)
  PROVE  /\ cur' \in SlotType /\ cur'.used /\ cur'.key = k /\ cur'.val = v /\ cur'.dist = 0
         /\ idx' = At(k, 0) /\ idx' \in Dom /\ dist' = 0 /\ pc' = "insert"
<1>1. cur' = Slot(k, v, 0) /\ Slot(k, v, 0) \in SlotType
  BY DEF EnterInsert, Slot, SlotType
<1>2. idx' = At(k, 0) /\ idx' \in Dom
  BY AtStart, StartType DEF EnterInsert
<1>3. QED
  BY <1>1, <1>2 DEF EnterInsert, Slot

LEMMA RehashMoveStep == ASSUME IndexInv, RehashMove PROVE IndexInv'
<1> USE DEF RehashMove
<1>0. /\ Wide /\ TableOf(slots, cap) /\ Used = UsedIn(slots) /\ dict \in Maps
      /\ cap \in Nat \ {0, 1} /\ cap <= MaxCap
      /\ MaxCap \in Nat /\ pos \in Nat /\ records \in 0..cap
  BY Context
<1>1. PICK n \in 2..cap :
            /\ cap = 2 * n /\ TableOf(old, n) /\ pos <= n /\ DOMAIN old = 0..(n - 1)
            /\ Holds(old, UsedIn(old), dict) /\ UsedIn(old) \subseteq 0..(n - 1)
            /\ \A i \in UsedIn(old) : old[i].key \in Keys /\ old[i].val \in Vals
            /\ records <= pos
  BY OldTable
<1>2. pos \in UsedIn(old) /\ pos + 1 <= n /\ pos + 1 > 0 /\ records < cap
  BY <1>0, <1>1 DEF UsedIn
<1>3. PICK k \in Keys, v \in Vals : k = old[pos].key /\ v = old[pos].val
  BY <1>1, <1>2
<1>4. /\ cur' \in SlotType /\ cur'.used /\ cur'.key = k /\ cur'.val = v /\ cur'.dist = 0
      /\ idx' = At(k, 0) /\ idx' \in Dom /\ dist' = 0 /\ pc' = "insert"
  BY <1>0, <1>3, Enter
<1>5. Robin(slots)' /\ TableOf(slots, cap)' /\ Used' = Used
  BY SameTable
<1>6. Types'
  <2>1. TypeOK'
    BY <1>0, <1>1, <1>2, <1>4 DEF IndexInv, Types, TypeOK, table, count, Dom
  <2>2. QED
    BY <1>2, <1>4, <1>5, <2>1 DEF IndexInv, Types, table, count
<1>7. Growing'
  <2>1. old' = old /\ dict' = dict /\ cap' = cap /\ records' = records /\ pos' = pos + 1
    BY DEF table
  <2>2. TableOf(old', n) /\ Holds(old', UsedIn(old'), dict')
    BY <1>1, <2>1
  <2>3. records' <= pos' /\ records' < pos' /\ pos' <= n /\ cap' = 2 * n /\ n \in 2..cap'
    BY <1>0, <1>1, <1>2, <2>1
  <2>4. QED
    BY <2>2, <2>3, Zenon DEF Growing, TableOf, UsedIn, Holds
<1>8. Contents'
  <2>1. UsedIn(old) \subseteq Nat
    BY <1>1
  <2>2. PICK m \in Maps : m = Moved(pos)
    BY <1>0, MovedType
  <2>3. Moved(pos + 1) = [m EXCEPT ![k] = v]
    BY <1>0, <1>1, <1>2, <1>3, <2>1, <2>2, MovedOne
  <2>4. Holds(slots, UsedIn(slots), m)
    BY <1>0, <2>2 DEF IndexInv, Contents
  <2>5. Carries(slots, Slot(k, v, 0), [m EXCEPT ![k] = v])
    BY ONLY <1>0, <2>4, CarryNew, m \in Maps, k \in Keys, v \in Vals
  <2>6. Goal' = Moved(pos + 1)
    BY <1>0, <1>2 DEF Goal, Moved, UsedIn
  <2>7. cur' = Slot(k, v, 0)
    BY <1>3 DEF EnterInsert
  <2>8. Carries(slots, cur, Goal)'
    BY <2>3, <2>5, <2>6, <2>7 DEF Carries, UsedIn, table
  <2>9. QED
    BY <1>4, <2>8 DEF Contents
<1>9. Cursor'
  BY <1>0, <1>2, <1>4 DEF Cursor, At, Start, table
<1>10. Sizes'
  BY <1>0, <1>2, <1>4 DEF IndexInv, Sizes, Live, table, count
<1>11. QED
  BY <1>5, <1>6, <1>7, <1>8, <1>9, <1>10 DEF IndexInv

LEMMA RehashDoneStep == ASSUME IndexInv, RehashDone PROVE IndexInv'
<1> USE DEF RehashDone
<1>0. /\ Wide /\ TableOf(slots, cap) /\ Used = UsedIn(slots) /\ dict \in Maps
      /\ records = Cardinality(Used)
      /\ cap \in Nat \ {0, 1} /\ cap <= MaxCap
      /\ MaxCap \in Nat /\ pos \in Nat /\ records \in 0..cap
  BY Context
<1>1. PICK n \in 2..cap :
            /\ cap = 2 * n /\ pos <= n /\ DOMAIN old = 0..(n - 1)
            /\ Holds(old, UsedIn(old), dict) /\ UsedIn(old) \subseteq 0..(n - 1)
            /\ records <= pos
  BY OldTable
<1>2. pos = n /\ records < cap
  BY <1>0, <1>1
<1>3. PICK k \in Keys, v \in Vals : k = arg.key /\ v = arg.val
  BY DEF IndexInv, Types
<1>4. /\ cur' \in SlotType /\ cur'.used /\ cur'.key = k /\ cur'.val = v /\ cur'.dist = 0
      /\ idx' = At(k, 0) /\ idx' \in Dom /\ dist' = 0 /\ pc' = "insert"
  BY <1>0, <1>3, Enter
<1>5. Robin(slots)' /\ TableOf(slots, cap)' /\ Used' = Used
  BY SameTable
<1>6. Types'
  <2>1. DOMAIN old' \subseteq 0..(MaxCap - 1) /\ \A i \in DOMAIN old' : old'[i] \in SlotType
    <3>1. old' = [i \in 0..(InitialCap - 1) |-> Free] /\ Free \in SlotType
      BY IndexAssumption DEF Empty, Free, SlotType
    <3>2. QED
      BY <3>1, IndexAssumption
  <2>2. TypeOK'
    BY <1>0, <1>4, <2>1 DEF IndexInv, Types, TypeOK, table, count, Dom
  <2>3. QED
    BY <1>2, <1>3, <1>4, <1>5, <2>2 DEF IndexInv, Types, table, count
<1>7. Growing'
  BY <1>4 DEF Growing
<1>8. Holds(slots, UsedIn(slots), dict)
  <2>1. \A j \in UsedIn(old) : j < pos
    BY <1>1, <1>2
  <2>2. Moved(pos) = dict
    BY <1>0, <1>1, <2>1, MovedAll
  <2>3. QED
    BY <1>0, <2>2 DEF IndexInv, Contents
<1>9. Contents'
  <2>1. Carries(slots, Slot(k, v, 0), [dict EXCEPT ![k] = v])
    BY <1>0, <1>8, CarryNew
  <2>2. Goal' = [dict EXCEPT ![k] = v]
    BY <1>3 DEF Goal
  <2>3. cur' = Slot(k, v, 0)
    BY <1>3 DEF EnterInsert
  <2>4. Carries(slots, cur, Goal)'
    BY <2>1, <2>2, <2>3 DEF Carries, UsedIn, table
  <2>5. QED
    BY <1>4, <2>4 DEF Contents
<1>10. Cursor'
  BY <1>0, <1>2, <1>4 DEF Cursor, At, Start, table
<1>11. Sizes'
  <2>1. records = Cardinality(Live)
    BY <1>0, <1>8, CountedKeys DEF Live
  <2>2. QED
    BY <2>1 DEF IndexInv, Sizes, Live, table, count
<1>12. QED
  BY <1>5, <1>6, <1>7, <1>9, <1>10, <1>11 DEF IndexInv

-----------------------------------------------------------------------------
(* put                                                                     *)

\* The load limit leaves a slot free for the insertion, which would not end without one.
LEMMA LoadLimit ==
  ASSUME NEW r \in Nat, NEW c \in Nat \ {0}, NEW l \in Nat, NEW d \in Nat, l < d,
         (r + 1) * d <= l * c
  PROVE  r < c
<1>1. SUFFICES ASSUME r >= c PROVE FALSE
  OBVIOUS
<1>2. c * d <= (r + 1) * d
  BY <1>1
<1>3. l * c < c * d
  OBVIOUS
<1>4. QED
  BY <1>2, <1>3

LEMMA EmptyTable ==
  ASSUME NEW n \in Nat \ {0}
  PROVE  TableOf(Empty(n), n) /\ UsedIn(Empty(n)) = {}
<1>1. Free \in SlotType /\ ~Free.used
  BY IndexAssumption DEF Free, SlotType
<1>2. QED
  BY <1>1 DEF Empty, TableOf, UsedIn

LEMMA PutGrowsStep ==
  ASSUME IndexInv, NEW k \in Keys, NEW v \in Vals, PutBegin(k, v), pc' = "rehash" PROVE IndexInv'
<1>0. /\ Wide /\ TableOf(slots, cap) /\ Used = UsedIn(slots) /\ dict \in Maps
      /\ cap \in Nat \ {0, 1} /\ cap <= MaxCap /\ MaxCap \in Nat /\ idx \in Dom
  BY Context
<1>1. /\ pc = "idle" /\ adds + subs < MaxThreads /\ pc' = "rehash"
      /\ arg' = [op |-> "put", key |-> k, val |-> v]
      /\ old' = slots /\ pos' = 0 /\ cap' = 2 * cap /\ slots' = Empty(2 * cap) /\ records' = 0
      /\ 2 * cap <= MaxCap
      /\ UNCHANGED <<hash, size, adds, subs, dict, idx, dist, cur>> /\ result' = NoVal
  BY DEF PutBegin, EnterInsert, loop, count
<1>2. TableOf(slots', cap') /\ UsedIn(slots') = {} /\ Used' = {}
  <2>1. PICK n \in Nat \ {0} : n = 2 * cap
    BY <1>0
  <2>2. TableOf(Empty(n), n) /\ UsedIn(Empty(n)) = {}
    BY EmptyTable
  <2>3. QED
    BY <1>1, <2>1, <2>2 DEF Used, UsedIn
<1>3. Robin(slots)'
  BY <1>2 DEF Robin, UsedIn
<1>4. Types'
  <2>1. DOMAIN old' \subseteq 0..(MaxCap - 1) /\ \A i \in DOMAIN old' : old'[i] \in SlotType
    BY <1>0, <1>1 DEF TableOf
  <2>2. /\ cap' \in Nat \ {0, 1} /\ cap' \in InitialCap..MaxCap
        /\ idx' \in 0..(cap' - 1) /\ dist' \in 0..cap'
    BY <1>0, <1>1, IndexAssumption DEF IndexInv, Types, TypeOK, Dom
  <2>3. slots' \in [0..(cap' - 1) -> SlotType] /\ records' \in 0..cap'
    BY <1>1, <1>2, <2>2 DEF TableOf
  <2>4. TypeOK'
    BY <1>1, <2>1, <2>2, <2>3, IndexAssumption DEF IndexInv, Types, TypeOK
  <2>5. records' = Cardinality(Used')
    BY <1>1, <1>2, FS_EmptySet
  <2>6. TableOf(slots, cap)'
    BY <1>2 DEF TableOf, UsedIn
  <2>7. QED
    BY <1>1, <2>2, <2>4, <2>5, <2>6 DEF IndexInv, Types
<1>5. Growing'
  <2>1. TableOf(old', cap) /\ Holds(old', UsedIn(old'), dict')
    BY <1>0, <1>1 DEF IndexInv, Contents
  <2>2. cap \in 2..cap' /\ cap' = 2 * cap /\ pos' <= cap /\ records' <= pos' /\ pc' # "insert"
    BY <1>0, <1>1
  <2>3. QED
    BY <2>1, <2>2, Zenon DEF Growing, TableOf, UsedIn, Holds
<1>6. Contents'
  <2>1. UsedIn(old') \subseteq Nat
    BY <1>0, <1>1, UsedType DEF Dom
  <2>2. \A x \in Keys : Moved(pos)'[x] = NoVal
    <3>1. \A j \in UsedIn(old') : ~(j < pos')
      BY <1>1, <2>1
    <3>2. QED
      BY <3>1 DEF Moved, UsedIn
  <2>3. Holds(slots, Used, Moved(pos))'
    BY <1>2, <2>2 DEF Holds
  <2>4. QED
    BY <1>1, <2>3 DEF Contents
<1>7. Cursor' /\ Sizes'
  BY <1>1 DEF IndexInv, Sizes, Cursor, Live
<1>8. QED
  BY <1>3, <1>4, <1>5, <1>6, <1>7 DEF IndexInv

LEMMA PutEntersStep ==
  ASSUME IndexInv, NEW k \in Keys, NEW v \in Vals, PutBegin(k, v), pc' # "rehash" PROVE IndexInv'
<1>0. /\ Wide /\ TableOf(slots, cap) /\ Used = UsedIn(slots) /\ dict \in Maps
      /\ cap \in Nat \ {0, 1} /\ cap <= MaxCap /\ MaxCap \in Nat /\ records \in 0..cap
  BY Context
<1>1. /\ pc = "idle" /\ adds + subs < MaxThreads
      /\ arg' = [op |-> "put", key |-> k, val |-> v]
      /\ ~TooFull /\ EnterInsert(k, v, cap) /\ UNCHANGED <<hash, table, old, pos, count, dict>>
      /\ result' = NoVal
  BY DEF PutBegin
<1>2. records < cap
  BY <1>0, <1>1, LoadLimit, IndexAssumption DEF TooFull
<1>3. /\ cur' \in SlotType /\ cur'.used /\ cur'.key = k /\ cur'.val = v /\ cur'.dist = 0
      /\ idx' = At(k, 0) /\ idx' \in Dom /\ dist' = 0 /\ pc' = "insert"
  BY <1>0, <1>1, Enter
<1>4. Robin(slots)' /\ TableOf(slots, cap)' /\ Used' = Used
  BY <1>1, SameTable
<1>5. pos = 0
  BY <1>1 DEF IndexInv, Types
<1>6. Types'
  <2>1. TypeOK'
    BY <1>0, <1>1, <1>3 DEF IndexInv, Types, TypeOK, table, count, Dom
  <2>2. QED
    BY <1>1, <1>3, <1>4, <2>1 DEF IndexInv, Types, table, count
<1>7. Growing'
  BY <1>1, <1>3, <1>5 DEF Growing
<1>8. Contents'
  <2>1. Holds(slots, UsedIn(slots), dict)
    BY <1>0, <1>1 DEF IndexInv, Contents
  <2>2. Carries(slots, Slot(k, v, 0), [dict EXCEPT ![k] = v])
    BY <1>0, <2>1, CarryNew
  <2>3. Goal' = [dict EXCEPT ![k] = v]
    BY <1>1, <1>5 DEF Goal
  <2>4. cur' = Slot(k, v, 0)
    BY <1>1 DEF EnterInsert
  <2>5. Carries(slots, cur, Goal)'
    BY <1>1, <2>2, <2>3, <2>4 DEF Carries, UsedIn, table
  <2>6. QED
    BY <1>3, <2>5 DEF Contents
<1>9. Cursor'
  BY <1>0, <1>1, <1>2, <1>3 DEF Cursor, At, Start, table
<1>10. Sizes'
  BY <1>1, <1>3, <1>5 DEF IndexInv, Sizes, Live, table, count
<1>11. QED
  BY <1>4, <1>6, <1>7, <1>8, <1>9, <1>10 DEF IndexInv

\* insert_nolock ends with the table that put or rehash wants.
LEMMA InsertEnds ==
  ASSUME IndexInv, pc = "insert", NEW new \in BOOLEAN, InsertReturn(new),
         UNCHANGED <<hash, cap, old, pos, result>>,
         NEW u, u = slots', TableOf(u, cap), Robin(u), Holds(u, UsedIn(u), Goal),
         records' = Cardinality(UsedIn(u)), records' = IF new THEN records + 1 ELSE records
  PROVE  IndexInv'
<1>0. /\ Wide /\ dict \in Maps /\ records \in Nat
      /\ cap \in Nat \ {0, 1} /\ cap <= MaxCap /\ MaxCap \in Nat /\ pos \in Nat
  BY Context
<1>1. Robin(slots)' /\ TableOf(slots, cap)' /\ Used' = UsedIn(u)
  BY NewTable
<1>2. records' \in 0..cap'
  BY <1>0, UsedFinite
<1>3. slots' \in [0..(cap' - 1) -> SlotType]
  BY DEF TableOf
<1>4. CASE pos > 0
  <2>1. pc' = "rehash" /\ UNCHANGED <<arg, idx, dist, cur, size, adds, subs, dict>>
    BY <1>4 DEF InsertReturn, loop, count
  <2>2. Types'
    <3>1. TypeOK'
      BY <1>2, <1>3, <2>1 DEF IndexInv, Types, TypeOK
    <3>2. QED
      BY <1>0, <1>1, <2>1, <3>1 DEF IndexInv, Types
  <2>3. Growing'
    <3>1. PICK n \in 2..cap : /\ cap = 2 * n /\ TableOf(old, n) /\ pos <= n
                              /\ Holds(old, UsedIn(old), dict) /\ records < pos
      BY <1>4, OldTable
    <3>2. TableOf(old', n) /\ Holds(old', UsedIn(old'), dict')
      BY <2>1, <3>1
    <3>3. records' <= pos' /\ pc' # "insert" /\ pos' <= n /\ cap' = 2 * n /\ n \in 2..cap'
      BY <1>0, <2>1, <3>1
    <3>4. QED
      BY <3>2, <3>3, Zenon DEF Growing, TableOf, UsedIn, Holds
  <2>4. Contents'
    <3>1. Holds(u, UsedIn(u), Moved(pos))
      BY <1>0, <1>4 DEF Goal
    <3>2. Moved(pos)' = Moved(pos)
      BY <2>1 DEF Moved, UsedIn
    <3>3. Holds(slots, Used, Moved(pos))'
      BY <1>1, <3>1, <3>2 DEF Holds
    <3>4. QED
      BY <2>1, <3>3 DEF Contents
  <2>5. Cursor' /\ Sizes'
    BY <2>1 DEF IndexInv, Sizes, Cursor, Live
  <2>6. QED
    BY <1>1, <2>2, <2>3, <2>4, <2>5 DEF IndexInv
<1>5. CASE pos = 0
  <2>1. /\ pc' = "idle" /\ arg' = NoOp /\ idx' = 0 /\ dist' = 0 /\ cur' = Free
        /\ dict' = [dict EXCEPT ![arg.key] = arg.val]
        /\ adds' = IF new THEN adds + 1 ELSE adds
        /\ size' = size /\ subs' = subs
    BY <1>5 DEF InsertReturn, Leave
  <2>2. dict' = Goal
    BY <1>5, <2>1 DEF Goal
  <2>3. Types'
    <3>1. dict' \in Maps
      BY <1>0, <2>1 DEF IndexInv, Types, Maps
    <3>2. cur' \in SlotType /\ arg' \in Ops
      BY <2>1, IndexAssumption DEF Free, SlotType, NoOp, Ops
    <3>3. adds' \in 0..MaxThreads /\ adds' + subs' <= MaxThreads
      BY <2>1, IndexAssumption DEF IndexInv, Types, TypeOK
    <3>4. TypeOK'
      BY <1>0, <1>2, <1>3, <2>1, <3>1, <3>2, <3>3 DEF IndexInv, Types, TypeOK, Maps, Ops
    <3>5. QED
      BY <1>0, <1>1, <1>5, <2>1, <3>3, <3>4 DEF IndexInv, Types
  <2>4. Growing' /\ Cursor'
    BY <1>5, <2>1 DEF Growing, Cursor
  <2>5. Contents'
    <3>1. PICK m, S : m = Goal /\ S = UsedIn(u)
      OBVIOUS
    <3>2. Holds(u, S, m) /\ slots' = u /\ Used' = S /\ dict' = m
      BY <1>1, <2>2, <3>1
    <3>3. Holds(slots, Used, dict)'
      BY <3>2 DEF Holds
    <3>4. QED
      BY <2>1, <3>3 DEF Contents
  <2>6. Sizes'
    <3>1. PICK m : m = Goal
      OBVIOUS
    <3>2. PICK L : L = {k \in Keys : m[k] # NoVal}
      OBVIOUS
    <3>3. IsFiniteSet(L) /\ Cardinality(L) = records'
      BY <1>0, <3>1, <3>2, CountedKeys
    <3>4. Live' = L
      BY <2>2, <3>1, <3>2 DEF Live
    <3>5. records = Cardinality(Live) /\ size = (Cardinality(Live) - adds + subs) % SizeMod
      BY <1>5 DEF IndexInv, Sizes
    <3>6. Cardinality(L) - adds' + subs' = Cardinality(Live) - adds + subs
      BY <1>0, <2>1, <3>3, <3>5, IndexAssumption DEF IndexInv, Types, TypeOK
    <3>7. QED
      BY <2>1, <3>3, <3>4, <3>5, <3>6 DEF Sizes
  <2>7. QED
    BY <1>1, <2>3, <2>4, <2>5, <2>6 DEF IndexInv
<1>6. QED
  BY <1>0, <1>4, <1>5

\* What the entry in hand is like in the middle of an insertion
LEMMA InHand ==
  ASSUME IndexInv, pc = "insert"
  PROVE  /\ Fit(cur) /\ idx = At(cur.key, cur.dist) /\ records < cap
         /\ cur.dist > 0 => Pred(idx) \in UsedIn(slots) /\ slots[Pred(idx)].dist >= cur.dist - 1
         /\ Carries(slots, cur, Goal)
<1>1. cur \in SlotType /\ Used = UsedIn(slots) /\ cap \in Nat
  BY Context DEF IndexInv, Types, TypeOK
<1>2. cur.dist \in Dom
  <2>1. cur.dist \in Nat
    BY <1>1, IndexAssumption DEF SlotType
  <2>2. QED
    BY <1>1, <2>1 DEF IndexInv, Cursor, Dom
<1>3. QED
  BY <1>1, <1>2 DEF IndexInv, Cursor, Contents, Fit

LEMMA InsertFreeStep == ASSUME IndexInv, InsertFree PROVE IndexInv'
<1>0. /\ Wide /\ TableOf(slots, cap) /\ Robin(slots) /\ Used = UsedIn(slots)
      /\ IsFiniteSet(Used) /\ records = Cardinality(Used) /\ idx \in Dom
  BY Context
<1>1. /\ pc = "insert" /\ ~slots[idx].used
      /\ records' = records + 1 /\ InsertReturn(TRUE)
      /\ UNCHANGED <<hash, cap, old, pos, result>>
  BY DEF InsertFree
<1>2. PICK c : c = cur
  OBVIOUS
<1>3. PICK u : u = slots' /\ u = [slots EXCEPT ![idx] = c]
  BY <1>2 DEF InsertFree
<1>4. /\ Fit(c) /\ idx = At(c.key, c.dist) /\ Carries(slots, c, Goal)
      /\ c.dist > 0 => Pred(idx) \in UsedIn(slots) /\ slots[Pred(idx)].dist >= c.dist - 1
  BY <1>1, <1>2, InHand
<1>5. idx \notin UsedIn(slots)
  BY <1>1 DEF UsedIn
<1>6. \A j \in UsedIn(slots) : Pred(j) = idx => slots[j].dist <= c.dist + 1
  <2>1. ASSUME NEW j \in UsedIn(slots), Pred(j) = idx PROVE slots[j].dist <= c.dist + 1
    <3>1. slots[j].dist = 0
      BY <1>0, <1>5, <2>1, NextNear
    <3>2. QED
      BY <1>4, <3>1 DEF Fit, Dom
  <2>2. QED
    BY <2>1
<1>7. TableOf(u, cap) /\ Robin(u) /\ UsedIn(u) = UsedIn(slots) \cup {idx}
  BY <1>0, <1>3, <1>4, <1>6, PlaceEntry
<1>8. Holds(u, UsedIn(u), Goal)
  <2>1. PICK m : m = Goal
    OBVIOUS
  <2>2. Holds(u, UsedIn(slots) \cup {idx}, m)
    BY <1>0, <1>1, <1>3, <1>4, <2>1, CarryFree
  <2>3. QED
    BY <1>7, <2>1, <2>2
<1>9. Cardinality(UsedIn(u)) = records + 1
  BY <1>0, <1>5, <1>7, FS_AddElement
<1>10. QED
  BY <1>1, <1>3, <1>7, <1>8, <1>9, InsertEnds

LEMMA InsertOverwriteStep == ASSUME IndexInv, InsertOverwrite PROVE IndexInv'
<1>0. /\ Wide /\ TableOf(slots, cap) /\ Robin(slots) /\ Used = UsedIn(slots)
      /\ records = Cardinality(Used) /\ idx \in Dom
  BY Context
<1>1. /\ pc = "insert" /\ slots[idx].used /\ slots[idx].key = cur.key
      /\ InsertReturn(FALSE)
      /\ UNCHANGED <<hash, cap, records, old, pos, result>>
  BY DEF InsertOverwrite
<1>2. PICK c : c = cur
  OBVIOUS
<1>3. PICK v \in Vals : v = c.val
  BY <1>1, <1>2, InHand DEF Fit
<1>4. PICK i \in UsedIn(slots) : i = idx
  BY <1>0, <1>1, UsedType
<1>5. PICK u : u = slots' /\ u = [slots EXCEPT ![i].val = v]
  BY <1>2, <1>3, <1>4 DEF InsertOverwrite
<1>6. /\ u \in [Dom -> SlotType] /\ u[i].val = v /\ \A j \in Dom : j # i => u[j] = slots[j]
      /\ u[i].key = slots[i].key /\ u[i].dist = slots[i].dist /\ u[i].used = slots[i].used
  <2>1. slots \in [Dom -> SlotType] /\ slots[i] \in SlotType /\ i \in Dom
    BY <1>0, <1>4, UsedType DEF TableOf, Dom
  <2>2. [slots[i] EXCEPT !.val = v] \in SlotType
    BY <2>1 DEF SlotType
  <2>3. u \in [Dom -> SlotType] /\ u[i] = [slots[i] EXCEPT !.val = v]
    BY <1>5, <2>1, <2>2
  <2>4. \A j \in Dom : j # i => u[j] = slots[j]
    BY <1>5, <2>1
  <2>5. QED
    BY <2>1, <2>3, <2>4 DEF SlotType
<1>7. TableOf(u, cap) /\ Robin(u) /\ UsedIn(u) = UsedIn(slots)
  BY ONLY <1>0, <1>6, NewValue, i \in UsedIn(slots), v \in Vals
<1>8. Holds(u, UsedIn(u), Goal)
  <2>1. PICK m : m = Goal
    OBVIOUS
  <2>2. Carries(slots, c, m) /\ slots[i].key = c.key
    BY <1>1, <1>2, <1>4, <2>1, InHand
  <2>3. \A j \in UsedIn(slots) : u[j].key = slots[j].key /\ (j # i => u[j] = slots[j])
    BY <1>0, <1>6, UsedType
  <2>4. Holds(u, UsedIn(slots), m)
    BY <1>3, <1>6, <2>2, <2>3, CarryOver
  <2>5. QED
    BY <1>7, <2>1, <2>4
<1>9. QED
  BY <1>0, <1>1, <1>5, <1>7, <1>8, InsertEnds

\* The insertion goes on with the next slot.
LEMMA InsertGoesOn ==
  ASSUME IndexInv, pc = "insert", NEW u, u = slots', TableOf(u, cap), Robin(u),
         UsedIn(u) = UsedIn(slots), NEW d, d = cur', Fit(d), Carries(u, d, Goal),
         idx' = At(d.key, d.dist), idx' \in Dom,
         d.dist > 0 => Pred(idx') \in UsedIn(u) /\ u[Pred(idx')].dist >= d.dist - 1,
         pc' = "insert",
         UNCHANGED <<hash, cap, records, arg, dist, old, pos, size, adds, subs, result, dict>>
  PROVE  IndexInv'
<1>0. /\ Used = UsedIn(slots) /\ records < cap /\ cap \in Nat \ {0, 1}
      /\ records = Cardinality(Used)
  BY Context, InHand
<1>1. Robin(slots)' /\ TableOf(slots, cap)' /\ Used' = UsedIn(u)
  BY NewTable
<1>2. Types'
  <2>1. slots' \in [0..(cap' - 1) -> SlotType]
    BY DEF TableOf
  <2>2. TypeOK'
    BY <2>1 DEF IndexInv, Types, TypeOK, Fit, Dom
  <2>3. QED
    BY <1>0, <1>1, <2>2 DEF IndexInv, Types
<1>3. Growing'
  BY DEF IndexInv, Growing, TableOf, UsedIn, Holds
<1>4. Contents'
  <2>1. Goal' = Goal
    BY DEF Goal, Moved, UsedIn
  <2>2. Carries(slots, cur, Goal)'
    BY <2>1 DEF Carries, UsedIn
  <2>3. QED
    BY <2>2 DEF Contents
<1>5. Cursor'
  <2>1. d.dist < cap
    BY <1>0 DEF Fit, Dom
  <2>2. QED
    BY <1>0, <1>1, <2>1 DEF Cursor, Fit, At, Start, Pred
<1>6. Sizes'
  BY DEF IndexInv, Sizes, Live
<1>7. QED
  BY <1>1, <1>2, <1>3, <1>4, <1>5, <1>6 DEF IndexInv

LEMMA InsertDisplaceStep == ASSUME IndexInv, InsertDisplace PROVE IndexInv'
<1>0. /\ Wide /\ TableOf(slots, cap) /\ Robin(slots) /\ Used = UsedIn(slots)
      /\ records = Cardinality(Used) /\ idx \in Dom /\ cap \in Nat \ {0, 1} /\ cap <= MaxCap
      /\ MaxCap \in Nat
  BY Context
<1>1. /\ pc = "insert" /\ slots[idx].used /\ slots[idx].key # cur.key
      /\ idx' = After(idx, cap)
      /\ UNCHANGED <<hash, cap, records, arg, dist, old, pos, size, adds, subs, result, dict>>
  BY DEF InsertDisplace, count
<1>2. PICK c, m : c = cur /\ m = Goal
  OBVIOUS
<1>3. PICK i \in UsedIn(slots) : i = idx /\ slots[i].key # c.key /\ i \in Dom
  BY <1>0, <1>1, <1>2, UsedType
<1>4. /\ Fit(c) /\ i = At(c.key, c.dist) /\ Carries(slots, c, m) /\ records < cap
      /\ c.dist > 0 => Pred(i) \in UsedIn(slots) /\ slots[Pred(i)].dist >= c.dist - 1
  BY <1>1, <1>2, <1>3, InHand
<1>5. PICK x \in Dom : ~slots[x].used
  BY <1>0, <1>4, FreeSlot
<1>6. slots[i] \in SlotType /\ slots[i].dist \in Dom /\ c.dist \in Dom /\ Fit(slots[i])
  BY <1>0, <1>3, <1>4, UsedType DEF TableOf, Fit, Dom
<1>7. After(idx, cap) \in Dom /\ Pred(After(idx, cap)) = i
  BY <1>0, <1>3, AfterValue, PredAfter
<1>8. CASE slots[i].dist < c.dist
  <2>1. PICK o : o = slots[i]
    OBVIOUS
  <2>2. PICK u : u = [slots EXCEPT ![i] = c]
    OBVIOUS
  <2>3. PICK d : d = [o EXCEPT !.dist = @ + 1]
    OBVIOUS
  <2>4. slots' = u /\ cur' = d /\ pc' = IF o.dist + 1 >= cap THEN "overflow" ELSE "insert"
    BY <1>2, <1>3, <1>8, <2>1, <2>2, <2>3 DEF InsertDisplace
  <2>5. \A j \in UsedIn(slots) : Pred(j) = i => slots[j].dist <= c.dist + 1
    <3>1. ASSUME NEW j \in UsedIn(slots), Pred(j) = i PROVE slots[j].dist <= c.dist + 1
      <4>1. slots[j].dist = 0 \/ slots[j].dist <= slots[i].dist + 1
        BY <1>0, <1>3, <3>1, NextNear
      <4>2. slots[j].dist \in Dom
        BY <1>0, UsedType
      <4>3. QED
        BY <1>6, <1>8, <4>1, <4>2 DEF Dom
    <3>2. QED
      BY <3>1
  <2>6. TableOf(u, cap) /\ Robin(u) /\ UsedIn(u) = UsedIn(slots)
    <3>1. TableOf(u, cap) /\ Robin(u) /\ UsedIn(u) = UsedIn(slots) \cup {i}
      BY <1>0, <1>3, <1>4, <2>2, <2>5, PlaceEntry
    <3>2. QED
      BY <1>3, <3>1
  <2>7. o.dist + 1 < cap
    BY <1>0, <1>3, <1>5, <2>1, NoFullRound
  <2>8. Fit(d) /\ d.key = o.key /\ d.val = o.val /\ d.dist = o.dist + 1
    BY <1>0, <1>6, <2>1, <2>3, <2>7 DEF Fit, SlotType, Dom
  <2>9. Carries(u, d, m)
    BY <1>0, <1>3, <1>4, <1>8, <2>1, <2>2, <2>6, <2>8, CarrySwap
  <2>10. idx' = At(d.key, d.dist)
    <3>1. i = At(o.key, o.dist) /\ o.key \in Keys /\ o.dist \in Dom /\ o.dist + 1 \in Dom
      BY <1>0, <1>6, <2>1, <2>7, <2>8 DEF Robin, Fit
    <3>2. PICK k \in Keys, e \in Dom : k = o.key /\ e = o.dist
      BY <3>1
    <3>3. After(At(k, e), cap) = At(k, e + 1)
      BY <1>0, <3>1, <3>2, AtNext
    <3>4. QED
      BY <1>1, <1>3, <2>8, <3>1, <3>2, <3>3
  <2>11. Pred(idx') \in UsedIn(u) /\ u[Pred(idx')].dist >= d.dist - 1
    <3>1. u[i] = c
      BY <1>0, <1>3, <2>2 DEF TableOf, Dom
    <3>2. c.dist >= d.dist - 1
      BY <1>6, <1>8, <2>1, <2>8 DEF Dom
    <3>3. Pred(idx') = i
      BY <1>1, <1>7
    <3>4. QED
      BY <2>6, <3>1, <3>2, <3>3
  <2>12. pc' = "insert"
    BY <1>0, <1>6, <2>1, <2>4, <2>7 DEF Dom
  <2>13. QED
    BY <1>1, <1>2, <1>7, <2>4, <2>6, <2>8, <2>9, <2>10, <2>11, <2>12, InsertGoesOn
<1>9. CASE ~(slots[i].dist < c.dist)
  <2>1. PICK u : u = slots
    OBVIOUS
  <2>2. PICK d : d = [c EXCEPT !.dist = @ + 1]
    OBVIOUS
  <2>3. slots' = u /\ cur' = d /\ pc' = IF c.dist + 1 >= cap THEN "overflow" ELSE "insert"
    BY <1>2, <1>3, <1>9, <2>1, <2>2 DEF InsertDisplace
  <2>4. c.dist + 1 < cap
    <3>1. slots[i].dist + 1 < cap
      BY <1>0, <1>3, <1>5, NoFullRound
    <3>2. QED
      BY <1>0, <1>6, <1>9, <3>1 DEF Dom
  <2>5. Fit(d) /\ d.key = c.key /\ d.val = c.val /\ d.dist = c.dist + 1
    BY <1>0, <1>4, <1>6, <2>2, <2>4 DEF Fit, SlotType, Dom
  <2>6. Carries(u, d, m)
    BY <1>0, <1>3, <1>4, <2>1, <2>5, CarryOn
  <2>7. idx' = At(d.key, d.dist)
    <3>1. PICK k \in Keys, e \in Dom : k = c.key /\ e = c.dist
      BY <1>4 DEF Fit
    <3>2. e + 1 \in Dom
      BY <2>5, <3>1 DEF Fit
    <3>3. After(At(k, e), cap) = At(k, e + 1)
      BY <1>0, <3>2, AtNext
    <3>4. QED
      BY <1>1, <1>3, <1>4, <2>5, <3>1, <3>3
  <2>8. Pred(idx') \in UsedIn(u) /\ u[Pred(idx')].dist >= d.dist - 1
    <3>1. slots[i].dist >= d.dist - 1
      BY <1>6, <1>9, <2>5 DEF Dom
    <3>2. Pred(idx') = i
      BY <1>1, <1>7
    <3>3. QED
      BY <2>1, <3>1, <3>2
  <2>9. pc' = "insert"
    BY <1>0, <1>6, <2>3, <2>4 DEF Dom
  <2>10. QED
    BY <1>0, <1>1, <1>2, <1>7, <2>1, <2>3, <2>5, <2>6, <2>7, <2>8, <2>9, InsertGoesOn
<1>10. QED
  BY <1>8, <1>9

-----------------------------------------------------------------------------
(* get and erase                                                           *)

LEMMA Searching ==
  ASSUME IndexInv, pc = "find"
  PROVE  /\ arg.key \in Keys /\ dist \in Dom /\ idx = At(arg.key, dist) /\ pos = 0
         /\ \A i \in UsedIn(slots) : slots[i].key = arg.key => slots[i].dist >= dist
         /\ Holds(slots, UsedIn(slots), dict) /\ records = Cardinality(Live)
<1>1. Used = UsedIn(slots) /\ cap \in Nat /\ dist \in 0..cap
  BY Context DEF IndexInv, Types, TypeOK
<1>2. QED
  BY <1>1 DEF IndexInv, Types, Cursor, Contents, Sizes, Dom

\* A search that ends without the key is right: no slot has it.
LEMMA MissRight == ASSUME IndexInv, pc = "find", Miss PROVE dict[arg.key] = NoVal
<1>0. Wide /\ TableOf(slots, cap) /\ Robin(slots) /\ idx \in Dom
  BY Context
<1>1. PICK k \in Keys, d \in Dom : k = arg.key /\ d = dist
  BY Searching
<1>2. SUFFICES ASSUME NEW i \in UsedIn(slots), slots[i].key = k PROVE FALSE
  BY <1>1, Searching DEF Holds
<1>3. slots[i].dist >= d
  BY <1>1, <1>2, Searching
<1>4. At(k, d) \in UsedIn(slots) /\ slots[At(k, d)].dist >= d
  BY <1>0, <1>2, <1>3, NotPassed
<1>5. idx = At(k, d)
  BY <1>1, Searching
<1>6. slots[idx].used /\ slots[idx].dist \in Dom /\ slots[idx].dist >= d
  BY <1>0, <1>4, <1>5, UsedType
<1>7. QED
  BY <1>1, <1>6 DEF Miss, Dom

\* One that has found it has found what a map would return.
LEMMA HitRight ==
  ASSUME IndexInv, pc = "find", ~Miss, slots[idx].key = arg.key
  PROVE  idx \in UsedIn(slots) /\ slots[idx].val \in Vals /\ dict[arg.key] = slots[idx].val
<1>1. Wide /\ TableOf(slots, cap) /\ idx \in Dom
  BY Context
<1>2. idx \in UsedIn(slots)
  BY <1>1, UsedType DEF Miss
<1>3. QED
  BY <1>1, <1>2, UsedType, Searching DEF Holds

\* A slot with the key is still ahead when this one has another key.
LEMMA StillAhead ==
  ASSUME IndexInv, pc = "find", slots[idx].key # arg.key, NEW i \in UsedIn(slots),
         slots[i].key = arg.key
  PROVE  slots[i].dist >= dist + 1 /\ slots[i].dist \in Dom
<1>0. Wide /\ TableOf(slots, cap) /\ Robin(slots)
  BY Context
<1>1. slots[i].dist >= dist /\ slots[i].dist \in Dom /\ dist \in Dom
  BY <1>0, UsedType, Searching
<1>2. i = At(slots[i].key, slots[i].dist)
  BY <1>0 DEF Robin
<1>3. slots[i].dist # dist
  BY <1>2, Searching
<1>4. QED
  BY <1>1, <1>3 DEF Dom

LEMMA FullRoundRight ==
  ASSUME IndexInv, pc = "find", slots[idx].key # arg.key, dist + 1 >= cap
  PROVE  dict[arg.key] = NoVal
<1>1. SUFFICES ASSUME NEW i \in UsedIn(slots), slots[i].key = arg.key PROVE FALSE
  BY Searching DEF Holds
<1>2. slots[i].dist >= dist + 1 /\ slots[i].dist \in Dom
  BY <1>1, StillAhead
<1>3. dist \in Dom /\ cap \in Nat
  BY Searching, Context
<1>4. QED
  BY <1>2, <1>3 DEF Dom

LEMMA FindBeginStep ==
  ASSUME IndexInv, NEW op, NEW k \in Keys, FindBegin(op, k) PROVE IndexInv'
<1>0. /\ Wide /\ TableOf(slots, cap) /\ Used = UsedIn(slots) /\ cap \in Nat \ {0, 1}
      /\ Used \subseteq Dom
  BY Context
<1>1. /\ pc = "idle" /\ op \in {"get", "erase"} /\ adds + subs < MaxThreads
      /\ arg' = [op |-> op, key |-> k, val |-> NoVal]
      /\ pc' = "find" /\ idx' = At(k, 0) /\ dist' = 0 /\ result' = NoVal
      /\ UNCHANGED <<hash, table, cur, old, pos, count, dict>>
  BY <1>0, AtStart DEF FindBegin
<1>2. Robin(slots)' /\ TableOf(slots, cap)' /\ Used' = Used
  BY <1>1, SameTable
<1>3. idx' \in Dom
  BY <1>0, <1>1, AtStart, StartType
<1>4. pos = 0
  BY <1>1 DEF IndexInv, Types
<1>5. Types'
  <2>1. TypeOK'
    BY <1>0, <1>1, <1>3 DEF IndexInv, Types, TypeOK, table, count, Dom
  <2>2. QED
    BY <1>1, <1>2, <1>4, <2>1 DEF IndexInv, Types, table, count
<1>6. Growing'
  BY <1>1, <1>4 DEF Growing
<1>7. Contents'
  BY <1>1, <1>2 DEF IndexInv, Contents, Holds, table
<1>8. Cursor'
  <2>1. \A i \in Used : slots[i].dist >= 0
    BY <1>0, UsedType DEF Dom
  <2>2. QED
    BY <1>0, <1>1, <1>2, <2>1 DEF Cursor, At, Start, table
<1>9. Sizes'
  BY <1>1, <1>4 DEF IndexInv, Sizes, Live, table, count
<1>10. QED
  BY <1>2, <1>5, <1>6, <1>7, <1>8, <1>9 DEF IndexInv

LEMMA FindEnds ==
  ASSUME IndexInv, pc = "find", Leave, result' \in Vals \cup {NoVal},
         UNCHANGED <<hash, table, old, pos, count, dict>>
  PROVE  IndexInv'
<1>0. cap \in Nat \ {0, 1} /\ pos = 0
  BY Context, Searching
<1>1. /\ pc' = "idle" /\ arg' = NoOp /\ idx' = 0 /\ dist' = 0 /\ cur' = Free
  BY DEF Leave
<1>2. Robin(slots)' /\ TableOf(slots, cap)' /\ Used' = Used
  BY SameTable
<1>3. Types'
  <2>1. cur' \in SlotType /\ arg' \in Ops
    BY <1>1, IndexAssumption DEF Free, SlotType, NoOp, Ops
  <2>2. TypeOK'
    BY <1>0, <1>1, <2>1 DEF IndexInv, Types, TypeOK, Ops, table, count
  <2>3. QED
    BY <1>0, <1>1, <1>2, <2>2 DEF IndexInv, Types, table, count
<1>4. Growing' /\ Cursor'
  BY <1>0, <1>1 DEF Growing, Cursor
<1>5. Contents'
  BY <1>1, <1>2 DEF IndexInv, Contents, Holds, table
<1>6. Sizes'
  BY <1>0, <1>1 DEF IndexInv, Sizes, Live, table, count
<1>7. QED
  BY <1>2, <1>3, <1>4, <1>5, <1>6 DEF IndexInv

LEMMA ResultType == IndexInv => result \in Vals \cup {NoVal}
  BY DEF IndexInv, Types, TypeOK

LEMMA FindMissStep == ASSUME IndexInv, FindMiss PROVE IndexInv'
<1>1. result' \in Vals \cup {NoVal}
  BY ResultType DEF FindMiss, FindEnd
<1>2. QED
  BY <1>1, FindEnds DEF FindMiss, FindEnd

LEMMA FindHitStep == ASSUME IndexInv, FindHit PROVE IndexInv'
<1>1. /\ pc = "find" /\ ~Miss /\ slots[idx].key = arg.key
      /\ UNCHANGED <<hash, table, old, pos, count, dict>>
  BY DEF FindHit
<1>2. idx \in UsedIn(slots) /\ slots[idx].val \in Vals
  BY <1>1, HitRight
<1>3. CASE arg.op = "get" /\ FindEnd(slots[idx].val)
  <2>1. result' \in Vals \cup {NoVal}
    BY <1>2, <1>3 DEF FindEnd
  <2>2. QED
    BY <1>1, <1>3, <2>1, FindEnds DEF FindEnd
<1>4. CASE arg.op = "erase" /\ pc' = "shift" /\ UNCHANGED <<arg, loop, result>>
  <2>0. Used = UsedIn(slots) /\ TableOf(slots, cap) /\ Wide /\ pos = 0 /\ dict \in Maps
    BY <1>1, Context, Searching
  <2>1. Robin(slots)' /\ TableOf(slots, cap)' /\ Used' = Used
    BY <1>1, SameTable
  <2>2. Types'
    <3>1. TypeOK'
      BY <1>1, <1>4 DEF IndexInv, Types, TypeOK, table, count, loop
    <3>2. QED
      BY <1>1, <1>4, <2>0, <2>1, <3>1 DEF IndexInv, Types, table, count
  <2>3. Growing' /\ Cursor'
    BY <1>1, <1>4, <2>0 DEF Growing, Cursor
  <2>4. Contents'
    <3>0. PICK k \in Keys : k = arg.key
      BY <1>1, Searching
    <3>a. PICK m : m = Without(dict, k)
      OBVIOUS
    <3>1. k = arg.key /\ m = Without(dict, k)
      BY <3>0, <3>a
    <3>2. \A x \in Keys : m[x] = IF x = k THEN NoVal ELSE dict[x]
      BY <2>0, <3>1 DEF Without, Maps
    <3>3. \A i \in Used : slots[i].key \in Keys
      BY <2>0, UsedType
    <3>4. Holds(slots, Used, dict)
      BY <1>1, <2>0, Searching
    <3>5. Holds(slots, Used \ {idx}, m)
      BY <1>1, <1>2, <2>0, <3>1, <3>2, <3>3, <3>4 DEF Holds
    <3>6. QED
      BY <1>1, <1>2, <1>4, <2>0, <2>1, <3>1, <3>5 DEF Contents, Holds, Without, table, loop
  <2>5. Sizes'
    BY <1>1, <1>4 DEF IndexInv, Sizes, Live, table, count
  <2>6. QED
    BY <2>1, <2>2, <2>3, <2>4, <2>5 DEF IndexInv
<1>5. QED
  BY <1>3, <1>4 DEF FindHit

LEMMA FindNextStep == ASSUME IndexInv, FindNext PROVE IndexInv'
<1>1. /\ pc = "find" /\ ~Miss /\ slots[idx].key # arg.key
      /\ UNCHANGED <<hash, table, old, pos, count, dict>>
  BY DEF FindNext
<1>2. CASE dist + 1 >= cap
  <2>1. FindEnd(NoVal)
    BY <1>2 DEF FindNext
  <2>2. result' \in Vals \cup {NoVal}
    BY <2>1, ResultType DEF FindEnd
  <2>3. QED
    BY <1>1, <2>1, <2>2, FindEnds DEF FindEnd
<1>3. CASE ~(dist + 1 >= cap)
  <2>0. Used = UsedIn(slots) /\ Wide /\ pos = 0 /\ cap \in Nat \ {0, 1} /\ idx \in Dom
    BY <1>1, Context, Searching
  <2>1. idx' = After(idx, cap) /\ dist' = dist + 1 /\ UNCHANGED <<pc, arg, cur, result>>
    BY <1>3 DEF FindNext
  <2>2. PICK k \in Keys, d \in Dom : k = arg.key /\ d = dist /\ idx = At(k, d)
    BY <1>1, Searching
  <2>3. d + 1 \in Dom
    BY <1>3, <2>0, <2>2 DEF Dom
  <2>4. After(At(k, d), cap) = At(k, d + 1)
    BY <2>0, <2>3, AtNext
  <2>5. idx' = At(k, dist') /\ idx' \in Dom
    BY <2>0, <2>1, <2>2, <2>4, AfterValue
  <2>6. Robin(slots)' /\ TableOf(slots, cap)' /\ Used' = Used
    BY <1>1, SameTable
  <2>7. Types'
    <3>1. dist' \in 0..cap
      BY <2>0, <2>1, <2>2, <2>3 DEF Dom
    <3>2. TypeOK'
      BY <1>1, <2>1, <2>5, <3>1 DEF IndexInv, Types, TypeOK, table, count, Dom
    <3>3. QED
      BY <1>1, <2>1, <2>6, <3>2 DEF IndexInv, Types, table, count
  <2>8. Growing'
    BY <1>1, <2>0, <2>1 DEF Growing
  <2>9. Contents'
    BY <1>1, <2>1, <2>6 DEF IndexInv, Contents, Holds, table
  <2>10. Cursor'
    <3>1. \A i \in Used : slots[i].key = arg.key => slots[i].dist >= dist + 1
      BY <1>1, <2>0, StillAhead
    <3>2. dist' < cap
      BY <2>0, <2>1, <2>2, <2>3 DEF Dom
    <3>3. QED
      BY <1>1, <2>1, <2>2, <2>5, <2>6, <3>1, <3>2 DEF Cursor, At, Start, table
  <2>11. Sizes'
    BY <1>1, <2>1 DEF IndexInv, Sizes, Live, table, count
  <2>12. QED
    BY <2>6, <2>7, <2>8, <2>9, <2>10, <2>11 DEF IndexInv
<1>4. QED
  BY <1>2, <1>3

LEMMA Shifting ==
  ASSUME IndexInv, pc = "shift"
  PROVE  /\ arg.key \in Keys /\ pos = 0 /\ idx \in UsedIn(slots) /\ records = Cardinality(Live)
         /\ Holds(slots, UsedIn(slots) \ {idx}, Without(dict, arg.key))
<1>1. Used = UsedIn(slots)
  BY Context
<1>2. QED
  BY <1>1 DEF IndexInv, Types, Contents, Sizes

\* The hole moves one slot on: the entry behind it comes nearer to its start.
LEMMA ShiftStep == ASSUME IndexInv, Shift PROVE IndexInv'
<1>0. /\ Wide /\ TableOf(slots, cap) /\ Robin(slots) /\ Used = UsedIn(slots)
      /\ records = Cardinality(Used) /\ cap \in Nat \ {0, 1} /\ idx \in Dom
  BY Context
<1>1. /\ pc = "shift" /\ Successor.used /\ Successor.dist > 0 /\ idx' = After(idx, cap)
      /\ UNCHANGED <<hash, cap, records, pc, arg, dist, cur, old, pos, count, result, dict>>
  BY DEF Shift, Shiftable
<1>2. PICK i \in UsedIn(slots) : i = idx /\ i \in Dom
  BY <1>0, <1>1, Shifting
<1>3. PICK j \in Dom : j = After(i, cap) /\ Pred(j) = i /\ j # i
  BY <1>0, <1>2, AfterValue, PredAfter
<1>4. j \in UsedIn(slots) /\ slots[j].dist > 0 /\ Successor = slots[j]
  BY <1>0, <1>1, <1>2, <1>3, UsedType DEF Successor
<1>5. PICK s \in SlotType : s = slots[j] /\ s.used /\ s.key \in Keys /\ s.val \in Vals
                            /\ s.dist \in Dom /\ s.dist > 0
  BY <1>0, <1>3, <1>4, UsedType DEF TableOf, Dom
<1>6. PICK c : c = [s EXCEPT !.dist = @ - 1]
  OBVIOUS
<1>7. PICK u : u = slots' /\ u = [slots EXCEPT ![i] = c]
  BY <1>2, <1>4, <1>5, <1>6 DEF Shift
<1>8. c.dist = s.dist - 1 /\ c.key = s.key /\ c.val = s.val /\ c.dist \in Dom /\ c.dist + 1 \in Dom
  BY <1>0, <1>5, <1>6 DEF SlotType, Dom
<1>9. Fit(c)
  BY <1>0, <1>5, <1>6, <1>8, IndexAssumption DEF Fit, SlotType, Dom
<1>10. i = At(c.key, c.dist)
  <2>1. PICK k \in Keys, d \in Dom : k = c.key /\ d = c.dist
    BY <1>5, <1>8
  <2>2. d + 1 = s.dist /\ d + 1 \in Dom
    BY <1>5, <1>8, <2>1 DEF Dom
  <2>3. j = At(k, d + 1)
    BY <1>0, <1>4, <1>5, <1>8, <2>1, <2>2 DEF Robin
  <2>4. Pred(At(k, d + 1)) = At(k, d)
    BY <1>0, <2>2, AtNext
  <2>5. QED
    BY <1>3, <2>1, <2>3, <2>4
<1>11. c.dist > 0 => Pred(i) \in UsedIn(slots) /\ slots[Pred(i)].dist >= c.dist - 1
  <2>1. SUFFICES ASSUME c.dist > 0
                 PROVE  Pred(i) \in UsedIn(slots) /\ slots[Pred(i)].dist >= c.dist - 1
    OBVIOUS
  <2>2. slots[i].dist >= s.dist - 1
    BY <1>0, <1>3, <1>4, <1>5 DEF Robin
  <2>3. slots[i].dist \in Dom
    BY <1>0, <1>2, UsedType
  <2>4. slots[i].dist > 0 /\ slots[i].dist >= c.dist
    BY <1>5, <1>8, <2>1, <2>2, <2>3 DEF Dom
  <2>5. Pred(i) \in UsedIn(slots) /\ slots[Pred(i)].dist >= slots[i].dist - 1
    BY <1>0, <1>2, <2>4 DEF Robin
  <2>6. slots[Pred(i)].dist \in Dom
    BY <1>0, <2>5, UsedType
  <2>7. QED
    BY <1>8, <2>3, <2>4, <2>5, <2>6 DEF Dom
<1>12. \A l \in UsedIn(slots) : Pred(l) = i => slots[l].dist <= c.dist + 1
  <2>1. ASSUME NEW l \in UsedIn(slots), Pred(l) = i PROVE slots[l].dist <= c.dist + 1
    <3>1. l \in Dom
      BY <1>0, UsedType
    <3>2. l = j
      BY <1>0, <1>2, <1>3, <2>1, <3>1, PredAfter
    <3>3. QED
      BY <1>5, <1>8, <3>2 DEF Dom
  <2>2. QED
    BY <2>1
<1>13. TableOf(u, cap) /\ Robin(u) /\ UsedIn(u) = UsedIn(slots)
  <2>1. TableOf(u, cap) /\ Robin(u) /\ UsedIn(u) = UsedIn(slots) \cup {i}
    BY <1>0, <1>2, <1>7, <1>9, <1>10, <1>11, <1>12, PlaceEntry
  <2>2. QED
    BY <1>2, <2>1
<1>14. Robin(slots)' /\ TableOf(slots, cap)' /\ Used' = Used
  BY <1>0, <1>1, <1>7, <1>13, NewTable
<1>15. Types'
  <2>1. slots' \in [0..(cap - 1) -> SlotType] /\ idx' \in 0..(cap - 1)
    BY <1>1, <1>2, <1>3, <1>7, <1>13 DEF TableOf, Dom
  <2>2. TypeOK'
    BY <1>1, <2>1 DEF IndexInv, Types, TypeOK, count
  <2>3. QED
    BY <1>0, <1>1, <1>14, <2>2 DEF IndexInv, Types, count
<1>16. Growing' /\ Cursor'
  BY <1>1, Shifting DEF Growing, Cursor
<1>17. Contents'
  <2>1. PICK m : m = Without(dict, arg.key)
    OBVIOUS
  <2>2. Holds(slots, UsedIn(slots) \ {i}, m)
    BY <1>1, <1>2, <2>1, Shifting
  <2>3. u[i] = c /\ \A l \in UsedIn(slots) : l # i => u[l] = slots[l]
    BY <1>0, <1>2, <1>7, UsedType DEF TableOf, Dom
  <2>4. Holds(u, UsedIn(slots) \ {j}, m)
    BY <1>2, <1>3, <1>4, <1>5, <1>8, <2>2, <2>3 DEF Holds
  <2>5. Holds(slots, Used \ {idx}, Without(dict, arg.key))'
    BY <1>0, <1>1, <1>2, <1>3, <1>7, <1>14, <2>1, <2>4 DEF Holds, Without
  <2>6. QED
    BY <1>0, <1>1, <1>2, <1>3, <1>4, <1>14, <2>5 DEF Contents
<1>18. Sizes'
  BY <1>1 DEF IndexInv, Sizes, Live, count
<1>19. QED
  BY <1>14, <1>15, <1>16, <1>17, <1>18 DEF IndexInv

LEMMA ShiftEndStep == ASSUME IndexInv, ShiftEnd PROVE IndexInv'
<1>0. /\ Wide /\ TableOf(slots, cap) /\ Robin(slots) /\ Used = UsedIn(slots) /\ IsFiniteSet(Used)
      /\ records = Cardinality(Used) /\ records \in 0..cap /\ cap \in Nat \ {0, 1} /\ dict \in Maps
  BY Context
<1>1. /\ pc = "shift" /\ ~Shiftable /\ records' = records - 1
      /\ pc' = "idle" /\ arg' = NoOp /\ idx' = 0 /\ dist' = 0 /\ cur' = Free
      /\ subs' = subs + 1 /\ dict' = Without(dict, arg.key)
      /\ UNCHANGED <<hash, cap, old, pos, size, adds, result>>
  BY DEF ShiftEnd, Leave, Without
<1>2. PICK i \in UsedIn(slots) : i = idx /\ i \in Dom
  BY <1>0, <1>1, Shifting, UsedType
<1>3. PICK u : u = slots' /\ u = [slots EXCEPT ![i] = Free]
  BY <1>2 DEF ShiftEnd
<1>4. \A l \in UsedIn(slots) : Pred(l) = i => slots[l].dist = 0
  <2>1. ASSUME NEW l \in UsedIn(slots), Pred(l) = i PROVE slots[l].dist = 0
    <3>1. l = After(i, cap) /\ slots[l].used /\ slots[l].dist \in Dom
      BY <1>0, <1>2, <2>1, PredAfter, UsedType
    <3>2. ~(slots[l].dist > 0)
      BY <1>1, <1>2, <3>1 DEF Shiftable, Successor
    <3>3. QED
      BY <3>1, <3>2 DEF Dom
  <2>2. QED
    BY <2>1
<1>5. TableOf(u, cap) /\ Robin(u) /\ UsedIn(u) = UsedIn(slots) \ {i}
  BY <1>0, <1>2, <1>3, <1>4, FreeEntry
<1>6. Robin(slots)' /\ TableOf(slots, cap)' /\ Used' = UsedIn(u)
  BY <1>1, <1>3, <1>5, NewTable
<1>7. Cardinality(UsedIn(u)) = records - 1 /\ records' \in 0..cap
  <2>1. Cardinality(UsedIn(u)) = records - 1
    BY <1>0, <1>5, FS_RemoveElement
  <2>2. Cardinality(UsedIn(u)) \in 0..cap
    BY <1>0, <1>5, UsedFinite
  <2>3. QED
    BY <1>1, <2>1, <2>2
<1>8. PICK m : m = Without(dict, arg.key)
  OBVIOUS
<1>9. Holds(u, UsedIn(u), m)
  <2>1. \A l \in UsedIn(u) : u[l] = slots[l]
    BY <1>0, <1>2, <1>3, <1>5, UsedType DEF TableOf, Dom
  <2>2. Holds(slots, UsedIn(slots) \ {i}, m)
    BY <1>1, <1>2, <1>8, Shifting
  <2>3. QED
    BY <1>5, <2>1, <2>2 DEF Holds
<1>10. Types'
  <2>1. slots' \in [0..(cap - 1) -> SlotType]
    BY <1>3, <1>5 DEF TableOf
  <2>2. cur' \in SlotType /\ arg' \in Ops
    BY <1>1, IndexAssumption DEF Free, SlotType, NoOp, Ops
  <2>3. dict' \in Maps
    BY <1>0, <1>1 DEF Without, Maps
  <2>4. subs' \in 0..MaxThreads /\ adds' + subs' <= MaxThreads
    BY <1>1, IndexAssumption DEF IndexInv, Types, TypeOK
  <2>5. TypeOK'
    BY <1>0, <1>1, <1>7, <2>1, <2>2, <2>3, <2>4 DEF IndexInv, Types, TypeOK, Maps, Ops
  <2>6. QED
    BY <1>0, <1>1, <1>6, <1>7, <2>4, <2>5, Shifting DEF IndexInv, Types
<1>11. Growing' /\ Cursor'
  BY <1>1, Shifting DEF Growing, Cursor
<1>12. Contents'
  BY <1>1, <1>3, <1>6, <1>8, <1>9 DEF Contents, Holds
<1>13. Sizes'
  <2>1. PICK L : L = {k \in Keys : m[k] # NoVal}
    OBVIOUS
  <2>2. IsFiniteSet(L) /\ Cardinality(L) = records'
    BY <1>0, <1>1, <1>5, <1>7, <1>9, <2>1, CountedKeys
  <2>3. Live' = L
    BY <1>1, <1>8, <2>1 DEF Live
  <2>4. records = Cardinality(Live) /\ size = (Cardinality(Live) - adds + subs) % SizeMod
    BY <1>1, Shifting DEF IndexInv, Sizes
  <2>5. Cardinality(L) - adds' + subs' = Cardinality(Live) - adds + subs
    BY <1>0, <1>1, <2>2, <2>4, IndexAssumption DEF IndexInv, Types, TypeOK
  <2>6. QED
    BY <1>1, <2>2, <2>3, <2>4, <2>5 DEF Sizes
<1>14. QED
  BY <1>6, <1>10, <1>11, <1>12, <1>13 DEF IndexInv

-----------------------------------------------------------------------------
(* size_                                                                   *)

\* Steps that leave the table and the loop as they are
LEMMA Kept ==
  ASSUME IndexInv, UNCHANGED <<hash, table, pc, arg, loop, old, pos, dict>>
  PROVE  Robin(slots)' /\ TableOf(slots, cap)' /\ Used' = Used /\ Growing' /\ Contents' /\ Cursor'
<1>1. Robin(slots)' /\ TableOf(slots, cap)' /\ Used' = Used
  BY SameTable
<1>2. Growing'
  BY DEF IndexInv, Growing, TableOf, UsedIn, Holds, table
<1>3. Contents'
  <2>1. Goal' = Goal /\ Moved(pos)' = Moved(pos)
    BY DEF Goal, Moved, UsedIn
  <2>2. QED
    BY <1>1, <2>1 DEF IndexInv, Contents, Holds, Carries, Without, UsedIn, table, loop
<1>4. Cursor'
  BY <1>1 DEF IndexInv, Cursor, At, Pred, Start, table, loop
<1>5. QED
  BY <1>1, <1>2, <1>3, <1>4

LEMMA CountStep ==
  ASSUME IndexInv, Add \/ Sub
  PROVE  IndexInv'
<1>1. UNCHANGED <<hash, table, pc, arg, loop, old, pos, result, dict>>
  BY DEF Add, Sub
<1>2. Robin(slots)' /\ TableOf(slots, cap)' /\ Used' = Used /\ Growing' /\ Contents' /\ Cursor'
  BY <1>1, Kept
<1>3. PICK n \in Nat \ {0}, a \in Int, b \in Int :
          /\ n = SizeMod /\ a = Cardinality(Live) - adds + subs
          /\ b = Cardinality(Live) - adds' + subs'
  <2>1. Cardinality(Live) \in Nat
    BY FS_CardinalityType DEF IndexInv, Sizes
  <2>2. adds \in Nat /\ subs \in Nat /\ adds' \in Int /\ subs' \in Int
    BY IndexAssumption DEF IndexInv, Types, TypeOK, Add, Sub
  <2>3. (Cardinality(Live) - adds + subs) \in Int /\ (Cardinality(Live) - adds' + subs') \in Int
    BY <2>1, <2>2
  <2>4. QED
    BY <2>3, IndexAssumption
<1>4. PICK l \in Nat, x \in Nat, y \in Nat : l = Cardinality(Live) /\ x = adds /\ y = subs
  BY FS_CardinalityType, IndexAssumption DEF IndexInv, Sizes, Types, TypeOK
<1>5. size = a % n
  BY <1>3 DEF IndexInv, Sizes
<1>6. size' = b % n
  <2>1. CASE Add
    <3>1. adds' = x - 1 /\ subs' = y /\ size' = (size + 1) % SizeMod
      BY <1>4, <2>1 DEF Add
    <3>2. a = l - x + y /\ b = l - adds' + subs'
      BY <1>3, <1>4
    <3>3. b = a + 1
      BY <3>1, <3>2
    <3>4. size' = ((a % n) + 1) % n
      BY <1>3, <1>5, <3>1
    <3>5. QED
      BY ONLY <3>3, <3>4, ModStep, n \in Nat \ {0}, a \in Int, b \in Int
  <2>2. CASE Sub
    <3>1. subs' = y - 1 /\ adds' = x /\ size' = (size - 1) % SizeMod
      BY <1>4, <2>2 DEF Sub
    <3>2. a = l - x + y /\ b = l - adds' + subs'
      BY <1>3, <1>4
    <3>3. b = a - 1
      BY <3>1, <3>2
    <3>4. size' = ((a % n) - 1) % n
      BY <1>3, <1>5, <3>1
    <3>5. QED
      BY ONLY <3>3, <3>4, ModStep, n \in Nat \ {0}, a \in Int, b \in Int
  <2>3. QED
    BY <2>1, <2>2
<1>7. Sizes'
  <2>1. Live' = Live
    BY <1>1 DEF Live
  <2>2. QED
    BY <1>1, <1>3, <1>6, <2>1 DEF IndexInv, Sizes, table
<1>8. Types'
  <2>1. /\ adds' \in 0..MaxThreads /\ subs' \in 0..MaxThreads
        /\ adds' + subs' <= adds + subs /\ adds + subs \in Nat /\ adds' + subs' \in Nat
    BY IndexAssumption DEF IndexInv, Types, TypeOK, Add, Sub
  <2>2. size' \in 0..(SizeMod - 1)
    <3>1. b % n \in 0..(n - 1)
      BY ONLY ModRange, n \in Nat \ {0}, b \in Int
    <3>2. QED
      BY <1>3, <1>6, <3>1
  <2>3. TypeOK'
    BY <1>1, <2>1, <2>2 DEF IndexInv, Types, TypeOK, table, loop
  <2>4. adds' + subs' <= MaxThreads /\ (pc # "idle" => adds' + subs' < MaxThreads)
    BY <2>1, IndexAssumption DEF IndexInv, Types
  <2>5. QED
    BY <1>1, <1>2, <2>3, <2>4 DEF IndexInv, Types, table, loop
<1>9. QED
  BY <1>2, <1>7, <1>8 DEF IndexInv

LEMMA StutterStep == ASSUME IndexInv, UNCHANGED vars PROVE IndexInv'
<1>1. Robin(slots)' /\ TableOf(slots, cap)' /\ Used' = Used /\ Growing' /\ Contents' /\ Cursor'
  BY Kept DEF vars
<1>2. Types'
  <2>1. TypeOK'
    BY DEF IndexInv, Types, TypeOK, vars, table, loop, count
  <2>2. QED
    BY <1>1, <2>1 DEF IndexInv, Types, vars, table, loop, count
<1>3. Sizes'
  BY DEF IndexInv, Sizes, Live, vars, table, count
<1>4. QED
  BY <1>1, <1>2, <1>3 DEF IndexInv

-----------------------------------------------------------------------------
(* The theorems                                                            *)

LEMMA IndexInit == Init => IndexInv
<1> SUFFICES ASSUME Init PROVE IndexInv
  OBVIOUS
<1> USE DEF Init
<1>1. cap \in Nat \ {0, 1} /\ cap \in InitialCap..MaxCap
  BY IndexAssumption
<1>2. TableOf(slots, cap) /\ UsedIn(slots) = {} /\ Used = {}
  BY <1>1, EmptyTable DEF Used, UsedIn
<1>3. Types
  <2>1. /\ Free \in SlotType
        /\ arg \in Ops
    BY IndexAssumption DEF Free, SlotType, NoOp, Ops
  <2>2. DOMAIN old \subseteq 0..(MaxCap - 1) /\ \A i \in DOMAIN old : old[i] \in SlotType
    BY <2>1, IndexAssumption DEF Empty
  <2>3. slots \in [0..(cap - 1) -> SlotType] /\ hash \in [Keys -> Hashes]
    BY <1>2 DEF TableOf
  <2>4. TypeOK
    BY <1>1, <2>1, <2>2, <2>3, IndexAssumption DEF TypeOK, Ops
  <2>5. records = Cardinality(Used)
    BY <1>2, FS_EmptySet
  <2>6. QED
    BY <1>1, <1>2, <2>4, <2>5, IndexAssumption DEF Types
<1>4. Robin(slots)
  BY <1>2 DEF Robin
<1>5. Growing /\ Cursor
  BY DEF Growing, Cursor
<1>6. Contents
  BY <1>2 DEF Contents, Holds
<1>7. Sizes
  <2>1. Live = {}
    BY DEF Live
  <2>2. IsFiniteSet(Live) /\ Cardinality(Live) = 0
    BY <2>1, FS_EmptySet
  <2>3. 0 % SizeMod = 0
    BY IndexAssumption
  <2>4. QED
    BY <2>2, <2>3 DEF Sizes
<1>8. QED
  BY <1>3, <1>4, <1>5, <1>6, <1>7 DEF IndexInv

LEMMA IndexStep == IndexInv /\ [Next]_vars => IndexInv'
<1> SUFFICES ASSUME IndexInv, [Next]_vars PROVE IndexInv'
  OBVIOUS
<1>1. CASE Step
  BY <1>1, RehashSkipStep, RehashMoveStep, RehashDoneStep, InsertFreeStep, InsertOverwriteStep,
     InsertDisplaceStep, FindMissStep, FindHitStep, FindNextStep, ShiftStep, ShiftEndStep DEF Step
<1>2. CASE Add \/ Sub
  BY <1>2, CountStep
<1>3. ASSUME NEW k \in Keys, NEW v \in Vals, PutBegin(k, v) PROVE IndexInv'
  BY <1>3, PutGrowsStep, PutEntersStep
<1>4. ASSUME NEW k \in Keys, NEW op, FindBegin(op, k) PROVE IndexInv'
  BY <1>4, FindBeginStep
<1>5. CASE UNCHANGED vars
  BY <1>5, StutterStep
<1>6. QED
  BY <1>1, <1>2, <1>3, <1>4, <1>5 DEF Next

LEMMA IndexInvariant == Spec => []IndexInv
<1>1. IndexInv /\ [Next]_vars => IndexInv'
  BY IndexStep
<1>2. QED
  BY IndexInit, <1>1, PTL DEF Spec

\* Through every sequence of insertions, displacements, deletions and growth the partition is
\* a sound Robin Hood table with the contents of a map, and insertion finds a free slot.
THEOREM TableStaysSound == Spec => []TableSound
<1>1. IndexInv => TableSound
  <2> SUFFICES ASSUME IndexInv PROVE TableSound
    OBVIOUS
  <2>1. /\ Wide /\ TableOf(slots, cap) /\ Robin(slots) /\ Used = UsedIn(slots)
        /\ records = Cardinality(Used) /\ Used \subseteq Dom
    BY Context
  <2>2. TypeOK /\ pc # "overflow"
    BY DEF IndexInv, Types
  <2>3. RobinHood
    BY <2>1 DEF Robin, RobinHood, At, Pred, UsedIn
  <2>4. HoldsDict
    BY <2>1 DEF HoldsDict, IndexInv, Contents, Holds
  <2>5. QED
    BY <2>2, <2>3, <2>4 DEF TableSound
<1>2. QED
  BY IndexInvariant, <1>1, PTL

\* size() is that of the table but for the operations that have not been counted yet, however
\* their threads overtake each other and the counter wraps.
THEOREM SizeStaysExact == Spec => []SizeCatchesUp
<1>1. IndexInv => SizeCatchesUp
  BY DEF IndexInv, Types, Sizes, SizeCatchesUp
<1>2. QED
  BY IndexInvariant, <1>1, PTL

\* A get returns what a map would, whether it ends at a hit, at a free slot, at a slot nearer
\* to its start than the key would be, or after a whole round.
THEOREM GetIsRight == Spec => GetAgrees
<1>1. ASSUME IndexInv, [Next]_vars, pc = "find", pc' = "idle", arg.op = "get"
      PROVE  result' = dict[arg.key]
  <2>1. FindMiss \/ FindHit \/ FindNext
    <3>1. Next
      BY <1>1 DEF vars
    <3>2. CASE Step
      BY <1>1, <3>2 DEF Step, RehashSkip, RehashMove, RehashDone, InsertFree, InsertOverwrite,
         InsertDisplace, Shift, ShiftEnd
    <3>3. CASE Add \/ Sub
      BY <1>1, <3>3 DEF Add, Sub
    <3>4. CASE \E k \in Keys : \/ \E v \in Vals : PutBegin(k, v)
                               \/ \E op \in {"get", "erase"} : FindBegin(op, k)
      BY <1>1, <3>4 DEF PutBegin, FindBegin
    <3>5. QED
      BY <3>1, <3>2, <3>3, <3>4 DEF Next
  <2>2. CASE FindMiss
    BY <1>1, <2>2, MissRight DEF FindMiss, FindEnd
  <2>3. CASE FindHit
    BY <1>1, <2>3, HitRight DEF FindHit, FindEnd
  <2>4. CASE FindNext
    BY <1>1, <2>4, FullRoundRight DEF FindNext, FindEnd
  <2>5. QED
    BY <2>1, <2>2, <2>3, <2>4
<1>2. IndexInv /\ [Next]_vars =>
        [pc = "find" /\ pc' = "idle" /\ arg.op = "get" => result' = dict[arg.key]]_vars
  BY <1>1
<1>3. QED
  BY IndexInvariant, <1>2, PTL DEF Spec, GetAgrees

-----------------------------------------------------------------------------
(* Recursive functions, for CompactIndex                                   *)

\* Induction on the numbers up to a number, for a set
LEMMA Upto ==
  ASSUME NEW top \in Nat, NEW P, 0 \in P, \A i \in 1..top : i - 1 \in P => i \in P
  PROVE  0..top \subseteq P
<1> DEFINE Bad == (0..top) \ P
<1>1. SUFFICES ASSUME Bad # {} PROVE FALSE
  OBVIOUS
<1>2. PICK e \in Bad : \A f \in Bad : ~(<<f, e>> \in OpToRel(<, Nat))
  <2>1. Bad \subseteq Nat
    OBVIOUS
  <2>2. QED
    BY <1>1, <2>1, NatLessThanWellFounded, WFMin
<1>3. e \in 1..top
  OBVIOUS
<1>4. e - 1 \notin Bad
  <2>1. ASSUME e - 1 \in Bad PROVE FALSE
    <3>1. e - 1 < e /\ e - 1 \in Nat /\ e \in Nat
      BY <1>3
    <3>2. PICK f \in Nat : f = e - 1
      BY <3>1
    <3>3. f < e /\ f \in Bad
      BY <2>1, <3>1, <3>2
    <3>4. <<f, e>> \in OpToRel(<, Nat)
      BY <3>1, <3>3, Zenon DEF OpToRel
    <3>5. QED
      BY <1>2, <3>3, <3>4
  <2>2. QED
    BY <2>1
<1>5. QED
  BY <1>3, <1>4

-----------------------------------------------------------------------------
(* CompactIndex: the inductive invariant                                   *)

EntryType == [used : BOOLEAN, fp : Nat, koff : Nat, klen : Nat, voff : Nat, vlen : Nat, dist : Nat]

\* What a slot says, wherever it stands
Body(s) == [fp |-> s.fp, koff |-> s.koff, klen |-> s.klen, voff |-> s.voff, vlen |-> s.vlen]
BodyType == [fp : Nat, koff : Nat, klen : Nat, voff : Nat, vlen : Nat]

Occupied(t) == {i \in DOMAIN t : t[i].used}
Bodies(t) == {Body(t[i]) : i \in Occupied(t)}

\* The slot before slot i of n
Before(i, n) == (i + n - 1) % n

\* Every entry is where its distance says, and no farther than one more than the entry before it.
Ordered(t, n) == \A i \in Occupied(t) :
    /\ t[i].dist < n /\ i = Nth(t[i].fp, t[i].dist, n)
    /\ t[i].dist > 0 => t[Before(i, n)].used /\ t[Before(i, n)].dist >= t[i].dist - 1

Apart(t) == \A i, j \in Occupied(t) : Body(t[i]) = Body(t[j]) => i = j

Table(t, n) == n \in Nat \ {0, 1} /\ t \in [0..(n - 1) -> EntryType] /\ Ordered(t, n) /\ Apart(t)

\* Key and value of each body stand in the arena, one behind the other, and say what a map says.
Shows(b, a, f, m) ==
    /\ b.voff = b.koff + b.klen /\ b.voff + b.vlen <= Len(a)
    /\ KeyView(a, b) \in KeyStrings /\ b.fp = f[KeyView(a, b)]
    /\ ValueCopy(a, b) \in ValueStrings /\ ValueCopy(a, b) = m[KeyView(a, b)]

Separate(b, c) == b.voff + b.vlen <= c.koff \/ c.voff + c.vlen <= b.koff

Records(B, a, f, m) ==
    /\ \A b \in B : Shows(b, a, f, m)
    /\ \A b, c \in B : b # c => KeyView(a, b) # KeyView(a, c) /\ Separate(b, c)
    /\ \A k \in KeyStrings : m[k] # Absent => \E b \in B : KeyView(a, b) = k

\* The places in the arena that belong to a body
Covered(B) == {q \in Nat : \E b \in B : b.koff < q /\ q <= b.voff + b.vlen}

IsPart(p) == p = [slots |-> p.slots, arena |-> p.arena, records |-> p.records,
                  garbage |-> p.garbage, err |-> p.err]

Consistent(p, f, m) ==
    /\ IsPart(p) /\ Table(p.slots, Capacity(p.slots))
    /\ p.arena \in Seq(Bytes) /\ Len(p.arena) <= MaxOffset
    /\ Records(Bodies(p.slots), p.arena, f, m)
    /\ p.records \in Nat /\ IsFiniteSet(Bodies(p.slots)) /\ p.records = Cardinality(Bodies(p.slots))
    /\ p.records < Capacity(p.slots)
    /\ p.garbage \in Nat /\ p.garbage = Len(p.arena) - Cardinality(Covered(Bodies(p.slots)))

Lean(p) == p.garbage < MinGarbage \/ p.garbage * 2 < Len(p.arena)

PartInv ==
    /\ fingerprint \in [KeyStrings -> Fingerprints]
    /\ content \in [KeyStrings -> ValueStrings \cup {Absent}]
    /\ Consistent(part, fingerprint, content) /\ Lean(part) /\ part.err \in {"none", "offset"}

-----------------------------------------------------------------------------
(* The slots in the order in which a loop comes to them                    *)

LEMMA NthValue ==
  ASSUME NEW n \in Nat \ {0, 1}, NEW f \in Nat, NEW d \in 0..(n - 1)
  PROVE  \E r \in 0..(n - 1) :
           /\ r = f % n
           /\ Nth(f, d, n) = IF r + d < n THEN r + d ELSE r + d - n
           /\ Nth(f, d, n) \in 0..(n - 1)
<1>0. n \in Nat \ {0}
  OBVIOUS
<1>1. PICK q \in Int, r \in 0..(n - 1) : f = q * n + r /\ f % n = r
  BY Division
<1>2. CASE r + d < n
  <2>1. PICK x \in 0..(n - 1), y \in Int : x = r + d /\ y = f + d
    BY <1>1, <1>2
  <2> y = q * n + x
    BY <1>1, <2>1
  <2>2. y % n = x
    BY ONLY <1>0, y = q * n + x, ModUnique, q \in Int, x \in 0..(n - 1)
  <2>3. QED
    BY <1>1, <1>2, <2>1, <2>2 DEF Nth
<1>3. CASE r + d >= n
  <2>1. PICK p \in Int : p = q + 1
    OBVIOUS
  <2>2. PICK x \in 0..(n - 1), y \in Int : x = r + d - n /\ y = f + d
    BY <1>1, <1>3
  <2> y = p * n + x
    BY <1>1, <2>1, <2>2
  <2>3. y % n = x
    BY ONLY <1>0, y = p * n + x, ModUnique, p \in Int, x \in 0..(n - 1)
  <2>4. QED
    BY <1>1, <1>3, <2>2, <2>3 DEF Nth
<1>4. QED
  BY <1>1, <1>2, <1>3

LEMMA NthType ==
  ASSUME NEW n \in Nat \ {0, 1}, NEW f \in Nat, NEW d \in 0..(n - 1)
  PROVE  Nth(f, d, n) \in 0..(n - 1)
  BY NthValue

LEMMA AfterBefore ==
  ASSUME NEW n \in Nat \ {0, 1}, NEW i \in 0..(n - 1)
  PROVE  /\ (i + 1) % n = IF i + 1 < n THEN i + 1 ELSE 0
         /\ Before(i, n) = IF i = 0 THEN n - 1 ELSE i - 1
         /\ (i + 1) % n \in 0..(n - 1) /\ (i + 1) % n # i
         /\ Before(i, n) \in 0..(n - 1) /\ Before(i, n) # i
         /\ Before((i + 1) % n, n) = i
<1> DEFINE Later(j) == IF j + 1 < n THEN j + 1 ELSE 0
           Prior(j) == IF j = 0 THEN n - 1 ELSE j - 1
<1>1. ASSUME NEW j \in 0..(n - 1) PROVE (j + 1) % n = Later(j) /\ Before(j, n) = Prior(j)
  <2>1. PICK x \in Int, y \in Int : x = j + 1 /\ y = j + n - 1 /\ 0 <= x /\ x < 2 * n /\ 0 <= y /\ y < 2 * n
    BY <1>1
  <2>2. x % n = (IF x < n THEN x ELSE x - n) /\ y % n = (IF y < n THEN y ELSE y - n)
    BY ONLY <2>1, ModWrap, n \in Nat \ {0, 1}
  <2>3. QED
    BY <1>1, <2>1, <2>2 DEF Before
<1>2. Later(i) \in 0..(n - 1) /\ Later(i) # i /\ Prior(i) \in 0..(n - 1) /\ Prior(i) # i /\ Prior(Later(i)) = i
  OBVIOUS
<1>3. Before(Later(i), n) = Prior(Later(i))
  BY <1>1, <1>2
<1>4. QED
  BY <1>1, <1>2, <1>3

LEMMA NthNext ==
  ASSUME NEW n \in Nat \ {0, 1}, NEW f \in Nat, NEW d \in 0..(n - 1), d + 1 < n
  PROVE  /\ Nth(f, d, n) \in 0..(n - 1) /\ Nth(f, d + 1, n) \in 0..(n - 1)
         /\ (Nth(f, d, n) + 1) % n = Nth(f, d + 1, n)
         /\ Before(Nth(f, d + 1, n), n) = Nth(f, d, n)
<1>1. PICK e \in 0..(n - 1) : e = d + 1
  OBVIOUS
<1>2. PICK i, j : i = Nth(f, d, n) /\ j = Nth(f, e, n)
  OBVIOUS
<1>3. \E r \in 0..(n - 1) : /\ r = f % n /\ i = (IF r + d < n THEN r + d ELSE r + d - n) /\ i \in 0..(n - 1)
  BY <1>2, NthValue
<1>4. \E r \in 0..(n - 1) : /\ r = f % n /\ j = (IF r + e < n THEN r + e ELSE r + e - n) /\ j \in 0..(n - 1)
  BY <1>2, NthValue
<1>5. i \in 0..(n - 1) /\ j = IF i + 1 < n THEN i + 1 ELSE 0
  BY <1>1, <1>3, <1>4
<1>6. (i + 1) % n = j /\ Before(j, n) = i
  BY <1>5, AfterBefore
<1>7. QED
  BY <1>1, <1>2, <1>4, <1>5, <1>6

\* Within one round no slot comes twice, and none is left out.
LEMMA NthOnce ==
  ASSUME NEW n \in Nat \ {0, 1}, NEW f \in Nat
  PROVE  /\ \A d, e \in 0..(n - 1) : Nth(f, d, n) = Nth(f, e, n) => d = e
         /\ \A i \in 0..(n - 1) : \E d \in 0..(n - 1) : Nth(f, d, n) = i
<1>1. PICK r \in 0..(n - 1) : \A d \in 0..(n - 1) : Nth(f, d, n) = IF r + d < n THEN r + d ELSE r + d - n
  <2>1. PICK r : r = f % n
    OBVIOUS
  <2>2. r \in 0..(n - 1)
    BY <2>1, NthValue
  <2>3. \A d \in 0..(n - 1) : Nth(f, d, n) = IF r + d < n THEN r + d ELSE r + d - n
    BY <2>1, NthValue
  <2>4. QED
    BY <2>2, <2>3
<1>2. ASSUME NEW i \in 0..(n - 1) PROVE \E d \in 0..(n - 1) : Nth(f, d, n) = i
  <2>1. PICK d \in 0..(n - 1) : d = IF r <= i THEN i - r ELSE i - r + n
    <3>1. (IF r <= i THEN i - r ELSE i - r + n) \in 0..(n - 1)
      OBVIOUS
    <3>2. QED
      BY <3>1
  <2>2. QED
    BY <1>1, <2>1
<1>3. QED
  BY <1>1, <1>2

LEMMA NthInjective ==
  ASSUME NEW n \in Nat \ {0, 1}, NEW f \in Nat, NEW d \in 0..(n - 1), NEW e \in 0..(n - 1), d # e
  PROVE  Nth(f, d, n) # Nth(f, e, n)
  BY NthOnce

-----------------------------------------------------------------------------
(* The recursive functions exist: each value follows from the one before    *)

LEMMA CapacityIs ==
  ASSUME NEW n \in Nat, NEW t, DOMAIN t = 0..(n - 1)
  PROVE  Capacity(t) = n
<1>1. Cardinality(0..(n - 1)) = IF 0 > n - 1 THEN 0 ELSE n - 1 - 0 + 1
  BY FS_Interval
<1>2. QED
  BY <1>1 DEF Capacity

LEMMA ProbeIs ==
  ASSUME NEW t, NEW c, Capacity(t) \in Nat
  PROVE  /\ Probe(t, c)[0] = [slots |-> t, cur |-> c]
         /\ \A i \in 1..Capacity(t) :
              Probe(t, c)[i] = Turn(Probe(t, c)[i - 1], Nth(c.fp, i - 1, Capacity(t)))
<1> DEFINE m == Capacity(t)
           Turned(x, i) == Turn(x, Nth(c.fp, i - 1, Capacity(t)))
           F(f, k) == f = [i \in 0..k |-> IF i = 0 THEN [slots |-> t, cur |-> c] ELSE Turn(f[i - 1], Nth(c.fp, i - 1, Capacity(t)))]
           P == {k \in 0..m : \E f : F(f, k)}
<1> m \in Nat
  OBVIOUS
<1>1. 0 \in P
  <2>1. F([i \in 0..0 |-> [slots |-> t, cur |-> c]], 0)
    OBVIOUS
  <2>2. \E f : F(f, 0)
    <3> HIDE DEF F
    <3>1. QED
      BY <2>1, Zenon
  <2>3. 0 \in 0..m
    OBVIOUS
  <2>4. QED
    BY ONLY <2>2, <2>3
<1>2. ASSUME NEW k \in 1..m, k - 1 \in P PROVE k \in P
  <2>1. PICK f : F(f, k - 1)
    BY <1>2
  <2>2. PICK g : g = [i \in 0..k |-> IF i = k THEN Turned(f[k - 1], k) ELSE f[i]]
    OBVIOUS
  <2>3. F(g, k)
    <3>1. \A i \in 0..(k - 1) : f[i] = IF i = 0 THEN [slots |-> t, cur |-> c] ELSE Turned(f[i - 1], i)
      BY <2>1
    <3>2. \A i \in 0..k : g[i] = IF i = 0 THEN [slots |-> t, cur |-> c] ELSE Turned(g[i - 1], i)
      <4> HIDE DEF Turned
      <4>1. QED
        BY <2>2, <3>1
    <3>3. QED
      BY <2>2, <3>2
  <2>4. \E z : F(z, k)
    <3> HIDE DEF F
    <3>1. QED
      BY <2>3, Zenon
  <2>5. QED
    BY ONLY k \in 1..m, m \in Nat, <2>4
<1>3. m \in P
  <2>1. 0..m \subseteq P
    <3> HIDE DEF P, m
    <3>1. QED
      BY ONLY m \in Nat, <1>1, <1>2, Upto
  <2>2. QED
    <3> HIDE DEF P
    <3>1. QED
      BY <2>1
<1>4. PICK z : z = Probe(t, c)
  OBVIOUS
<1>5. F(z, m)
  BY <1>3, <1>4, Zenon DEF Probe
<1>6. z[0] = [slots |-> t, cur |-> c] /\ \A i \in 1..m : z[i] = Turned(z[i - 1], i)
  BY <1>5
<1>7. QED
  BY <1>4, <1>6

LEMMA GrownIs ==
  ASSUME NEW t, NEW n, Capacity(t) \in Nat
  PROVE  /\ Grown(t, n)[0] = Vacants(n)
         /\ \A i \in 1..Capacity(t) :
              Grown(t, n)[i] = (IF t[i - 1].used THEN Settle(Grown(t, n)[i - 1], [t[i - 1] EXCEPT !.dist = 0]) ELSE Grown(t, n)[i - 1])
<1> DEFINE m == Capacity(t)
           Turned(x, i) == (IF t[i - 1].used THEN Settle(x, [t[i - 1] EXCEPT !.dist = 0]) ELSE x)
           F(f, k) == f = [i \in 0..k |-> IF i = 0 THEN Vacants(n) ELSE (IF t[i - 1].used THEN Settle(f[i - 1], [t[i - 1] EXCEPT !.dist = 0]) ELSE f[i - 1])]
           P == {k \in 0..m : \E f : F(f, k)}
<1> m \in Nat
  OBVIOUS
<1>1. 0 \in P
  <2>1. F([i \in 0..0 |-> Vacants(n)], 0)
    OBVIOUS
  <2>2. \E f : F(f, 0)
    <3> HIDE DEF F
    <3>1. QED
      BY <2>1, Zenon
  <2>3. 0 \in 0..m
    OBVIOUS
  <2>4. QED
    BY ONLY <2>2, <2>3
<1>2. ASSUME NEW k \in 1..m, k - 1 \in P PROVE k \in P
  <2>1. PICK f : F(f, k - 1)
    BY <1>2
  <2>2. PICK g : g = [i \in 0..k |-> IF i = k THEN Turned(f[k - 1], k) ELSE f[i]]
    OBVIOUS
  <2>3. F(g, k)
    <3>1. \A i \in 0..(k - 1) : f[i] = IF i = 0 THEN Vacants(n) ELSE Turned(f[i - 1], i)
      BY <2>1
    <3>2. \A i \in 0..k : g[i] = IF i = 0 THEN Vacants(n) ELSE Turned(g[i - 1], i)
      <4> HIDE DEF Turned
      <4>1. QED
        BY <2>2, <3>1
    <3>3. QED
      BY <2>2, <3>2
  <2>4. \E z : F(z, k)
    <3> HIDE DEF F
    <3>1. QED
      BY <2>3, Zenon
  <2>5. QED
    BY ONLY k \in 1..m, m \in Nat, <2>4
<1>3. m \in P
  <2>1. 0..m \subseteq P
    <3> HIDE DEF P, m
    <3>1. QED
      BY ONLY m \in Nat, <1>1, <1>2, Upto
  <2>2. QED
    <3> HIDE DEF P
    <3>1. QED
      BY <2>1
<1>4. PICK z : z = Grown(t, n)
  OBVIOUS
<1>5. F(z, m)
  BY <1>3, <1>4, Zenon DEF Grown
<1>6. z[0] = Vacants(n) /\ \A i \in 1..m : z[i] = Turned(z[i - 1], i)
  BY <1>5
<1>7. QED
  BY <1>4, <1>6

LEMMA SweptIs ==
  ASSUME NEW t, NEW a, Capacity(t) \in Nat
  PROVE  /\ Swept(t, a)[0] = <<>>
         /\ \A i \in 1..Capacity(t) :
              Swept(t, a)[i] = (IF t[i - 1].used THEN Swept(t, a)[i - 1] \o KeyView(a, t[i - 1]) \o ValueCopy(a, t[i - 1]) ELSE Swept(t, a)[i - 1])
<1> DEFINE m == Capacity(t)
           Turned(x, i) == (IF t[i - 1].used THEN x \o KeyView(a, t[i - 1]) \o ValueCopy(a, t[i - 1]) ELSE x)
           F(f, k) == f = [i \in 0..k |-> IF i = 0 THEN <<>> ELSE (IF t[i - 1].used THEN f[i - 1] \o KeyView(a, t[i - 1]) \o ValueCopy(a, t[i - 1]) ELSE f[i - 1])]
           P == {k \in 0..m : \E f : F(f, k)}
<1> m \in Nat
  OBVIOUS
<1>1. 0 \in P
  <2>1. F([i \in 0..0 |-> <<>>], 0)
    OBVIOUS
  <2>2. \E f : F(f, 0)
    <3> HIDE DEF F
    <3>1. QED
      BY <2>1, Zenon
  <2>3. 0 \in 0..m
    OBVIOUS
  <2>4. QED
    BY ONLY <2>2, <2>3
<1>2. ASSUME NEW k \in 1..m, k - 1 \in P PROVE k \in P
  <2>1. PICK f : F(f, k - 1)
    BY <1>2
  <2>2. PICK g : g = [i \in 0..k |-> IF i = k THEN Turned(f[k - 1], k) ELSE f[i]]
    OBVIOUS
  <2>3. F(g, k)
    <3>1. \A i \in 0..(k - 1) : f[i] = IF i = 0 THEN <<>> ELSE Turned(f[i - 1], i)
      BY <2>1
    <3>2. \A i \in 0..k : g[i] = IF i = 0 THEN <<>> ELSE Turned(g[i - 1], i)
      <4> HIDE DEF Turned
      <4>1. QED
        BY <2>2, <3>1
    <3>3. QED
      BY <2>2, <3>2
  <2>4. \E z : F(z, k)
    <3> HIDE DEF F
    <3>1. QED
      BY <2>3, Zenon
  <2>5. k \in 0..m
    BY ONLY k \in 1..m, m \in Nat
  <2>6. QED
    <3> HIDE DEF F
    <3>1. QED
      BY <2>4, <2>5, Zenon
<1>3. m \in P
  <2>1. 0..m \subseteq P
    <3> HIDE DEF P, m
    <3>1. QED
      BY ONLY m \in Nat, <1>1, <1>2, Upto
  <2>2. QED
    <3> HIDE DEF P
    <3>1. QED
      BY <2>1
<1>4. PICK z : z = Swept(t, a)
  OBVIOUS
<1>5. F(z, m)
  BY <1>3, <1>4, Zenon DEF Swept
<1>6. z[0] = <<>> /\ \A i \in 1..m : z[i] = Turned(z[i - 1], i)
  <2>1. \A i \in 0..m : z[i] = IF i = 0 THEN <<>> ELSE Turned(z[i - 1], i)
    BY <1>5, Zenon
  <2>2. 0 \in 0..m /\ \A i \in 1..m : i \in 0..m /\ i # 0
    BY ONLY m \in Nat
  <2> HIDE DEF Turned
  <2>3. ASSUME NEW i \in 1..m PROVE z[i] = Turned(z[i - 1], i)
    BY <2>1, <2>2, Zenon
  <2>4. z[0] = <<>>
    BY <2>1, <2>2, Zenon
  <2>5. QED
    BY <2>3, <2>4, Zenon
<1>7. QED
  BY <1>4, <1>6

-----------------------------------------------------------------------------
(* Tables                                                                  *)

\* The least number of a set
LEMMA MinIs ==
  ASSUME NEW S, S \subseteq Nat, S # {}
  PROVE  Min(S) \in S /\ \A x \in S : Min(S) <= x
<1>1. PICK m \in S : \A x \in S : ~(<<x, m>> \in OpToRel(<, Nat))
  BY NatLessThanWellFounded, WFMin
<1>2. ASSUME NEW x \in S PROVE m <= x
  <2>1. m \in Nat /\ x \in Nat
    OBVIOUS
  <2>2. ASSUME x < m PROVE FALSE
    <3>1. <<x, m>> \in Nat \X Nat /\ <<x, m>>[1] < <<x, m>>[2]
      BY <2>1, <2>2
    <3>2. <<x, m>> \in OpToRel(<, Nat)
      BY <3>1, Zenon DEF OpToRel
    <3>3. QED
      BY <1>1, <3>2
  <2>3. QED
    BY <2>1, <2>2
<1>3. PICK e : e = Min(S)
  OBVIOUS
<1>4. e \in S /\ \A x \in S : e <= x
  BY <1>2, <1>3 DEF Min
<1>5. QED
  BY <1>3, <1>4

LEMMA BodyIs ==
  ASSUME NEW c \in EntryType
  PROVE  /\ Body(c) \in BodyType
         /\ Body(c).fp = c.fp /\ Body(c).koff = c.koff /\ Body(c).klen = c.klen
         /\ Body(c).voff = c.voff /\ Body(c).vlen = c.vlen
  BY DEF Body, BodyType, EntryType

LEMMA DistanceIs ==
  ASSUME NEW c \in EntryType, NEW x \in Nat
  PROVE  /\ [c EXCEPT !.dist = x] \in EntryType
         /\ [c EXCEPT !.dist = x].dist = x
         /\ [c EXCEPT !.dist = x].used = c.used
         /\ [c EXCEPT !.dist = x].fp = c.fp
         /\ Body([c EXCEPT !.dist = x]) = Body(c)
  BY DEF Body, EntryType

LEMMA TableIs ==
  ASSUME NEW n \in Nat \ {0, 1}, NEW t \in [0..(n - 1) -> EntryType]
  PROVE  /\ DOMAIN t = 0..(n - 1) /\ Capacity(t) = n
         /\ \A i \in 0..(n - 1) : /\ t[i] \in EntryType /\ t[i].used \in BOOLEAN /\ t[i].dist \in Nat
                                  /\ t[i].fp \in Nat /\ Body(t[i]) \in BodyType
                                  /\ i \in Occupied(t) <=> t[i].used
         /\ Occupied(t) \subseteq 0..(n - 1)
<1>1. DOMAIN t = 0..(n - 1) /\ n \in Nat
  OBVIOUS
<1>2. Capacity(t) = n
  BY <1>1, CapacityIs
<1>3. ASSUME NEW i \in 0..(n - 1)
      PROVE  t[i] \in EntryType /\ t[i].used \in BOOLEAN /\ t[i].dist \in Nat /\ t[i].fp \in Nat
  BY DEF EntryType
<1>4. QED
  BY <1>1, <1>2, <1>3, BodyIs DEF Occupied

\* On the way from the start of an entry to where it is, every slot is used by an entry
\* that is at least as far from its own start.
LEMMA Reached ==
  ASSUME NEW n \in Nat \ {0, 1}, NEW t \in [0..(n - 1) -> EntryType], Ordered(t, n),
         NEW i \in Occupied(t), NEW d \in 0..t[i].dist
  PROVE  Nth(t[i].fp, d, n) \in 0..(n - 1) /\ t[Nth(t[i].fp, d, n)].used /\ t[Nth(t[i].fp, d, n)].dist >= d
<1>1. PICK m \in 0..(n - 1), f \in Nat : m = t[i].dist /\ f = t[i].fp
  BY TableIs DEF Ordered
<1> DEFINE S(e) == Nth(f, m - e, n)
           P == {e \in 0..m : t[S(e)].used /\ t[S(e)].dist >= m - e}
<1>2. \A e \in 0..m : m - e \in 0..(n - 1) /\ S(e) \in 0..(n - 1)
  <2>1. ASSUME NEW e \in 0..m PROVE m - e \in 0..(n - 1) /\ S(e) \in 0..(n - 1)
    <3>1. m - e \in 0..(n - 1)
      OBVIOUS
    <3>2. QED
      BY <3>1, NthType
  <2>2. QED
    BY <2>1
<1>3. 0 \in P
  <2>1. S(0) = i /\ t[i].used /\ t[i].dist >= m - 0
    <3>1. m - 0 = m
      OBVIOUS
    <3>2. QED
      BY <1>1, <3>1, TableIs DEF Ordered
  <2>2. QED
    BY <2>1
<1>4. ASSUME NEW e \in 1..m, e - 1 \in P PROVE e \in P
  <2>1. PICK g \in 0..(n - 1) : g = m - e /\ g + 1 = m - (e - 1) /\ g + 1 < n
    OBVIOUS
  <2>2. PICK x, y : x = Nth(f, g, n) /\ y = Nth(f, g + 1, n)
    OBVIOUS
  <2> x \in 0..(n - 1) /\ y \in 0..(n - 1) /\ Before(y, n) = x
    BY <2>1, <2>2, NthNext
  <2>3. t[y].used /\ t[y].dist >= g + 1
    BY <1>4, <2>1, <2>2
  <2>4. t[x].used /\ t[x].dist >= t[y].dist - 1 /\ t[x].dist \in Nat /\ t[y].dist \in Nat
    BY <2>2, <2>3, TableIs DEF Ordered
  <2>5. S(e) = x /\ m - e = g
    BY ONLY <2>1, <2>2
  <2>6. t[x].dist >= g
    <3>1. PICK b, c : b = t[x].dist /\ c = t[y].dist
      OBVIOUS
    <3>2. b \in Nat /\ c \in Nat /\ c >= g + 1 /\ b >= c - 1
      BY ONLY <2>3, <2>4, <3>1, Zenon
    <3>3. b >= g
      BY ONLY <2>1, <3>2
    <3>4. QED
      BY ONLY <3>1, <3>3, Zenon
  <2>7. e \in 0..m
    BY <1>4
  <2>8. t[S(e)].used /\ t[S(e)].dist >= m - e
    BY ONLY <2>4, <2>5, <2>6, Zenon
  <2>9. QED
    BY ONLY <2>7, <2>8, Zenon
<1>5. 0..m \subseteq P
  <2> HIDE DEF P
  <2>1. m \in Nat
    OBVIOUS
  <2>2. 0 \in P /\ \A e \in 1..m : e - 1 \in P => e \in P
    BY ONLY <1>3, <1>4
  <2>3. QED
    BY ONLY <2>1, <2>2, Upto
<1>6. PICK e \in 0..m : e = m - d /\ m - e = d
  BY <1>1
<1>7. QED
  BY <1>1, <1>2, <1>5, <1>6

\* An entry may be put where it belongs, unless the one behind it would be too far away.
Fits(t, n, i, c) ==
    /\ n \in Nat \ {0, 1} /\ t \in [0..(n - 1) -> EntryType] /\ Ordered(t, n)
    /\ i \in 0..(n - 1) /\ c \in EntryType /\ c.used /\ c.dist < n /\ i = Nth(c.fp, c.dist, n)
    /\ c.dist > 0 => t[Before(i, n)].used /\ t[Before(i, n)].dist >= c.dist - 1
    /\ t[(i + 1) % n].used /\ t[(i + 1) % n].dist > 0 => t[(i + 1) % n].dist - 1 <= c.dist

LEMMA Placed ==
  ASSUME NEW n, NEW t, NEW i, NEW c, Fits(t, n, i, c)
  PROVE  /\ [t EXCEPT ![i] = c] \in [0..(n - 1) -> EntryType]
         /\ Ordered([t EXCEPT ![i] = c], n)
         /\ Occupied([t EXCEPT ![i] = c]) = Occupied(t) \cup {i}
<1>0. /\ n \in Nat \ {0, 1} /\ t \in [0..(n - 1) -> EntryType] /\ Ordered(t, n)
      /\ i \in 0..(n - 1) /\ c \in EntryType /\ c.used /\ c.dist < n /\ i = Nth(c.fp, c.dist, n)
      /\ c.dist > 0 => t[Before(i, n)].used /\ t[Before(i, n)].dist >= c.dist - 1
      /\ t[(i + 1) % n].used /\ t[(i + 1) % n].dist > 0 => t[(i + 1) % n].dist - 1 <= c.dist
  BY DEF Fits
<1> USE <1>0
<1>1. PICK u \in [0..(n - 1) -> EntryType] : u = [t EXCEPT ![i] = c]
  OBVIOUS
<1>2. u[i] = c /\ \A j \in 0..(n - 1) : j # i => u[j] = t[j]
  BY <1>1
<1>3. Occupied(u) = Occupied(t) \cup {i}
  <2>1. \A j : j \in Occupied(t) <=> j \in 0..(n - 1) /\ t[j].used
    BY DEF Occupied
  <2>2. \A j : j \in Occupied(u) <=> j \in 0..(n - 1) /\ u[j].used
    BY DEF Occupied
  <2>3. QED
    BY <1>2, <2>1, <2>2
<1>4. ASSUME NEW j \in Occupied(u)
      PROVE  /\ u[j].dist < n /\ j = Nth(u[j].fp, u[j].dist, n)
             /\ u[j].dist > 0 => u[Before(j, n)].used /\ u[Before(j, n)].dist >= u[j].dist - 1
  <2>1. j \in 0..(n - 1) /\ Before(j, n) \in 0..(n - 1) /\ Before(j, n) # j
    BY TableIs, AfterBefore
  <2>2. CASE j = i
    BY <1>2, <2>1, <2>2
  <2>3. CASE j # i /\ Before(j, n) = i
    <3>1. j = (i + 1) % n
      <4>1. (i + 1) % n = IF i + 1 < n THEN i + 1 ELSE 0
        BY AfterBefore
      <4>2. Before(j, n) = IF j = 0 THEN n - 1 ELSE j - 1
        BY <2>1, AfterBefore
      <4>3. QED
        BY <2>1, <2>3, <4>1, <4>2
    <3>2. u[j] = t[j] /\ t[j].used /\ t[j].dist \in Nat /\ c.dist \in Nat
      BY <1>2, <2>1, <2>3, TableIs DEF EntryType
    <3>3. t[j].dist < n /\ j = Nth(t[j].fp, t[j].dist, n)
      BY <2>1, <3>2, TableIs DEF Ordered
    <3>4. t[j].dist > 0 => c.dist >= t[j].dist - 1
      BY <3>1, <3>2
    <3>5. QED
      BY <1>2, <2>3, <3>2, <3>3, <3>4
  <2>4. CASE j # i /\ Before(j, n) # i
    <3>1. u[j] = t[j] /\ u[Before(j, n)] = t[Before(j, n)] /\ j \in Occupied(t)
      BY <1>2, <1>3, <2>1, <2>4
    <3>2. QED
      BY <3>1 DEF Ordered
  <2>5. QED
    BY <2>2, <2>3, <2>4
<1>5. QED
  BY <1>1, <1>3, <1>4 DEF Ordered

\* What the slots but one say
Others(t, i) == {Body(t[j]) : j \in Occupied(t) \ {i}}

\* A table with these slots used, and these bodies
TableWith(u, n, O, B) ==
    /\ n \in Nat \ {0, 1} /\ u \in [0..(n - 1) -> EntryType] /\ Ordered(u, n) /\ Apart(u)
    /\ Occupied(u) = O /\ Bodies(u) = B

LEMMA OthersIs ==
  ASSUME NEW t, NEW i, i \in Occupied(t), Apart(t)
  PROVE  Body(t[i]) \in Bodies(t) /\ Others(t, i) = Bodies(t) \ {Body(t[i])}
  BY DEF Others, Bodies, Apart

LEMMA AllOthers ==
  ASSUME NEW t, NEW i, i \notin Occupied(t)
  PROVE  Others(t, i) = Bodies(t)
<1>1. Occupied(t) \ {i} = Occupied(t)
  OBVIOUS
<1>2. QED
  BY <1>1 DEF Others, Bodies

LEMMA BodiesOfPlaced ==
  ASSUME NEW n, NEW t, NEW i, NEW c, Fits(t, n, i, c), Apart(t), Body(c) \notin Others(t, i)
  PROVE  TableWith([t EXCEPT ![i] = c], n, Occupied(t) \cup {i}, Others(t, i) \cup {Body(c)})
<1> n \in Nat \ {0, 1} /\ t \in [0..(n - 1) -> EntryType] /\ i \in 0..(n - 1) /\ c \in EntryType /\ c.used
  BY DEF Fits
<1>0. \A j \in Occupied(t) : j # i => Body(t[j]) # Body(c)
  BY DEF Others
<1>1. PICK u \in [0..(n - 1) -> EntryType] : u = [t EXCEPT ![i] = c]
  OBVIOUS
<1>2. u[i] = c /\ \A j \in 0..(n - 1) : j # i => u[j] = t[j]
  BY <1>1
<1>3. Occupied(u) = Occupied(t) \cup {i} /\ i \in Occupied(u) /\ Occupied(t) \subseteq 0..(n - 1)
  <2>1. \A j : j \in Occupied(t) <=> j \in 0..(n - 1) /\ t[j].used
    BY DEF Occupied
  <2>2. \A j : j \in Occupied(u) <=> j \in 0..(n - 1) /\ u[j].used
    BY DEF Occupied
  <2>3. QED
    BY <1>2, <2>1, <2>2
<1>4. Apart(u)
  BY <1>0, <1>2, <1>3 DEF Apart
<1>5. Bodies(u) = Others(t, i) \cup {Body(c)}
  BY <1>2, <1>3 DEF Bodies, Others
<1>6. u \in [0..(n - 1) -> EntryType] /\ Ordered(u, n)
  BY <1>1, Placed
<1>7. TableWith(u, n, Occupied(t) \cup {i}, Others(t, i) \cup {Body(c)})
  BY <1>3, <1>4, <1>5, <1>6 DEF TableWith
<1>8. QED
  BY <1>1, <1>7

\* One slot for each body: a table with fewer bodies than slots has a free one.
LEMMA Counted ==
  ASSUME NEW n, NEW t, Table(t, n)
  PROVE  /\ IsFiniteSet(Occupied(t)) /\ IsFiniteSet(Bodies(t))
         /\ Cardinality(Bodies(t)) = Cardinality(Occupied(t)) /\ Cardinality(Bodies(t)) \in Nat
         /\ Cardinality(Bodies(t)) <= n
         /\ Cardinality(Bodies(t)) < n => \E i \in 0..(n - 1) : ~t[i].used
<1>1. n \in Nat \ {0, 1} /\ t \in [0..(n - 1) -> EntryType]
  BY DEF Table
<1>2. IsFiniteSet(0..(n - 1)) /\ Cardinality(0..(n - 1)) = n
  BY <1>1, FS_Interval
<1>3. Occupied(t) \subseteq 0..(n - 1)
  BY <1>1, TableIs
<1>4. IsFiniteSet(Occupied(t))
  BY <1>2, <1>3, FS_Subset
<1> DEFINE f == [i \in Occupied(t) |-> Body(t[i])]
<1>5. f \in Bijection(Occupied(t), Bodies(t))
  <2>1. f \in [Occupied(t) -> Bodies(t)]
    BY DEF Bodies
  <2>2. \A i, j \in Occupied(t) : f[i] = f[j] => i = j
    BY DEF Table, Apart
  <2>3. \A b \in Bodies(t) : \E i \in Occupied(t) : f[i] = b
    BY DEF Bodies
  <2>4. QED
    BY <2>1, <2>2, <2>3 DEF Bijection, Injection, Surjection, IsInjective
<1>6. ExistsBijection(Occupied(t), Bodies(t))
  BY <1>5 DEF ExistsBijection
<1>7. IsFiniteSet(Bodies(t)) /\ Cardinality(Bodies(t)) = Cardinality(Occupied(t))
  BY <1>4, <1>6, FS_Bijection
<1>8. Cardinality(Bodies(t)) \in Nat
  BY <1>7, FS_CardinalityType
<1>9. ASSUME Cardinality(Bodies(t)) < n PROVE \E i \in 0..(n - 1) : ~t[i].used
  <2>1. SUFFICES ASSUME \A i \in 0..(n - 1) : t[i].used PROVE FALSE
    OBVIOUS
  <2>2. Occupied(t) = 0..(n - 1)
    BY <1>1, <2>1, TableIs
  <2>3. QED
    BY <1>1, <1>2, <1>7, <1>9, <2>2
<1>10. Cardinality(Occupied(t)) <= n
  BY <1>2, <1>3, FS_Subset
<1>11. QED
  BY <1>4, <1>7, <1>8, <1>9, <1>10

-----------------------------------------------------------------------------
(* The loop of an insertion                                                *)

\* Behind its j-th slot: the table and the slot in hand are those of t and c, and nothing from this
\* slot on has been touched.
Carried(t, c, n, j, r) ==
    LET x == r.cur  i == Nth(c.fp, j, n) IN
    /\ r.slots \in [0..(n - 1) -> EntryType] /\ Ordered(r.slots, n) /\ Apart(r.slots)
    /\ \A d \in j..(n - 1) : r.slots[Nth(c.fp, d, n)] = t[Nth(c.fp, d, n)]
    /\ Occupied(r.slots) = Occupied(t)
    /\ x \in EntryType /\ x.used /\ x.dist <= j /\ Nth(x.fp, x.dist, n) = i
    /\ x.dist > 0 => r.slots[Before(i, n)].used /\ r.slots[Before(i, n)].dist >= x.dist - 1
    /\ Body(x) \notin Bodies(r.slots)
    /\ Bodies(r.slots) \cup {Body(x)} = Bodies(t) \cup {Body(c)}

LEMMA TurnIs ==
  ASSUME NEW n \in Nat \ {0, 1}, NEW t \in [0..(n - 1) -> EntryType], NEW c \in EntryType,
         NEW j \in 0..(n - 1), j + 1 < n, NEW r, Carried(t, c, n, j, r), t[Nth(c.fp, j, n)].used
  PROVE  Carried(t, c, n, j + 1, Turn(r, Nth(c.fp, j, n)))
<1> DEFINE T == r.slots
           x == r.cur
           i == Nth(c.fp, j, n)
           i1 == Nth(c.fp, j + 1, n)
<1>1. i \in 0..(n - 1) /\ i1 \in 0..(n - 1) /\ (i + 1) % n = i1 /\ Before(i1, n) = i /\ i1 # i /\ c.fp \in Nat
  <2>1. c.fp \in Nat
    BY DEF EntryType
  <2>2. i \in 0..(n - 1) /\ i1 \in 0..(n - 1) /\ (i + 1) % n = i1 /\ Before(i1, n) = i
    BY <2>1, NthNext
  <2>3. QED
    BY <2>1, <2>2, AfterBefore
<1>2. /\ T \in [0..(n - 1) -> EntryType] /\ Ordered(T, n) /\ Apart(T)
      /\ \A d \in j..(n - 1) : T[Nth(c.fp, d, n)] = t[Nth(c.fp, d, n)]
      /\ Occupied(T) = Occupied(t)
      /\ x \in EntryType /\ x.used /\ x.dist <= j /\ Nth(x.fp, x.dist, n) = i
      /\ x.dist > 0 => T[Before(i, n)].used /\ T[Before(i, n)].dist >= x.dist - 1
      /\ Body(x) \notin Bodies(T)
      /\ Bodies(T) \cup {Body(x)} = Bodies(t) \cup {Body(c)}
  BY DEF Carried
<1>3. T[i] \in EntryType /\ T[i].used /\ T[i].dist \in Nat /\ T[i].fp \in Nat
      /\ x.dist \in Nat /\ x.fp \in Nat /\ i \in Occupied(T) /\ T[i] = t[i]
  <2>1. T[i] = t[i]
    <3>1. j \in j..(n - 1)
      OBVIOUS
    <3>2. QED
      BY <1>2, <3>1
  <2>2. QED
    BY <1>1, <1>2, <2>1, TableIs DEF EntryType
<1>4. T[i].dist < n /\ i = Nth(T[i].fp, T[i].dist, n)
  BY <1>2, <1>3 DEF Ordered
<1>5. ASSUME NEW e \in {x, T[i]}, e.dist <= j
      PROVE  /\ [e EXCEPT !.dist = e.dist + 1] \in EntryType
             /\ [e EXCEPT !.dist = e.dist + 1].used /\ [e EXCEPT !.dist = e.dist + 1].dist = e.dist + 1
             /\ [e EXCEPT !.dist = e.dist + 1].fp = e.fp
             /\ Body([e EXCEPT !.dist = e.dist + 1]) = Body(e)
             /\ Nth(e.fp, e.dist + 1, n) = i1
  <2>1. e \in EntryType /\ e.used /\ e.dist \in Nat /\ e.fp \in Nat /\ Nth(e.fp, e.dist, n) = i
    BY <1>2, <1>3, <1>4, <1>5
  <2>2. e.dist \in 0..(n - 1) /\ e.dist + 1 < n /\ e.dist + 1 \in Nat
    BY <1>5, <2>1
  <2>3. (Nth(e.fp, e.dist, n) + 1) % n = Nth(e.fp, e.dist + 1, n)
    BY <2>1, <2>2, NthNext
  <2>4. QED
    BY <1>1, <2>1, <2>2, <2>3, DistanceIs
<1>6. \A d \in (j + 1)..(n - 1) : d \in j..(n - 1) /\ Nth(c.fp, d, n) # i /\ Nth(c.fp, d, n) \in 0..(n - 1)
  <2>1. ASSUME NEW d \in (j + 1)..(n - 1)
        PROVE  d \in j..(n - 1) /\ Nth(c.fp, d, n) # i /\ Nth(c.fp, d, n) \in 0..(n - 1)
    <3>1. d \in 0..(n - 1) /\ d # j /\ d \in j..(n - 1)
      OBVIOUS
    <3>2. Nth(c.fp, d, n) \in 0..(n - 1)
      BY <1>1, <3>1, NthType
    <3>3. Nth(c.fp, d, n) # Nth(c.fp, j, n)
      BY <1>1, <3>1, NthOnce
    <3>4. QED
      BY <3>1, <3>2, <3>3
  <2>2. QED
    BY <2>1
<1>7. CASE T[i].dist < x.dist
  <2>1. PICK u : u = [T EXCEPT ![i] = x]
    OBVIOUS
  <2>2. PICK y : y = [T[i] EXCEPT !.dist = T[i].dist + 1]
    OBVIOUS
  <2>3. Turn(r, i) = [slots |-> u, cur |-> y]
    BY <1>7, <2>1, <2>2 DEF Turn
  <2>4. T[i].dist <= j
    BY <1>2, <1>3, <1>7
  <2>5. /\ y \in EntryType /\ y.used /\ y.dist = T[i].dist + 1 /\ y.fp = T[i].fp
        /\ Body(y) = Body(T[i]) /\ Nth(y.fp, y.dist, n) = i1
    BY <1>5, <2>2, <2>4
  <2>6. T[i1].used /\ T[i1].dist > 0 => T[i1].dist - 1 <= x.dist
    <3>1. ASSUME T[i1].used, T[i1].dist > 0 PROVE T[i].dist >= T[i1].dist - 1
      BY <1>1, <1>2, <3>1, TableIs DEF Ordered
    <3>2. T[i1].dist \in Nat
      BY <1>1, <1>2, TableIs
    <3>3. T[i].dist \in Nat /\ x.dist \in Nat /\ T[i].dist < x.dist
      BY <1>2, <1>3, <1>7 DEF EntryType
    <3>4. ASSUME T[i1].used, T[i1].dist > 0 PROVE T[i1].dist - 1 <= x.dist
      <4>1. T[i].dist >= T[i1].dist - 1
        BY <3>1, <3>4
      <4>2. PICK b, d, e : b = T[i].dist /\ d = T[i1].dist /\ e = x.dist
        OBVIOUS
      <4>3. b \in Nat /\ d \in Nat /\ e \in Nat /\ b < e /\ b >= d - 1
        BY ONLY <3>2, <3>3, <4>1, <4>2, Zenon
      <4>4. d - 1 <= e
        BY ONLY <4>3
      <4>5. QED
        BY ONLY <4>2, <4>4, Zenon
    <3>5. QED
      BY <3>4
  <2>7. Fits(T, n, i, x)
    <3>1. x.dist < n /\ i = Nth(x.fp, x.dist, n)
      BY <1>2, <1>3
    <3>2. QED
      BY <1>1, <1>2, <2>6, <3>1 DEF Fits
  <2>8. /\ u \in [0..(n - 1) -> EntryType] /\ Ordered(u, n) /\ Occupied(u) = Occupied(T) \cup {i}
        /\ Apart(u) /\ Body(T[i]) \in Bodies(T) /\ Bodies(u) = (Bodies(T) \ {Body(T[i])}) \cup {Body(x)}
    <3>1. Body(T[i]) \in Bodies(T) /\ Others(T, i) = Bodies(T) \ {Body(T[i])}
      BY <1>2, <1>3, OthersIs
    <3>2. Body(x) \notin Others(T, i)
      BY <1>2, <3>1
    <3>3. TableWith([T EXCEPT ![i] = x], n, Occupied(T) \cup {i}, Others(T, i) \cup {Body(x)})
      BY <1>2, <2>7, <3>2, BodiesOfPlaced
    <3>4. TableWith(u, n, Occupied(T) \cup {i}, (Bodies(T) \ {Body(T[i])}) \cup {Body(x)})
      BY <2>1, <3>1, <3>3
    <3>5. QED
      BY <3>1, <3>4 DEF TableWith
  <2>9. Body(y) \notin Bodies(u) /\ Bodies(u) \cup {Body(y)} = Bodies(t) \cup {Body(c)}
    BY <1>2, <2>5, <2>8
  <2>10. \A d \in (j + 1)..(n - 1) : u[Nth(c.fp, d, n)] = t[Nth(c.fp, d, n)]
    BY <1>2, <1>6, <2>1
  <2>11. u[i] = x
    BY <1>1, <1>2, <2>1
  <2>12. y.dist > 0 => u[Before(i1, n)].used /\ u[Before(i1, n)].dist >= y.dist - 1
    <3>1. u[Before(i1, n)] = x
      BY ONLY <1>1, <2>11, Zenon
    <3>2. x.used /\ T[i].dist \in Nat /\ x.dist \in Nat
      BY <1>2, <1>3
    <3>3. y.dist = T[i].dist + 1
      BY ONLY <2>5
    <3>4. x.dist >= y.dist - 1
      BY ONLY <1>7, <3>2, <3>3
    <3>5. QED
      BY ONLY <3>1, <3>2, <3>4
  <2>13. y.dist <= j + 1 /\ Occupied(u) = Occupied(t)
    BY <1>2, <1>3, <2>4, <2>5, <2>8
  <2>14. PICK z : z = Turn(r, i)
    OBVIOUS
  <2>15. z.slots = u /\ z.cur = y
    BY ONLY <2>3, <2>14
  <2>16. Nth(y.fp, y.dist, n) = i1
    BY ONLY <2>5
  <2>17. Carried(t, c, n, j + 1, z)
    BY ONLY <2>5, <2>8, <2>9, <2>10, <2>12, <2>13, <2>15, <2>16 DEF Carried
  <2>18. QED
    BY ONLY <2>14, <2>17
<1>8. CASE ~(T[i].dist < x.dist)
  <2>1. PICK y : y = [x EXCEPT !.dist = x.dist + 1]
    OBVIOUS
  <2>2. Turn(r, i) = [slots |-> T, cur |-> y]
    BY <1>8, <2>1 DEF Turn
  <2>3. /\ y \in EntryType /\ y.used /\ y.dist = x.dist + 1 /\ y.fp = x.fp
        /\ Body(y) = Body(x) /\ Nth(y.fp, y.dist, n) = i1
    BY <1>2, <1>5, <2>1
  <2>4. T[Before(i1, n)].used /\ T[Before(i1, n)].dist >= y.dist - 1
    <3>1. T[Before(i1, n)] = T[i]
      BY ONLY <1>1, Zenon
    <3>2. T[i].used /\ T[i].dist \in Nat /\ x.dist \in Nat
      BY ONLY <1>3
    <3>3. y.dist = x.dist + 1
      BY ONLY <2>3
    <3>4. T[i].dist >= y.dist - 1
      BY ONLY <1>8, <3>2, <3>3
    <3>5. QED
      BY ONLY <3>1, <3>2, <3>4
  <2>5. \A d \in (j + 1)..(n - 1) : T[Nth(c.fp, d, n)] = t[Nth(c.fp, d, n)]
    BY <1>2, <1>6
  <2>6. y.dist <= j + 1
    BY <1>2, <1>3, <2>3
  <2>7. PICK z : z = Turn(r, i)
    OBVIOUS
  <2>8. z.slots = T /\ z.cur = y
    BY ONLY <2>2, <2>7
  <2>9. Carried(t, c, n, j + 1, z)
    BY ONLY <1>2, <2>3, <2>4, <2>5, <2>6, <2>8 DEF Carried
  <2>10. QED
    BY ONLY <2>7, <2>9
<1>9. QED
  BY <1>7, <1>8

LEMMA ProbeKeeps ==
  ASSUME NEW n, NEW t, Table(t, n), NEW c \in EntryType, c.used, c.dist = 0, Body(c) \notin Bodies(t),
         NEW m \in 0..(n - 1), \A d \in 0..(m - 1) : t[Nth(c.fp, d, n)].used,
         NEW j \in 0..m
  PROVE  Carried(t, c, n, j, Probe(t, c)[j])
<1>1. n \in Nat \ {0, 1} /\ t \in [0..(n - 1) -> EntryType] /\ Ordered(t, n) /\ Apart(t)
  BY DEF Table
<1>2. Capacity(t) = n /\ n \in Nat /\ m \in Nat
  BY <1>1, TableIs
<1>3. /\ Probe(t, c)[0] = [slots |-> t, cur |-> c]
      /\ \A i \in 1..n : Probe(t, c)[i] = Turn(Probe(t, c)[i - 1], Nth(c.fp, i - 1, n))
  BY <1>2, ProbeIs
<1> DEFINE P == {k \in 0..m : Carried(t, c, n, k, Probe(t, c)[k])}
<1>4. 0 \in P
  <2>1. c.fp \in Nat /\ 0 \in 0..m
    BY <1>2 DEF EntryType
  <2>2. Nth(c.fp, c.dist, n) = Nth(c.fp, 0, n) /\ c.dist <= 0 /\ ~(c.dist > 0)
    OBVIOUS
  <2>3. Carried(t, c, n, 0, [slots |-> t, cur |-> c])
    BY <1>1, <2>2 DEF Carried
  <2>4. QED
    BY <1>3, <2>1, <2>3
<1>5. ASSUME NEW k \in 1..m, k - 1 \in P PROVE k \in P
  <2>1. PICK g \in 0..(n - 1) : g = k - 1 /\ g + 1 = k /\ g + 1 < n /\ g \in 0..(m - 1) /\ k \in 1..n /\ k \in 0..m
    BY <1>2
  <2>2. Carried(t, c, n, g, Probe(t, c)[g]) /\ t[Nth(c.fp, g, n)].used
    BY <1>5, <2>1
  <2>3. Carried(t, c, n, g + 1, Turn(Probe(t, c)[g], Nth(c.fp, g, n)))
    BY <1>1, <2>1, <2>2, TurnIs
  <2>4. Probe(t, c)[k] = Turn(Probe(t, c)[g], Nth(c.fp, g, n))
    BY <1>3, <2>1
  <2>5. Carried(t, c, n, k, Probe(t, c)[k])
    BY <2>1, <2>3, <2>4
  <2>6. QED
    BY <2>1, <2>5
<1>6. 0..m \subseteq P
  <2> HIDE DEF P
  <2>1. QED
    BY <1>2, <1>4, <1>5, Upto
<1>7. QED
  BY <1>6

\* A slot that is to be inserted
Fresh(c, t) == c \in EntryType /\ c.used /\ c.dist = 0 /\ Body(c) \notin Bodies(t)

\* The first free slot from the start of f on
IsFirstFree(m, f, t, n) ==
    m \in 0..(n - 1) /\ ~t[Nth(f, m, n)].used /\ \A d \in 0..(m - 1) : t[Nth(f, d, n)].used

IsTable(u, n, B) == Table(u, n) /\ Bodies(u) = B

LEMMA FilledIs ==
  ASSUME NEW n, NEW t, NEW c, NEW m, Table(t, n), Fresh(c, t), IsFirstFree(m, c.fp, t, n)
  PROVE  IsTable(Filled(t, c, m), n, Bodies(t) \cup {Body(c)})
<1> /\ c \in EntryType /\ c.used /\ c.dist = 0 /\ Body(c) \notin Bodies(t)
    /\ m \in 0..(n - 1) /\ ~t[Nth(c.fp, m, n)].used /\ \A d \in 0..(m - 1) : t[Nth(c.fp, d, n)].used
  BY DEF Fresh, IsFirstFree
<1>1. n \in Nat \ {0, 1} /\ t \in [0..(n - 1) -> EntryType] /\ Ordered(t, n) /\ Apart(t)
  BY DEF Table
<1>2. Capacity(t) = n /\ m \in 0..m /\ m \in m..(n - 1) /\ c.fp \in Nat
  <2>1. Capacity(t) = n /\ n \in Nat
    BY <1>1, TableIs
  <2>2. c.fp \in Nat
    BY DEF EntryType
  <2>3. QED
    BY <2>1, <2>2
<1>3. PICK r, i : r = Probe(t, c)[m] /\ i = Nth(c.fp, m, n)
  OBVIOUS
<1>4. Carried(t, c, n, m, r)
  BY <1>2, <1>3, ProbeKeeps
<1>5. PICK T, x : T = r.slots /\ x = r.cur
  OBVIOUS
<1>6. /\ T \in [0..(n - 1) -> EntryType] /\ Ordered(T, n) /\ Apart(T) /\ T[i] = t[i]
      /\ x \in EntryType /\ x.used /\ x.dist <= m /\ Nth(x.fp, x.dist, n) = i
      /\ x.dist > 0 => T[Before(i, n)].used /\ T[Before(i, n)].dist >= x.dist - 1
      /\ Body(x) \notin Bodies(T)
      /\ Bodies(T) \cup {Body(x)} = Bodies(t) \cup {Body(c)}
  BY <1>2, <1>3, <1>4, <1>5 DEF Carried
<1>7. i \in 0..(n - 1) /\ (i + 1) % n \in 0..(n - 1) /\ Before((i + 1) % n, n) = i
  <2>1. i \in 0..(n - 1)
    BY <1>1, <1>2, <1>3, NthType
  <2>2. n \in Nat \ {0, 1}
    BY <1>1
  <2>3. (i + 1) % n \in 0..(n - 1) /\ Before((i + 1) % n, n) = i
    BY ONLY <2>1, <2>2, AfterBefore
  <2>4. QED
    BY <2>1, <2>3
<1>8. Filled(t, c, m) = [T EXCEPT ![i] = x]
  BY <1>2, <1>3, <1>5 DEF Filled
<1>9. ~T[i].used
  BY <1>3, <1>6
<1>10. ~(T[(i + 1) % n].used /\ T[(i + 1) % n].dist > 0)
  BY <1>1, <1>6, <1>7, <1>9, TableIs DEF Ordered
<1>11. x.dist < n
  BY <1>1, <1>6 DEF EntryType
<1>12. Fits(T, n, i, x)
  BY <1>1, <1>6, <1>7, <1>10, <1>11 DEF Fits
<1>13. Others(T, i) = Bodies(T)
  <2>1. i \notin Occupied(T)
    BY <1>9 DEF Occupied
  <2>2. QED
    BY <2>1, AllOthers
<1>14. TableWith([T EXCEPT ![i] = x], n, Occupied(T) \cup {i}, Others(T, i) \cup {Body(x)})
  BY <1>6, <1>12, <1>13, BodiesOfPlaced
<1>15. IsTable([T EXCEPT ![i] = x], n, Bodies(t) \cup {Body(c)})
  BY <1>6, <1>13, <1>14 DEF TableWith, IsTable, Table
<1>16. QED
  BY <1>8, <1>15

LEMMA FirstFree ==
  ASSUME NEW n, NEW t, Table(t, n), NEW f \in Nat, Cardinality(Bodies(t)) < n
  PROVE  IsFirstFree(Min({j \in 0..(n - 1) : ~t[Nth(f, j, n)].used}), f, t, n)
<1> DEFINE S == {j \in 0..(n - 1) : ~t[Nth(f, j, n)].used}
<1>1. n \in Nat \ {0, 1} /\ t \in [0..(n - 1) -> EntryType]
  BY DEF Table
<1>2. PICK i \in 0..(n - 1) : ~t[i].used
  BY Counted
<1>3. PICK j \in 0..(n - 1) : Nth(f, j, n) = i
  BY <1>1, NthOnce
<1>4. S # {} /\ S \subseteq Nat
  BY <1>1, <1>2, <1>3
<1>5. PICK m : m = Min(S)
  OBVIOUS
<1>6. m \in S /\ \A x \in S : m <= x
  <2> HIDE DEF S
  <2>1. QED
    BY <1>4, <1>5, MinIs
<1>7. ASSUME NEW d \in 0..(m - 1) PROVE t[Nth(f, d, n)].used
  <2>1. d \in 0..(n - 1) /\ ~(m <= d)
    BY <1>1, <1>6
  <2>2. QED
    BY <1>6, <2>1
<1>8. IsFirstFree(m, f, t, n)
  BY <1>6, <1>7 DEF IsFirstFree
<1>9. QED
  BY <1>5, <1>8

LEMMA SettleIs ==
  ASSUME NEW n, NEW t, NEW c, Table(t, n), Fresh(c, t), Cardinality(Bodies(t)) < n
  PROVE  IsTable(Settle(t, c), n, Bodies(t) \cup {Body(c)})
<1>1. n \in Nat \ {0, 1} /\ t \in [0..(n - 1) -> EntryType] /\ c.fp \in Nat
  BY DEF Table, Fresh, EntryType
<1>2. Capacity(t) = n
  BY <1>1, TableIs
<1>3. PICK m : m = Min({j \in 0..(n - 1) : ~t[Nth(c.fp, j, n)].used})
  OBVIOUS
<1>4. IsFirstFree(m, c.fp, t, n)
  BY <1>1, <1>3, FirstFree
<1>5. Settle(t, c) = Filled(t, c, m)
  BY <1>2, <1>3 DEF Settle
<1>6. QED
  BY <1>4, <1>5, FilledIs

-----------------------------------------------------------------------------
(* insert_nolock                                                            *)

\* The least number of a set, known by what it is
LEMMA LeastIs ==
  ASSUME NEW S, S \subseteq Nat, NEW m \in S, \A x \in S : m <= x
  PROVE  S # {} /\ Min(S) = m
<1>1. PICK q : q = Min(S)
  OBVIOUS
<1>2. q \in S /\ \A x \in S : q <= x
  BY <1>1, MinIs
<1>3. q \in Nat /\ m \in Nat /\ q <= m /\ m <= q
  BY <1>2
<1>4. QED
  BY <1>1, <1>3

\* No slot gives way as long as none is closer to its start than the search has come.
LEMMA Unmoved ==
  ASSUME NEW n, NEW t, Table(t, n), NEW c, Fresh(c, t), NEW m \in 0..(n - 1),
         \A d \in 0..(m - 1) : t[Nth(c.fp, d, n)].dist >= d,
         NEW j \in 0..m
  PROVE  Probe(t, c)[j] = [slots |-> t, cur |-> [c EXCEPT !.dist = j]]
<1>1. n \in Nat \ {0, 1} /\ t \in [0..(n - 1) -> EntryType] /\ c \in EntryType /\ c.dist = 0
  BY DEF Table, Fresh
<1>2. Capacity(t) = n /\ n \in Nat /\ m \in Nat
  BY <1>1, TableIs
<1>3. /\ Probe(t, c)[0] = [slots |-> t, cur |-> c]
      /\ \A i \in 1..n : Probe(t, c)[i] = Turn(Probe(t, c)[i - 1], Nth(c.fp, i - 1, n))
  BY <1>2, ProbeIs
<1> DEFINE H(k) == [c EXCEPT !.dist = k]
           P == {k \in 0..m : Probe(t, c)[k] = [slots |-> t, cur |-> H(k)]}
<1>4. 0 \in P
  <2>1. H(0) = c
    BY <1>1 DEF EntryType
  <2>2. QED
    BY <1>2, <1>3, <2>1
<1>5. ASSUME NEW k \in 1..m, k - 1 \in P PROVE k \in P
  <2>1. PICK g \in 0..(m - 1) : g = k - 1 /\ g + 1 = k /\ k \in 1..n /\ k \in 0..m /\ g \in Nat
    BY <1>2
  <2>2. PICK i : i = Nth(c.fp, g, n)
    OBVIOUS
  <2>3. Probe(t, c)[k] = Turn([slots |-> t, cur |-> H(g)], i)
    BY <1>3, <1>5, <2>1, <2>2
  <2>4. i \in 0..(n - 1) /\ t[i].dist \in Nat /\ t[i].dist >= g
    <3>1. c.fp \in Nat /\ g \in 0..(n - 1)
      BY <1>1, <1>2, <2>1 DEF EntryType
    <3>2. i \in 0..(n - 1)
      BY <1>1, <2>2, <3>1, NthType
    <3>3. QED
      BY <1>1, <2>1, <2>2, <3>2, TableIs
  <2>5. H(g).dist = g /\ [H(g) EXCEPT !.dist = g + 1] = H(k)
    BY <1>1, <2>1 DEF EntryType
  <2>6. Turn([slots |-> t, cur |-> H(g)], i) = [slots |-> t, cur |-> [H(g) EXCEPT !.dist = H(g).dist + 1]]
    <3>1. ~(t[i].dist < H(g).dist)
      BY <2>1, <2>4, <2>5
    <3> HIDE DEF H
    <3>2. QED
      BY <3>1 DEF Turn
  <2>7. Probe(t, c)[k] = [slots |-> t, cur |-> H(k)]
    BY <2>3, <2>5, <2>6
  <2>8. QED
    BY <2>1, <2>7
<1>6. 0..m \subseteq P
  <2> HIDE DEF P
  <2>1. QED
    BY <1>2, <1>4, <1>5, Upto
<1>7. QED
  BY <1>6

\* Where the loop ends: at slot m, for which `ends' first holds
PutEnds(p, k, c, n) ==
    {j \in 0..(n - 1) : \/ ~p.slots[Nth(c.fp, j, n)].used
                        \/ IsSlotOf(p.arena, p.slots[Nth(c.fp, j, n)], c.fp, k)
                        \/ Probe(p.slots, c)[j + 1].cur.dist >= n}

EndsAt(p, k, c, n, m) ==
    /\ n = Capacity(p.slots) /\ PutEnds(p, k, c, n) \subseteq Nat
    /\ m \in PutEnds(p, k, c, n) /\ \A x \in PutEnds(p, k, c, n) : m <= x

InsertAt(p, k, c, n, m) ==
    LET s == p.slots[Nth(c.fp, m, n)] IN
    IF ~s.used THEN [p EXCEPT !.slots = Filled(@, c, m), !.records = @ + 1]
    ELSE IF IsSlotOf(p.arena, s, c.fp, k)
         THEN MaybeCompact([p EXCEPT !.slots = Filled(@, c, m), !.garbage = @ + Size(s)])
    ELSE [p EXCEPT !.slots = Probe(@, c)[m + 1].slots, !.err = "overflow"]

LEMMA InsertEndsAt ==
  ASSUME NEW p, NEW k, NEW c, NEW n, NEW m, EndsAt(p, k, c, n, m)
  PROVE  Insert(p, k, c) = InsertAt(p, k, c, n, m)
<1>1. PutEnds(p, k, c, n) # {} /\ Min(PutEnds(p, k, c, n)) = m
  BY LeastIs DEF EndsAt
<1>2. m = IF PutEnds(p, k, c, n) = {} THEN n - 1 ELSE Min(PutEnds(p, k, c, n))
  BY <1>1
<1>3. QED
  BY <1>2, Zenon DEF Insert, PutEnds, EndsAt, InsertAt

Inserting(p, c, n) == n = Capacity(p.slots) /\ Table(p.slots, n) /\ Fresh(c, p.slots)

NoSlot(p, k, c) == \A i \in Occupied(p.slots) : ~IsSlotOf(p.arena, p.slots[i], c.fp, k)

OnlySlot(p, k, c, i) ==
    /\ i \in Occupied(p.slots) /\ IsSlotOf(p.arena, p.slots[i], c.fp, k)
    /\ \A j \in Occupied(p.slots) : IsSlotOf(p.arena, p.slots[j], c.fp, k) => j = i

Added(p, c, n, u, q) ==
    IsTable(u, n, Bodies(p.slots) \cup {Body(c)}) /\ q = [p EXCEPT !.slots = u, !.records = @ + 1]

Replaced(p, c, n, i, u, q) ==
    /\ IsTable(u, n, (Bodies(p.slots) \ {Body(p.slots[i])}) \cup {Body(c)})
    /\ q = MaybeCompact([p EXCEPT !.slots = u, !.garbage = @ + Size(p.slots[i])])

\* A key that is new: its slot is one more.
LEMMA InsertNew ==
  ASSUME NEW p, NEW k, NEW c, NEW n, Inserting(p, c, n), Cardinality(Bodies(p.slots)) < n, NoSlot(p, k, c)
  PROVE  \E u : Added(p, c, n, u, Insert(p, k, c))
<1>  /\ n = Capacity(p.slots) /\ Table(p.slots, n) /\ Fresh(c, p.slots)
      /\ \A i \in Occupied(p.slots) : ~IsSlotOf(p.arena, p.slots[i], c.fp, k)
  BY DEF Inserting, NoSlot
<1>1. PICK t : t = p.slots
  OBVIOUS
<1>2. n \in Nat \ {0, 1} /\ t \in [0..(n - 1) -> EntryType] /\ c \in EntryType /\ c.fp \in Nat
  BY <1>1 DEF Table, Fresh, EntryType
<1>3. PICK m : IsFirstFree(m, c.fp, t, n)
  BY <1>1, <1>2, FirstFree
<1>4. m \in 0..(n - 1) /\ ~t[Nth(c.fp, m, n)].used /\ \A d \in 0..(m - 1) : t[Nth(c.fp, d, n)].used
  BY <1>3 DEF IsFirstFree
<1>5. m \in PutEnds(p, k, c, n) /\ PutEnds(p, k, c, n) \subseteq Nat
  <2>1. ~p.slots[Nth(c.fp, m, n)].used
    BY <1>1, <1>4, Zenon
  <2>2. m \in PutEnds(p, k, c, n) /\ PutEnds(p, k, c, n) \subseteq 0..(n - 1)
    BY ONLY <1>4, <2>1, Zenon DEF PutEnds
  <2>3. QED
    BY ONLY <2>2
<1>6. ASSUME NEW x \in PutEnds(p, k, c, n), ~(m <= x) PROVE FALSE
  <2>1. x \in 0..(m - 1) /\ x \in 0..(n - 1) /\ x + 1 \in 0..m
    BY <1>2, <1>4, <1>6 DEF PutEnds
  <2>2. t[Nth(c.fp, x, n)].used
    BY <1>4, <2>1
  <2>3. Nth(c.fp, x, n) \in Occupied(t)
    BY <1>2, <2>1, <2>2, NthType, TableIs
  <2>4. ~IsSlotOf(p.arena, p.slots[Nth(c.fp, x, n)], c.fp, k)
    BY <1>1, <2>3
  <2>5. Carried(t, c, n, x + 1, Probe(t, c)[x + 1])
    <3>1. c.used /\ c.dist = 0 /\ Body(c) \notin Bodies(t) /\ Table(t, n)
      BY <1>1 DEF Fresh
    <3>2. QED
      BY <1>2, <1>4, <2>1, <3>1, ProbeKeeps
  <2>6. Probe(t, c)[x + 1].cur.dist <= x + 1 /\ Probe(t, c)[x + 1].cur.dist \in Nat
    BY <2>5 DEF Carried, EntryType
  <2>7. ~(Probe(p.slots, c)[x + 1].cur.dist >= n)
    BY <1>1, <1>2, <1>4, <2>1, <2>6
  <2>8. QED
    BY <1>1, <1>6, <2>2, <2>4, <2>7 DEF PutEnds
<1>7. Insert(p, k, c) = [p EXCEPT !.slots = Filled(p.slots, c, m), !.records = @ + 1]
  <2>1. \A x \in PutEnds(p, k, c, n) : m <= x
    BY <1>6
  <2>2. EndsAt(p, k, c, n, m)
    BY <1>5, <2>1 DEF EndsAt
  <2>3. Insert(p, k, c) = InsertAt(p, k, c, n, m)
    BY <2>2, InsertEndsAt
  <2>4. QED
    BY <1>1, <1>4, <2>3 DEF InsertAt
<1>8. IsTable(Filled(t, c, m), n, Bodies(t) \cup {Body(c)})
  BY <1>1, <1>3, FilledIs
<1>9. Added(p, c, n, Filled(t, c, m), Insert(p, k, c))
  BY <1>1, <1>7, <1>8 DEF Added
<1>10. QED
  BY <1>9

\* A key that is in the table: its slot is replaced.
LEMMA InsertOld ==
  ASSUME NEW p, NEW k, NEW c, NEW n, NEW i, Inserting(p, c, n), OnlySlot(p, k, c, i)
  PROVE  \E u : Replaced(p, c, n, i, u, Insert(p, k, c))
<1>  /\ n = Capacity(p.slots) /\ Table(p.slots, n) /\ Fresh(c, p.slots)
      /\ i \in Occupied(p.slots) /\ IsSlotOf(p.arena, p.slots[i], c.fp, k)
      /\ \A j \in Occupied(p.slots) : IsSlotOf(p.arena, p.slots[j], c.fp, k) => j = i
  BY DEF Inserting, OnlySlot
<1>1. PICK t : t = p.slots
  OBVIOUS
<1>2. /\ n \in Nat \ {0, 1} /\ t \in [0..(n - 1) -> EntryType] /\ Ordered(t, n) /\ Apart(t)
      /\ c \in EntryType /\ c.fp \in Nat /\ c.used /\ c.dist = 0 /\ Body(c) \notin Bodies(t)
  BY <1>1 DEF Table, Fresh, EntryType
<1>3. i \in 0..(n - 1) /\ i \in Occupied(t) /\ t[i].used /\ t[i].fp = c.fp
  BY <1>1, <1>2, TableIs DEF IsSlotOf
<1>4. PICK m \in 0..(n - 1) : m = t[i].dist /\ i = Nth(c.fp, m, n)
  <2>1. t[i].dist \in Nat /\ t[i].dist < n /\ i = Nth(t[i].fp, t[i].dist, n)
    BY <1>2, <1>3, TableIs DEF Ordered
  <2>2. t[i].dist \in 0..(n - 1)
    BY <1>2, <2>1
  <2>3. QED
    BY <1>3, <2>1, <2>2
<1>5. \A d \in 0..m : Nth(c.fp, d, n) \in 0..(n - 1) /\ t[Nth(c.fp, d, n)].used /\ t[Nth(c.fp, d, n)].dist >= d
  <2>1. ASSUME NEW d \in 0..m
        PROVE  Nth(c.fp, d, n) \in 0..(n - 1) /\ t[Nth(c.fp, d, n)].used /\ t[Nth(c.fp, d, n)].dist >= d
    <3>1. n \in Nat \ {0, 1} /\ t \in [0..(n - 1) -> EntryType] /\ Ordered(t, n)
      BY ONLY <1>2
    <3>2. i \in Occupied(t) /\ t[i].fp = c.fp /\ d \in 0..t[i].dist
      BY ONLY <1>3, <1>4, <2>1, Zenon
    <3>3. Nth(t[i].fp, d, n) \in 0..(n - 1) /\ t[Nth(t[i].fp, d, n)].used /\ t[Nth(t[i].fp, d, n)].dist >= d
      BY ONLY <3>1, <3>2, Reached
    <3>4. QED
      BY ONLY <3>2, <3>3, Zenon
  <2>2. QED
    BY <2>1
<1>6. \A d \in 0..m : Probe(t, c)[d] = [slots |-> t, cur |-> [c EXCEPT !.dist = d]]
  <2>1. \A d \in 0..(m - 1) : t[Nth(c.fp, d, n)].dist >= d
    BY <1>5
  <2>2. Table(t, n) /\ Fresh(c, t)
    BY <1>1
  <2>3. QED
    BY <2>1, <2>2, Unmoved
<1>7. m \in PutEnds(p, k, c, n) /\ PutEnds(p, k, c, n) \subseteq Nat
  <2>1. IsSlotOf(p.arena, p.slots[Nth(c.fp, m, n)], c.fp, k)
    BY <1>4, Zenon
  <2>2. m \in PutEnds(p, k, c, n) /\ PutEnds(p, k, c, n) \subseteq 0..(n - 1)
    BY ONLY <1>4, <2>1, Zenon DEF PutEnds
  <2>3. QED
    BY ONLY <2>2
<1>8. ASSUME NEW x \in PutEnds(p, k, c, n), ~(m <= x) PROVE FALSE
  <2>1. x \in 0..m /\ x # m /\ x \in 0..(n - 1) /\ x + 1 \in 0..m /\ x + 1 \in Nat /\ x + 1 < n
    BY <1>2, <1>4, <1>8 DEF PutEnds
  <2>2. t[Nth(c.fp, x, n)].used /\ Nth(c.fp, x, n) \in Occupied(t)
    <3>1. t[Nth(c.fp, x, n)].used /\ Nth(c.fp, x, n) \in 0..(n - 1)
      BY <1>5, <2>1
    <3>2. QED
      BY <1>2, <3>1 DEF Occupied
  <2>3. Nth(c.fp, x, n) # i
    <3>1. Nth(c.fp, x, n) # Nth(c.fp, m, n)
      BY <1>2, <2>1, NthInjective
    <3>2. QED
      BY <1>4, <3>1
  <2>4. ~IsSlotOf(p.arena, p.slots[Nth(c.fp, x, n)], c.fp, k)
    BY <1>1, <2>2, <2>3
  <2>5. Probe(t, c)[x + 1].cur.dist = x + 1
    <3>1. PICK y : y = x + 1 /\ y \in Nat /\ y \in 0..m
      BY <2>1
    <3>2. PICK h : h = [c EXCEPT !.dist = y]
      OBVIOUS
    <3>3. Probe(t, c)[y] = [slots |-> t, cur |-> h] /\ h.dist = y
      BY <1>2, <1>6, <3>1, <3>2, DistanceIs
    <3>4. Probe(t, c)[y].cur.dist = y
      BY ONLY <3>3
    <3>5. QED
      BY <3>1, <3>4
  <2>6. ~(Probe(p.slots, c)[x + 1].cur.dist >= n)
    BY <1>1, <1>2, <2>1, <2>5
  <2>7. QED
    BY <1>1, <1>8, <2>2, <2>4, <2>6 DEF PutEnds
<1>9. Insert(p, k, c) = MaybeCompact([p EXCEPT !.slots = Filled(p.slots, c, m), !.garbage = @ + Size(p.slots[i])])
  <2>1. \A x \in PutEnds(p, k, c, n) : m <= x
    BY <1>8
  <2>2. p.slots[Nth(c.fp, m, n)] = p.slots[i] /\ p.slots[i].used
    BY <1>1, <1>3, <1>4
  <2>3. EndsAt(p, k, c, n, m)
    BY <1>7, <2>1 DEF EndsAt
  <2>4. Insert(p, k, c) = InsertAt(p, k, c, n, m)
    BY <2>3, InsertEndsAt
  <2>5. QED
    BY <2>2, <2>4, Zenon DEF InsertAt
<1>10. PICK y : y = [c EXCEPT !.dist = m]
  OBVIOUS
<1>11. y \in EntryType /\ y.used /\ y.dist = m /\ y.fp = c.fp /\ Body(y) = Body(c)
  BY <1>2, <1>10, DistanceIs
<1>12. Filled(t, c, m) = [t EXCEPT ![i] = y]
  <2>1. Capacity(t) = n /\ m \in 0..m
    BY <1>1, <1>2
  <2>2. Probe(t, c)[m] = [slots |-> t, cur |-> y]
    BY <1>6, <1>10, <2>1
  <2>3. PICK r : r = Probe(t, c)[m]
    OBVIOUS
  <2>4. r.slots = t /\ r.cur = y
    BY ONLY <2>2, <2>3
  <2>5. Filled(t, c, m) = [r.slots EXCEPT ![Nth(c.fp, m, Capacity(t))] = r.cur]
    BY ONLY <2>3, Zenon DEF Filled
  <2>6. Nth(c.fp, m, Capacity(t)) = i
    BY ONLY <1>4, <2>1, Zenon
  <2>7. QED
    BY ONLY <2>4, <2>5, <2>6, Zenon
<1>13. Fits(t, n, i, y)
  <2>1. (i + 1) % n \in 0..(n - 1) /\ Before((i + 1) % n, n) = i
    <3>1. n \in Nat \ {0, 1} /\ i \in 0..(n - 1)
      BY <1>2, <1>3
    <3>2. QED
      BY ONLY <3>1, AfterBefore
  <2>2. t[(i + 1) % n].used /\ t[(i + 1) % n].dist > 0 => t[(i + 1) % n].dist - 1 <= y.dist
    <3>1. PICK x \in 0..(n - 1) : x = (i + 1) % n /\ Before(x, n) = i
      BY ONLY <2>1
    <3>2. ASSUME t[x].used, t[x].dist > 0 PROVE t[x].dist - 1 <= y.dist
      <4>1. x \in Occupied(t) /\ t[x].dist \in Nat
        BY ONLY <1>2, <3>1, <3>2, TableIs
      <4>2. t[Before(x, n)].dist >= t[x].dist - 1
        BY ONLY <1>2, <3>2, <4>1, Zenon DEF Ordered
      <4>3. PICK d, e : d = t[x].dist /\ e = y.dist
        OBVIOUS
      <4>4. e >= d - 1
        BY ONLY <1>4, <1>11, <3>1, <4>2, <4>3, Zenon
      <4>5. d \in Nat /\ e \in Nat
        BY <1>11, <4>1, <4>3
      <4>6. d - 1 <= e
        BY ONLY <4>4, <4>5
      <4>7. QED
        BY ONLY <4>3, <4>6, Zenon
    <3>3. QED
      BY ONLY <3>1, <3>2, Zenon
  <2>3. y.dist > 0 => t[Before(i, n)].used /\ t[Before(i, n)].dist >= y.dist - 1
    <3>1. t[i].dist > 0 => t[Before(i, n)].used /\ t[Before(i, n)].dist >= t[i].dist - 1
      BY <1>2, <1>3 DEF Ordered
    <3>2. QED
      BY <1>4, <1>11, <3>1
  <2>4. y.dist < n /\ i = Nth(y.fp, y.dist, n)
    <3>1. m < n
      BY <1>2
    <3>2. QED
      BY <1>4, <1>11, <3>1
  <2>5. i \in 0..(n - 1) /\ y \in EntryType /\ y.used
    BY <1>3, <1>11
  <2>6. QED
    BY <1>2, <2>2, <2>3, <2>4, <2>5, Zenon DEF Fits
<1>14. Body(t[i]) \in Bodies(t) /\ Others(t, i) = Bodies(t) \ {Body(t[i])}
  BY <1>2, <1>3, OthersIs
<1>15. TableWith([t EXCEPT ![i] = y], n, Occupied(t) \cup {i}, Others(t, i) \cup {Body(y)})
  <2>1. Body(y) \notin Others(t, i)
    BY <1>2, <1>11, <1>14
  <2>2. QED
    BY <1>2, <1>13, <2>1, BodiesOfPlaced
<1>16. IsTable(Filled(t, c, m), n, (Bodies(t) \ {Body(t[i])}) \cup {Body(c)})
  BY <1>11, <1>12, <1>14, <1>15 DEF TableWith, IsTable, Table
<1>17. Replaced(p, c, n, i, Filled(t, c, m), Insert(p, k, c))
  BY <1>1, <1>9, <1>16 DEF Replaced
<1>18. QED
  BY <1>17

-----------------------------------------------------------------------------
(* rehash                                                                  *)

\* What the slots before slot j say
First(t, j) == {Body(t[i]) : i \in {x \in Occupied(t) : x < j}}

LEMMA FirstIs ==
  ASSUME NEW n, NEW t, Table(t, n)
  PROVE  /\ First(t, 0) = {} /\ First(t, n) = Bodies(t)
         /\ \A j \in 1..n : ~t[j - 1].used => First(t, j) = First(t, j - 1)
         /\ \A j \in 1..n : t[j - 1].used =>
              /\ First(t, j) = First(t, j - 1) \cup {Body(t[j - 1])}
              /\ First(t, j - 1) \subseteq Bodies(t) \ {Body(t[j - 1])}
              /\ Body(t[j - 1]) \in Bodies(t)
<1>1. n \in Nat \ {0, 1} /\ t \in [0..(n - 1) -> EntryType] /\ Apart(t)
  BY DEF Table
<1>2. Occupied(t) = {i \in 0..(n - 1) : t[i].used}
  BY <1>1 DEF Occupied
<1>3. {x \in Occupied(t) : x < 0} = {} /\ {x \in Occupied(t) : x < n} = Occupied(t)
  BY <1>1, <1>2
<1>4. First(t, 0) = {} /\ First(t, n) = Bodies(t)
  BY <1>3 DEF First, Bodies
<1>5. ASSUME NEW j \in 1..n, ~t[j - 1].used PROVE First(t, j) = First(t, j - 1)
  <2>1. {x \in Occupied(t) : x < j} = {x \in Occupied(t) : x < j - 1}
    BY <1>1, <1>2, <1>5
  <2>2. QED
    BY <2>1 DEF First
<1>6. ASSUME NEW j \in 1..n, t[j - 1].used
      PROVE  /\ First(t, j) = First(t, j - 1) \cup {Body(t[j - 1])}
             /\ First(t, j - 1) \subseteq Bodies(t) \ {Body(t[j - 1])}
             /\ Body(t[j - 1]) \in Bodies(t)
  <2>1. PICK g : g = j - 1
    OBVIOUS
  <2>2. g \in Occupied(t)
    BY <1>1, <1>2, <1>6, <2>1
  <2>3. {x \in Occupied(t) : x < j} = {x \in Occupied(t) : x < g} \cup {g} /\ g \notin {x \in Occupied(t) : x < g}
    BY <1>1, <1>2, <2>1, <2>2
  <2>4. First(t, j) = First(t, g) \cup {Body(t[g])}
    BY <2>3 DEF First
  <2>5. Body(t[g]) \in Bodies(t)
    BY <2>2 DEF Bodies
  <2>6. ASSUME NEW b \in First(t, g) PROVE b \in Bodies(t) /\ b # Body(t[g])
    <3>1. PICK i \in Occupied(t) : i < g /\ b = Body(t[i])
      BY DEF First
    <3>2. i # g
      BY <1>1, <1>2, <2>2, <3>1
    <3>3. QED
      BY <1>1, <2>2, <3>1, <3>2 DEF Bodies, Apart
  <2>7. QED
    BY <2>1, <2>4, <2>5, <2>6
<1>7. QED
  BY <1>4, <1>5, <1>6

LEMMA VacantsAre ==
  ASSUME NEW n \in Nat \ {0, 1}
  PROVE  IsTable(Vacants(n), n, {}) /\ Capacity(Vacants(n)) = n
<1>1. Vacant \in EntryType /\ ~Vacant.used
  BY DEF Vacant, EntryType
<1>2. PICK u : u = Vacants(n)
  OBVIOUS
<1>3. u \in [0..(n - 1) -> EntryType] /\ \A i \in 0..(n - 1) : ~u[i].used
  BY <1>1, <1>2 DEF Vacants
<1>4. Occupied(u) = {}
  BY <1>3 DEF Occupied
<1>5. Table(u, n) /\ Bodies(u) = {}
  BY <1>3, <1>4 DEF Table, Ordered, Apart, Bodies
<1>6. Capacity(u) = n
  BY <1>3, TableIs
<1>7. QED
  BY <1>2, <1>5, <1>6 DEF IsTable

LEMMA RehashIs ==
  ASSUME NEW n, NEW t, Table(t, n), NEW n1 \in Nat, n <= n1
  PROVE  IsTable(Rehash(t, n1), n1, Bodies(t))
<1>1. n \in Nat \ {0, 1} /\ t \in [0..(n - 1) -> EntryType] /\ n1 \in Nat \ {0, 1}
  BY DEF Table
<1>2. Capacity(t) = n
  BY <1>1, TableIs
<1>3. /\ Grown(t, n1)[0] = Vacants(n1)
      /\ \A i \in 1..n : Grown(t, n1)[i] = (IF t[i - 1].used THEN Settle(Grown(t, n1)[i - 1], [t[i - 1] EXCEPT !.dist = 0])
                                           ELSE Grown(t, n1)[i - 1])
  BY <1>1, <1>2, GrownIs
<1> DEFINE P == {j \in 0..n : IsTable(Grown(t, n1)[j], n1, First(t, j))}
<1>4. 0 \in P
  <2>1. IsTable(Vacants(n1), n1, {}) /\ First(t, 0) = {}
    BY <1>1, VacantsAre, FirstIs
  <2>2. IsTable(Grown(t, n1)[0], n1, First(t, 0))
    BY <1>3, <2>1
  <2>3. QED
    BY <1>1, <2>2
<1>5. ASSUME NEW j \in 1..n, j - 1 \in P PROVE j \in P
  <2>1. PICK g \in 0..(n - 1) : g = j - 1
    BY <1>1
  <2>2. PICK u : u = Grown(t, n1)[g]
    OBVIOUS
  <2>3. Table(u, n1) /\ Bodies(u) = First(t, g)
    BY <1>5, <2>1, <2>2 DEF IsTable
  <2>4. Grown(t, n1)[j] = IF t[g].used THEN Settle(u, [t[g] EXCEPT !.dist = 0]) ELSE u
    BY <1>3, <2>1, <2>2
  <2>5. CASE t[g].used
    <3>1. PICK c : c = [t[g] EXCEPT !.dist = 0]
      OBVIOUS
    <3>2. c \in EntryType /\ c.used /\ c.dist = 0 /\ Body(c) = Body(t[g])
      BY <1>1, <2>5, <3>1, DistanceIs
    <3>3. First(t, j) = First(t, g) \cup {Body(t[g])} /\ First(t, g) \subseteq Bodies(t) \ {Body(t[g])} /\ Body(t[g]) \in Bodies(t)
      BY <2>1, <2>5, FirstIs
    <3>4. Fresh(c, u)
      BY <2>3, <3>2, <3>3 DEF Fresh
    <3>5. Cardinality(Bodies(u)) < n1
      <4>1. IsFiniteSet(Bodies(t)) /\ Cardinality(Bodies(t)) <= n /\ Cardinality(Bodies(t)) \in Nat
        BY Counted
      <4>2. IsFiniteSet(Bodies(t) \ {Body(t[g])}) /\ Cardinality(Bodies(t) \ {Body(t[g])}) = Cardinality(Bodies(t)) - 1
        BY <3>3, <4>1, FS_RemoveElement
      <4>3. IsFiniteSet(First(t, g)) /\ Cardinality(First(t, g)) <= Cardinality(Bodies(t) \ {Body(t[g])})
        BY <3>3, <4>2, FS_Subset
      <4>4. Cardinality(First(t, g)) \in Nat
        BY <4>3, FS_CardinalityType
      <4>5. QED
        BY <1>1, <2>3, <4>1, <4>2, <4>3, <4>4
    <3>6. IsTable(Settle(u, c), n1, Bodies(u) \cup {Body(c)})
      BY <2>3, <3>4, <3>5, SettleIs
    <3>7. IsTable(Grown(t, n1)[j], n1, First(t, j))
      BY <2>3, <2>4, <2>5, <3>1, <3>2, <3>3, <3>6
    <3>8. QED
      BY <1>1, <3>7
  <2>6. CASE ~t[g].used
    <3>1. First(t, j) = First(t, g)
      BY <2>1, <2>6, FirstIs
    <3>2. IsTable(Grown(t, n1)[j], n1, First(t, j))
      BY <2>3, <2>4, <2>6, <3>1 DEF IsTable
    <3>3. QED
      BY <1>1, <3>2
  <2>7. QED
    BY <2>5, <2>6
<1>6. 0..n \subseteq P
  <2> HIDE DEF P
  <2>1. QED
    BY <1>1, <1>4, <1>5, Upto
<1>7. IsTable(Grown(t, n1)[n], n1, First(t, n))
  BY <1>1, <1>6
<1>8. QED
  BY <1>2, <1>7, FirstIs DEF Rehash

-----------------------------------------------------------------------------
(* get and erase                                                           *)

\* Where the search ends
SearchEnds(p, k, n) ==
    {d \in 0..(n - 1) : \/ ~p.slots[Nth(fingerprint[k], d, n)].used \/ p.slots[Nth(fingerprint[k], d, n)].dist < d
                        \/ IsSlotOf(p.arena, p.slots[Nth(fingerprint[k], d, n)], fingerprint[k], k)}

Missed(p, k, n, d) == ~p.slots[Nth(fingerprint[k], d, n)].used \/ p.slots[Nth(fingerprint[k], d, n)].dist < d

LEMMA SearchIs ==
  ASSUME NEW p, NEW k, NEW n, n = Capacity(p.slots)
  PROVE  SlotOf(p, k) = IF SearchEnds(p, k, n) = {} \/ Missed(p, k, n, Min(SearchEnds(p, k, n))) THEN -1
                        ELSE Nth(fingerprint[k], Min(SearchEnds(p, k, n)), n)
  BY Zenon DEF SlotOf, SearchEnds, Missed

LEMMA SlotOfOld ==
  ASSUME NEW p, NEW k, NEW n, n = Capacity(p.slots), Table(p.slots, n), fingerprint[k] \in Nat,
         NEW i \in Occupied(p.slots), IsSlotOf(p.arena, p.slots[i], fingerprint[k], k),
         \A j \in Occupied(p.slots) : IsSlotOf(p.arena, p.slots[j], fingerprint[k], k) => j = i
  PROVE  SlotOf(p, k) = i
<1>1. PICK t, f : t = p.slots /\ f = fingerprint[k]
  OBVIOUS
<1>2. n \in Nat \ {0, 1} /\ t \in [0..(n - 1) -> EntryType] /\ Ordered(t, n) /\ f \in Nat
  BY <1>1 DEF Table
<1>3. i \in 0..(n - 1) /\ i \in Occupied(t) /\ t[i].used /\ t[i].fp = f
  BY <1>1, <1>2, TableIs DEF IsSlotOf
<1>4. PICK m \in 0..(n - 1) : m = t[i].dist /\ i = Nth(f, m, n)
  <2>1. t[i].dist \in Nat /\ t[i].dist < n /\ i = Nth(t[i].fp, t[i].dist, n)
    BY <1>2, <1>3, TableIs DEF Ordered
  <2>2. t[i].dist \in 0..(n - 1)
    BY <1>2, <2>1
  <2>3. QED
    BY <1>3, <2>1, <2>2
<1>5. \A d \in 0..m : Nth(f, d, n) \in 0..(n - 1) /\ t[Nth(f, d, n)].used /\ t[Nth(f, d, n)].dist >= d
  <2>1. ASSUME NEW d \in 0..m
        PROVE  Nth(f, d, n) \in 0..(n - 1) /\ t[Nth(f, d, n)].used /\ t[Nth(f, d, n)].dist >= d
    <3>1. n \in Nat \ {0, 1} /\ t \in [0..(n - 1) -> EntryType] /\ Ordered(t, n)
      BY ONLY <1>2
    <3>2. i \in Occupied(t) /\ t[i].fp = f /\ d \in 0..t[i].dist
      BY ONLY <1>3, <1>4, <2>1, Zenon
    <3>3. Nth(t[i].fp, d, n) \in 0..(n - 1) /\ t[Nth(t[i].fp, d, n)].used /\ t[Nth(t[i].fp, d, n)].dist >= d
      BY ONLY <3>1, <3>2, Reached
    <3>4. QED
      BY ONLY <3>2, <3>3, Zenon
  <2>2. QED
    BY <2>1
<1> DEFINE S == SearchEnds(p, k, n)
<1>6. m \in S /\ S \subseteq Nat
  <2>1. IsSlotOf(p.arena, p.slots[Nth(fingerprint[k], m, n)], fingerprint[k], k)
    BY <1>1, <1>4, Zenon
  <2>2. m \in S /\ S \subseteq 0..(n - 1)
    BY ONLY <1>4, <2>1, Zenon DEF SearchEnds
  <2> HIDE DEF S
  <2>3. QED
    BY ONLY <2>2
<1>7. ASSUME NEW x \in S, ~(m <= x) PROVE FALSE
  <2>1. x \in 0..m /\ x # m /\ x \in 0..(n - 1)
    BY <1>2, <1>4, <1>7 DEF SearchEnds
  <2>2. t[Nth(f, x, n)].used /\ Nth(f, x, n) \in 0..(n - 1) /\ t[Nth(f, x, n)].dist >= x
    BY <1>5, <2>1
  <2>3. Nth(f, x, n) \in Occupied(t) /\ t[Nth(f, x, n)].dist \in Nat
    BY <1>2, <2>2, TableIs
  <2>4. Nth(f, x, n) # i
    <3>1. Nth(f, x, n) # Nth(f, m, n)
      BY <1>2, <2>1, NthInjective
    <3>2. QED
      BY <1>4, <3>1
  <2>5. ~IsSlotOf(p.arena, t[Nth(f, x, n)], f, k)
    BY <1>1, <2>3, <2>4
  <2>6. ~(t[Nth(f, x, n)].dist < x)
    BY <1>2, <2>1, <2>2, <2>3
  <2>7. QED
    BY <1>1, <1>7, <2>2, <2>5, <2>6 DEF SearchEnds
<1>8. S # {} /\ Min(S) = m
  <2>1. \A x \in S : m <= x
    BY <1>7
  <2> HIDE DEF S
  <2>2. QED
    BY <1>6, <2>1, LeastIs
<1>9. ~Missed(p, k, n, m)
  <2>1. t[i].dist \in Nat
    BY <1>2, <1>3, TableIs
  <2>2. p.slots[Nth(fingerprint[k], m, n)] = t[i]
    BY ONLY <1>1, <1>4, Zenon
  <2>3. t[i].used /\ ~(t[i].dist < m)
    BY ONLY <1>3, <1>4, <2>1
  <2>4. QED
    BY ONLY <2>2, <2>3, Zenon DEF Missed
<1>10. SlotOf(p, k) = Nth(f, m, n)
  BY <1>1, <1>8, <1>9, SearchIs
<1>11. QED
  BY <1>4, <1>10

LEMMA SlotOfNew ==
  ASSUME NEW p, NEW k, NEW n, n = Capacity(p.slots), Table(p.slots, n), fingerprint[k] \in Nat,
         \A j \in Occupied(p.slots) : ~IsSlotOf(p.arena, p.slots[j], fingerprint[k], k)
  PROVE  SlotOf(p, k) = -1
<1>1. n \in Nat \ {0, 1} /\ p.slots \in [0..(n - 1) -> EntryType]
  BY DEF Table
<1> DEFINE S == SearchEnds(p, k, n)
<1>2. CASE S = {}
  BY <1>2, SearchIs
<1>3. CASE S # {}
  <2>1. S \subseteq Nat
    BY <1>1 DEF SearchEnds
  <2>2. PICK m : m = Min(S)
    OBVIOUS
  <2>3. m \in S
    <3> HIDE DEF S
    <3>1. QED
      BY <1>3, <2>1, <2>2, MinIs
  <2>4. Nth(fingerprint[k], m, n) \in 0..(n - 1)
    BY <1>1, <2>3, NthType DEF SearchEnds
  <2>5. ~IsSlotOf(p.arena, p.slots[Nth(fingerprint[k], m, n)], fingerprint[k], k)
    <3>1. CASE p.slots[Nth(fingerprint[k], m, n)].used
      BY <1>1, <2>4, <3>1, TableIs
    <3>2. CASE ~p.slots[Nth(fingerprint[k], m, n)].used
      BY <3>2 DEF IsSlotOf
    <3>3. QED
      BY <3>1, <3>2
  <2>6. Missed(p, k, n, m)
    BY <2>3, <2>5 DEF SearchEnds, Missed
  <2>7. QED
    BY <2>2, <2>6, SearchIs
<1>4. QED
  BY <1>2, <1>3

-----------------------------------------------------------------------------
(* The backward shift                                                      *)

\* Slot i is the e-th behind the hole.
LEMMA BehindHole ==
  ASSUME NEW n \in Nat \ {0, 1}, NEW h \in 0..(n - 1), NEW e \in 0..(n - 1)
  PROVE  /\ Nth(h, e, n) \in 0..(n - 1) /\ (Nth(h, e, n) + n - h) % n = e
         /\ Nth(h, 0, n) = h
<1>0. h \in Nat /\ n \in Nat \ {0}
  OBVIOUS
<1>1. h % n = h /\ Nth(h, 0, n) = h
  <2>1. h % n = h
    BY ONLY <1>0, ModWrap, h \in 0..(n - 1), n \in Nat \ {0, 1}
  <2>2. h + 0 = h
    OBVIOUS
  <2>3. QED
    BY <2>1, <2>2 DEF Nth
<1>2. PICK x : x = Nth(h, e, n)
  OBVIOUS
<1>3. x \in 0..(n - 1) /\ x = IF h + e < n THEN h + e ELSE h + e - n
  <2>1. PICK r \in 0..(n - 1) :
          /\ r = h % n
          /\ Nth(h, e, n) = IF r + e < n THEN r + e ELSE r + e - n
          /\ Nth(h, e, n) \in 0..(n - 1)
    BY ONLY <1>0, NthValue, n \in Nat \ {0, 1}, e \in 0..(n - 1)
  <2>2. r = h
    BY ONLY <1>1, <2>1, Zenon
  <2>3. QED
    BY ONLY <1>2, <2>1, <2>2, Zenon
<1>4. (x + n - h) % n = e
  <2>1. CASE h + e < n
    <3>1. PICK q \in Int, y \in Int : q = 1 /\ y = x + n - h
      BY <1>3
    <3>2. y = q * n + e
      BY <1>3, <2>1, <3>1
    <3>3. y % n = e
      BY ONLY <1>0, <3>2, ModUnique, q \in Int, e \in 0..(n - 1)
    <3>4. QED
      BY <3>1, <3>3
  <2>2. CASE ~(h + e < n)
    <3>1. x + n - h = e
      BY <1>3, <2>2
    <3>2. e % n = e
      BY ONLY <1>0, ModWrap, e \in 0..(n - 1), n \in Nat \ {0, 1}
    <3>3. QED
      BY <3>1, <3>2
  <2>3. QED
    BY <2>1, <2>2
<1>5. QED
  BY <1>1, <1>2, <1>3, <1>4

\* The slots behind the hole that move up
LEMMA ShiftIs ==
  ASSUME NEW n, NEW t, Table(t, n), NEW h \in Occupied(t), Cardinality(Bodies(t)) < n
  PROVE  \E m \in 0..(n - 2) :
           /\ m = ShiftLength(t, h)
           /\ \A e \in 1..m : t[Nth(h, e, n)].used /\ t[Nth(h, e, n)].dist > 0
           /\ ~t[Nth(h, m + 1, n)].used \/ t[Nth(h, m + 1, n)].dist = 0
<1>1. n \in Nat \ {0, 1} /\ t \in [0..(n - 1) -> EntryType] /\ h \in 0..(n - 1) /\ h \in Nat /\ t[h].used
  BY TableIs DEF Table
<1>2. Capacity(t) = n
  BY <1>1, TableIs
<1> DEFINE Stops(e) == ~t[Nth(h, e, n)].used \/ t[Nth(h, e, n)].dist = 0
           S == {d \in 0..(n - 1) : Stops(d + 1)}
<1>3. ShiftLength(t, h) = Min(S)
  <2>1. \A d \in 0..(n - 1) : h + d + 1 = h + (d + 1)
    BY <1>1
  <2>2. S = {d \in 0..(n - 1) : ~t[(h + d + 1) % n].used \/ t[(h + d + 1) % n].dist = 0}
    BY <2>1 DEF Nth
  <2>3. QED
    BY <1>2, <2>2 DEF ShiftLength
<1>4. PICK e \in 1..(n - 1) : ~t[Nth(h, e, n)].used
  <2>1. PICK i \in 0..(n - 1) : ~t[i].used
    BY Counted
  <2>2. PICK e \in 0..(n - 1) : Nth(h, e, n) = i
    BY <1>1, NthOnce
  <2>3. e # 0
    BY <1>1, <2>1, <2>2, BehindHole
  <2>4. QED
    BY <2>1, <2>2, <2>3
<1>5. PICK g \in 0..(n - 2) : g + 1 = e
  BY <1>1
<1>6. g \in S /\ S \subseteq Nat
  BY <1>1, <1>4, <1>5
<1>7. PICK m : m = Min(S)
  OBVIOUS
<1>8. m \in S /\ m <= g /\ \A x \in S : m <= x
  <2> HIDE DEF S
  <2>1. QED
    BY <1>6, <1>7, MinIs
<1>9. m \in 0..(n - 2)
  BY <1>1, <1>8
<1>10. ASSUME NEW x \in 1..m PROVE ~Stops(x)
  <2>1. PICK y : y = x - 1
    OBVIOUS
  <2>2. y \in 0..(n - 1) /\ y + 1 = x /\ ~(m <= y)
    BY <1>1, <1>9, <2>1
  <2>3. QED
    BY <1>8, <2>2
<1>11. \A x \in 1..m : t[Nth(h, x, n)].used /\ t[Nth(h, x, n)].dist > 0
  <2>1. ASSUME NEW x \in 1..m PROVE t[Nth(h, x, n)].used /\ t[Nth(h, x, n)].dist > 0
    <3>1. x \in 0..(n - 1)
      BY <1>1, <1>9
    <3>2. Nth(h, x, n) \in 0..(n - 1)
      BY <1>1, <3>1, NthType
    <3>3. t[Nth(h, x, n)].dist \in Nat
      BY <1>1, <3>2, TableIs
    <3>4. QED
      BY <1>10, <3>3
  <2>2. QED
    BY <2>1
<1>12. QED
  BY <1>3, <1>7, <1>8, <1>9, <1>11

\* A slot that moves up
Up(s) == [s EXCEPT !.dist = @ - 1]

LEMMA UpIs ==
  ASSUME NEW s \in EntryType, s.dist > 0
  PROVE  /\ Up(s) \in EntryType /\ Up(s).dist = s.dist - 1 /\ Up(s).used = s.used /\ Up(s).fp = s.fp
         /\ Body(Up(s)) = Body(s)
<1>1. s.dist - 1 \in Nat
  BY DEF EntryType
<1>2. Up(s) = [s EXCEPT !.dist = s.dist - 1]
  BY DEF Up
<1>3. QED
  BY <1>1, <1>2, DistanceIs

LEMMA CloseGapIs ==
  ASSUME NEW n, NEW t, Table(t, n), NEW h \in Occupied(t), Cardinality(Bodies(t)) < n
  PROVE  IsTable(CloseGap(t, h), n, Bodies(t) \ {Body(t[h])})
<1>1. /\ n \in Nat \ {0, 1} /\ t \in [0..(n - 1) -> EntryType] /\ Ordered(t, n) /\ Apart(t)
      /\ h \in 0..(n - 1) /\ h \in Nat /\ t[h].used
  BY TableIs DEF Table
<1>2. Capacity(t) = n /\ DOMAIN t = 0..(n - 1)
  BY <1>1, TableIs
<1> DEFINE Behind(e) == Nth(h, e, n)
<1>3. PICK m \in 0..(n - 2) :
           /\ m = ShiftLength(t, h)
           /\ \A e \in 1..m : t[Behind(e)].used /\ t[Behind(e)].dist > 0
           /\ ~t[Behind(m + 1)].used \/ t[Behind(m + 1)].dist = 0
  BY ShiftIs
<1>4. /\ Behind(0) = h
      /\ \A e \in 0..(n - 1) : Behind(e) \in 0..(n - 1) /\ (Behind(e) + n - h) % n = e
      /\ \A e \in 0..(n - 2) : (Behind(e) + 1) % n = Behind(e + 1) /\ Before(Behind(e + 1), n) = Behind(e)
      /\ \A i \in 0..(n - 1) : \E e \in 0..(n - 1) : Behind(e) = i
  <2>1. \A e \in 0..(n - 1) : Behind(e) \in 0..(n - 1) /\ (Behind(e) + n - h) % n = e /\ Behind(0) = h
    BY <1>1, BehindHole
  <2>2. ASSUME NEW e \in 0..(n - 2) PROVE (Behind(e) + 1) % n = Behind(e + 1) /\ Before(Behind(e + 1), n) = Behind(e)
    <3>1. e \in 0..(n - 1) /\ e + 1 < n
      BY <1>1
    <3>2. QED
      BY <1>1, <3>1, NthNext
  <2>3. \A i \in 0..(n - 1) : \E e \in 0..(n - 1) : Behind(e) = i
    BY <1>1, NthOnce
  <2>4. 0 \in 0..(n - 1)
    BY <1>1
  <2>5. QED
    BY <2>1, <2>2, <2>3, <2>4
<1>5. \A d, e \in 0..(n - 1) : d # e => Behind(d) # Behind(e)
  BY <1>1, NthInjective
<1>6. Before(h, n) = Behind(n - 1) /\ n - 1 \in 0..(n - 1)
  <2>1. h = Nth(h, 0, n) /\ n - 1 \in 0..(n - 1)
    BY <1>1, <1>4
  <2>2. PICK x, y : x = Behind(n - 1) /\ y = Before(h, n)
    OBVIOUS
  <2>3. \E r \in 0..(n - 1) : /\ r = h % n /\ x = (IF r + (n - 1) < n THEN r + (n - 1) ELSE r + (n - 1) - n)
    BY <1>1, <2>1, <2>2, NthValue
  <2>4. h % n = h
    <3>1. n \in Nat \ {0} /\ h \in Int /\ 0 <= h /\ h < 2 * n /\ h < n
      BY <1>1
    <3>2. QED
      BY ONLY <3>1, ModWrap
  <2>5. y = IF h = 0 THEN n - 1 ELSE h - 1
    BY <1>1, <2>2, AfterBefore
  <2>6. x = IF h = 0 THEN n - 1 ELSE h - 1
    BY <1>1, <2>3, <2>4
  <2>7. QED
    BY <2>1, <2>2, <2>5, <2>6
<1>7. PICK u : u = CloseGap(t, h)
  OBVIOUS
<1>8. u = [i \in 0..(n - 1) |-> IF (i + n - h) % n < m THEN Up(t[(i + 1) % n])
                                ELSE IF (i + n - h) % n = m THEN Vacant ELSE t[i]]
  BY <1>2, <1>3, <1>7 DEF CloseGap, Up
<1>9. \A e \in 0..(n - 1) : u[Behind(e)] = IF e < m THEN Up(t[Behind(e + 1)]) ELSE IF e = m THEN Vacant ELSE t[Behind(e)]
  <2>1. ASSUME NEW e \in 0..(n - 1)
        PROVE  u[Behind(e)] = IF e < m THEN Up(t[Behind(e + 1)]) ELSE IF e = m THEN Vacant ELSE t[Behind(e)]
    <3>1. PICK i : i = Behind(e)
      OBVIOUS
    <3>2. i \in 0..(n - 1) /\ (i + n - h) % n = e
      BY <1>4, <3>1
    <3>3. u[i] = IF e < m THEN Up(t[(i + 1) % n]) ELSE IF e = m THEN Vacant ELSE t[i]
      BY <1>8, <3>2
    <3>4. e < m => (i + 1) % n = Behind(e + 1)
      <4>1. e < m => e \in 0..(n - 2)
        BY <1>1, <1>3
      <4>2. QED
        BY <1>4, <3>1, <4>1
    <3>5. QED
      BY <3>1, <3>3, <3>4
  <2>2. QED
    BY <2>1
\* From where the e-th slot comes
<1>10. \A e \in 0..(n - 1) : e < m =>
         LET s == t[Behind(e + 1)] IN
         /\ e + 1 \in 0..(n - 1) /\ s \in EntryType /\ s.used /\ s.dist > 0 /\ s.dist \in Nat
         /\ s.dist < n /\ Behind(e + 1) = Nth(s.fp, s.dist, n) /\ s.fp \in Nat
         /\ t[Behind(e)].used /\ t[Behind(e)].dist >= s.dist - 1 /\ t[Behind(e)].dist \in Nat
         /\ u[Behind(e)] = Up(s) /\ Up(s) \in EntryType /\ Up(s).dist = s.dist - 1 /\ Up(s).used /\ Up(s).fp = s.fp
         /\ Body(Up(s)) = Body(s)
  <2>1. ASSUME NEW e \in 0..(n - 1), e < m, NEW s, s = t[Behind(e + 1)]
        PROVE  /\ e + 1 \in 0..(n - 1) /\ s \in EntryType /\ s.used /\ s.dist > 0 /\ s.dist \in Nat
               /\ s.dist < n /\ Behind(e + 1) = Nth(s.fp, s.dist, n) /\ s.fp \in Nat
               /\ t[Behind(e)].used /\ t[Behind(e)].dist >= s.dist - 1 /\ t[Behind(e)].dist \in Nat
               /\ u[Behind(e)] = Up(s) /\ Up(s) \in EntryType /\ Up(s).dist = s.dist - 1 /\ Up(s).used /\ Up(s).fp = s.fp
               /\ Body(Up(s)) = Body(s)
    <3>1. PICK g : g = e + 1
      OBVIOUS
    <3>2. g \in 1..m /\ g \in 0..(n - 1) /\ e \in 0..(n - 2)
      BY <1>1, <1>3, <2>1, <3>1
    <3>3. Behind(g) \in 0..(n - 1) /\ Behind(e) \in 0..(n - 1) /\ Before(Behind(g), n) = Behind(e)
      BY <1>4, <3>1, <3>2
    <3>4. s \in EntryType /\ s.used /\ s.dist > 0 /\ s.dist \in Nat /\ s.fp \in Nat /\ Behind(g) \in Occupied(t)
      BY <1>1, <1>3, <2>1, <3>1, <3>2, <3>3, TableIs
    <3>5. /\ s.dist < n /\ Behind(g) = Nth(s.fp, s.dist, n)
          /\ t[Behind(e)].used /\ t[Behind(e)].dist >= s.dist - 1
      BY <1>1, <2>1, <3>1, <3>3, <3>4 DEF Ordered
    <3>6. t[Behind(e)].dist \in Nat
      BY <1>1, <3>3, TableIs
    <3>7. u[Behind(e)] = Up(s)
      BY <1>9, <2>1
    <3>8. /\ Up(s) \in EntryType /\ Up(s).dist = s.dist - 1 /\ Up(s).used /\ Up(s).fp = s.fp
          /\ Body(Up(s)) = Body(s)
      BY <3>4, UpIs
    <3>9. QED
      BY <3>1, <3>2, <3>4, <3>5, <3>6, <3>7, <3>8
  <2>2. QED
    BY <2>1
<1>11. ~u[Behind(m)].used /\ u[Behind(m)] \in EntryType /\ m \in 0..(n - 1)
  <2>1. m \in 0..(n - 1)
    BY <1>1
  <2>2. u[Behind(m)] = Vacant
    BY <1>9, <2>1
  <2>3. QED
    BY <2>1, <2>2 DEF Vacant, EntryType
<1>12. \A e \in 0..(n - 1) : e > m => u[Behind(e)] = t[Behind(e)]
  <2>1. ASSUME NEW e \in 0..(n - 1), e > m PROVE u[Behind(e)] = t[Behind(e)]
    <3>1. ~(e < m) /\ e # m
      BY <1>1, <2>1
    <3>2. QED
      BY <1>9, <3>1
  <2>2. QED
    BY <2>1
<1>13. u \in [0..(n - 1) -> EntryType]
  <2>1. ASSUME NEW i \in 0..(n - 1) PROVE u[i] \in EntryType
    <3>1. PICK e \in 0..(n - 1) : Behind(e) = i
      BY <1>4
    <3>2. CASE e < m
      BY <1>10, <3>1, <3>2
    <3>3. CASE e = m
      BY <1>11, <3>1, <3>3
    <3>4. CASE e > m
      BY <1>1, <1>12, <3>1, <3>4
    <3>5. QED
      BY <1>1, <3>2, <3>3, <3>4
  <2>2. QED
    BY <1>8, <2>1
<1>14. \A i : i \in Occupied(u) <=> i \in 0..(n - 1) /\ u[i].used
  BY <1>13 DEF Occupied
<1>15. ASSUME NEW i \in Occupied(u)
       PROVE  /\ u[i].dist < n /\ i = Nth(u[i].fp, u[i].dist, n)
              /\ u[i].dist > 0 => u[Before(i, n)].used /\ u[Before(i, n)].dist >= u[i].dist - 1
  <2>1. i \in 0..(n - 1) /\ u[i].used
    BY <1>14
  <2>2. PICK e \in 0..(n - 1) : Behind(e) = i
    BY <1>4, <2>1
  <2>3. CASE e < m
    <3>1. PICK s : s = t[Behind(e + 1)]
      OBVIOUS
    <3>2. /\ s.dist > 0 /\ s.dist \in Nat /\ s.fp \in Nat
          /\ s.dist < n /\ Behind(e + 1) = Nth(s.fp, s.dist, n)
          /\ t[Behind(e)].used /\ t[Behind(e)].dist >= s.dist - 1 /\ t[Behind(e)].dist \in Nat
          /\ u[i].dist = s.dist - 1 /\ u[i].fp = s.fp
      BY <1>10, <2>2, <2>3, <3>1
    <3>3. i = Nth(s.fp, s.dist - 1, n)
      <4>1. PICK d \in 0..(n - 1) : d = s.dist - 1 /\ d + 1 = s.dist /\ d + 1 < n
        BY <1>1, <3>2
      <4>2. Before(Nth(s.fp, d + 1, n), n) = Nth(s.fp, d, n)
        BY <1>1, <3>2, <4>1, NthNext
      <4>3. e \in 0..(n - 2)
        BY <1>1, <2>3
      <4>4. Before(Behind(e + 1), n) = Behind(e)
        BY <1>4, <4>3
      <4>5. QED
        BY <2>2, <3>2, <4>1, <4>2, <4>4
    <3>4. u[i].dist > 0 => u[Before(i, n)].used /\ u[Before(i, n)].dist >= u[i].dist - 1
      <4>1. CASE e = 0
        <5>1. Before(i, n) = Behind(n - 1) /\ n - 1 \in 0..(n - 1) /\ i = h
          BY <1>4, <1>6, <2>2, <4>1
        <5>2. n - 1 > m
          BY <1>1
        <5>3. u[Before(i, n)] = t[Before(h, n)]
          BY <1>12, <5>1, <5>2
        <5>4. t[h].dist > 0 => t[Before(h, n)].used /\ t[Before(h, n)].dist >= t[h].dist - 1
          BY <1>1 DEF Ordered
        <5>5. Before(h, n) \in 0..(n - 1)
          BY <1>1, AfterBefore
        <5>6. t[Before(h, n)].dist \in Nat
          BY <1>1, <5>5, TableIs
        <5>7. t[h].dist >= s.dist - 1 /\ t[h].dist \in Nat
          BY <2>2, <3>2, <5>1
        <5>8. QED
          BY <3>2, <5>3, <5>4, <5>6, <5>7
      <4>2. CASE e # 0
        <5>1. PICK g \in 0..(n - 1) : g + 1 = e /\ g < m /\ g \in 0..(n - 2)
          <6>1. e - 1 \in 0..(n - 1) /\ (e - 1) + 1 = e /\ e - 1 < m /\ e - 1 \in 0..(n - 2)
            BY <1>1, <2>3, <4>2
          <6>2. QED
            BY <6>1
        <5>2. Before(i, n) = Behind(g)
          BY <1>4, <2>2, <5>1
        <5>3. u[Behind(g)].used /\ u[Behind(g)].dist = t[Behind(g + 1)].dist - 1
          BY <1>10, <5>1
        <5>4. u[Before(i, n)].used /\ u[Before(i, n)].dist = t[Behind(e)].dist - 1
          BY <5>1, <5>2, <5>3
        <5>5. QED
          BY <3>2, <5>4
      <4>3. QED
        BY <4>1, <4>2
    <3>5. i = Nth(u[i].fp, u[i].dist, n)
      <4>1. PICK x, y : x = u[i].fp /\ y = u[i].dist
        OBVIOUS
      <4>2. x = s.fp /\ y = s.dist - 1
        BY <3>2, <4>1
      <4>3. QED
        BY <3>3, <4>1, <4>2
    <3>6. u[i].dist < n
      BY <1>1, <3>2
    <3>7. QED
      BY <3>4, <3>5, <3>6
  <2>4. CASE e = m
    BY <1>11, <2>1, <2>2, <2>4
  <2>5. CASE e > m
    <3>1. u[i] = t[i] /\ i \in Occupied(t) /\ t[i].dist \in Nat
      <4>1. u[i] = t[i]
        BY <1>12, <2>2, <2>5
      <4>2. QED
        BY <1>1, <2>1, <4>1, TableIs
    <3>2. /\ t[i].dist < n /\ i = Nth(t[i].fp, t[i].dist, n)
          /\ t[i].dist > 0 => t[Before(i, n)].used /\ t[Before(i, n)].dist >= t[i].dist - 1
      BY <1>1, <3>1 DEF Ordered
    <3>3. CASE e = m + 1
      <4>1. t[i].dist = 0
        BY <1>3, <2>1, <2>2, <3>1, <3>3
      <4>2. QED
        BY <3>1, <3>2, <4>1
    <3>4. CASE e # m + 1
      <4>1. PICK g \in 0..(n - 2) : g + 1 = e /\ g > m /\ g \in 0..(n - 1)
        <5>1. e - 1 \in 0..(n - 2) /\ (e - 1) + 1 = e /\ e - 1 > m /\ e - 1 \in 0..(n - 1)
          BY <1>1, <2>5, <3>4
        <5>2. QED
          BY <5>1
      <4>2. Before(i, n) = Behind(g)
        BY <1>4, <2>2, <4>1
      <4>3. u[Before(i, n)] = t[Before(i, n)]
        BY <1>12, <4>1, <4>2
      <4>4. QED
        BY <3>1, <3>2, <4>3
    <3>5. QED
      BY <3>3, <3>4
  <2>6. QED
    BY <1>1, <2>3, <2>4, <2>5
<1>16. Ordered(u, n)
  BY <1>15 DEF Ordered
<1> DEFINE Origin(e) == IF e < m THEN e + 1 ELSE e
<1>17. ASSUME NEW i \in Occupied(u)
       PROVE  \E e \in 0..(n - 1) : /\ e # m /\ Behind(e) = i /\ Origin(e) \in 1..(n - 1) /\ Origin(e) \in 0..(n - 1)
                                    /\ Behind(Origin(e)) \in Occupied(t) /\ Behind(Origin(e)) # h
                                    /\ Body(u[i]) = Body(t[Behind(Origin(e))])
  <2>1. i \in 0..(n - 1) /\ u[i].used
    BY <1>14
  <2>2. PICK e \in 0..(n - 1) : Behind(e) = i
    BY <1>4, <2>1
  <2>3. e # m
    BY <1>11, <2>1, <2>2
  <2>4. Origin(e) \in 1..(n - 1) /\ Origin(e) \in 0..(n - 1)
    BY <1>1, <2>3
  <2>5. PICK g \in 0..(n - 1) : g = Origin(e) /\ g # 0
    BY <2>4
  <2>6. Behind(g) \in 0..(n - 1) /\ Behind(g) # h
    <3>1. 0 \in 0..(n - 1)
      BY <1>1
    <3>2. QED
      BY <1>4, <1>5, <2>5, <3>1
  <2>7. t[Behind(g)].used /\ Body(u[i]) = Body(t[Behind(g)])
    <3>1. CASE e < m
      BY <1>10, <2>2, <2>5, <3>1
    <3>2. CASE ~(e < m)
      <4>1. e > m /\ g = e
        BY <1>1, <2>3, <2>5, <3>2
      <4>2. u[Behind(e)] = t[Behind(e)]
        BY <1>12, <4>1
      <4>3. QED
        BY <2>1, <2>2, <4>1, <4>2
    <3>3. QED
      BY <3>1, <3>2
  <2>8. Behind(g) \in Occupied(t)
    BY <1>1, <2>6, <2>7, TableIs
  <2>9. QED
    BY <2>2, <2>3, <2>4, <2>5, <2>6, <2>7, <2>8
<1>18. Apart(u)
  <2>1. ASSUME NEW i \in Occupied(u), NEW j \in Occupied(u), Body(u[i]) = Body(u[j]) PROVE i = j
    <3>1. PICK d \in 0..(n - 1) : /\ d # m /\ Behind(d) = i /\ Origin(d) \in 0..(n - 1)
                                  /\ Behind(Origin(d)) \in Occupied(t) /\ Body(u[i]) = Body(t[Behind(Origin(d))])
      BY <1>17
    <3>2. PICK e \in 0..(n - 1) : /\ e # m /\ Behind(e) = j /\ Origin(e) \in 0..(n - 1)
                                  /\ Behind(Origin(e)) \in Occupied(t) /\ Body(u[j]) = Body(t[Behind(Origin(e))])
      BY <1>17
    <3>3. Behind(Origin(d)) = Behind(Origin(e))
      BY <1>1, <2>1, <3>1, <3>2 DEF Apart
    <3>4. Origin(d) = Origin(e)
      BY <1>5, <3>1, <3>2, <3>3
    <3>5. d = e
      BY <1>1, <3>1, <3>2, <3>4
    <3>6. QED
      BY <3>1, <3>2, <3>5
  <2>2. QED
    BY <2>1 DEF Apart
<1>19. Bodies(u) = Bodies(t) \ {Body(t[h])}
  <2>1. ASSUME NEW b \in Bodies(u) PROVE b \in Bodies(t) /\ b # Body(t[h])
    <3>1. PICK i \in Occupied(u) : b = Body(u[i])
      BY DEF Bodies
    <3>2. PICK x \in Occupied(t) : x # h /\ b = Body(t[x])
      BY <1>17, <3>1
    <3>3. QED
      BY <1>1, <3>2 DEF Bodies, Apart
  <2>2. ASSUME NEW b \in Bodies(t), b # Body(t[h]) PROVE b \in Bodies(u)
    <3>1. PICK i \in Occupied(t) : b = Body(t[i])
      BY DEF Bodies
    <3>2. i \in 0..(n - 1) /\ i # h /\ t[i].used
      BY <1>1, <2>2, <3>1, TableIs
    <3>3. PICK e \in 0..(n - 1) : Behind(e) = i /\ e # 0
      BY <1>4, <3>2
    <3>4. CASE e <= m
      <4>1. PICK g \in 0..(n - 1) : g + 1 = e /\ g < m
        <5>1. e - 1 \in 0..(n - 1) /\ (e - 1) + 1 = e /\ e - 1 < m
          BY <1>1, <3>3, <3>4
        <5>2. QED
          BY <5>1
      <4>2. u[Behind(g)].used /\ Body(u[Behind(g)]) = Body(t[Behind(e)]) /\ Behind(g) \in 0..(n - 1)
        BY <1>4, <1>10, <4>1
      <4>3. Behind(g) \in Occupied(u)
        BY <1>14, <4>2
      <4>4. QED
        BY <3>1, <3>3, <4>2, <4>3 DEF Bodies
    <3>5. CASE e > m
      <4>1. u[i] = t[i]
        BY <1>12, <3>3, <3>5
      <4>2. i \in Occupied(u)
        BY <1>14, <3>2, <4>1
      <4>3. QED
        BY <3>1, <4>1, <4>2 DEF Bodies
    <3>6. QED
      BY <1>1, <3>4, <3>5
  <2>3. QED
    BY <2>1, <2>2
<1>20. QED
  BY <1>1, <1>7, <1>13, <1>16, <1>18, <1>19 DEF IsTable, Table

-----------------------------------------------------------------------------
(* Bytes                                                                   *)

LEMMA CutIs ==
  ASSUME NEW a \in Seq(Bytes), NEW x \in Nat, NEW l \in Nat, x + l <= Len(a)
  PROVE  /\ SubSeq(a, x + 1, x + l) \in Seq(Bytes) /\ Len(SubSeq(a, x + 1, x + l)) = l
         /\ \A z \in 1..l : SubSeq(a, x + 1, x + l)[z] = a[x + z]
<1>1. PICK m \in Int, n \in Int : m = x + 1 /\ n = x + l
  OBVIOUS
<1>2. \A i \in m..n : a[i] \in Bytes
  <2>1. Len(a) \in Nat /\ a \in [1..Len(a) -> Bytes]
    BY LenProperties
  <2>2. \A i \in m..n : i \in 1..Len(a)
    BY <1>1, <2>1
  <2>3. QED
    BY <2>1, <2>2
<1>3. /\ SubSeq(a, m, n) \in Seq(Bytes)
      /\ Len(SubSeq(a, m, n)) = IF m <= n THEN n - m + 1 ELSE 0
      /\ \A i \in 1..(n - m + 1) : SubSeq(a, m, n)[i] = a[m + i - 1]
  BY <1>2, SubSeqProperties
<1>4. Len(SubSeq(a, m, n)) = l
  BY <1>1, <1>3
<1>5. ASSUME NEW z \in 1..l PROVE SubSeq(a, m, n)[z] = a[x + z]
  <2>1. z \in 1..(n - m + 1) /\ m + z - 1 = x + z
    BY <1>1
  <2>2. QED
    BY <1>3, <2>1
<1>6. QED
  BY <1>1, <1>3, <1>4, <1>5

SameBytes(a, x, b, y, l) ==
    /\ a \in Seq(Bytes) /\ b \in Seq(Bytes) /\ x \in Nat /\ y \in Nat /\ l \in Nat
    /\ x + l <= Len(a) /\ y + l <= Len(b) /\ \A z \in 1..l : a[x + z] = b[y + z]

\* l bytes of a from x on
Cut(a, x, l) == SubSeq(a, x + 1, x + l)

LEMMA CutSame ==
  ASSUME NEW a, NEW b, NEW x, NEW y, NEW l, SameBytes(a, x, b, y, l)
  PROVE  Cut(a, x, l) = Cut(b, y, l)
<1> /\ a \in Seq(Bytes) /\ b \in Seq(Bytes) /\ x \in Nat /\ y \in Nat /\ l \in Nat
    /\ x + l <= Len(a) /\ y + l <= Len(b) /\ \A z \in 1..l : a[x + z] = b[y + z]
  BY DEF SameBytes
<1>1. PICK s, t : s = SubSeq(a, x + 1, x + l) /\ t = SubSeq(b, y + 1, y + l)
  OBVIOUS
<1>2. s \in Seq(Bytes) /\ Len(s) = l /\ \A z \in 1..l : s[z] = a[x + z]
  BY <1>1, CutIs
<1>3. t \in Seq(Bytes) /\ Len(t) = l /\ \A z \in 1..l : t[z] = b[y + z]
  BY <1>1, CutIs
<1>4. s = t
  BY <1>2, <1>3, SeqEqual
<1>5. QED
  BY <1>1, <1>4 DEF Cut

LEMMA CutWhole ==
  ASSUME NEW a \in Seq(Bytes), NEW k \in Seq(Bytes), NEW x \in Nat,
         x + Len(k) <= Len(a), \A z \in 1..Len(k) : a[x + z] = k[z]
  PROVE  SubSeq(a, x + 1, x + Len(k)) = k
<1>1. PICK l \in Nat : l = Len(k)
  BY LenProperties
<1>2. PICK s : s = SubSeq(a, x + 1, x + l)
  OBVIOUS
<1>3. s \in Seq(Bytes) /\ Len(s) = l /\ \A z \in 1..l : s[z] = a[x + z]
  BY <1>1, <1>2, CutIs
<1>4. s = k
  BY <1>1, <1>3, SeqEqual
<1>5. QED
  BY <1>1, <1>2, <1>4

LEMMA AppendedIs ==
  ASSUME NEW w \in Seq(Bytes), NEW k \in Seq(Bytes), NEW v \in Seq(Bytes), NEW r, r = w \o k \o v
  PROVE  /\ r \in Seq(Bytes) /\ Len(r) = Len(w) + Len(k) + Len(v) /\ Len(r) \in Nat
         /\ Len(w) \in Nat /\ Len(k) \in Nat /\ Len(v) \in Nat
         /\ \A z \in 1..Len(w) : r[z] = w[z]
         /\ \A z \in 1..Len(k) : r[Len(w) + z] = k[z]
         /\ \A z \in 1..Len(v) : r[Len(w) + Len(k) + z] = v[z]
<1>1. PICK x, y, l : x = Len(w) /\ y = Len(k) /\ l = Len(v)
  OBVIOUS
<1>2. x \in Nat /\ y \in Nat /\ l \in Nat
  BY <1>1, LenProperties
<1>3. PICK q : q = w \o k
  OBVIOUS
<1>4. q \in Seq(Bytes) /\ Len(q) = x + y /\ \A i \in 1..(x + y) : q[i] = IF i <= x THEN w[i] ELSE k[i - x]
  BY <1>1, <1>3, ConcatProperties
<1>5. r \in Seq(Bytes) /\ Len(r) = x + y + l /\ \A i \in 1..(x + y + l) : r[i] = IF i <= x + y THEN q[i] ELSE v[i - (x + y)]
  BY <1>1, <1>3, <1>4, ConcatProperties
<1>6. ASSUME NEW z \in 1..x PROVE r[z] = w[z]
  <2>1. z \in 1..(x + y) /\ z \in 1..(x + y + l) /\ z <= x + y /\ z <= x
    BY <1>2
  <2>2. QED
    BY <1>4, <1>5, <2>1
<1>7. ASSUME NEW z \in 1..y PROVE r[x + z] = k[z]
  <2>1. PICK i : i = x + z
    OBVIOUS
  <2>2. i \in 1..(x + y) /\ i \in 1..(x + y + l) /\ i <= x + y /\ ~(i <= x) /\ i - x = z
    BY <1>2, <2>1
  <2>3. QED
    BY <1>4, <1>5, <2>1, <2>2
<1>8. ASSUME NEW z \in 1..l PROVE r[x + y + z] = v[z]
  <2>1. PICK i : i = x + y + z
    OBVIOUS
  <2>2. i \in 1..(x + y + l) /\ ~(i <= x + y) /\ i - (x + y) = z
    BY <1>2, <2>1
  <2>3. QED
    BY <1>5, <2>1, <2>2
<1>9. QED
  BY <1>1, <1>2, <1>5, <1>6, <1>7, <1>8

-----------------------------------------------------------------------------
(* The places of the bodies                                                *)

Stands(b, a) == b \in BodyType /\ b.klen > 0 /\ b.voff = b.koff + b.klen /\ b.voff + b.vlen <= Len(a)

Laid(B, a) == (\A b \in B : Stands(b, a)) /\ \A b, c \in B : b # c => Separate(b, c)

LEMMA LaidPart ==
  ASSUME NEW B, NEW C, NEW a, Laid(B, a), C \subseteq B
  PROVE  Laid(C, a)
  BY DEF Laid

LEMMA BodiesAre ==
  ASSUME NEW t, NEW n, Table(t, n), NEW b \in Bodies(t)
  PROVE  b \in BodyType
<1>1. PICK i \in Occupied(t) : b = Body(t[i])
  BY DEF Bodies
<1>2. QED
  BY <1>1, TableIs DEF Table

LEMMA RecordsLaid ==
  ASSUME NEW t, NEW n, Table(t, n), NEW a \in Seq(Bytes), NEW f, NEW m, Records(Bodies(t), a, f, m)
  PROVE  Laid(Bodies(t), a)
<1>1. ASSUME NEW b \in Bodies(t) PROVE Stands(b, a)
  <2>1. b \in BodyType
    BY BodiesAre
  <2>2. b.voff = b.koff + b.klen /\ b.voff + b.vlen <= Len(a) /\ KeyView(a, b) \in KeyStrings
    BY DEF Records, Shows
  <2>3. b.koff \in Nat /\ b.klen \in Nat
    BY <2>1 DEF BodyType
  <2>4. b.klen # 0
    <3>1. ASSUME b.klen = 0 PROVE FALSE
      <4>1. PICK x \in Int, y \in Int : x = b.koff + 1 /\ y = b.koff + b.klen /\ y < x
        BY <2>3, <3>1
      <4>2. SubSeq(a, x, y) = <<>>
        BY <4>1, SubSeqEmpty
      <4>3. KeyView(a, b) = <<>>
        BY <4>1, <4>2 DEF KeyView
      <4>4. QED
        BY <2>2, <4>3, CompactAssumption
    <3>2. QED
      BY <3>1
  <2>5. QED
    BY <2>1, <2>2, <2>3, <2>4 DEF Stands
<1>2. \A b, c \in Bodies(t) : b # c => Separate(b, c)
  BY DEF Records
<1>3. QED
  BY <1>1, <1>2 DEF Laid

LEMMA CoveredIs ==
  ASSUME NEW B, NEW a \in Seq(Bytes), Laid(B, a)
  PROVE  /\ Covered(B) \subseteq 1..Len(a) /\ IsFiniteSet(Covered(B))
         /\ Cardinality(Covered(B)) \in Nat /\ Cardinality(Covered(B)) <= Len(a) /\ Len(a) \in Nat
<1>1. PICK l \in Nat : l = Len(a)
  BY LenProperties
<1>2. Covered(B) \subseteq 1..l
  <2>1. ASSUME NEW q \in Covered(B) PROVE q \in 1..l
    <3>1. PICK b \in B : q \in Nat /\ b.koff < q /\ q <= b.voff + b.vlen
      BY DEF Covered
    <3>2. b.koff \in Nat /\ b.voff \in Nat /\ b.vlen \in Nat /\ b.voff + b.vlen <= l
      BY <1>1 DEF Laid, Stands, BodyType
    <3>3. QED
      BY <3>1, <3>2
  <2>2. QED
    BY <2>1
<1>3. IsFiniteSet(1..l) /\ Cardinality(1..l) = l
  BY FS_Interval
<1>4. IsFiniteSet(Covered(B)) /\ Cardinality(Covered(B)) <= l
  BY <1>2, <1>3, FS_Subset
<1>5. Cardinality(Covered(B)) \in Nat
  BY <1>4, FS_CardinalityType
<1>6. QED
  BY <1>1, <1>2, <1>4, <1>5

\* One body more covers as many places more as it has bytes.
LEMMA CoveredMore ==
  ASSUME NEW B, NEW b, b \notin B, NEW a \in Seq(Bytes), Laid(B \cup {b}, a)
  PROVE  Cardinality(Covered(B \cup {b})) = Cardinality(Covered(B)) + Size(b)
<1>1. Stands(b, a) /\ \A c \in B : Stands(c, a) /\ Separate(b, c)
  BY DEF Laid
<1>2. PICK x \in Nat, y \in Nat, z \in Nat : x = b.koff /\ y = b.klen /\ z = b.vlen /\ b.voff = x + y /\ y > 0
  BY <1>1 DEF Stands, BodyType
<1> DEFINE T == (x + 1)..(x + y + z)
<1>3. Covered(B \cup {b}) = Covered(B) \cup T
  <2>1. \A q \in Nat : q \in T <=> b.koff < q /\ q <= b.voff + b.vlen
    BY <1>2
  <2>2. T \subseteq Nat
    BY <1>2
  <2> HIDE DEF T
  <2>3. QED
    BY <2>1, <2>2 DEF Covered
<1>4. Covered(B) \cap T = {}
  <2>1. ASSUME NEW q \in Covered(B), q \in T PROVE FALSE
    <3>1. PICK c \in B : q \in Nat /\ c.koff < q /\ q <= c.voff + c.vlen
      BY DEF Covered
    <3>2. c.koff \in Nat /\ c.voff \in Nat /\ c.vlen \in Nat
      BY <1>1 DEF Stands, BodyType
    <3>3. b.voff + b.vlen <= c.koff \/ c.voff + c.vlen <= b.koff
      BY <1>1 DEF Separate
    <3>4. PICK u, v, w : u = c.koff /\ v = c.voff /\ w = c.vlen
      OBVIOUS
    <3>5. u \in Nat /\ v \in Nat /\ w \in Nat /\ u < q /\ q <= v + w
      BY ONLY <3>1, <3>2, <3>4, Zenon
    <3>6. (x + y) + z <= u \/ v + w <= x
      BY ONLY <1>2, <3>3, <3>4, Zenon
    <3>7. x < q /\ q <= (x + y) + z
      BY ONLY <1>2, <2>1
    <3>8. QED
      BY ONLY <1>2, <3>1, <3>5, <3>6, <3>7
  <2>2. QED
    BY <2>1
<1>5. Laid(B, a)
  BY DEF Laid
<1>6. IsFiniteSet(Covered(B)) /\ Cardinality(Covered(B)) \in Nat
  BY <1>5, CoveredIs
<1>7. IsFiniteSet(T) /\ Cardinality(T) = y + z
  <2>1. PICK g \in Int, h \in Int : g = x + 1 /\ h = x + y + z
    OBVIOUS
  <2>2. IsFiniteSet(g..h) /\ Cardinality(g..h) = IF g > h THEN 0 ELSE h - g + 1
    BY FS_Interval
  <2>3. ~(g > h) /\ h - g + 1 = y + z
    <3>1. y > 0
      BY <1>2
    <3>2. QED
      BY <2>1, <3>1
  <2>4. T = g..h
    BY <2>1
  <2> HIDE DEF T
  <2>5. QED
    BY <2>2, <2>3, <2>4
<1>8. Cardinality(Covered(B) \cup T) = Cardinality(Covered(B)) + Cardinality(T) - Cardinality(Covered(B) \cap T)
  <2> HIDE DEF T
  <2>1. QED
    BY <1>6, <1>7, FS_Union
<1>9. Cardinality(Covered(B) \cap T) = 0
  BY <1>4, FS_EmptySet
<1>10. Size(b) = y + z
  BY <1>2 DEF Size
<1>11. PICK p, q : p = Cardinality(Covered(B)) /\ q = Cardinality(Covered(B) \cup T)
  OBVIOUS
<1>12. p \in Nat /\ q = p + (y + z) - 0
  <2> HIDE DEF T
  <2>1. QED
    BY <1>6, <1>7, <1>8, <1>9, <1>11
<1>13. Cardinality(Covered(B \cup {b})) = q
  <2> HIDE DEF T
  <2>1. QED
    BY <1>3, <1>11, Zenon
<1>14. q = p + (y + z)
  BY <1>12
<1>15. QED
  BY <1>10, <1>11, <1>13, <1>14

LEMMA ViewIs ==
  ASSUME NEW s \in EntryType, NEW a
  PROVE  KeyView(a, Body(s)) = KeyView(a, s) /\ ValueCopy(a, Body(s)) = ValueCopy(a, s) /\ Size(Body(s)) = Size(s)
  BY BodyIs DEF KeyView, ValueCopy, Size

-----------------------------------------------------------------------------
(* A compaction                                                            *)

\* The arena that is being built, before slot j
Building(t, a, w, j) ==
    /\ w[j] \in Seq(Bytes) /\ Len(w[j]) = Cardinality(Covered(First(t, j)))
    /\ \A i \in Occupied(t) : i < j =>
         /\ Len(w[i]) \in Nat /\ Len(w[i]) + Size(t[i]) <= Len(w[j])
         /\ \A z \in 1..Size(t[i]) : w[j][Len(w[i]) + z] = a[t[i].koff + z]
    /\ \A q \in 1..Len(w[j]) : \E i \in Occupied(t) : i < j /\ Len(w[i]) < q /\ q <= Len(w[i]) + Size(t[i])

LEMMA BuiltIs ==
  ASSUME NEW n, NEW t, Table(t, n), NEW a \in Seq(Bytes), Laid(Bodies(t), a), NEW j \in 0..n
  PROVE  Building(t, a, Swept(t, a), j)
<1>1. n \in Nat \ {0, 1} /\ t \in [0..(n - 1) -> EntryType]
  BY DEF Table
<1>2. Capacity(t) = n
  BY <1>1, TableIs
<1>3. PICK w : w = Swept(t, a)
  OBVIOUS
<1>4. /\ w[0] = <<>>
      /\ \A i \in 1..n : w[i] = (IF t[i - 1].used THEN w[i - 1] \o KeyView(a, t[i - 1]) \o ValueCopy(a, t[i - 1]) ELSE w[i - 1])
  BY <1>1, <1>2, <1>3, SweptIs
<1>5. \A i : i \in Occupied(t) <=> i \in 0..(n - 1) /\ t[i].used
  BY <1>1 DEF Occupied
<1> DEFINE P == {i \in 0..n : Building(t, a, w, i)}
<1>6. 0 \in P
  <2>1. w[0] \in Seq(Bytes) /\ Len(w[0]) = 0
    BY <1>4, EmptySeq
  <2>2. Cardinality(Covered(First(t, 0))) = 0
    <3>1. Covered(First(t, 0)) = {}
      BY FirstIs DEF Covered
    <3>2. QED
      BY <3>1, FS_EmptySet
  <2>3. \A i \in Occupied(t) : ~(i < 0)
    BY <1>1, <1>5
  <2>4. QED
    BY <1>1, <2>1, <2>2, <2>3 DEF Building
<1>7. ASSUME NEW i \in 1..n, i - 1 \in P PROVE i \in P
  <2>1. PICK g \in 0..(n - 1) : g = i - 1
    BY <1>1
  <2>2. /\ w[g] \in Seq(Bytes) /\ Len(w[g]) = Cardinality(Covered(First(t, g)))
        /\ \A x \in Occupied(t) : x < g =>
             /\ Len(w[x]) \in Nat /\ Len(w[x]) + Size(t[x]) <= Len(w[g])
             /\ \A z \in 1..Size(t[x]) : w[g][Len(w[x]) + z] = a[t[x].koff + z]
        /\ \A q \in 1..Len(w[g]) : \E x \in Occupied(t) : x < g /\ Len(w[x]) < q /\ q <= Len(w[x]) + Size(t[x])
    BY <1>7, <2>1 DEF Building
  <2>3. CASE ~t[g].used
    <3>1. w[i] = w[g] /\ First(t, i) = First(t, g)
      BY <1>4, <2>1, <2>3, FirstIs
    <3>2. \A x \in Occupied(t) : x < i <=> x < g
      BY <1>1, <1>5, <2>1, <2>3
    <3>3. Building(t, a, w, i)
      BY <2>2, <3>1, <3>2 DEF Building
    <3>4. QED
      BY <1>1, <3>3
  <2>4. CASE t[g].used
    <3>1. PICK s : s = t[g]
      OBVIOUS
    <3>2. s \in EntryType /\ g \in Occupied(t) /\ Body(s) \in Bodies(t)
      <4>1. g \in Occupied(t)
        BY <1>5, <2>4
      <4>2. QED
        BY <1>1, <3>1, <4>1 DEF Bodies
    <3>3. Stands(Body(s), a)
      BY <3>2 DEF Laid
    <3>4. PICK x \in Nat, y \in Nat, z \in Nat : x = s.koff /\ y = s.klen /\ z = s.vlen
      BY <3>2 DEF EntryType
    <3>5. s.voff = x + y /\ x + y + z <= Len(a) /\ y > 0
      BY <3>2, <3>3, <3>4, BodyIs DEF Stands
    <3>6. PICK kk, vv : kk = KeyView(a, s) /\ vv = ValueCopy(a, s)
      OBVIOUS
    <3>7. kk \in Seq(Bytes) /\ Len(kk) = y /\ \A d \in 1..y : kk[d] = a[x + d]
      <4>1. Len(a) \in Nat
        BY LenProperties
      <4>2. x + y <= Len(a)
        BY <3>5, <4>1
      <4>3. kk = SubSeq(a, x + 1, x + y)
        BY <3>4, <3>6 DEF KeyView
      <4>4. QED
        BY <4>2, <4>3, CutIs
    <3>8. vv \in Seq(Bytes) /\ Len(vv) = z /\ \A d \in 1..z : vv[d] = a[x + y + d]
      <4>1. PICK v0 \in Nat : v0 = x + y
        OBVIOUS
      <4>2. v0 + z <= Len(a)
        BY <3>5, <4>1
      <4>3. vv = SubSeq(a, v0 + 1, v0 + z)
        BY <3>4, <3>5, <3>6, <4>1 DEF ValueCopy
      <4>4. vv \in Seq(Bytes) /\ Len(vv) = z /\ \A d \in 1..z : vv[d] = a[v0 + d]
        BY <4>2, <4>3, CutIs
      <4>5. QED
        BY <4>1, <4>4
    <3>9. PICK l, r : l = w[g] /\ r = w[i]
      OBVIOUS
    <3>10. r = l \o kk \o vv
      BY <1>4, <2>1, <2>4, <3>1, <3>6, <3>9
    <3>11. /\ l \in Seq(Bytes) /\ r \in Seq(Bytes) /\ Len(r) = Len(l) + y + z /\ Len(r) \in Nat /\ Len(l) \in Nat
           /\ \A d \in 1..Len(l) : r[d] = l[d]
           /\ \A d \in 1..y : r[Len(l) + d] = kk[d]
           /\ \A d \in 1..z : r[Len(l) + y + d] = vv[d]
      <4>1. l \in Seq(Bytes) /\ kk \in Seq(Bytes) /\ vv \in Seq(Bytes)
        BY <2>2, <3>7, <3>8, <3>9
      <4>2. /\ r \in Seq(Bytes) /\ Len(r) = Len(l) + Len(kk) + Len(vv) /\ Len(r) \in Nat /\ Len(l) \in Nat
            /\ \A d \in 1..Len(l) : r[d] = l[d]
            /\ \A d \in 1..Len(kk) : r[Len(l) + d] = kk[d]
            /\ \A d \in 1..Len(vv) : r[Len(l) + Len(kk) + d] = vv[d]
        BY ONLY <3>10, <4>1, AppendedIs
      <4>3. Len(kk) = y /\ Len(vv) = z
        BY <3>7, <3>8
      <4>4. QED
        BY <4>1, <4>2, <4>3
    <3>12. PICK ll \in Nat : ll = Len(l) /\ Len(r) = ll + y + z
      BY <3>11
    <3>13. Size(s) = y + z
      BY <3>4 DEF Size
    <3>14. \A d \in 1..Size(s) : r[ll + d] = a[x + d]
      <4>1. ASSUME NEW d \in 1..(y + z) PROVE r[ll + d] = a[x + d]
        <5>1. CASE d <= y
          <6>1. d \in 1..y
            BY <5>1
          <6>2. QED
            BY <3>7, <3>11, <3>12, <6>1
        <5>2. CASE ~(d <= y)
          <6>1. PICK e \in 1..z : e = d - y
            BY <5>2
          <6>2. r[ll + y + e] = vv[e] /\ vv[e] = a[x + y + e]
            BY <3>8, <3>11, <3>12
          <6>3. ll + y + e = ll + d /\ x + y + e = x + d
            BY <6>1
          <6>4. QED
            BY <6>2, <6>3
        <5>3. QED
          BY <5>1, <5>2
      <4>2. QED
        BY <3>13, <4>1
    <3>15. Len(r) = Cardinality(Covered(First(t, i)))
      <4>1. /\ First(t, i) = First(t, g) \cup {Body(s)} /\ First(t, g) \subseteq Bodies(t) \ {Body(s)}
            /\ Body(s) \in Bodies(t)
        BY <2>1, <2>4, <3>1, FirstIs
      <4>2. Laid(First(t, g) \cup {Body(s)}, a)
        <5>1. First(t, g) \cup {Body(s)} \subseteq Bodies(t)
          BY <4>1
        <5>2. QED
          BY <5>1, LaidPart
      <4>3. Cardinality(Covered(First(t, g) \cup {Body(s)})) = Cardinality(Covered(First(t, g))) + Size(Body(s))
        BY <4>1, <4>2, CoveredMore
      <4>4. Size(Body(s)) = y + z
        BY <3>2, <3>13, ViewIs
      <4>5. Cardinality(Covered(First(t, i))) = ll + (y + z)
        BY <2>2, <3>9, <3>12, <4>1, <4>3, <4>4
      <4>6. QED
        BY <3>12, <4>5
    <3>16. ASSUME NEW e \in Occupied(t), e < i
           PROVE  /\ Len(w[e]) \in Nat /\ Len(w[e]) + Size(t[e]) <= Len(r)
                  /\ \A d \in 1..Size(t[e]) : r[Len(w[e]) + d] = a[t[e].koff + d]
      <4>1. CASE e = g
        <5>1. t[e] = s /\ Len(w[e]) = ll /\ t[e].koff = x /\ Size(t[e]) = y + z
          BY <3>1, <3>4, <3>9, <3>12, <3>13, <4>1
        <5>2. ll + (y + z) <= Len(r)
          BY <3>12
        <5>3. QED
          BY <3>13, <3>14, <5>1, <5>2
      <4>2. CASE e # g
        <5>1. e < g /\ e \in 0..(n - 1)
          BY <1>1, <1>5, <2>1, <3>16, <4>2
        <5>2. Len(w[e]) + Size(t[e]) <= ll /\ \A d \in 1..Size(t[e]) : l[Len(w[e]) + d] = a[t[e].koff + d]
          BY <2>2, <3>9, <3>12, <5>1
        <5>3. Len(w[e]) \in Nat /\ Size(t[e]) \in Nat
          <6>1. t[e] \in EntryType
            BY <1>1, <5>1
          <6>2. Size(t[e]) \in Nat
            BY <6>1 DEF EntryType, Size
          <6>3. QED
            BY <2>2, <5>1, <6>2
        <5>4. ASSUME NEW d \in 1..Size(t[e]) PROVE r[Len(w[e]) + d] = a[t[e].koff + d]
          <6>1. Len(w[e]) + d \in 1..ll
            BY <5>2, <5>3
          <6>2. r[Len(w[e]) + d] = l[Len(w[e]) + d]
            BY <3>11, <3>12, <6>1
          <6>3. QED
            BY <5>2, <6>2
        <5>5. Len(w[e]) + Size(t[e]) <= Len(r)
          <6>1. PICK p, q : p = Len(w[e]) /\ q = Size(t[e])
            OBVIOUS
          <6>2. p \in Nat /\ q \in Nat /\ p + q <= ll
            BY <5>2, <5>3, <6>1
          <6>3. p + q <= ll + y + z
            BY <6>2
          <6>4. QED
            BY <3>12, <6>1, <6>3
        <5>6. QED
          BY <5>3, <5>4, <5>5
      <4>3. QED
        BY <4>1, <4>2
    <3>17. ASSUME NEW q \in 1..Len(r)
           PROVE  \E e \in Occupied(t) : e < i /\ Len(w[e]) < q /\ q <= Len(w[e]) + Size(t[e])
      <4>1. CASE q <= ll
        <5>1. q \in 1..Len(l)
          BY <3>11, <3>12, <4>1
        <5>2. PICK e \in Occupied(t) : e < g /\ Len(w[e]) < q /\ q <= Len(w[e]) + Size(t[e])
          BY <2>2, <3>9, <5>1
        <5>3. e < i
          BY <1>1, <1>5, <2>1, <5>2
        <5>4. QED
          BY <5>2, <5>3
      <4>2. CASE ~(q <= ll)
        <5>1. ll < q /\ q <= ll + (y + z) /\ g < i
          BY <2>1, <3>11, <3>12, <4>2
        <5>2. QED
          BY <3>1, <3>2, <3>9, <3>12, <3>13, <5>1
      <4>3. QED
        BY <4>1, <4>2
    <3>18. Building(t, a, w, i)
      BY <3>9, <3>11, <3>15, <3>16, <3>17 DEF Building
    <3>19. QED
      BY <1>1, <3>18
  <2>5. QED
    BY <2>3, <2>4
<1>8. 0..n \subseteq P
  <2> HIDE DEF P
  <2>1. QED
    BY <1>1, <1>6, <1>7, Upto
<1>9. QED
  BY <1>3, <1>8

\* The same slots, with other places in the arena
SameShape(t, u, n) ==
    /\ u \in [0..(n - 1) -> EntryType]
    /\ \A i \in 0..(n - 1) : u[i].used = t[i].used /\ u[i].fp = t[i].fp /\ u[i].dist = t[i].dist

LEMMA ShapeKept ==
  ASSUME NEW n, NEW t, Table(t, n), NEW u, SameShape(t, u, n)
  PROVE  Occupied(u) = Occupied(t) /\ Ordered(u, n)
<1>1. /\ n \in Nat \ {0, 1} /\ t \in [0..(n - 1) -> EntryType] /\ Ordered(t, n)
      /\ u \in [0..(n - 1) -> EntryType]
      /\ \A i \in 0..(n - 1) : u[i].used = t[i].used /\ u[i].fp = t[i].fp /\ u[i].dist = t[i].dist
  BY DEF Table, SameShape
<1>2. Occupied(u) = Occupied(t)
  BY <1>1 DEF Occupied
<1>3. ASSUME NEW i \in Occupied(u)
      PROVE  /\ u[i].dist < n /\ i = Nth(u[i].fp, u[i].dist, n)
             /\ u[i].dist > 0 => u[Before(i, n)].used /\ u[Before(i, n)].dist >= u[i].dist - 1
  <2>1. i \in Occupied(t) /\ i \in 0..(n - 1)
    BY <1>1, <1>2, TableIs
  <2>2. Before(i, n) \in 0..(n - 1)
    BY <1>1, <2>1, AfterBefore
  <2>3. /\ t[i].dist < n /\ i = Nth(t[i].fp, t[i].dist, n)
        /\ t[i].dist > 0 => t[Before(i, n)].used /\ t[Before(i, n)].dist >= t[i].dist - 1
    BY <1>1, <2>1 DEF Ordered
  <2>4. /\ u[i].fp = t[i].fp /\ u[i].dist = t[i].dist
        /\ u[Before(i, n)].used = t[Before(i, n)].used /\ u[Before(i, n)].dist = t[Before(i, n)].dist
    BY <1>1, <2>1, <2>2
  <2>5. QED
    BY <2>3, <2>4
<1>4. QED
  BY <1>2, <1>3 DEF Ordered

\* Slot s of a goes to place y of z as slot r.
Goes(s, r, a, z, y) ==
    /\ s \in EntryType /\ s.used /\ s.klen > 0 /\ s.voff = s.koff + s.klen /\ s.koff + s.klen + s.vlen <= Len(a)
    /\ y \in Nat /\ y + s.klen + s.vlen <= Len(z)
    /\ \A q \in 1..(s.klen + s.vlen) : z[y + q] = a[s.koff + q]
    /\ r \in EntryType /\ r.used /\ r.fp = s.fp /\ r.dist = s.dist
    /\ r.koff = y /\ r.klen = s.klen /\ r.voff = y + s.klen /\ r.vlen = s.vlen

LEMMA GoesIs ==
  ASSUME NEW s \in EntryType, s.used, NEW a, NEW z, Stands(Body(s), a), NEW next, Len(next) \in Nat,
         Len(next) + Size(s) <= Len(z), \A q \in 1..Size(s) : z[Len(next) + q] = a[s.koff + q]
  PROVE  Goes(s, Relocated(next, s), a, z, Len(next))
<1>1. PICK x \in Nat, k \in Nat, v \in Nat : x = s.koff /\ k = s.klen /\ v = s.vlen
  BY DEF EntryType
<1>2. s.voff = x + k /\ x + k + v <= Len(a) /\ k > 0
  BY <1>1, BodyIs DEF Stands
<1>3. PICK y \in Nat, g \in Nat : y = Len(next) /\ g = y + k
  <2>1. PICK y : y = Len(next)
    OBVIOUS
  <2>2. y \in Nat /\ k \in Nat
    BY <2>1, Zenon
  <2>3. y + k \in Nat
    BY ONLY <2>2
  <2>4. QED
    BY ONLY <2>1, <2>2, <2>3, Zenon
<1>4. Size(s) = k + v
  BY <1>1 DEF Size
<1>5. y + k + v <= Len(z) /\ \A q \in 1..(k + v) : z[y + q] = a[x + q]
  <2>1. y + (k + v) <= Len(z) /\ \A q \in 1..(k + v) : z[y + q] = a[x + q]
    BY <1>1, <1>3, <1>4
  <2>2. y + (k + v) = y + k + v
    OBVIOUS
  <2>3. QED
    BY <2>1, <2>2
<1>6. PICK r : r = Relocated(next, s)
  OBVIOUS
<1>7. r = [s EXCEPT !.koff = y, !.voff = g]
  BY <1>1, <1>3, <1>6 DEF Relocated
<1>8. r \in EntryType /\ r.used = s.used /\ r.fp = s.fp /\ r.dist = s.dist /\ r.koff = y /\ r.klen = s.klen /\ r.voff = g /\ r.vlen = s.vlen
  BY <1>7 DEF EntryType
<1>9. Goes(s, r, a, z, y)
  BY <1>1, <1>2, <1>3, <1>5, <1>8 DEF Goes
<1>10. QED
  BY <1>3, <1>6, <1>9

\* What it says stays the same.
LEMMA GoesViews ==
  ASSUME NEW a \in Seq(Bytes), NEW z \in Seq(Bytes), NEW s, NEW r, NEW y, Goes(s, r, a, z, y)
  PROVE  /\ Body(r).fp = Body(s).fp /\ Body(r).voff = Body(r).koff + Body(r).klen
         /\ Body(r).voff + Body(r).vlen <= Len(z)
         /\ KeyView(z, Body(r)) = KeyView(a, Body(s)) /\ ValueCopy(z, Body(r)) = ValueCopy(a, Body(s))
<1>1. s \in EntryType /\ r \in EntryType /\ y \in Nat
  BY DEF Goes
<1>2. PICK x \in Nat, k \in Nat, v \in Nat : x = s.koff /\ k = s.klen /\ v = s.vlen
  BY <1>1 DEF EntryType
<1>3. /\ s.voff = x + k /\ x + k + v <= Len(a) /\ y + k + v <= Len(z)
      /\ \A q \in 1..(k + v) : z[y + q] = a[x + q]
      /\ r.fp = s.fp /\ r.koff = y /\ r.klen = k /\ r.voff = y + k /\ r.vlen = v
  BY <1>2 DEF Goes
<1>4. PICK la \in Nat, lz \in Nat : la = Len(a) /\ lz = Len(z)
  BY LenProperties
<1>5. x + k + v <= la /\ y + k + v <= lz
  BY <1>3, <1>4
<1>6. KeyView(z, r) = KeyView(a, s)
  <2>1. x + k <= Len(a) /\ y + k <= Len(z)
    BY <1>1, <1>4, <1>5
  <2>2. \A q \in 1..k : z[y + q] = a[x + q]
    <3>1. \A q \in 1..k : q \in 1..(k + v)
      OBVIOUS
    <3>2. QED
      BY <1>3, <3>1
  <2>3. Cut(z, y, k) = Cut(a, x, k)
    <3>1. SameBytes(z, y, a, x, k)
      BY <1>1, <2>1, <2>2 DEF SameBytes
    <3>2. QED
      BY <3>1, CutSame
  <2>4. KeyView(z, r) = Cut(z, y, k) /\ KeyView(a, s) = Cut(a, x, k)
    BY <1>2, <1>3 DEF KeyView, Cut
  <2>5. QED
    BY <2>3, <2>4
<1>7. ValueCopy(z, r) = ValueCopy(a, s)
  <2>1. PICK x1 \in Nat, y1 \in Nat : x1 = x + k /\ y1 = y + k
    BY <1>1
  <2>2. x1 + v <= Len(a) /\ y1 + v <= Len(z)
    BY <1>4, <1>5, <2>1
  <2>3. ASSUME NEW q \in 1..v PROVE z[y1 + q] = a[x1 + q]
    <3>1. PICK d \in 1..(k + v) : d = k + q
      OBVIOUS
    <3>2. y1 + q = y + d /\ x1 + q = x + d
      BY <1>1, <2>1, <3>1
    <3>3. z[y + d] = a[x + d]
      BY <1>3
    <3>4. QED
      BY <3>2, <3>3
  <2>4. Cut(z, y1, v) = Cut(a, x1, v)
    <3>1. \A q \in 1..v : z[y1 + q] = a[x1 + q]
      BY <2>3
    <3>2. SameBytes(z, y1, a, x1, v)
      BY <2>2, <3>1 DEF SameBytes
    <3>3. QED
      BY <3>2, CutSame
  <2>5. ValueCopy(z, r) = Cut(z, y1, v) /\ ValueCopy(a, s) = Cut(a, x1, v)
    BY <1>2, <1>3, <2>1 DEF ValueCopy, Cut
  <2>6. QED
    BY <2>4, <2>5
<1>8. QED
  BY <1>1, <1>3, <1>6, <1>7, BodyIs, ViewIs

\* What a compaction leaves: the same records, and no place that belongs to none
Compacted(t, a, n, u, b) ==
    /\ Table(u, n) /\ b \in Seq(Bytes) /\ Len(b) <= Len(a)
    /\ Cardinality(Bodies(u)) = Cardinality(Bodies(t)) /\ Cardinality(Covered(Bodies(u))) = Len(b)

LEMMA SlotsMoved ==
  ASSUME NEW n, NEW t, Table(t, n), NEW a \in Seq(Bytes), NEW f, NEW m, Records(Bodies(t), a, f, m),
         NEW w, w = Swept(t, a),
         NEW u, u = [i \in 0..(n - 1) |-> IF t[i].used THEN Relocated(w[i], t[i]) ELSE t[i]]
  PROVE  Compacted(t, a, n, u, w[n]) /\ Records(Bodies(u), w[n], f, m)
<1>1. n \in Nat \ {0, 1} /\ n \in 0..n /\ t \in [0..(n - 1) -> EntryType] /\ Apart(t)
  BY DEF Table
<1>2. Laid(Bodies(t), a)
  BY RecordsLaid
<1>3. \A j \in 0..n : Building(t, a, w, j)
  BY <1>2, BuiltIs
<1>4. \A i : i \in Occupied(t) <=> i \in 0..(n - 1) /\ t[i].used
  BY <1>1 DEF Occupied
<1>5. PICK z : z = w[n]
  OBVIOUS
<1>6. /\ z \in Seq(Bytes) /\ Len(z) = Cardinality(Covered(Bodies(t)))
      /\ \A i \in Occupied(t) :
           /\ Len(w[i]) \in Nat /\ Len(w[i]) + Size(t[i]) <= Len(z)
           /\ \A y \in 1..Size(t[i]) : z[Len(w[i]) + y] = a[t[i].koff + y]
      /\ \A q \in 1..Len(z) : \E i \in Occupied(t) : Len(w[i]) < q /\ q <= Len(w[i]) + Size(t[i])
  <2>1. Building(t, a, w, n)
    BY <1>1, <1>3
  <2>2. \A i \in Occupied(t) : i < n
    BY <1>1, <1>4
  <2>3. First(t, n) = Bodies(t)
    BY FirstIs
  <2>4. QED
    BY <1>5, <2>1, <2>2, <2>3 DEF Building
<1>7. \A i, j \in Occupied(t) : i < j => Len(w[i]) + Size(t[i]) <= Len(w[j])
  <2>1. ASSUME NEW i \in Occupied(t), NEW j \in Occupied(t), i < j PROVE Len(w[i]) + Size(t[i]) <= Len(w[j])
    <3>1. j \in 0..n
      BY <1>1, <1>4
    <3>2. Building(t, a, w, j)
      BY <1>3, <3>1
    <3>3. QED
      BY <2>1, <3>2 DEF Building
  <2>2. QED
    BY <2>1
\* A slot and where it goes
<1>8. ASSUME NEW i \in Occupied(t)
      PROVE  Goes(t[i], u[i], a, z, Len(w[i])) /\ Body(t[i]) \in Bodies(t)
  <2>1. i \in 0..(n - 1) /\ t[i] \in EntryType /\ t[i].used /\ Body(t[i]) \in Bodies(t)
    BY <1>1, <1>4 DEF Bodies
  <2>2. Stands(Body(t[i]), a)
    BY <1>2, <2>1 DEF Laid
  <2>3. u[i] = Relocated(w[i], t[i])
    BY <2>1
  <2>4. Goes(t[i], Relocated(w[i], t[i]), a, z, Len(w[i]))
    BY <1>6, <2>1, <2>2, GoesIs
  <2>5. QED
    BY <2>1, <2>3, <2>4
<1>9. SameShape(t, u, n)
  <2>1. ASSUME NEW i \in 0..(n - 1)
        PROVE  u[i] \in EntryType /\ u[i].used = t[i].used /\ u[i].fp = t[i].fp /\ u[i].dist = t[i].dist
    <3>1. CASE t[i].used
      <4>1. i \in Occupied(t)
        BY <1>4, <3>1
      <4>2. u[i] \in EntryType /\ u[i].used /\ u[i].fp = t[i].fp /\ u[i].dist = t[i].dist
        BY <1>8, <4>1 DEF Goes
      <4>3. t[i].used \in BOOLEAN /\ u[i].used \in BOOLEAN
        BY <1>1, <4>2 DEF EntryType
      <4>4. QED
        BY <3>1, <4>2, <4>3
    <3>2. CASE ~t[i].used
      <4>1. u[i] = t[i]
        BY <3>2
      <4>2. QED
        BY <1>1, <4>1
    <3>3. QED
      BY <3>1, <3>2
  <2>2. QED
    BY <2>1 DEF SameShape
<1>10. Occupied(u) = Occupied(t) /\ Ordered(u, n)
  BY <1>9, ShapeKept
\* Views are the same, and bodies are behind each other.
<1>11. ASSUME NEW i \in Occupied(t)
       PROVE  /\ Body(u[i]).fp = Body(t[i]).fp /\ Body(u[i]).voff = Body(u[i]).koff + Body(u[i]).klen
              /\ Body(u[i]).voff + Body(u[i]).vlen <= Len(z)
              /\ KeyView(z, Body(u[i])) = KeyView(a, Body(t[i])) /\ ValueCopy(z, Body(u[i])) = ValueCopy(a, Body(t[i]))
  <2>1. Goes(t[i], u[i], a, z, Len(w[i])) /\ z \in Seq(Bytes)
    BY <1>6, <1>8, Zenon
  <2>2. QED
    BY ONLY a \in Seq(Bytes), <2>1, GoesViews, SMT
<1>12. \A i, j \in Occupied(t) : i # j => Separate(Body(u[i]), Body(u[j])) /\ Body(u[i]) # Body(u[j])
  <2>1. ASSUME NEW i \in Occupied(t), NEW j \in Occupied(t), i < j
        PROVE  /\ Body(u[i]).voff + Body(u[i]).vlen <= Body(u[j]).koff /\ Body(u[i]).koff # Body(u[j]).koff
    <3>1. PICK k \in Nat, v \in Nat, y \in Nat :
               /\ k = t[i].klen /\ v = t[i].vlen /\ k > 0 /\ y = Len(w[i])
               /\ u[i] \in EntryType /\ u[i].koff = y /\ u[i].voff = y + k /\ u[i].vlen = v
      <4>1. Goes(t[i], u[i], a, z, Len(w[i]))
        BY <1>8
      <4>2. /\ t[i] \in EntryType /\ u[i] \in EntryType /\ t[i].klen > 0 /\ Len(w[i]) \in Nat
            /\ u[i].koff = Len(w[i]) /\ u[i].voff = Len(w[i]) + t[i].klen /\ u[i].vlen = t[i].vlen
        BY ONLY <4>1, Zenon DEF Goes
      <4>3. t[i].klen \in Nat /\ t[i].vlen \in Nat
        BY ONLY <4>2 DEF EntryType
      <4>4. QED
        BY ONLY <4>2, <4>3
    <3>2. PICK y1 \in Nat : y1 = Len(w[j]) /\ u[j] \in EntryType /\ u[j].koff = y1
      BY <1>8 DEF Goes
    <3>3. y + (k + v) <= y1
      BY <1>7, <2>1, <3>1, <3>2 DEF Size
    <3>4. y + k + v <= y1 /\ y # y1
      <4>1. k > 0
        BY <3>1
      <4>2. QED
        BY <3>3, <4>1
    <3>5. QED
      BY <3>1, <3>2, <3>4, BodyIs
  <2>2. ASSUME NEW i \in Occupied(t), NEW j \in Occupied(t), i # j
        PROVE  Separate(Body(u[i]), Body(u[j])) /\ Body(u[i]) # Body(u[j])
    <3>1. i < j \/ j < i
      BY <1>4, <2>2
    <3>2. CASE i < j
      BY <2>1, <3>2 DEF Separate
    <3>3. CASE j < i
      BY <2>1, <3>3 DEF Separate
    <3>4. QED
      BY <3>1, <3>2, <3>3
  <2>3. QED
    BY <2>2
<1>13. Table(u, n)
  <2>1. Apart(u)
    BY <1>10, <1>12 DEF Apart
  <2>2. QED
    BY <1>1, <1>9, <1>10, <2>1 DEF Table, SameShape
<1>14. Records(Bodies(u), z, f, m)
  <2>1. \A b \in Bodies(u) : \E i \in Occupied(t) : b = Body(u[i]) /\ Body(t[i]) \in Bodies(t)
    BY <1>10 DEF Bodies
  <2>2. ASSUME NEW b \in Bodies(u) PROVE Shows(b, z, f, m)
    <3>1. PICK i \in Occupied(t) : b = Body(u[i]) /\ Body(t[i]) \in Bodies(t)
      BY <2>1
    <3>2. Shows(Body(t[i]), a, f, m)
      BY <3>1 DEF Records
    <3>3. QED
      BY <1>11, <3>1, <3>2 DEF Shows
  <2>3. ASSUME NEW b \in Bodies(u), NEW c \in Bodies(u), b # c PROVE KeyView(z, b) # KeyView(z, c) /\ Separate(b, c)
    <3>1. PICK i \in Occupied(t) : b = Body(u[i]) /\ Body(t[i]) \in Bodies(t)
      BY <2>1
    <3>2. PICK j \in Occupied(t) : c = Body(u[j]) /\ Body(t[j]) \in Bodies(t)
      BY <2>1
    <3>3. i # j /\ Body(t[i]) # Body(t[j])
      BY <1>1, <2>3, <3>1, <3>2 DEF Apart
    <3>4. KeyView(a, Body(t[i])) # KeyView(a, Body(t[j]))
      BY <3>1, <3>2, <3>3 DEF Records
    <3>5. QED
      BY <1>11, <1>12, <3>1, <3>2, <3>3, <3>4
  <2>4. ASSUME NEW k \in KeyStrings, m[k] # Absent PROVE \E b \in Bodies(u) : KeyView(z, b) = k
    <3>1. PICK b \in Bodies(t) : KeyView(a, b) = k
      BY <2>4 DEF Records
    <3>2. PICK i \in Occupied(t) : b = Body(t[i])
      BY DEF Bodies
    <3>3. Body(u[i]) \in Bodies(u)
      BY <1>10 DEF Bodies
    <3>4. QED
      BY <1>11, <3>1, <3>2, <3>3
  <2>5. QED
    BY <2>2, <2>3, <2>4 DEF Records
<1>15. Cardinality(Bodies(u)) = Cardinality(Bodies(t))
  BY <1>10, <1>13, Counted
<1>16. Covered(Bodies(u)) = 1..Len(z)
  <2>1. Covered(Bodies(u)) \subseteq 1..Len(z)
    BY <1>6, <1>13, <1>14, RecordsLaid, CoveredIs
  <2>2. ASSUME NEW q \in 1..Len(z) PROVE q \in Covered(Bodies(u))
    <3>1. PICK i \in Occupied(t) : Len(w[i]) < q /\ q <= Len(w[i]) + Size(t[i])
      BY <1>6
    <3>2. PICK k \in Nat, v \in Nat, y \in Nat :
               /\ k = t[i].klen /\ v = t[i].vlen /\ y = Len(w[i])
               /\ u[i] \in EntryType /\ u[i].koff = y /\ u[i].voff = y + k /\ u[i].vlen = v
      <4>1. Goes(t[i], u[i], a, z, Len(w[i]))
        BY <1>8
      <4>2. t[i].klen \in Nat /\ t[i].vlen \in Nat
        BY <4>1 DEF Goes, EntryType
      <4>3. QED
        BY <4>1, <4>2 DEF Goes
    <3>3. Size(t[i]) = k + v
      BY <3>2 DEF Size
    <3>4. q \in Nat /\ y < q /\ q <= y + k + v
      BY <3>1, <3>2, <3>3
    <3>5. Body(u[i]) \in Bodies(u) /\ Body(u[i]).koff = y /\ Body(u[i]).voff = y + k /\ Body(u[i]).vlen = v
      BY <1>10, <3>2, BodyIs DEF Bodies
    <3>6. QED
      BY <3>4, <3>5 DEF Covered
  <2>3. QED
    BY <2>1, <2>2
<1>17. Cardinality(1..Len(z)) = Len(z) /\ Len(z) <= Len(a)
  <2>1. PICK l \in Nat : l = Len(z)
    BY <1>6, LenProperties
  <2>2. Cardinality(1..l) = l
    BY FS_Interval
  <2>3. QED
    BY <1>2, <1>6, <2>1, <2>2, CoveredIs
<1>18. QED
  BY <1>5, <1>6, <1>13, <1>14, <1>15, <1>16, <1>17 DEF Compacted

LEMMA CompactIs ==
  ASSUME NEW p, NEW n, n = Capacity(p.slots), Table(p.slots, n), p.arena \in Seq(Bytes), NEW f, NEW m,
         Records(Bodies(p.slots), p.arena, f, m)
  PROVE  \E u, b : /\ CompactArena(p) = [p EXCEPT !.slots = u, !.arena = b, !.garbage = 0]
                   /\ Compacted(p.slots, p.arena, n, u, b) /\ Records(Bodies(u), b, f, m)
<1>1. PICK t, w : t = p.slots /\ w = Swept(p.slots, p.arena)
  OBVIOUS
<1>2. DOMAIN t = 0..(n - 1)
  BY <1>1 DEF Table
<1>3. PICK u : u = [i \in 0..(n - 1) |-> IF t[i].used THEN Relocated(w[i], t[i]) ELSE t[i]]
  OBVIOUS
<1>4. CompactArena(p) = [p EXCEPT !.slots = u, !.arena = w[n], !.garbage = 0]
  BY <1>1, <1>2, <1>3 DEF CompactArena
<1>5. Compacted(t, p.arena, n, u, w[n]) /\ Records(Bodies(u), w[n], f, m)
  BY <1>1, <1>3, SlotsMoved
<1>6. QED
  BY <1>1, <1>4, <1>5

-----------------------------------------------------------------------------
(* A record more, or one less                                              *)

\* a1 begins with the bytes of a.
Begins(a1, a) ==
    a \in Seq(Bytes) /\ a1 \in Seq(Bytes) /\ Len(a) <= Len(a1) /\ \A z \in 1..Len(a) : a1[z] = a[z]

LEMMA ViewsStay ==
  ASSUME NEW a, NEW a1, Begins(a1, a), NEW b, Stands(b, a)
  PROVE  Stands(b, a1) /\ KeyView(a1, b) = KeyView(a, b) /\ ValueCopy(a1, b) = ValueCopy(a, b)
<1>1. a \in Seq(Bytes) /\ a1 \in Seq(Bytes) /\ Len(a) <= Len(a1) /\ \A z \in 1..Len(a) : a1[z] = a[z]
  BY DEF Begins
<1>2. b \in BodyType /\ b.klen > 0 /\ b.voff = b.koff + b.klen /\ b.voff + b.vlen <= Len(a)
  BY DEF Stands
<1>3. PICK x \in Nat, k \in Nat, v \in Nat, y \in Nat :
           x = b.koff /\ k = b.klen /\ v = b.vlen /\ y = b.voff /\ y = x + k
  BY <1>2 DEF BodyType
<1>4. PICK l \in Nat, l1 \in Nat : l = Len(a) /\ l1 = Len(a1)
  BY <1>1, LenProperties
<1>5. x + k <= l /\ y + v <= l /\ x + k <= l1 /\ y + v <= l1
  BY <1>1, <1>2, <1>3, <1>4
<1>6. SameBytes(a1, x, a, x, k)
  <2>1. ASSUME NEW z \in 1..k PROVE a1[x + z] = a[x + z]
    <3>1. PICK q \in 1..l : q = x + z
      BY <1>5
    <3>2. a1[q] = a[q]
      BY <1>1, <1>4
    <3>3. QED
      BY <3>1, <3>2
  <2>2. QED
    BY <1>1, <1>4, <1>5, <2>1 DEF SameBytes
<1>7. SameBytes(a1, y, a, y, v)
  <2>1. ASSUME NEW z \in 1..v PROVE a1[y + z] = a[y + z]
    <3>1. PICK q \in 1..l : q = y + z
      BY <1>5
    <3>2. a1[q] = a[q]
      BY <1>1, <1>4
    <3>3. QED
      BY <3>1, <3>2
  <2>2. QED
    BY <1>1, <1>4, <1>5, <2>1 DEF SameBytes
<1>8. Cut(a1, x, k) = Cut(a, x, k) /\ Cut(a1, y, v) = Cut(a, y, v)
  BY <1>6, <1>7, CutSame
<1>9. /\ KeyView(a1, b) = Cut(a1, x, k) /\ KeyView(a, b) = Cut(a, x, k)
      /\ ValueCopy(a1, b) = Cut(a1, y, v) /\ ValueCopy(a, b) = Cut(a, y, v)
  BY <1>3 DEF KeyView, ValueCopy, Cut
<1>10. Stands(b, a1)
  BY <1>2, <1>3, <1>4, <1>5 DEF Stands
<1>11. QED
  BY <1>8, <1>9, <1>10

LEMMA RecordsStay ==
  ASSUME NEW a, NEW a1, Begins(a1, a), NEW B, Laid(B, a), NEW f, NEW m, Records(B, a, f, m)
  PROVE  Laid(B, a1) /\ Records(B, a1, f, m)
<1>1. ASSUME NEW b \in B
      PROVE  Stands(b, a1) /\ KeyView(a1, b) = KeyView(a, b) /\ ValueCopy(a1, b) = ValueCopy(a, b)
  <2>1. Stands(b, a)
    BY DEF Laid
  <2>2. QED
    BY <2>1, ViewsStay
<1>2. Laid(B, a1)
  BY <1>1 DEF Laid
<1>3. ASSUME NEW b \in B PROVE Shows(b, a1, f, m)
  <2>1. Shows(b, a, f, m)
    BY DEF Records
  <2>2. b.voff + b.vlen <= Len(a1)
    BY <1>1 DEF Stands
  <2>3. QED
    BY <1>1, <2>1, <2>2 DEF Shows
<1>4. \A b, c \in B : b # c => KeyView(a1, b) # KeyView(a1, c) /\ Separate(b, c)
  <2>1. \A b, c \in B : b # c => KeyView(a, b) # KeyView(a, c) /\ Separate(b, c)
    BY DEF Records
  <2>2. \A b \in B : KeyView(a1, b) = KeyView(a, b)
    BY <1>1
  <2>3. QED
    BY <2>1, <2>2
<1>5. \A k \in KeyStrings : m[k] # Absent => \E b \in B : KeyView(a1, b) = k
  <2>1. \A k \in KeyStrings : m[k] # Absent => \E b \in B : KeyView(a, b) = k
    BY DEF Records
  <2>2. \A b \in B : KeyView(a1, b) = KeyView(a, b)
    BY <1>1
  <2>3. QED
    BY <2>1, <2>2
<1>6. QED
  BY <1>2, <1>3, <1>4, <1>5 DEF Records

\* Body d is of key k and value v, behind those of B.
Adds(d, B, a, f, k, v) ==
    /\ Stands(d, a) /\ KeyView(a, d) = k /\ ValueCopy(a, d) = v /\ d.fp = f[k]
    /\ \A b \in B : b.voff + b.vlen <= d.koff

AllBut(C, B, a, k) == C \subseteq B /\ \A b \in B : b \in C <=> KeyView(a, b) # k

LEMMA RecordsMore ==
  ASSUME NEW a, NEW f, NEW m, DOMAIN m = KeyStrings, NEW k \in KeyStrings, NEW v \in ValueStrings,
         NEW B, Laid(B, a), Records(B, a, f, m), NEW d, Adds(d, B, a, f, k, v),
         NEW C, AllBut(C, B, a, k)
  PROVE  Laid(C \cup {d}, a) /\ Records(C \cup {d}, a, f, [m EXCEPT ![k] = v]) /\ d \notin B
<1> C \subseteq B /\ \A b \in B : b \in C <=> KeyView(a, b) # k
  BY DEF AllBut
<1>1. PICK m1 : m1 = [m EXCEPT ![k] = v]
  OBVIOUS
<1>2. m1[k] = v /\ \A x \in KeyStrings : x # k => m1[x] = m[x]
  BY <1>1
<1>3. Stands(d, a) /\ KeyView(a, d) = k /\ ValueCopy(a, d) = v /\ d.fp = f[k]
  BY DEF Adds
<1>4. ASSUME NEW b \in B PROVE Separate(b, d) /\ Separate(d, b) /\ b # d
  <2>1. b.voff + b.vlen <= d.koff
    BY DEF Adds
  <2>2. d.koff \in Nat /\ d.klen \in Nat /\ d.vlen \in Nat /\ d.klen > 0 /\ d.voff = d.koff + d.klen
    BY <1>3 DEF Stands, BodyType
  <2>3. ~(d.voff + d.vlen <= d.koff)
    BY <2>2
  <2>4. QED
    BY <2>1, <2>3 DEF Separate
<1>5. Laid(C \cup {d}, a)
  BY <1>3, <1>4 DEF Laid
<1>6. ASSUME NEW b \in C \cup {d} PROVE Shows(b, a, f, m1)
  <2>1. CASE b = d
    BY <1>2, <1>3, <2>1 DEF Shows, Stands
  <2>2. CASE b \in C
    <3>1. Shows(b, a, f, m) /\ KeyView(a, b) # k
      BY <2>2 DEF Records
    <3>2. QED
      BY <1>2, <3>1 DEF Shows
  <2>3. QED
    BY <2>1, <2>2
<1>7. ASSUME NEW b \in C \cup {d}, NEW c \in C \cup {d}, b # c PROVE KeyView(a, b) # KeyView(a, c) /\ Separate(b, c)
  <2>1. CASE b \in C /\ c \in C
    BY <1>7, <2>1 DEF Records
  <2>2. CASE b = d
    BY <1>3, <1>4, <1>7, <2>2
  <2>3. CASE c = d
    BY <1>3, <1>4, <1>7, <2>3
  <2>4. QED
    BY <2>1, <2>2, <2>3
<1>8. ASSUME NEW x \in KeyStrings, m1[x] # Absent PROVE \E b \in C \cup {d} : KeyView(a, b) = x
  <2>1. CASE x = k
    BY <1>3, <2>1
  <2>2. CASE x # k
    <3>1. \E b \in B : KeyView(a, b) = x
      BY <1>2, <1>8, <2>2 DEF Records
    <3>2. QED
      BY <2>2, <3>1
  <2>3. QED
    BY <2>1, <2>2
<1>9. Records(C \cup {d}, a, f, m1)
  BY <1>6, <1>7, <1>8 DEF Records
<1>10. QED
  BY <1>1, <1>4, <1>5, <1>9

LEMMA RecordsLess ==
  ASSUME NEW a, NEW f, NEW m, DOMAIN m = KeyStrings, NEW k \in KeyStrings,
         NEW B, Records(B, a, f, m), NEW C, AllBut(C, B, a, k)
  PROVE  Records(C, a, f, [m EXCEPT ![k] = Absent])
<1> C \subseteq B /\ \A b \in B : b \in C <=> KeyView(a, b) # k
  BY DEF AllBut
<1>1. PICK m1 : m1 = [m EXCEPT ![k] = Absent]
  OBVIOUS
<1>2. m1[k] = Absent /\ \A x \in KeyStrings : x # k => m1[x] = m[x]
  BY <1>1
<1>3. ASSUME NEW b \in C PROVE Shows(b, a, f, m1)
  <2>1. Shows(b, a, f, m) /\ KeyView(a, b) # k
    BY DEF Records
  <2>2. QED
    BY <1>2, <2>1 DEF Shows
<1>4. \A b, c \in C : b # c => KeyView(a, b) # KeyView(a, c) /\ Separate(b, c)
  BY DEF Records
<1>5. ASSUME NEW x \in KeyStrings, m1[x] # Absent PROVE \E b \in C : KeyView(a, b) = x
  <2>1. \E b \in B : KeyView(a, b) = x
    BY <1>2, <1>5 DEF Records
  <2>2. x # k
    BY <1>2, <1>5
  <2>3. QED
    BY <2>1, <2>2
<1>6. QED
  BY <1>1, <1>3, <1>4, <1>5 DEF Records

\* What append() makes
Made(c, a1, a, g, k, v) ==
    /\ a \in Seq(Bytes) /\ k \in Seq(Bytes) /\ v \in Seq(Bytes) /\ k # <<>> /\ g \in Nat
    /\ a1 = a \o k \o v /\ c = NewSlot(a, g, k, v)

LEMMA NewSlotIs ==
  ASSUME NEW a, NEW k, NEW v, NEW g, NEW a1, NEW c, Made(c, a1, a, g, k, v)
  PROVE  /\ Begins(a1, a) /\ c \in EntryType /\ c.used /\ c.dist = 0 /\ c.fp = g /\ Size(c) = Len(k) + Len(v)
         /\ Stands(Body(c), a1) /\ KeyView(a1, Body(c)) = k /\ ValueCopy(a1, Body(c)) = v /\ Body(c).koff = Len(a)
<1>  /\ a \in Seq(Bytes) /\ k \in Seq(Bytes) /\ v \in Seq(Bytes) /\ k # <<>> /\ g \in Nat
     /\ a1 = a \o k \o v /\ c = NewSlot(a, g, k, v)
  BY DEF Made
<1>1. PICK x, y, l : x = Len(a) /\ y = Len(k) /\ l = Len(v)
  OBVIOUS
<1>2. /\ a1 \in Seq(Bytes) /\ Len(a1) = x + y + l /\ x \in Nat /\ y \in Nat /\ l \in Nat
      /\ \A z \in 1..x : a1[z] = a[z]
      /\ \A z \in 1..y : a1[x + z] = k[z]
      /\ \A z \in 1..l : a1[x + y + z] = v[z]
  BY <1>1, AppendedIs
<1>3. y > 0
  BY <1>1, <1>2, EmptySeq
<1>4. Begins(a1, a)
  BY <1>1, <1>2 DEF Begins
<1>5. PICK w \in Nat : w = x + y
  BY <1>2
<1>6. c = [used |-> TRUE, fp |-> g, koff |-> x, klen |-> y, voff |-> w, vlen |-> l, dist |-> 0]
  BY <1>1, <1>5 DEF NewSlot
<1>7. /\ c \in EntryType /\ c.used /\ c.dist = 0 /\ c.fp = g
      /\ c.koff = x /\ c.klen = y /\ c.voff = w /\ c.vlen = l
  BY <1>2, <1>6 DEF EntryType
<1>8. KeyView(a1, c) = k
  <2>1. x + Len(k) <= Len(a1) /\ \A z \in 1..Len(k) : a1[x + z] = k[z]
    BY <1>1, <1>2
  <2>2. SubSeq(a1, x + 1, x + Len(k)) = k
    BY <1>2, <2>1, CutWhole
  <2>3. QED
    BY <1>1, <1>7, <2>2 DEF KeyView
<1>9. ValueCopy(a1, c) = v
  <2>1. w + Len(v) <= Len(a1) /\ \A z \in 1..Len(v) : a1[w + z] = v[z]
    BY <1>1, <1>2, <1>5
  <2>2. SubSeq(a1, w + 1, w + Len(v)) = v
    BY <1>2, <2>1, CutWhole
  <2>3. QED
    BY <1>1, <1>7, <2>2 DEF ValueCopy
<1>10. Stands(Body(c), a1)
  <2>1. w + l <= Len(a1)
    BY <1>2, <1>5
  <2>2. QED
    BY <1>3, <1>5, <1>7, <2>1, BodyIs DEF Stands
<1>11. QED
  BY <1>1, <1>4, <1>7, <1>8, <1>9, <1>10, BodyIs, ViewIs DEF Size

-----------------------------------------------------------------------------
(* Operations keep it consistent                                           *)

\* The slot of a key, if the key has one, is the only one that a search takes for it.
LEMMA WhichSlot ==
  ASSUME NEW n, NEW t, Table(t, n), NEW a, NEW f, NEW m, Records(Bodies(t), a, f, m),
         Absent \notin ValueStrings, NEW k \in KeyStrings
  PROVE  \/ /\ m[k] = Absent
            /\ \A i \in Occupied(t) : ~IsSlotOf(a, t[i], f[k], k)
            /\ \A b \in Bodies(t) : KeyView(a, b) # k
         \/ /\ m[k] # Absent
            /\ \E i \in Occupied(t) :
                 /\ IsSlotOf(a, t[i], f[k], k) /\ ValueCopy(a, t[i]) = m[k]
                 /\ \A j \in Occupied(t) : IsSlotOf(a, t[j], f[k], k) => j = i
                 /\ \A b \in Bodies(t) : KeyView(a, b) = k <=> b = Body(t[i])
<1>1. n \in Nat \ {0, 1} /\ t \in [0..(n - 1) -> EntryType] /\ Apart(t)
  BY DEF Table
<1>2. ASSUME NEW i \in Occupied(t)
      PROVE  /\ Body(t[i]) \in Bodies(t) /\ t[i].used /\ Body(t[i]).fp = t[i].fp
             /\ KeyView(a, Body(t[i])) = KeyView(a, t[i]) /\ ValueCopy(a, Body(t[i])) = ValueCopy(a, t[i])
  <2>1. i \in 0..(n - 1) /\ t[i].used /\ t[i] \in EntryType
    BY <1>1, TableIs
  <2>2. Body(t[i]) \in Bodies(t)
    BY DEF Bodies
  <2>3. QED
    BY <2>1, <2>2, BodyIs, ViewIs
<1>3. CASE m[k] = Absent
  <2>1. ASSUME NEW b \in Bodies(t), KeyView(a, b) = k PROVE FALSE
    <3>1. Shows(b, a, f, m)
      BY DEF Records
    <3>2. QED
      BY <1>3, <2>1, <3>1 DEF Shows
  <2>2. ASSUME NEW i \in Occupied(t), IsSlotOf(a, t[i], f[k], k) PROVE FALSE
    BY <1>2, <2>1, <2>2 DEF IsSlotOf
  <2>3. QED
    BY <1>3, <2>1, <2>2
<1>4. CASE m[k] # Absent
  <2>1. PICK b \in Bodies(t) : KeyView(a, b) = k
    BY <1>4 DEF Records
  <2>2. PICK i \in Occupied(t) : b = Body(t[i])
    BY DEF Bodies
  <2>3. Shows(b, a, f, m)
    BY DEF Records
  <2>4. IsSlotOf(a, t[i], f[k], k) /\ ValueCopy(a, t[i]) = m[k]
    BY <1>2, <2>1, <2>2, <2>3 DEF Shows, IsSlotOf
  <2>5. \A c \in Bodies(t) : KeyView(a, c) = k <=> c = b
    BY <2>1 DEF Records
  <2>6. ASSUME NEW j \in Occupied(t), IsSlotOf(a, t[j], f[k], k) PROVE j = i
    <3>1. Body(t[j]) = Body(t[i])
      BY <1>2, <2>2, <2>5, <2>6 DEF IsSlotOf
    <3>2. QED
      BY <1>1, <3>1 DEF Apart
  <2>7. QED
    BY <1>4, <2>2, <2>4, <2>5, <2>6
<1>5. QED
  BY <1>3, <1>4

Partition(t, a, r, g, e) == [slots |-> t, arena |-> a, records |-> r, garbage |-> g, err |-> e]

\* The table t of n slots and the arena a hold what f and m say, in so many records and so
\* much garbage.
Keeps(t, n, a, r, g, f, m) ==
    /\ Table(t, n) /\ a \in Seq(Bytes) /\ Len(a) <= MaxOffset /\ Records(Bodies(t), a, f, m)
    /\ r \in Nat /\ r = Cardinality(Bodies(t)) /\ r < n
    /\ g \in Nat /\ g = Len(a) - Cardinality(Covered(Bodies(t)))

LEMMA ConsistentIs ==
  ASSUME NEW p, NEW f, NEW m
  PROVE  Consistent(p, f, m) <=> \E t, n, a, r, g, e : p = Partition(t, a, r, g, e) /\ Keeps(t, n, a, r, g, f, m)
<1>1. ASSUME Consistent(p, f, m)
      PROVE  \E t, n, a, r, g, e : p = Partition(t, a, r, g, e) /\ Keeps(t, n, a, r, g, f, m)
  <2>1. PICK t, n, a, r, g, e : t = p.slots /\ n = Capacity(t) /\ a = p.arena /\ r = p.records /\ g = p.garbage /\ e = p.err
    OBVIOUS
  <2>2. p = Partition(t, a, r, g, e)
    BY <1>1, <2>1 DEF Consistent, IsPart, Partition
  <2>3. Keeps(t, n, a, r, g, f, m)
    BY <1>1, <2>1 DEF Consistent, Keeps
  <2>4. QED
    BY <2>2, <2>3
<1>2. ASSUME NEW t, NEW n, NEW a, NEW r, NEW g, NEW e, p = Partition(t, a, r, g, e), Keeps(t, n, a, r, g, f, m)
      PROVE  Consistent(p, f, m)
  <2>1. p.slots = t /\ p.arena = a /\ p.records = r /\ p.garbage = g /\ p.err = e /\ IsPart(p)
    BY <1>2 DEF Partition, IsPart
  <2>2. Capacity(t) = n
    BY <1>2, TableIs DEF Keeps, Table
  <2>3. IsFiniteSet(Bodies(t))
    BY <1>2, Counted DEF Keeps
  <2>4. QED
    BY <1>2, <2>1, <2>2, <2>3 DEF Consistent, Keeps
<1>3. QED
  BY <1>1, <1>2

\* Whether or not it compacts, what is left is lean.
LEMMA MaybeCompactIs ==
  ASSUME NEW t, NEW n, NEW a, NEW r, NEW g, NEW e, NEW f, NEW m, Keeps(t, n, a, r, g, f, m),
         NEW p, p = Partition(t, a, r, g, e)
  PROVE  Consistent(MaybeCompact(p), f, m) /\ Lean(MaybeCompact(p)) /\ MaybeCompact(p).err = e
<1>1. p.slots = t /\ p.arena = a /\ p.records = r /\ p.garbage = g /\ p.err = e
  BY DEF Partition
<1>2. /\ Table(t, n) /\ a \in Seq(Bytes) /\ Len(a) <= MaxOffset /\ Records(Bodies(t), a, f, m)
      /\ r \in Nat /\ r = Cardinality(Bodies(t)) /\ r < n
      /\ g \in Nat /\ g = Len(a) - Cardinality(Covered(Bodies(t)))
  BY DEF Keeps
<1>3. CASE NeedsCompaction(p)
  <2>1. n = Capacity(p.slots)
    BY <1>1, <1>2, TableIs DEF Table
  <2>2. PICK u, b : /\ CompactArena(p) = [p EXCEPT !.slots = u, !.arena = b, !.garbage = 0]
                    /\ Compacted(t, a, n, u, b) /\ Records(Bodies(u), b, f, m)
    <3>1. \E u, b : /\ CompactArena(p) = [p EXCEPT !.slots = u, !.arena = b, !.garbage = 0]
                    /\ Compacted(p.slots, p.arena, n, u, b) /\ Records(Bodies(u), b, f, m)
      <4>1. n = Capacity(p.slots) /\ Table(p.slots, n) /\ p.arena \in Seq(Bytes) /\ Records(Bodies(p.slots), p.arena, f, m)
        BY <1>1, <1>2, <2>1
      <4>2. QED
        BY ONLY <4>1, CompactIs, Zenon
    <3>2. QED
      BY <1>1, <3>1
  <2>3. CompactArena(p) = Partition(u, b, r, 0, e)
    BY <2>2 DEF Partition
  <2>4. Keeps(u, n, b, r, 0, f, m)
    <3>1. PICK x, y, z : x = Len(b) /\ y = Len(a) /\ z = Cardinality(Covered(Bodies(u)))
      OBVIOUS
    <3>2. /\ Table(u, n) /\ b \in Seq(Bytes) /\ x <= y /\ z = x
          /\ Cardinality(Bodies(u)) = Cardinality(Bodies(t)) /\ x \in Nat /\ y \in Nat
      BY <1>2, <2>2, <3>1, LenProperties DEF Compacted
    <3>3. y <= MaxOffset /\ MaxOffset \in Nat
      BY <1>2, <3>1, CompactAssumption
    <3>4. x <= MaxOffset /\ 0 = x - z
      BY <3>2, <3>3
    <3>5. QED
      BY <1>2, <2>2, <3>1, <3>2, <3>4 DEF Keeps
  <2>5. MaybeCompact(p) = CompactArena(p)
    BY <1>3 DEF MaybeCompact
  <2>6. CompactArena(p).garbage = 0 /\ CompactArena(p).err = e
    BY <2>3 DEF Partition
  <2>7. Lean(CompactArena(p))
    BY <2>6, CompactAssumption DEF Lean
  <2>8. QED
    BY <2>3, <2>4, <2>5, <2>6, <2>7, ConsistentIs
<1>4. CASE ~NeedsCompaction(p)
  <2>1. MaybeCompact(p) = p
    BY <1>4 DEF MaybeCompact
  <2>2. ~(g >= MinGarbage /\ g * 2 >= Len(a))
    BY <1>1, <1>4 DEF NeedsCompaction
  <2>3. g < MinGarbage \/ g * 2 < Len(a)
    <3>1. g \in Nat /\ MinGarbage \in Nat /\ Len(a) \in Nat
      BY <1>2, CompactAssumption, LenProperties
    <3>2. QED
      BY <2>2, <3>1
  <2>4. Lean(p)
    BY <1>1, <2>3 DEF Lean
  <2>5. QED
    BY <1>1, <2>1, <2>4, ConsistentIs
<1>5. QED
  BY <1>3, <1>4

\* The table grows before it is full.
LEMMA GrowIs ==
  ASSUME NEW t, NEW n, NEW a, NEW r, NEW g, NEW e, NEW f, NEW m, Keeps(t, n, a, r, g, f, m),
         NEW p, p = Partition(t, a, r, g, e),
         NEW q, q = IF OverLoad(p) THEN [p EXCEPT !.slots = Rehash(@, 2 * Capacity(@))] ELSE p
  PROVE  \E u, l : q = Partition(u, a, r, g, e) /\ Keeps(u, l, a, r, g, f, m) /\ r + 1 < l
<1>1. p.slots = t /\ p.records = r
  BY DEF Partition
<1>2. Table(t, n) /\ n \in Nat \ {0, 1} /\ r \in Nat /\ r < n /\ Capacity(t) = n
  BY TableIs DEF Keeps, Table
<1>3. CASE OverLoad(p)
  <2>1. PICK l \in Nat : l = 2 * n
    BY <1>2
  <2>2. r + 1 < l /\ n <= l /\ r < l
    BY <1>2, <2>1
  <2>3. IsTable(Rehash(t, l), l, Bodies(t))
    BY <1>2, <2>1, <2>2, RehashIs
  <2>4. q = [p EXCEPT !.slots = Rehash(t, l)]
    BY <1>1, <1>2, <1>3, <2>1
  <2>5. q = Partition(Rehash(t, l), a, r, g, e)
    BY <2>4 DEF Partition
  <2>6. Keeps(Rehash(t, l), l, a, r, g, f, m)
    BY <2>2, <2>3 DEF Keeps, IsTable
  <2>7. QED
    BY <2>2, <2>5, <2>6
<1>4. CASE ~OverLoad(p)
  <2>1. ~((r + 1) * MaxLoadDen > MaxLoadNum * n)
    BY <1>1, <1>2, <1>4 DEF OverLoad
  <2>2. MaxLoadDen \in Nat /\ MaxLoadNum \in Nat /\ MaxLoadNum < MaxLoadDen
    BY CompactAssumption
  <2>3. r + 1 < n
    <3>1. ASSUME NEW x \in Nat, NEW y \in Nat, NEW d \in Nat, NEW z \in Nat, z < d, y > 0, x * d <= z * y PROVE x < y
      <4>1. ASSUME x >= y PROVE FALSE
        <5>1. x * d >= y * d
          BY <4>1
        <5>2. y * d > y * z
          BY <3>1
        <5>3. y * z = z * y /\ y * z \in Nat /\ y * d \in Nat /\ x * d \in Nat
          OBVIOUS
        <5>4. QED
          BY <3>1, <5>1, <5>2, <5>3
      <4>2. QED
        BY <4>1
    <3>2. (r + 1) \in Nat /\ n > 0 /\ (r + 1) * MaxLoadDen <= MaxLoadNum * n
      BY <1>2, <2>1, <2>2
    <3>3. QED
      BY <1>2, <2>2, <3>1, <3>2
  <2>4. QED
    BY <1>4, <2>3
<1>5. QED
  BY <1>3, <1>4

\* One body less: its bytes are garbage.
LEMMA CoveredLess ==
  ASSUME NEW B, NEW b \in B, NEW a \in Seq(Bytes), Laid(B, a)
  PROVE  /\ Cardinality(Covered(B)) = Cardinality(Covered(B \ {b})) + Size(b)
         /\ Cardinality(Covered(B)) \in Nat /\ Cardinality(Covered(B \ {b})) \in Nat /\ Size(b) \in Nat
<1>1. (B \ {b}) \cup {b} = B /\ b \notin B \ {b}
  OBVIOUS
<1>2. Laid((B \ {b}) \cup {b}, a) /\ Laid(B \ {b}, a)
  BY <1>1, LaidPart
<1>3. Cardinality(Covered((B \ {b}) \cup {b})) = Cardinality(Covered(B \ {b})) + Size(b)
  BY <1>1, <1>2, CoveredMore
<1>4. Size(b) \in Nat
  BY DEF Laid, Stands, BodyType, Size
<1>5. QED
  BY <1>1, <1>2, <1>3, <1>4, CoveredIs

\* put has a free slot, and append() does not throw.
Putting(t, n, a, r, g, f, m, k, v) ==
    /\ Keeps(t, n, a, r, g, f, m) /\ DOMAIN m = KeyStrings
    /\ r + 1 < n /\ (g < MinGarbage \/ g * 2 < Len(a))
    /\ k \in KeyStrings /\ v \in ValueStrings /\ f[k] \in Nat
    /\ Len(a) + Len(k) + Len(v) <= MaxOffset

LEMMA InsertIs ==
  ASSUME NEW t, NEW n, NEW a, NEW r, NEW g, NEW f, NEW m, NEW k, NEW v, Putting(t, n, a, r, g, f, m, k, v),
         NEW p, p = Partition(t, a \o k \o v, r, g, "none"),
         NEW q, q = Insert(p, k, NewSlot(a, f[k], k, v))
  PROVE  Consistent(q, f, [m EXCEPT ![k] = v]) /\ Lean(q) /\ q.err = "none"
<1>  /\ Keeps(t, n, a, r, g, f, m) /\ DOMAIN m = KeyStrings
     /\ r + 1 < n /\ (g < MinGarbage \/ g * 2 < Len(a))
     /\ k \in KeyStrings /\ v \in ValueStrings /\ f[k] \in Nat
     /\ Len(a) + Len(k) + Len(v) <= MaxOffset
  BY DEF Putting
<1>1. PICK a1 : a1 = a \o k \o v
  OBVIOUS
<1>2. PICK c : c = NewSlot(a, f[k], k, v)
  OBVIOUS
<1>3. p.slots = t /\ p.arena = a1 /\ p.records = r /\ p.garbage = g /\ p.err = "none" /\ q = Insert(p, k, c)
  BY <1>1, <1>2 DEF Partition
<1>4. /\ Table(t, n) /\ a \in Seq(Bytes) /\ Len(a) <= MaxOffset /\ Records(Bodies(t), a, f, m)
      /\ r \in Nat /\ r = Cardinality(Bodies(t)) /\ r < n
      /\ g \in Nat /\ g = Len(a) - Cardinality(Covered(Bodies(t)))
  BY DEF Keeps
<1>5. n \in Nat \ {0, 1} /\ Capacity(p.slots) = n
  BY <1>3, <1>4, TableIs DEF Table
<1>6. k \in Seq(Bytes) /\ v \in Seq(Bytes) /\ k # <<>> /\ Absent \notin ValueStrings
  BY CompactAssumption
<1>7. PICK d : d = Body(c)
  OBVIOUS
<1>8. /\ Begins(a1, a) /\ c \in EntryType /\ c.used /\ c.dist = 0 /\ c.fp = f[k] /\ Size(c) = Len(k) + Len(v)
      /\ Stands(d, a1) /\ KeyView(a1, d) = k /\ ValueCopy(a1, d) = v /\ d.koff = Len(a)
  <2>1. Made(c, a1, a, f[k], k, v)
    BY <1>1, <1>2, <1>4, <1>6 DEF Made
  <2>2. /\ Begins(a1, a) /\ c \in EntryType /\ c.used /\ c.dist = 0 /\ c.fp = f[k] /\ Size(c) = Len(k) + Len(v)
        /\ Stands(Body(c), a1) /\ KeyView(a1, Body(c)) = k /\ ValueCopy(a1, Body(c)) = v /\ Body(c).koff = Len(a)
    BY ONLY <2>1, NewSlotIs
  <2>3. QED
    BY <1>7, <2>2
<1>9. PICK x, y, z : x = Len(a) /\ y = Len(a1) /\ z = Size(c)
  OBVIOUS
<1>10. x \in Nat /\ y \in Nat /\ z \in Nat /\ y = x + z /\ y <= MaxOffset /\ a1 \in Seq(Bytes)
  <2>1. PICK s1, s2 : s1 = Len(k) /\ s2 = Len(v)
    OBVIOUS
  <2>2. /\ a1 \in Seq(Bytes) /\ y = x + s1 + s2 /\ y \in Nat /\ x \in Nat /\ s1 \in Nat /\ s2 \in Nat
    BY <1>1, <1>4, <1>6, <1>9, <2>1, AppendedIs
  <2>3. z = s1 + s2 /\ x + s1 + s2 <= MaxOffset
    BY <1>8, <1>9, <2>1
  <2>4. QED
    BY <2>2, <2>3
<1>11. Laid(Bodies(t), a1) /\ Records(Bodies(t), a1, f, m)
  <2>1. Laid(Bodies(t), a)
    BY <1>4, RecordsLaid
  <2>2. QED
    BY <1>4, <1>8, <2>1, RecordsStay
<1>12. Adds(d, Bodies(t), a1, f, k, v)
  <2>1. \A b \in Bodies(t) : b.voff + b.vlen <= d.koff
    BY <1>4, <1>8 DEF Records, Shows
  <2>2. d.fp = f[k]
    BY <1>7, <1>8, BodyIs
  <2>3. QED
    BY <1>8, <2>1, <2>2 DEF Adds
<1>13. PICK m1 : m1 = [m EXCEPT ![k] = v]
  OBVIOUS
<1>14. ASSUME NEW C, AllBut(C, Bodies(t), a1, k)
       PROVE  Laid(C \cup {d}, a1) /\ Records(C \cup {d}, a1, f, m1) /\ d \notin Bodies(t)
  <2>1. Laid(C \cup {d}, a1) /\ Records(C \cup {d}, a1, f, [m EXCEPT ![k] = v]) /\ d \notin Bodies(t)
    BY <1>11, <1>12, <1>14, RecordsMore
  <2>2. QED
    BY <1>13, <2>1
<1>15. d \notin Bodies(t)
  <2>1. PICK C : C = {b \in Bodies(t) : KeyView(a1, b) # k}
    OBVIOUS
  <2>2. AllBut(C, Bodies(t), a1, k)
    BY <2>1 DEF AllBut
  <2>3. QED
    BY <1>14, <2>2
<1>16. Fresh(c, t)
  BY <1>7, <1>8, <1>15 DEF Fresh
<1>17. Size(d) = z
  BY <1>7, <1>8, <1>9, ViewIs
<1>18. PICK h : h = Cardinality(Covered(Bodies(t)))
  OBVIOUS
<1>19. h \in Nat /\ g = x - h
  BY <1>4, <1>9, <1>11, <1>10, <1>18, CoveredIs
\* The key is new.
<1>20. CASE m[k] = Absent
  <2>1. /\ \A i \in Occupied(t) : ~IsSlotOf(a1, t[i], f[k], k)
        /\ \A b \in Bodies(t) : KeyView(a1, b) # k
    BY <1>4, <1>6, <1>11, <1>20, WhichSlot
  <2>2. PICK u : IsTable(u, n, Bodies(t) \cup {d}) /\ q = [p EXCEPT !.slots = u, !.records = @ + 1]
    <3>1. Inserting(p, c, n) /\ Cardinality(Bodies(p.slots)) < n
      BY <1>3, <1>4, <1>5, <1>16 DEF Inserting
    <3>2. NoSlot(p, k, c)
      BY <1>3, <1>8, <2>1 DEF NoSlot
    <3>3. \E u : Added(p, c, n, u, Insert(p, k, c))
      BY ONLY <3>1, <3>2, InsertNew
    <3>4. QED
      BY <1>3, <1>7, <3>3 DEF Added
  <2>3. q = Partition(u, a1, r + 1, g, "none")
    BY <1>1, <1>3, <2>2 DEF Partition
  <2>4. Laid(Bodies(t) \cup {d}, a1) /\ Records(Bodies(t) \cup {d}, a1, f, m1)
    <3>1. AllBut(Bodies(t), Bodies(t), a1, k)
      BY <2>1 DEF AllBut
    <3>2. QED
      BY <1>14, <3>1
  <2>5. Cardinality(Bodies(t) \cup {d}) = r + 1
    <3>1. IsFiniteSet(Bodies(t))
      BY <1>4, Counted
    <3>2. QED
      BY <1>4, <1>15, <3>1, FS_AddElement
  <2>6. Cardinality(Covered(Bodies(t) \cup {d})) = h + z
    BY <1>10, <1>15, <1>17, <1>18, <2>4, CoveredMore
  <2>7. g = y - (h + z)
    BY <1>10, <1>19
  <2>8. Keeps(u, n, a1, r + 1, g, f, m1)
    <3>1. Table(u, n) /\ Bodies(u) = Bodies(t) \cup {d}
      BY <2>2 DEF IsTable
    <3>2. g = Len(a1) - Cardinality(Covered(Bodies(u))) /\ Len(a1) <= MaxOffset
      BY <1>9, <1>10, <2>6, <2>7, <3>1
    <3>3. r + 1 \in Nat
      BY <1>4
    <3>4. QED
      BY <1>4, <1>10, <2>4, <2>5, <3>1, <3>2, <3>3 DEF Keeps
  <2>9. g < MinGarbage \/ g * 2 < y
    <3>1. g * 2 < x => g * 2 < y
      BY <1>4, <1>10
    <3>2. QED
      BY <1>9, <3>1
  <2>10. q.garbage = g /\ q.arena = a1 /\ q.err = "none"
    BY <2>3 DEF Partition
  <2>11. QED
    BY <1>9, <1>13, <2>3, <2>8, <2>9, <2>10, ConsistentIs DEF Lean
\* The key has a slot, whose bytes turn into garbage.
<1>21. CASE m[k] # Absent
  <2>1. PICK i \in Occupied(t) :
               /\ IsSlotOf(a1, t[i], f[k], k)
               /\ \A j \in Occupied(t) : IsSlotOf(a1, t[j], f[k], k) => j = i
               /\ \A b \in Bodies(t) : KeyView(a1, b) = k <=> b = Body(t[i])
    BY <1>4, <1>6, <1>11, <1>21, WhichSlot
  <2>2. PICK o, C, s : o = Body(t[i]) /\ C = Bodies(t) \ {o} /\ s = Size(t[i])
    OBVIOUS
  <2>3. PICK u : IsTable(u, n, C \cup {d}) /\ q = MaybeCompact([p EXCEPT !.slots = u, !.garbage = @ + s])
    <3>1. Inserting(p, c, n)
      BY <1>3, <1>4, <1>5, <1>16 DEF Inserting
    <3>2. OnlySlot(p, k, c, i)
      BY <1>3, <1>8, <2>1 DEF OnlySlot
    <3>3. \E u : Replaced(p, c, n, i, u, Insert(p, k, c))
      BY ONLY <3>1, <3>2, InsertOld
    <3>4. QED
      BY <1>3, <1>7, <2>2, <3>3 DEF Replaced
  <2>4. o \in Bodies(t) /\ Size(o) = s
    <3>1. t[i] \in EntryType
      BY <1>4, TableIs DEF Table
    <3>2. QED
      BY <2>2, <3>1, ViewIs DEF Bodies
  <2>5. Laid(C \cup {d}, a1) /\ Records(C \cup {d}, a1, f, m1)
    <3>1. AllBut(C, Bodies(t), a1, k)
      BY <2>1, <2>2 DEF AllBut
    <3>2. QED
      BY <1>14, <3>1
  <2>6. Cardinality(C \cup {d}) = r
    <3>1. IsFiniteSet(Bodies(t)) /\ Cardinality(Bodies(t)) = r
      BY <1>4, Counted
    <3>2. IsFiniteSet(C) /\ Cardinality(C) = r - 1
      BY <2>2, <2>4, <3>1, FS_RemoveElement
    <3>3. d \notin C
      BY <1>15, <2>2
    <3>4. Cardinality(C \cup {d}) = Cardinality(C) + 1
      BY ONLY <3>2, <3>3, FS_AddElement
    <3>5. Cardinality(C \cup {d}) = r - 1 + 1
      BY ONLY <3>2, <3>4, Zenon
    <3>6. QED
      BY <1>4, <3>5
  <2>7. PICK l : l = Cardinality(Covered(C))
    OBVIOUS
  <2>8. h = l + s /\ l \in Nat /\ s \in Nat
    BY <1>10, <1>11, <1>18, <2>2, <2>4, <2>7, CoveredLess
  <2>9. Cardinality(Covered(C \cup {d})) = l + z
    BY <1>10, <1>15, <1>17, <2>2, <2>5, <2>7, CoveredMore
  <2>10. g + s = y - (l + z) /\ g + s \in Nat
    <3>1. g \in Nat /\ g = x - h /\ h = l + s /\ y = x + z /\ x \in Nat /\ y \in Nat /\ z \in Nat /\ l \in Nat /\ s \in Nat
      BY <1>4, <1>10, <1>19, <2>8
    <3>2. QED
      BY ONLY <3>1
  <2>11. Keeps(u, n, a1, r, g + s, f, m1)
    <3>1. Table(u, n) /\ Bodies(u) = C \cup {d}
      BY <2>3 DEF IsTable
    <3>2. g + s = Len(a1) - Cardinality(Covered(Bodies(u))) /\ Len(a1) <= MaxOffset
      BY <1>9, <1>10, <2>9, <2>10, <3>1
    <3>3. QED
      BY <1>4, <1>10, <2>5, <2>6, <2>10, <3>1, <3>2 DEF Keeps
  <2>12. [p EXCEPT !.slots = u, !.garbage = @ + s] = Partition(u, a1, r, g + s, "none")
    <3>1. p = Partition(t, a1, r, g, "none")
      BY <1>1
    <3>2. PICK w : w = g + s
      OBVIOUS
    <3>3. p.garbage + s = w
      BY <1>3, <3>2
    <3>4. [p EXCEPT !.slots = u, !.garbage = w] = Partition(u, a1, r, w, "none")
      <4>1. PICK p1 : p1 = [p EXCEPT !.slots = u]
        OBVIOUS
      <4>2. p1 = Partition(u, a1, r, g, "none")
        <5>1. [[slots |-> t, arena |-> a1, records |-> r, garbage |-> g, err |-> "none"] EXCEPT !.slots = u]
                = [slots |-> u, arena |-> a1, records |-> r, garbage |-> g, err |-> "none"]
          BY ONLY SMT
        <5>2. QED
          BY ONLY <3>1, <4>1, <5>1, Zenon DEF Partition
      <4>3. [p1 EXCEPT !.garbage = w] = Partition(u, a1, r, w, "none")
        BY <4>2 DEF Partition
      <4>4. [p EXCEPT !.slots = u, !.garbage = w] = [p1 EXCEPT !.garbage = w]
        BY <4>1
      <4>5. QED
        BY <4>3, <4>4
    <3>5. QED
      BY <3>2, <3>3, <3>4
  <2>13. QED
    BY <1>13, <2>3, <2>11, <2>12, MaybeCompactIs
<1>22. QED
  BY <1>20, <1>21

\* Slot i has the bytes of key k.
Erasing(p, t, n, a, r, g, e, f, m, k, i) ==
    /\ p = Partition(t, a, r, g, e) /\ Keeps(t, n, a, r, g, f, m)
    /\ DOMAIN m = KeyStrings /\ k \in KeyStrings /\ i \in Occupied(t)
    /\ \A b \in Bodies(t) : KeyView(a, b) = k <=> b = Body(t[i])

LEMMA ErasedIs ==
  ASSUME NEW p, NEW t, NEW n, NEW a, NEW r, NEW g, NEW e, NEW f, NEW m, NEW k, NEW i,
         Erasing(p, t, n, a, r, g, e, f, m, k, i)
  PROVE  Consistent(Erased(p, i), f, [m EXCEPT ![k] = Absent]) /\ Lean(Erased(p, i)) /\ Erased(p, i).err = "none"
<1> /\ p = Partition(t, a, r, g, e) /\ Keeps(t, n, a, r, g, f, m)
    /\ DOMAIN m = KeyStrings /\ k \in KeyStrings /\ i \in Occupied(t)
    /\ \A b \in Bodies(t) : KeyView(a, b) = k <=> b = Body(t[i])
  BY DEF Erasing
<1>1. p.slots = t /\ p.arena = a /\ p.records = r /\ p.garbage = g
  BY DEF Partition
<1>2. /\ Table(t, n) /\ a \in Seq(Bytes) /\ Len(a) <= MaxOffset /\ Records(Bodies(t), a, f, m)
      /\ r \in Nat /\ r = Cardinality(Bodies(t)) /\ r < n
      /\ g \in Nat /\ g = Len(a) - Cardinality(Covered(Bodies(t)))
  BY DEF Keeps
<1>3. PICK o, C, s : o = Body(t[i]) /\ C = Bodies(t) \ {o} /\ s = Size(t[i])
  OBVIOUS
<1>4. o \in Bodies(t) /\ Size(o) = s
  <2>1. t[i] \in EntryType
    BY <1>2, TableIs DEF Table
  <2>2. QED
    BY <1>3, <2>1, ViewIs DEF Bodies
<1>5. PICK u : u = CloseGap(t, i)
  OBVIOUS
<1>6. Table(u, n) /\ Bodies(u) = C
  <2>1. IsTable(CloseGap(t, i), n, Bodies(t) \ {Body(t[i])})
    BY <1>2, CloseGapIs
  <2>2. QED
    BY <1>3, <1>5, <2>1 DEF IsTable
<1>7. Records(C, a, f, [m EXCEPT ![k] = Absent])
  <2>1. AllBut(C, Bodies(t), a, k)
    BY <1>3 DEF AllBut
  <2>2. QED
    BY <1>2, <2>1, RecordsLess
<1>8. PICK x, h, l, y : x = Len(a) /\ h = Cardinality(Covered(Bodies(t))) /\ l = Cardinality(Covered(C)) /\ y = r - 1
  OBVIOUS
<1>9. Laid(Bodies(t), a)
  BY <1>2, RecordsLaid
<1>10. h = l + s /\ h \in Nat /\ l \in Nat /\ s \in Nat
  BY <1>2, <1>3, <1>4, <1>8, <1>9, CoveredLess
<1>11. x \in Nat /\ g = x - h /\ x <= MaxOffset
  BY <1>2, <1>8, LenProperties
<1>12. PICK w : w = g + s
  OBVIOUS
<1>13. w \in Nat /\ w = x - l
  <2>1. g \in Nat
    BY <1>2
  <2>2. QED
    BY ONLY <1>10, <1>11, <1>12, <2>1
<1>14. IsFiniteSet(Bodies(t)) /\ Cardinality(C) = y /\ IsFiniteSet(C)
  BY <1>2, <1>3, <1>4, <1>8, Counted, FS_RemoveElement
<1>15. y \in Nat /\ y < n
  <2>1. y \in Nat
    BY <1>14, FS_CardinalityType
  <2>2. n \in Nat
    BY <1>2 DEF Table
  <2>3. QED
    BY <1>2, <1>8, <2>1, <2>2
<1>16. Keeps(u, n, a, y, w, f, [m EXCEPT ![k] = Absent])
  BY <1>2, <1>6, <1>7, <1>8, <1>13, <1>14, <1>15 DEF Keeps
<1>17. Erased(p, i) = MaybeCompact(Partition(u, a, y, w, "none"))
  <2>1. p.records - 1 = y /\ p.garbage + Size(p.slots[i]) = w /\ CloseGap(p.slots, i) = u
    BY <1>1, <1>3, <1>5, <1>8, <1>12
  <2>2. PICK p1 : p1 = [p EXCEPT !.slots = u]
    OBVIOUS
  <2>3. PICK p2 : p2 = [p1 EXCEPT !.records = y]
    OBVIOUS
  <2>4. PICK p3 : p3 = [p2 EXCEPT !.garbage = w]
    OBVIOUS
  <2>5. p1 = Partition(u, a, r, g, e)
    BY <2>2 DEF Partition
  <2>6. p2 = Partition(u, a, y, g, e)
    BY <2>3, <2>5 DEF Partition
  <2>7. p3 = Partition(u, a, y, w, e)
    BY <2>4, <2>6 DEF Partition
  <2>8. [p3 EXCEPT !.err = "none"] = Partition(u, a, y, w, "none")
    BY <2>7 DEF Partition
  <2>9. [p EXCEPT !.slots = u, !.records = y, !.garbage = w, !.err = "none"] = [p3 EXCEPT !.err = "none"]
    BY <2>2, <2>3, <2>4
  <2>10. Erased(p, i) = MaybeCompact([p EXCEPT !.slots = u, !.records = y, !.garbage = w, !.err = "none"])
    BY <2>1 DEF Erased
  <2>11. QED
    BY <2>8, <2>9, <2>10
<1>18. QED
  BY <1>16, <1>17, MaybeCompactIs

-----------------------------------------------------------------------------
(* The invariant                                                           *)

LEMMA InitHolds ==
  ASSUME PartInit
  PROVE  PartInv
<1>1. PICK t, n : t = Vacants(InitialSlots) /\ n = InitialSlots
  OBVIOUS
<1>2. part = Partition(t, <<>>, 0, 0, "none")
  BY <1>1 DEF PartInit, Partition
<1>3. Table(t, n) /\ Bodies(t) = {}
  BY <1>1, VacantsAre, CompactAssumption DEF IsTable
<1>4. \A k \in KeyStrings : content[k] = Absent
  BY DEF PartInit
<1>5. Records({}, <<>>, fingerprint, content)
  BY <1>4 DEF Records
<1>6. Covered({}) = {}
  BY DEF Covered
<1>7. Cardinality({}) = 0
  BY FS_EmptySet
<1>8. <<>> \in Seq(Bytes) /\ Len(<<>>) = 0
  OBVIOUS
<1>9. Keeps(t, n, <<>>, 0, 0, fingerprint, content)
  <2>1. 0 < n /\ 0 <= MaxOffset
    BY <1>1, CompactAssumption
  <2>2. /\ 0 = Cardinality(Bodies(t)) /\ Len(<<>>) <= MaxOffset
        /\ Records(Bodies(t), <<>>, fingerprint, content)
    BY <1>3, <1>5, <1>7, <1>8, <2>1
  <2>3. 0 = Len(<<>>) - Cardinality(Covered(Bodies(t)))
    <3>1. Cardinality(Covered(Bodies(t))) = 0 /\ 0 - 0 = 0
      BY <1>3, <1>6, <1>7
    <3>2. QED
      BY ONLY <1>8, <3>1
  <2>4. QED
    BY <1>3, <1>8, <2>1, <2>2, <2>3 DEF Keeps
<1>10. part.garbage = 0 /\ part.err = "none"
  BY DEF PartInit
<1>11. Lean(part)
  BY <1>10, CompactAssumption DEF Lean
<1>12. Consistent(part, fingerprint, content)
  BY <1>2, <1>9, ConsistentIs
<1>13. QED
  BY <1>10, <1>11, <1>12 DEF PartInit, PartInv

LEMMA PutHolds ==
  ASSUME PartInv, NEW k \in KeyStrings, NEW v \in ValueStrings, Put(k, v)
  PROVE  PartInv'
<1>1. PICK t, n, a, r, g, e : part = Partition(t, a, r, g, e) /\ Keeps(t, n, a, r, g, fingerprint, content)
  BY ConsistentIs DEF PartInv
<1>2. PICK p : p = IF OverLoad(part) THEN [part EXCEPT !.slots = Rehash(@, 2 * Capacity(@))] ELSE part
  OBVIOUS
<1>3. PICK u, l : p = Partition(u, a, r, g, e) /\ Keeps(u, l, a, r, g, fingerprint, content) /\ r + 1 < l
  BY <1>1, <1>2, GrowIs
<1>4. /\ part' = IF OffsetOverflow(p, k, v) THEN [p EXCEPT !.err = "offset"]
                 ELSE Insert([p EXCEPT !.arena = @ \o k \o v, !.err = "none"], k, NewSlot(p.arena, fingerprint[k], k, v))
      /\ content' = (IF part'.err = "none" THEN [content EXCEPT ![k] = v] ELSE content)
      /\ fingerprint' = fingerprint
  BY <1>2 DEF Put
<1>5. /\ fingerprint \in [KeyStrings -> Fingerprints] /\ fingerprint[k] \in Nat
      /\ content \in [KeyStrings -> ValueStrings \cup {Absent}] /\ DOMAIN content = KeyStrings
  BY CompactAssumption DEF PartInv
<1>6. g < MinGarbage \/ g * 2 < Len(a)
  BY <1>1 DEF PartInv, Lean, Partition
<1>7. p.arena = a /\ p.slots = u /\ p.err = e
  BY <1>3 DEF Partition
<1>8. content' \in [KeyStrings -> ValueStrings \cup {Absent}] /\ fingerprint' \in [KeyStrings -> Fingerprints]
  BY <1>4, <1>5
<1>9. CASE OffsetOverflow(p, k, v)
  <2>1. part' = [p EXCEPT !.err = "offset"]
    BY <1>4, <1>9
  <2>2. part' = Partition(u, a, r, g, "offset")
    BY <1>3, <2>1 DEF Partition
  <2>3. part'.err = "offset" /\ part'.garbage = g /\ part'.arena = a
    BY <2>2 DEF Partition
  <2>4. content' = content
    BY <1>4, <2>3
  <2>5. Consistent(part', fingerprint', content')
    BY <1>3, <1>4, <2>2, <2>4, ConsistentIs
  <2>6. Lean(part')
    BY <1>6, <2>3 DEF Lean
  <2>7. QED
    BY <1>8, <2>3, <2>5, <2>6 DEF PartInv
<1>10. CASE ~OffsetOverflow(p, k, v)
  <2>1. PICK q : q = [p EXCEPT !.arena = @ \o k \o v, !.err = "none"]
    OBVIOUS
  <2>2. q = Partition(u, a \o k \o v, r, g, "none")
    <3>1. PICK a1 : a1 = a \o k \o v
      OBVIOUS
    <3>2. PICK p1 : p1 = [p EXCEPT !.arena = a1]
      OBVIOUS
    <3>3. p1 = Partition(u, a1, r, g, e)
      BY <1>3, <3>2 DEF Partition
    <3>4. q = [p1 EXCEPT !.err = "none"]
      BY <1>7, <2>1, <3>1, <3>2
    <3>5. q = Partition(u, a1, r, g, "none")
      BY <3>3, <3>4 DEF Partition
    <3>6. QED
      BY <3>1, <3>5
  <2>3. part' = Insert(q, k, NewSlot(a, fingerprint[k], k, v))
    BY <1>4, <1>7, <1>10, <2>1
  <2>4. Len(a) + Len(k) + Len(v) <= MaxOffset
    <3>1. ~(Len(a) + Len(k) + Len(v) > MaxOffset)
      BY <1>7, <1>10 DEF OffsetOverflow
    <3>2. a \in Seq(Bytes) /\ k \in Seq(Bytes) /\ v \in Seq(Bytes) /\ MaxOffset \in Nat
      BY <1>1, CompactAssumption DEF Keeps
    <3>3. Len(a) \in Nat /\ Len(k) \in Nat /\ Len(v) \in Nat
      BY <3>2, LenProperties
    <3>4. QED
      BY <3>1, <3>2, <3>3
  <2>5. Consistent(part', fingerprint, [content EXCEPT ![k] = v]) /\ Lean(part') /\ part'.err = "none"
    <3>1. Putting(u, l, a, r, g, fingerprint, content, k, v)
      BY <1>3, <1>5, <1>6, <2>4 DEF Putting
    <3>2. QED
      BY ONLY <2>2, <2>3, <3>1, InsertIs
  <2>6. QED
    BY <1>4, <1>8, <2>5 DEF PartInv
<1>11. QED
  BY <1>9, <1>10

\* The slot of a key, with the invariant
LEMMA SlotIs ==
  ASSUME PartInv, NEW t, NEW n, NEW a, NEW r, NEW g, NEW e, part = Partition(t, a, r, g, e),
         Keeps(t, n, a, r, g, fingerprint, content), NEW k \in KeyStrings
  PROVE  \/ content[k] = Absent /\ SlotOf(part, k) = -1
         \/ /\ content[k] # Absent /\ SlotOf(part, k) # -1
            /\ SlotOf(part, k) \in Occupied(t) /\ ValueCopy(a, t[SlotOf(part, k)]) = content[k]
            /\ \A b \in Bodies(t) : KeyView(a, b) = k <=> b = Body(t[SlotOf(part, k)])
<1>1. part.slots = t /\ part.arena = a
  BY DEF Partition
<1>2. /\ Table(t, n) /\ Records(Bodies(t), a, fingerprint, content) /\ n = Capacity(part.slots)
      /\ Occupied(t) \subseteq 0..(n - 1) /\ n \in Nat
  BY <1>1, TableIs DEF Keeps, Table
<1>3. fingerprint[k] \in Nat /\ Absent \notin ValueStrings
  BY CompactAssumption DEF PartInv
<1>4. CASE content[k] = Absent
  <2>1. \A i \in Occupied(t) : ~IsSlotOf(a, t[i], fingerprint[k], k)
    BY <1>2, <1>3, <1>4, WhichSlot
  <2>2. SlotOf(part, k) = -1
    BY <1>1, <1>2, <1>3, <2>1, SlotOfNew
  <2>3. QED
    BY <1>4, <2>2
<1>5. CASE content[k] # Absent
  <2>1. PICK i \in Occupied(t) :
               /\ IsSlotOf(a, t[i], fingerprint[k], k) /\ ValueCopy(a, t[i]) = content[k]
               /\ \A j \in Occupied(t) : IsSlotOf(a, t[j], fingerprint[k], k) => j = i
               /\ \A b \in Bodies(t) : KeyView(a, b) = k <=> b = Body(t[i])
    BY <1>2, <1>3, <1>5, WhichSlot
  <2>2. SlotOf(part, k) = i
    BY <1>1, <1>2, <1>3, <2>1, SlotOfOld
  <2>3. i # -1
    BY <1>2, <2>1
  <2>4. QED
    BY <1>5, <2>1, <2>2, <2>3
<1>6. QED
  BY <1>4, <1>5

LEMMA EraseHolds ==
  ASSUME PartInv, NEW k \in KeyStrings, Erase(k)
  PROVE  PartInv'
<1>1. PICK t, n, a, r, g, e : part = Partition(t, a, r, g, e) /\ Keeps(t, n, a, r, g, fingerprint, content)
  BY ConsistentIs DEF PartInv
<1>2. PICK i : i = SlotOf(part, k)
  OBVIOUS
<1>3. i # -1 /\ part' = Erased(part, i) /\ content' = [content EXCEPT ![k] = Absent] /\ fingerprint' = fingerprint
  BY <1>2 DEF Erase
<1>4. i \in Occupied(t) /\ \A b \in Bodies(t) : KeyView(a, b) = k <=> b = Body(t[i])
  BY <1>1, <1>2, <1>3, SlotIs
<1>5. DOMAIN content = KeyStrings /\ content' \in [KeyStrings -> ValueStrings \cup {Absent}]
  BY <1>3 DEF PartInv
<1>6. /\ Consistent(Erased(part, i), fingerprint, [content EXCEPT ![k] = Absent])
      /\ Lean(Erased(part, i)) /\ Erased(part, i).err = "none"
  <2>1. Erasing(part, t, n, a, r, g, e, fingerprint, content, k, i)
    BY <1>1, <1>4, <1>5, Zenon DEF Erasing
  <2>2. QED
    BY ONLY <2>1, ErasedIs
<1>7. QED
  BY <1>3, <1>5, <1>6 DEF PartInv

\* In every state the slots are a Robin Hood table, every slot points to bytes of its own that
\* are a key and the value that a map would hold for it, and the counts agree with both
\* (CompactIndex::Partition, after each put and erase).
THEOREM PartHolds == PartSpec => []PartInv
<1>1. PartInit => PartInv
  BY InitHolds
<1>2. PartInv /\ [PartNext]_partVars => PartInv'
  <2>1. ASSUME PartInv, PartNext PROVE PartInv'
    BY <2>1, PutHolds, EraseHolds DEF PartNext
  <2>2. ASSUME PartInv, UNCHANGED partVars PROVE PartInv'
    BY <2>2 DEF PartInv, partVars
  <2>3. QED
    BY <2>1, <2>2
<1>3. QED
  BY <1>1, <1>2, PTL DEF PartSpec

\* get returns what the last put of the key stored, and nothing for a key that was erased or
\* never put: displacement, growth, backward shift and compaction lose and change nothing
\* (CompactIndex::get).
THEOREM LookupIsRight == PartSpec => []LookupAgrees
<1>1. ASSUME PartInv PROVE LookupAgrees
  <2>1. PICK t, n, a, r, g, e : part = Partition(t, a, r, g, e) /\ Keeps(t, n, a, r, g, fingerprint, content)
    BY <1>1, ConsistentIs DEF PartInv
  <2>2. part.slots = t /\ part.arena = a
    BY <2>1 DEF Partition
  <2>3. ASSUME NEW k \in KeyStrings PROVE Lookup(part, k) = content[k]
    <3>1. \/ content[k] = Absent /\ SlotOf(part, k) = -1
          \/ SlotOf(part, k) # -1 /\ ValueCopy(a, t[SlotOf(part, k)]) = content[k]
      BY <1>1, <2>1, SlotIs
    <3>2. QED
      BY <2>2, <3>1 DEF Lookup
  <2>4. QED
    BY <2>3 DEF LookupAgrees
<1>2. QED
  BY <1>1, PartHolds, PTL

\* What a slot of a consistent partition says
LEMMA LiveIs ==
  ASSUME NEW t, NEW n, NEW a, NEW r, NEW g, NEW f, NEW m, Keeps(t, n, a, r, g, f, m), NEW i \in Occupied(t)
  PROVE  /\ i \in 0..(n - 1) /\ t[i] \in EntryType /\ t[i].dist \in 0..(n - 1)
         /\ t[i].voff = t[i].koff + t[i].klen /\ t[i].voff + t[i].vlen <= Len(a)
         /\ KeyView(a, t[i]) \in KeyStrings /\ t[i].fp = f[KeyView(a, t[i])]
         /\ ValueCopy(a, t[i]) = m[KeyView(a, t[i])] /\ Body(t[i]) \in Bodies(t)
<1>1. Table(t, n) /\ Records(Bodies(t), a, f, m)
  BY DEF Keeps
<1>2. i \in 0..(n - 1) /\ t[i] \in EntryType /\ n \in Nat
  BY <1>1, TableIs DEF Table
<1>3. t[i].dist \in 0..(n - 1)
  <2>1. t[i].dist \in Nat /\ t[i].dist < n
    BY <1>1, <1>2 DEF Table, Ordered, EntryType
  <2>2. QED
    BY <1>2, <2>1
<1>4. Body(t[i]) \in Bodies(t)
  BY DEF Bodies
<1>5. Shows(Body(t[i]), a, f, m)
  BY <1>1, <1>4 DEF Records
<1>6. QED
  BY <1>2, <1>3, <1>4, <1>5, BodyIs, ViewIs DEF Shows

\* There are as many bodies as keys with a value.
LEMMA KeysCounted ==
  ASSUME NEW t, NEW n, NEW a, NEW r, NEW g, NEW f, NEW m, Keeps(t, n, a, r, g, f, m), Absent \notin ValueStrings
  PROVE  Cardinality({k \in KeyStrings : m[k] # Absent}) = Cardinality(Bodies(t))
<1>1. PICK B, K : B = Bodies(t) /\ K = {k \in KeyStrings : m[k] # Absent}
  OBVIOUS
<1>2. Records(B, a, f, m) /\ IsFiniteSet(B)
  BY <1>1, Counted DEF Keeps
<1>3. PICK h : h = [b \in B |-> KeyView(a, b)]
  OBVIOUS
<1>4. h \in [B -> K]
  <2>1. ASSUME NEW b \in B PROVE KeyView(a, b) \in K
    <3>1. Shows(b, a, f, m)
      BY <1>2 DEF Records
    <3>2. QED
      BY <1>1, <3>1 DEF Shows
  <2>2. QED
    BY <1>3, <2>1
<1>5. \A b, c \in B : h[b] = h[c] => b = c
  BY <1>2, <1>3 DEF Records
<1>6. \A k \in K : \E b \in B : h[b] = k
  BY <1>1, <1>2, <1>3 DEF Records
<1>7. h \in Bijection(B, K)
  BY <1>4, <1>5, <1>6 DEF Bijection, Injection, Surjection, IsInjective
<1>8. ExistsBijection(B, K)
  BY <1>7 DEF ExistsBijection
<1>9. Cardinality(K) = Cardinality(B)
  BY <1>2, <1>8, FS_Bijection
<1>10. QED
  BY <1>1, <1>9

\* A checkpoint gets every record once and nothing else from snapshot_items, `records' counts
\* them, and `throw "compact partition overflow"' in insert_nolock is never reached: a put
\* grows the table first.
THEOREM SnapshotIsRight == PartSpec => []SnapshotAgrees
<1>1. ASSUME PartInv PROVE SnapshotAgrees
  <2>1. PICK t, n, a, r, g, e : part = Partition(t, a, r, g, e) /\ Keeps(t, n, a, r, g, fingerprint, content)
    BY <1>1, ConsistentIs DEF PartInv
  <2>2. part.slots = t /\ part.arena = a /\ part.records = r /\ part.garbage = g
    BY <2>1 DEF Partition
  <2>3. /\ Table(t, n) /\ a \in Seq(Bytes) /\ Len(a) <= MaxOffset
        /\ r \in Nat /\ r = Cardinality(Bodies(t)) /\ r < n
        /\ g \in Nat /\ g = Len(a) - Cardinality(Covered(Bodies(t)))
        /\ Laid(Bodies(t), a)
    BY <2>1, RecordsLaid DEF Keeps
  <2>4. Capacity(t) = n /\ n \in Nat /\ LiveSlots = Occupied(t)
    BY <2>2, <2>3, TableIs DEF Table, LiveSlots, Occupied
  <2>5. /\ fingerprint \in [KeyStrings -> Fingerprints] /\ content \in [KeyStrings -> ValueStrings \cup {Absent}]
        /\ part.err \in {"none", "offset"} /\ Absent \notin ValueStrings /\ MaxOffset \in Nat
    BY <1>1, CompactAssumption DEF PartInv
  <2>6. ASSUME NEW i \in LiveSlots
        PROVE  /\ t[i].fp \in Fingerprints /\ t[i].dist \in 0..(n - 1)
               /\ t[i].koff \in 0..MaxOffset /\ t[i].voff \in 0..MaxOffset
               /\ KeyView(a, t[i]) \in KeyStrings /\ ValueCopy(a, t[i]) = content[KeyView(a, t[i])]
    <3>1. /\ i \in 0..(n - 1) /\ t[i] \in EntryType /\ t[i].dist \in 0..(n - 1)
          /\ t[i].voff = t[i].koff + t[i].klen /\ t[i].voff + t[i].vlen <= Len(a)
          /\ KeyView(a, t[i]) \in KeyStrings /\ t[i].fp = fingerprint[KeyView(a, t[i])]
          /\ ValueCopy(a, t[i]) = content[KeyView(a, t[i])]
      BY <2>1, <2>4, LiveIs
    <3>2. PICK x \in Nat, y \in Nat, w \in Nat, v \in Nat : x = t[i].koff /\ y = t[i].klen /\ w = t[i].voff /\ v = t[i].vlen
      BY <3>1 DEF EntryType
    <3>3. PICK l \in Nat : l = Len(a)
      BY <2>3, LenProperties
    <3>4. w = x + y /\ w + v <= l /\ l <= MaxOffset
      BY <2>3, <3>1, <3>2, <3>3
    <3>5. x \in 0..MaxOffset /\ w \in 0..MaxOffset
      BY <2>5, <3>4
    <3>6. QED
      BY <2>5, <3>1, <3>2, <3>5
  <2>7. PartTypeOK
    <3>1. PICK l, h : l = Len(a) /\ h = Cardinality(Covered(Bodies(t)))
      OBVIOUS
    <3>2. l \in Nat /\ h \in Nat /\ h <= l /\ l <= MaxOffset /\ g = l - h
      BY <2>3, <3>1, CoveredIs
    <3>3. l \in 0..MaxOffset /\ g \in 0..MaxOffset
      BY <2>5, <3>2
    <3>4. r \in 0..n
      BY <2>3, <2>4
    <3>5. QED
      BY <2>2, <2>4, <2>5, <2>6, <3>1, <3>3, <3>4 DEF PartTypeOK
  <2>8. part.records = Cardinality(LiveSlots)
    BY <2>2, <2>3, <2>4, Counted
  <2>9. part.records = Cardinality({k \in KeyStrings : content[k] # Absent})
    BY <2>1, <2>2, <2>3, <2>5, KeysCounted
  <2>10. \A i \in LiveSlots : \E k \in KeyStrings : /\ KeyView(part.arena, part.slots[i]) = k
                                                   /\ ValueCopy(part.arena, part.slots[i]) = content[k]
    BY <2>2, <2>6
  <2>11. QED
    BY <2>5, <2>7, <2>8, <2>9, <2>10 DEF SnapshotAgrees
<1>2. QED
  BY <1>1, PartHolds, PTL

\* garbage_bytes is the number of bytes in the arena that no slot points to, no byte belongs to
\* two slots, and what maybe_compact leaves is less than the threshold or less than half of
\* the arena.
THEOREM ArenaIsBounded == PartSpec => []ArenaBounded
<1>1. ASSUME PartInv PROVE ArenaBounded
  <2>1. PICK t, n, a, r, g, e : part = Partition(t, a, r, g, e) /\ Keeps(t, n, a, r, g, fingerprint, content)
    BY <1>1, ConsistentIs DEF PartInv
  <2>2. part.slots = t /\ part.arena = a /\ part.garbage = g
    BY <2>1 DEF Partition
  <2>3. /\ Table(t, n) /\ a \in Seq(Bytes) /\ Records(Bodies(t), a, fingerprint, content) /\ Laid(Bodies(t), a)
        /\ g \in Nat /\ g = Len(a) - Cardinality(Covered(Bodies(t))) /\ Apart(t)
    BY <2>1, RecordsLaid DEF Keeps, Table
  <2>4. LiveSlots = Occupied(t)
    BY <2>2 DEF LiveSlots, Occupied
  <2>5. ASSUME NEW i \in Occupied(t)
        PROVE  /\ Body(t[i]) \in Bodies(t)
               /\ \A q : q \in Places(t[i]) <=> q \in Nat /\ Body(t[i]).koff < q /\ q <= Body(t[i]).voff + Body(t[i]).vlen
    <3>1. t[i] \in EntryType /\ t[i].voff = t[i].koff + t[i].klen /\ Body(t[i]) \in Bodies(t)
      BY <2>1, LiveIs
    <3>2. PICK x \in Nat, y \in Nat, w \in Nat, v \in Nat : x = t[i].koff /\ y = t[i].klen /\ w = t[i].voff /\ v = t[i].vlen
      BY <3>1 DEF EntryType
    <3>3. w = x + y /\ Body(t[i]).koff = x /\ Body(t[i]).voff = w /\ Body(t[i]).vlen = v
      BY <3>1, <3>2, BodyIs
    <3>4. Places(t[i]) = (x + 1)..(x + y) \cup (w + 1)..(w + v)
      BY <3>2 DEF Places
    <3>5. \A q : q \in (x + 1)..(x + y) \cup (w + 1)..(w + v) <=> q \in Nat /\ x < q /\ q <= w + v
      BY <3>3
    <3>6. QED
      BY <3>1, <3>3, <3>4, <3>5
  <2>6. PICK U, C, l : /\ U = {q \in 1..Len(a) : \A i \in LiveSlots : q \notin Places(part.slots[i])}
                       /\ C = Covered(Bodies(t)) /\ l = Len(a)
    OBVIOUS
  <2>7. U = (1..l) \ C
    <3>1. ASSUME NEW q \in 1..l PROVE q \in U <=> q \notin C
      <4>1. q \in C <=> \E b \in Bodies(t) : b.koff < q /\ q <= b.voff + b.vlen
        BY <2>6 DEF Covered
      <4>2. q \in U <=> \A i \in Occupied(t) : q \notin Places(t[i])
        BY <2>2, <2>4, <2>6
      <4>3. \A b \in Bodies(t) : \E i \in Occupied(t) : b = Body(t[i])
        BY DEF Bodies
      <4>4. QED
        BY <2>5, <4>1, <4>2, <4>3
    <3>2. U \subseteq 1..l
      BY <2>6
    <3>3. QED
      BY <3>1, <3>2
  <2>8. C \subseteq 1..l /\ Cardinality(C) \in Nat /\ l \in Nat
    BY <2>3, <2>6, CoveredIs
  <2>9. IsFiniteSet(1..l) /\ Cardinality(1..l) = l
    BY <2>8, FS_Interval
  <2>10. Cardinality(U) = Cardinality(1..l) - Cardinality((1..l) \cap C)
    BY <2>7, <2>9, FS_Difference
  <2>11. (1..l) \cap C = C
    BY <2>8
  <2>12. Cardinality(U) = g
    BY <2>3, <2>6, <2>9, <2>10, <2>11
  <2>13. ASSUME NEW i \in LiveSlots, NEW j \in LiveSlots, i # j
         PROVE  Places(part.slots[i]) \cap Places(part.slots[j]) = {}
    <3>1. Body(t[i]) # Body(t[j]) /\ Body(t[i]) \in Bodies(t) /\ Body(t[j]) \in Bodies(t)
      BY <2>3, <2>4, <2>5, <2>13 DEF Apart
    <3>2. Separate(Body(t[i]), Body(t[j]))
      BY <2>3, <3>1 DEF Laid
    <3>3. /\ Body(t[i]).koff \in Nat /\ Body(t[i]).voff \in Nat /\ Body(t[i]).vlen \in Nat
          /\ Body(t[j]).koff \in Nat /\ Body(t[j]).voff \in Nat /\ Body(t[j]).vlen \in Nat
      BY <2>3, <3>1 DEF Laid, Stands, BodyType
    <3>4. ASSUME NEW q, q \in Places(t[i]), q \in Places(t[j]) PROVE FALSE
      <4>1. /\ q \in Nat /\ Body(t[i]).koff < q /\ q <= Body(t[i]).voff + Body(t[i]).vlen
            /\ Body(t[j]).koff < q /\ q <= Body(t[j]).voff + Body(t[j]).vlen
        BY <2>4, <2>5, <3>4
      <4>2. QED
        BY <3>2, <3>3, <4>1 DEF Separate
    <3>5. QED
      BY <2>2, <3>4
  <2>14. part.garbage < MinGarbage \/ part.garbage * 2 < Len(part.arena)
    BY <1>1 DEF PartInv, Lean
  <2>15. QED
    BY <2>2, <2>6, <2>12, <2>13, <2>14 DEF ArenaBounded
<1>2. QED
  BY <1>1, PartHolds, PTL
=============================================================================
