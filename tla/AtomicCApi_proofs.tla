-------------------------- MODULE AtomicCApi_proofs --------------------------
(***************************************************************************)
(* Theorems about AtomicCApi, for any threads, keys, sizes and bounds: every *)
(* block has one owner, a read returns values of its call, and what the      *)
(* functions say of durability is true.                                    *)
(***************************************************************************)
EXTENDS AtomicCApi, SequenceTheorems, FiniteSetTheorems, WellFoundedInduction, TLAPS

-----------------------------------------------------------------------------
(* The inductive invariant                                                 *)

FnNames == {"none", "write_batch", "clear", "sync", "get", "exists", "get_many",
            "get_many_packed", "diagnostics", "last_sequence", "durable_sequence",
            "integrity_check"}
Buffer == [data : Nat, size : Nat]
Place == [off : Nat, size : Nat]
There(m) == {k \in Keys : m[k] # Absent}

DbOK ==
    /\ handle \in BOOLEAN /\ hist \in Seq([Keys -> Value])
    /\ Newest \in 0..MaxBatch /\ durable \in 0..Newest
    /\ \A n \in 1..Len(hist) : IsFiniteSet(There(hist[n]))

HeapOK ==
    /\ IsFiniteSet(DOMAIN heap) /\ DOMAIN heap \subseteq Nat \ {0}
    /\ \A b \in DOMAIN heap : heap[b] \in Seq(Value \X Nat) /\ heap[b] # <<>>

ThreadsOK ==
    /\ pc \in [Threads -> Steps] /\ status \in [Threads -> Statuses]
    /\ fn \in [Threads -> FnNames] /\ keys \in [Threads -> KeyArgs \cup {<<>>}]
    /\ got \in [Threads -> Seq(Value \cup Nat)] /\ bufs \in [Threads -> Seq(Buffer)]
    /\ found \in [Threads -> Seq(BOOLEAN)] /\ slots \in [Threads -> Seq(Place)]
    /\ \A t \in Threads :
          Len(bufs[t]) <= MaxKeys /\ Len(found[t]) <= MaxKeys /\ Len(slots[t]) <= MaxKeys
    /\ begin \in [Threads -> 0..MaxBatch] /\ end \in [Threads -> 0..MaxBatch]

CountsOK ==
    /\ res \in [Threads -> [sequence : 0..MaxBatch, operations : Nat, durable : BOOLEAN]]
    /\ calls \in 0..MaxCalls /\ faults \in 0..MaxFault

Types == DbOK /\ HeapOK /\ ThreadsOK /\ CountsOK

\* The buffers that threads hold and the blocks that are allocated are the same.
Owned ==
    /\ \A x, y \in Live : bufs[x[1]][x[2]].data = bufs[y[1]][y[2]].data => x = y
    /\ DOMAIN heap = {bufs[x[1]][x[2]].data : x \in Live}
    /\ \A x \in Live : Len(heap[bufs[x[1]][x[2]].data]) = bufs[x[1]][x[2]].size

\* What a thread has at the steps of its function
Phase(t) ==
    /\ end[t] <= Newest
    /\ pc[t] \notin {"idle", "done"} => fn[t] = pc[t] /\ begin[t] <= Newest
    /\ pc[t] \in {"get", "exists"} => Len(keys[t]) = 1 /\ keys[t][1] \in Keys /\ found[t] = <<>>
    /\ pc[t] \in {"get_many", "get_many_packed"} => keys[t] \in KeyArgs
    /\ pc[t] \in {"get", "exists", "get_many_packed", "integrity_check"} => bufs[t] = <<>>
    /\ pc[t] = "get_many" => Len(bufs[t]) = Len(found[t]) /\ Len(found[t]) <= Len(keys[t])
    /\ pc[t] = "get_many_packed" => got[t] \in Seq(Value) /\ Len(got[t]) <= Len(keys[t])
    /\ pc[t] = "integrity_check" => got[t] # <<>> /\ got[t][1] \in begin[t]..Newest

\* The outputs of a read that returned OK
Outputs(t) ==
    pc[t] = "done" /\ status[t] = "OK" =>
        /\ fn[t] \in {"get", "get_many"} => Len(bufs[t]) = Len(keys[t])
        /\ fn[t] = "get_many_packed" =>
              /\ Len(bufs[t]) = 1 /\ Len(slots[t]) = Len(keys[t])
              /\ bufs[t][1].data = 0 => \A i \in DOMAIN slots[t] : slots[t][i].size = 0

Ascending(at) == \A i, j \in DOMAIN at : i < j => at[i] <= at[j]

\* When thread t had read n keys, between moments b and e: what it keeps are their values
\* at moments of the call, one after the other.
Moments(n, b, e) == {at \in [1..n -> b..e] : Ascending(at)}
Reading(t) ==
    /\ pc[t] = "get_many" =>
          \E at \in Moments(Len(found[t]), begin[t], Newest) :
              \A i \in 1..Len(found[t]) : Shows(t, i, hist[at[i] + 1][keys[t][i]])
    /\ pc[t] = "get_many_packed" =>
          \E at \in Moments(Len(got[t]), begin[t], Newest) :
              \A i \in 1..Len(got[t]) : got[t][i] = hist[at[i] + 1][keys[t][i]]

Reads == {"get", "exists", "get_many", "get_many_packed"}
Read_OK(t) ==
    pc[t] = "done" /\ status[t] = "OK" /\ fn[t] \in Reads =>
        \E at \in Moments(Len(keys[t]), begin[t], end[t]) :
            \A i \in 1..Len(keys[t]) : Shows(t, i, hist[at[i] + 1][keys[t][i]])

Told(t) ==
    /\ res[t].durable => res[t].sequence <= durable
    /\ pc[t] = "done" /\ fn[t] = "integrity_check" /\ status[t] # "OK" => begin[t] < end[t]

ApiInv ==
    /\ Types /\ Owned
    /\ \A t \in Threads : Phase(t) /\ Outputs(t) /\ Reading(t) /\ Read_OK(t) /\ Told(t)

-----------------------------------------------------------------------------
(* Sums and concatenations                                                 *)

\* Induction up to n, for a set
LEMMA Upto ==
  ASSUME NEW n \in Nat, NEW P, 0 \in P, \A i \in 1..n : i - 1 \in P => i \in P
  PROVE  0..n \subseteq P
<1> DEFINE Bad == (0..n) \ P
<1>1. SUFFICES ASSUME Bad # {} PROVE FALSE
  OBVIOUS
<1>2. PICK e \in Bad : \A f \in Bad : ~(<<f, e>> \in OpToRel(<, Nat))
  <2>1. Bad \subseteq Nat
    OBVIOUS
  <2>2. QED
    BY <1>1, <2>1, NatLessThanWellFounded, WFMin
<1>3. e \in 1..n
  OBVIOUS
<1>4. e - 1 \notin Bad
  <2>1. ASSUME e - 1 \in Bad PROVE FALSE
    <3>1. e - 1 < e /\ e - 1 \in Nat /\ e \in Nat
      BY <1>3
    <3>2. PICK f \in Nat : f = e - 1
      BY <3>1
    <3>3. f < e /\ f \in Bad
      BY <2>1, <3>1, <3>2
    <3>4. <<f, e>> \in OpToRel(<, Nat)
      BY <3>1, <3>3, Zenon DEF OpToRel
    <3>5. QED
      BY <1>2, <3>3, <3>4
  <2>2. QED
    BY <2>1
<1>5. QED
  BY <1>3, <1>4

LEMMA ValueSize == \A v \in Value : v.size \in Nat
<1>1. Absent.size \in Nat
  BY DEF Absent
<1>2. \A v \in [by : 1..MaxBatch, size : Sizes] : v.size \in Nat
  BY CApiAssumption
<1>3. QED
  BY <1>1, <1>2 DEF Value

LEMMA CursorsAre ==
  ASSUME NEW vs \in Seq(Value)
  PROVE  /\ Cursors(vs) \in [0..Len(vs) -> Nat]
         /\ Cursors(vs)[0] = 0
         /\ \A i \in 1..Len(vs) : Cursors(vs)[i] = Cursors(vs)[i - 1] + vs[i].size
<1> DEFINE n == Len(vs)
           F(f, m) == f = [i \in 0..m |-> IF i = 0 THEN 0 ELSE f[i - 1] + vs[i].size]
           P == {m \in 0..n : \E f : F(f, m)}
<1>1. n \in Nat /\ \A i \in 1..n : vs[i].size \in Nat
  BY LenProperties, ElementOfSeq, ValueSize
<1>2. 0 \in P
  <2>1. F([i \in 0..0 |-> 0], 0)
    OBVIOUS
  <2>2. 0 \in 0..n
    BY <1>1
  <2>3. \E f : F(f, 0)
    <3> HIDE DEF F
    <3>1. QED
      BY <2>1, Zenon
  <2>4. QED
    BY ONLY <2>2, <2>3
<1>3. ASSUME NEW m \in 1..n, m - 1 \in P PROVE m \in P
  <2>1. PICK f : F(f, m - 1)
    BY <1>3
  <2>2. PICK g : g = [i \in 0..m |-> IF i = m THEN f[m - 1] + vs[m].size ELSE f[i]]
    OBVIOUS
  <2>3. F(g, m)
    <3>1. \A i \in 0..(m - 1) : f[i] = IF i = 0 THEN 0 ELSE f[i - 1] + vs[i].size
      BY <2>1
    <3>2. \A i \in 0..m : g[i] = IF i = 0 THEN 0 ELSE g[i - 1] + vs[i].size
      BY <1>1, <2>2, <3>1
    <3>3. QED
      BY <2>2, <3>2
  <2>4. \E z : F(z, m)
    <3> HIDE DEF F
    <3>1. QED
      BY <2>3, Zenon
  <2>5. QED
    BY ONLY <1>1, m \in 1..n, <2>4
<1>4. n \in P
  <2> HIDE DEF P
  <2>1. 0..n \subseteq P
    BY ONLY <1>1, <1>2, <1>3, Upto
  <2>2. n \in 0..n
    BY <1>1
  <2>3. QED
    BY ONLY <2>1, <2>2
<1>5. PICK c : c = Cursors(vs)
  OBVIOUS
<1>6. F(c, n)
  BY <1>4, <1>5, Zenon DEF Cursors
<1>7. c[0] = 0 /\ DOMAIN c = 0..n /\ \A i \in 1..n : c[i] = c[i - 1] + vs[i].size
  BY <1>1, <1>6
<1>8. 0..n \subseteq {i \in 0..n : c[i] \in Nat}
  <2> DEFINE Q == {i \in 0..n : c[i] \in Nat}
  <2>1. 0 \in Q /\ \A i \in 1..n : i - 1 \in Q => i \in Q
    BY <1>1, <1>7
  <2>2. QED
    BY ONLY <1>1, <2>1, Upto
<1>9. c \in [0..n -> Nat]
  BY <1>6, <1>8
<1>10. QED
  BY <1>5, <1>7, <1>9

LEMMA AppendIs ==
  ASSUME NEW T, NEW s \in Seq(T), NEW e
  PROVE  /\ Len(Append(s, e)) = Len(s) + 1 /\ DOMAIN Append(s, e) = 1..(Len(s) + 1)
         /\ Append(s, e)[Len(s) + 1] = e
         /\ \A i \in 1..Len(s) : Append(s, e)[i] = s[i]
         /\ e \in T => Append(s, e) \in Seq(T)
<1>1. PICK U : U = T \cup {e}
  OBVIOUS
<1>2. s \in Seq(U) /\ e \in U
  BY <1>1, SeqMonotonic
<1>3. QED
  BY <1>2, AppendProperties, LenProperties

LEMMA TuplesAre ==
  ASSUME NEW T, NEW n \in Nat, NEW f \in [1..n -> T]
  PROVE  f \in Seq(T) /\ Len(f) = n /\ DOMAIN f = 1..n
<1>1. f \in Seq(T) /\ DOMAIN f = 1..n
  BY SeqDef
<1>2. Len(f) \in Nat /\ DOMAIN f = 1..Len(f)
  BY <1>1, LenProperties
<1>3. QED
  BY <1>1, <1>2

LEMMA BytesAre ==
  ASSUME NEW v \in Value
  PROVE  /\ Bytes(v) \in Seq(Value \X Nat) /\ Len(Bytes(v)) = v.size
         /\ DOMAIN Bytes(v) = 1..v.size /\ \A b \in 1..v.size : Bytes(v)[b] = <<v, b>>
<1>1. v.size \in Nat
  BY ValueSize
<1>2. Bytes(v) \in [1..v.size -> Value \X Nat]
  BY <1>1 DEF Bytes
<1>3. Bytes(v) \in Seq(Value \X Nat)
  BY <1>1, <1>2, SeqDef
<1>4. QED
  BY <1>1, <1>2, <1>3 DEF Bytes

LEMMA ArenasAre ==
  ASSUME NEW vs \in Seq(Value)
  PROVE  /\ Arenas(vs)[0] = <<>>
         /\ \A i \in 1..Len(vs) : Arenas(vs)[i] = Arenas(vs)[i - 1] \o Bytes(vs[i])
<1> DEFINE n == Len(vs)
           F(f, m) == f = [i \in 0..m |-> IF i = 0 THEN <<>> ELSE f[i - 1] \o Bytes(vs[i])]
           P == {m \in 0..n : \E f : F(f, m)}
<1>1. n \in Nat
  BY LenProperties
<1>2. 0 \in P
  <2>1. F([i \in 0..0 |-> <<>>], 0)
    OBVIOUS
  <2>2. 0 \in 0..n
    BY <1>1
  <2>3. \E f : F(f, 0)
    <3> HIDE DEF F
    <3>1. QED
      BY <2>1, Zenon
  <2>4. QED
    BY ONLY <2>2, <2>3
<1>3. ASSUME NEW m \in 1..n, m - 1 \in P PROVE m \in P
  <2>1. PICK f : F(f, m - 1)
    BY <1>3
  <2>2. PICK g : g = [i \in 0..m |-> IF i = m THEN f[m - 1] \o Bytes(vs[m]) ELSE f[i]]
    OBVIOUS
  <2>3. F(g, m)
    <3>1. \A i \in 0..(m - 1) : f[i] = IF i = 0 THEN <<>> ELSE f[i - 1] \o Bytes(vs[i])
      BY <2>1
    <3>2. \A i \in 0..m : g[i] = IF i = 0 THEN <<>> ELSE g[i - 1] \o Bytes(vs[i])
      BY <1>1, <2>2, <3>1
    <3>3. QED
      BY <2>2, <3>2
  <2>4. \E z : F(z, m)
    <3> HIDE DEF F
    <3>1. QED
      BY <2>3, Zenon
  <2>5. m \in 0..n
    BY ONLY <1>1, m \in 1..n
  <2>6. QED
    <3> HIDE DEF F
    <3>1. QED
      BY <2>4, <2>5, Zenon
<1>4. n \in P
  <2> HIDE DEF P
  <2>1. 0..n \subseteq P
    BY ONLY <1>1, <1>2, <1>3, Upto
  <2>2. n \in 0..n
    BY <1>1
  <2>3. QED
    BY ONLY <2>1, <2>2
<1>5. PICK a : a = Arenas(vs)
  OBVIOUS
<1>6. F(a, n)
  BY <1>4, <1>5, Zenon DEF Arenas
<1>7. a[0] = <<>> /\ \A i \in 1..n : a[i] = a[i - 1] \o Bytes(vs[i])
  <2>1. \A i \in 0..n : a[i] = IF i = 0 THEN <<>> ELSE a[i - 1] \o Bytes(vs[i])
    BY <1>6, Zenon
  <2>2. 0 \in 0..n /\ \A i \in 1..n : i \in 0..n /\ i # 0
    BY ONLY <1>1
  <2>3. ASSUME NEW i \in 1..n PROVE a[i] = a[i - 1] \o Bytes(vs[i])
    BY <2>1, <2>2, Zenon
  <2>4. a[0] = <<>>
    BY <2>1, <2>2, Zenon
  <2>5. QED
    BY <2>3, <2>4, Zenon
<1>8. QED
  BY <1>5, <1>7

\* s is the arena after the first i values, which end at the cursors c.
Filled(s, c, vs, i) ==
    /\ s \in Seq(Value \X Nat) /\ Len(s) = c[i]
    /\ \A j \in 1..i : /\ c[j - 1] + vs[j].size <= c[i]
                       /\ \A b \in 1..vs[j].size : s[c[j - 1] + b] = <<vs[j], b>>

LEMMA Behind ==
  ASSUME NEW T, NEW s \in Seq(T), NEW w \in Seq(T), NEW z, z = s \o w
  PROVE  /\ z \in Seq(T) /\ Len(z) = Len(s) + Len(w)
         /\ \A b \in 1..Len(s) : z[b] = s[b]
         /\ \A b \in 1..Len(w) : z[Len(s) + b] = w[b]
<1>1. PICK m \in Nat, n \in Nat : m = Len(s) /\ n = Len(w)
  BY LenProperties
<1>2. /\ s \o w \in Seq(T) /\ Len(s \o w) = m + n
      /\ \A b \in 1..(m + n) : (s \o w)[b] = IF b <= m THEN s[b] ELSE w[b - m]
  BY <1>1, ConcatProperties
<1>3. \A b \in 1..m : z[b] = s[b]
  BY <1>2
<1>4. ASSUME NEW b \in 1..n PROVE z[m + b] = w[b]
  <2>1. PICK d \in 1..(m + n) : d = m + b
    OBVIOUS
  <2>2. ~(d <= m) /\ d - m = b
    BY <2>1
  <2>3. z[d] = w[d - m]
    BY <1>2, <2>2
  <2>4. QED
    BY <2>1, <2>2, <2>3
<1>5. QED
  BY <1>1, <1>2, <1>3, <1>4

LEMMA FillNext ==
  ASSUME NEW vs \in Seq(Value), NEW c \in [0..Len(vs) -> Nat], NEW i \in 1..Len(vs),
         c[i] = c[i - 1] + vs[i].size, NEW s, Filled(s, c, vs, i - 1)
  PROVE  Filled(s \o Bytes(vs[i]), c, vs, i)
<1>0. \A j \in 1..Len(vs) : vs[j] \in Value /\ vs[j].size \in Nat
  BY ElementOfSeq, ValueSize
<1>1. PICK v \in Value, p \in Nat, n \in Nat : v = vs[i] /\ p = c[i - 1] /\ n = v.size
  BY <1>0
<1>2. PICK w, T, z : w = Bytes(v) /\ T = Value \X Nat /\ z = s \o w
  OBVIOUS
<1>3. w \in Seq(T) /\ Len(w) = n /\ \A b \in 1..n : w[b] = <<v, b>>
  BY <1>1, <1>2, BytesAre
<1>4. s \in Seq(T) /\ Len(s) = p /\ c[i] = p + n
  BY <1>1, <1>2 DEF Filled
<1>5. /\ z \in Seq(T) /\ Len(z) = p + n
      /\ \A b \in 1..p : z[b] = s[b]
      /\ \A b \in 1..n : z[p + b] = w[b]
  <2>1. /\ z \in Seq(T) /\ Len(z) = Len(s) + Len(w)
        /\ \A b \in 1..Len(s) : z[b] = s[b]
        /\ \A b \in 1..Len(w) : z[Len(s) + b] = w[b]
    <3>1. s \in Seq(T) /\ w \in Seq(T) /\ z = s \o w
      BY <1>2, <1>3, <1>4
    <3>2. QED
      BY ONLY <3>1, Behind
  <2>2. Len(s) = p /\ Len(w) = n
    BY <1>3, <1>4
  <2>3. \A b \in 1..p : z[b] = s[b]
    BY ONLY <2>1, <2>2
  <2>4. \A b \in 1..n : z[p + b] = w[b]
    BY ONLY <2>1, <2>2
  <2>5. QED
    BY ONLY <2>1, <2>2, <2>3, <2>4
<1>6. ASSUME NEW j \in 1..i
      PROVE  /\ c[j - 1] + vs[j].size <= c[i]
             /\ \A b \in 1..vs[j].size : z[c[j - 1] + b] = <<vs[j], b>>
  <2>1. CASE j = i
    <3>1. c[j - 1] = p /\ vs[j] = v /\ vs[j].size = n
      BY <1>1, <2>1
    <3>2. p + n <= c[i] /\ \A b \in 1..n : z[p + b] = <<v, b>>
      BY <1>3, <1>4, <1>5
    <3>3. QED
      BY ONLY <3>1, <3>2
  <2>2. CASE j # i
    <3>1. j \in 1..(i - 1) /\ j \in 1..Len(vs) /\ j - 1 \in 0..Len(vs)
      BY <2>2
    <3>2. PICK q \in Nat, x \in Value, m \in Nat : q = c[j - 1] /\ x = vs[j] /\ m = x.size
      <4>1. c[j - 1] \in Nat
        BY <3>1
      <4>2. vs[j] \in Value /\ vs[j].size \in Nat
        BY <1>0, <3>1, Zenon
      <4>3. QED
        BY <4>1, <4>2, Zenon
    <3>3. q + m <= p /\ \A b \in 1..m : s[q + b] = <<x, b>>
      BY <1>1, <3>1, <3>2 DEF Filled
    <3>4. \A b \in 1..m : q + b \in 1..p
      BY <3>3
    <3>5. \A b \in 1..m : z[q + b] = <<x, b>>
      BY <1>5, <3>3, <3>4
    <3>6. q + m <= c[i]
      BY <1>4, <3>3
    <3>7. QED
      BY <3>2, <3>5, <3>6
  <2>3. QED
    BY <2>1, <2>2
<1>7. Len(z) = c[i]
  BY <1>4, <1>5
<1>8. Filled(z, c, vs, i)
  BY <1>2, <1>5, <1>6, <1>7 DEF Filled
<1>9. QED
  BY <1>1, <1>2, <1>8

\* The arena holds the values one after the other, each from its cursor on.
LEMMA ArenaIs ==
  ASSUME NEW vs \in Seq(Value)
  PROVE  Filled(Arenas(vs)[Len(vs)], Cursors(vs), vs, Len(vs))
<1>0. PICK n \in Nat : n = Len(vs)
  BY LenProperties
<1>1. PICK a, c : n = Len(vs) /\ a = Arenas(vs) /\ c = Cursors(vs)
  BY <1>0
<1>2. a[0] = <<>> /\ \A i \in 1..n : a[i] = a[i - 1] \o Bytes(vs[i])
  BY <1>1, ArenasAre
<1>3. c \in [0..n -> Nat] /\ c[0] = 0 /\ \A i \in 1..n : c[i] = c[i - 1] + vs[i].size
  BY <1>1, CursorsAre
<1> DEFINE Q == {i \in 0..n : Filled(a[i], c, vs, i)}
<1>4. 0 \in Q
  <2>1. Filled(a[0], c, vs, 0)
    BY <1>2, <1>3, EmptySeq, Len(<<>>) = 0 DEF Filled
  <2>2. QED
    BY <2>1
<1>5. ASSUME NEW i \in 1..n, i - 1 \in Q PROVE i \in Q
  <2>1. Filled(a[i - 1], c, vs, i - 1)
    BY <1>5
  <2>2. c[i] = c[i - 1] + vs[i].size
    BY <1>3
  <2>3. Filled(a[i - 1] \o Bytes(vs[i]), c, vs, i)
    BY ONLY <1>1, <1>3, <2>1, <2>2, FillNext, vs \in Seq(Value), i \in 1..n
  <2>4. a[i] = a[i - 1] \o Bytes(vs[i])
    BY <1>2
  <2>5. Filled(a[i], c, vs, i)
    BY <2>3, <2>4
  <2>6. QED
    BY <2>5
<1>6. 0..n \subseteq Q
  <2> HIDE DEF Q
  <2>1. QED
    BY ONLY <1>1, <1>4, <1>5, Upto
<1>7. QED
  BY <1>1, <1>6

-----------------------------------------------------------------------------
(* What a step leaves alone                                                *)

Local(u) == <<pc[u], fn[u], keys[u], got[u], bufs[u], found[u], slots[u], status[u],
              begin[u], end[u]>>
Shown(u) == <<fn[u], bufs[u], found[u], slots[u]>>
Grown ==
    /\ Len(hist') \in Nat /\ Len(hist) <= Len(hist')
    /\ \A n \in 1..Len(hist) : hist'[n] = hist[n]
Kept(u) ==
    \A i \in DOMAIN bufs[u] : Owns(u) /\ bufs[u][i].data # 0 =>
        heap'[bufs[u][i].data] = heap[bufs[u][i].data]

LEMMA ShowsKept ==
  ASSUME NEW u \in Threads, UNCHANGED Shown(u), Kept(u), Owns(u), NEW i, NEW v,
         fn[u] \in {"get", "get_many"} => i \in DOMAIN bufs[u],
         fn[u] = "get_many_packed" =>
             /\ 1 \in DOMAIN bufs[u]
             /\ bufs[u][1].data = 0 => slots[u][i].size = 0,
         fn[u] \in Reads, Shows(u, i, v)
  PROVE  Shows(u, i, v)'
<1>1. /\ bufs'[u] = bufs[u] /\ found'[u] = found[u] /\ slots'[u] = slots[u] /\ fn'[u] = fn[u]
  BY DEF Shown
<1>2. CASE fn[u] = "exists"
  BY <1>1, <1>2 DEF Shows
<1>3. CASE fn[u] \in {"get", "get_many"}
  <2>1. BytesAt(u, i)' = BytesAt(u, i)
    BY <1>1, <1>3 DEF BytesAt, Kept
  <2>2. QED
    BY <1>1, <1>3, <2>1 DEF Shows
<1>4. CASE fn[u] = "get_many_packed"
  <2>1. CASE bufs[u][1].data = 0
    <3>1. 1..slots[u][i].size = {}
      BY <1>4, <2>1
    <3>2. BytesAt(u, i)' = <<>> /\ BytesAt(u, i) = <<>>
      BY <1>1, <1>4, <3>1 DEF BytesAt
    <3>3. QED
      BY <1>1, <1>4, <3>2 DEF Shows
  <2>2. CASE bufs[u][1].data # 0
    <3>1. heap'[bufs[u][1].data] = heap[bufs[u][1].data]
      BY <1>4, <2>2 DEF Kept
    <3>2. BytesAt(u, i)' = BytesAt(u, i)
      BY <1>1, <1>4, <3>1 DEF BytesAt
    <3>3. QED
      BY <1>1, <1>4, <3>2 DEF Shows
  <2>3. QED
    BY <2>1, <2>2
<1>5. QED
  BY <1>2, <1>3, <1>4 DEF Reads

LEMMA MomentsGrow ==
  ASSUME Grown, Types, NEW n, NEW b \in Nat, NEW at \in Moments(n, b, Newest)
  PROVE  /\ at \in Moments(n, b, Newest')
         /\ \A i \in 1..n : at[i] + 1 \in 1..Len(hist) /\ hist'[at[i] + 1] = hist[at[i] + 1]
<1>1. Len(hist) \in Nat /\ Newest = Len(hist) - 1 /\ Newest' = Len(hist') - 1
  BY LenProperties DEF Types, DbOK, Newest
<1>2. at \in [1..n -> b..Newest] /\ Ascending(at)
  BY DEF Moments
<1>3. b..Newest \subseteq b..Newest'
  BY <1>1 DEF Grown
<1>4. at \in [1..n -> b..Newest']
  BY <1>2, <1>3
<1>5. \A i \in 1..n : at[i] + 1 \in 1..Len(hist)
  BY <1>1, <1>2
<1>6. QED
  BY <1>2, <1>4, <1>5 DEF Moments, Grown

LEMMA Bystander ==
  ASSUME ApiInv, Grown, NEW u \in Threads, UNCHANGED Local(u), Kept(u)
  PROVE  Phase(u)' /\ Outputs(u)' /\ Reading(u)' /\ Read_OK(u)'
<1>1. /\ pc'[u] = pc[u] /\ fn'[u] = fn[u] /\ keys'[u] = keys[u] /\ got'[u] = got[u]
      /\ bufs'[u] = bufs[u] /\ found'[u] = found[u] /\ slots'[u] = slots[u]
      /\ status'[u] = status[u] /\ begin'[u] = begin[u] /\ end'[u] = end[u]
  BY DEF Local
<1>2. /\ Types /\ Phase(u) /\ Outputs(u) /\ Reading(u) /\ Read_OK(u)
  BY DEF ApiInv
<1>3. /\ Len(hist) \in Nat /\ Newest = Len(hist) - 1 /\ Newest' = Len(hist') - 1
      /\ Newest \in Nat /\ Newest' \in Int /\ Newest <= Newest'
      /\ begin[u] \in Nat /\ end[u] \in Nat
  BY <1>2, LenProperties DEF Types, DbOK, ThreadsOK, Newest, Grown
<1>4. Phase(u)'
  BY <1>1, <1>2, <1>3 DEF Phase
<1>5. Outputs(u)'
  BY <1>1, <1>2 DEF Outputs
<1>0. UNCHANGED Shown(u)
  BY <1>1 DEF Shown
<1>6. bufs[u] \in Seq(Buffer) /\ found[u] \in Seq(BOOLEAN) /\ slots[u] \in Seq(Place)
  BY <1>2 DEF Types, ThreadsOK
<1>7. Reading(u)'
  <2>1. CASE pc[u] = "get_many"
    <3>1. PICK n : n = Len(found[u])
      OBVIOUS
    <3>2. PICK at \in Moments(n, begin[u], Newest) :
              \A i \in 1..n : Shows(u, i, hist[at[i] + 1][keys[u][i]])
      BY <1>2, <2>1, <3>1 DEF Reading
    <3>3. /\ at \in Moments(n, begin[u], Newest')
          /\ \A i \in 1..n : hist'[at[i] + 1] = hist[at[i] + 1]
      BY <1>2, <1>3, MomentsGrow
    <3>4. ASSUME NEW i \in 1..n
          PROVE  Shows(u, i, hist[at[i] + 1][keys[u][i]])' 
      <4>1. PICK v : v = hist[at[i] + 1][keys[u][i]]
        OBVIOUS
      <4>2. i \in DOMAIN bufs[u] /\ fn[u] = "get_many" /\ Owns(u)
        BY <1>2, <1>6, <2>1, <3>1, LenProperties DEF Phase, Owns
      <4>3. Shows(u, i, v)
        BY <3>2, <4>1
      <4>4. Shows(u, i, v)'
        BY <1>0, <4>2, <4>3, ShowsKept DEF Reads
      <4>5. v = (hist[at[i] + 1][keys[u][i]])'
        BY <1>1, <3>3, <4>1
      <4>6. QED
        BY <4>4, <4>5
    <3>5. QED
      BY <1>1, <2>1, <3>1, <3>3, <3>4 DEF Reading
  <2>2. CASE pc[u] = "get_many_packed"
    <3>1. PICK at \in Moments(Len(got[u]), begin[u], Newest) :
              \A i \in 1..Len(got[u]) : got[u][i] = hist[at[i] + 1][keys[u][i]]
      BY <1>2, <2>2 DEF Reading
    <3>2. /\ at \in Moments(Len(got[u]), begin[u], Newest')
          /\ \A i \in 1..Len(got[u]) : hist'[at[i] + 1] = hist[at[i] + 1]
      BY <1>2, <1>3, MomentsGrow
    <3>3. QED
      BY <1>1, <2>2, <3>1, <3>2 DEF Reading
  <2>3. QED
    BY <1>1, <2>1, <2>2 DEF Reading
<1>8. Read_OK(u)'
  <2>1. SUFFICES ASSUME pc[u] = "done", status[u] = "OK", fn[u] \in Reads PROVE Read_OK(u)'
    BY <1>1 DEF Read_OK
  <2>2. PICK at \in Moments(Len(keys[u]), begin[u], end[u]) :
            \A i \in 1..Len(keys[u]) : Shows(u, i, hist[at[i] + 1][keys[u][i]])
    BY <1>2, <2>1 DEF Read_OK
  <2>3. \A i \in 1..Len(keys[u]) : at[i] + 1 \in 1..Len(hist)
    BY <1>2, <1>3 DEF Moments, Phase
  <2>4. ASSUME NEW i \in 1..Len(keys[u])
        PROVE  Shows(u, i, hist[at[i] + 1][keys[u][i]])'
    <3>1. PICK v : v = hist[at[i] + 1][keys[u][i]]
      OBVIOUS
    <3>2. /\ fn[u] \in {"get", "get_many"} => i \in DOMAIN bufs[u]
          /\ fn[u] = "get_many_packed" =>
                /\ 1 \in DOMAIN bufs[u]
                /\ bufs[u][1].data = 0 => slots[u][i].size = 0
      BY <1>2, <1>6, <2>1, LenProperties DEF Outputs
    <3>3. Owns(u) /\ Shows(u, i, v)
      BY <2>1, <2>2, <3>1 DEF Owns
    <3>4. Shows(u, i, v)'
      BY <1>0, <2>1, <3>2, <3>3, ShowsKept
    <3>5. v = (hist[at[i] + 1][keys[u][i]])'
      BY <1>1, <2>3, <3>1 DEF Grown
    <3>6. QED
      BY <3>4, <3>5
  <2>5. QED
    BY <1>1, <2>1, <2>2, <2>4 DEF Read_OK
<1>9. QED
  BY <1>4, <1>5, <1>7, <1>8

-----------------------------------------------------------------------------
(* Blocks                                                                  *)

\* malloc finds an address, and it is free.
LEMMA NewBlockIsFree ==
  ASSUME IsFiniteSet(DOMAIN heap), DOMAIN heap \subseteq Nat \ {0}
  PROVE  NewBlock \in Nat \ {0} /\ NewBlock \notin DOMAIN heap
<1>1. PICK D, n : D = DOMAIN heap /\ n = Cardinality(D)
  OBVIOUS
<1>2. n \in Nat /\ IsFiniteSet(D) /\ D \subseteq Nat \ {0}
  BY <1>1, FS_CardinalityType
<1> DEFINE Bad == (1..(n + 1)) \ D
<1>3. Bad # {}
  <2>1. ASSUME 1..(n + 1) \subseteq D PROVE FALSE
    <3>1. Cardinality(1..(n + 1)) <= n
      BY <1>1, <1>2, <2>1, FS_Subset
    <3>2. Cardinality(1..(n + 1)) = n + 1
      <4>1. PICK m \in Int : m = n + 1
        BY <1>2
      <4>2. Cardinality(1..m) = IF 1 > m THEN 0 ELSE m - 1 + 1
        BY FS_Interval, 1 \in Int, m \in Int
      <4>3. QED
        BY <1>2, <4>1, <4>2
    <3>3. QED
      BY <1>2, <3>1, <3>2
  <2>2. QED
    BY <2>1
<1>4. PICK e \in Bad : \A f \in Bad : ~(<<f, e>> \in OpToRel(<, Nat))
  <2>1. Bad \subseteq Nat
    BY <1>2
  <2>2. QED
    BY <1>3, <2>1, NatLessThanWellFounded, WFMin
<1>5. \A c \in 1..(e - 1) : c \in D
  <2>1. SUFFICES ASSUME NEW c \in 1..(e - 1), c \in Bad PROVE FALSE
    BY <1>2
  <2>2. c \in Nat /\ e \in Nat /\ c < e
    BY <1>2
  <2>3. <<c, e>> \in OpToRel(<, Nat)
    BY <2>2, Zenon DEF OpToRel
  <2>4. QED
    BY <1>4, <2>1, <2>3
<1>6. PICK b \in 1..(n + 1) : b = NewBlock /\ b \notin D
  <2>1. e \in 1..(n + 1) /\ e \notin D
    OBVIOUS
  <2>2. \E b \in 1..(Cardinality(DOMAIN heap) + 1) :
            b \notin DOMAIN heap /\ \A c \in 1..(b - 1) : c \in DOMAIN heap
    BY <1>1, <1>5, <2>1
  <2>3. NewBlock \in 1..(Cardinality(DOMAIN heap) + 1) /\ NewBlock \notin DOMAIN heap
    BY <2>2 DEF NewBlock
  <2>4. QED
    BY <1>1, <2>3
<1>7. QED
  BY <1>1, <1>2, <1>6

\* What x stands for: buffer x[2] of thread x[1]
Data(x) == bufs[x[1]][x[2]].data

LEMMA Blocks ==
  ASSUME ApiInv
  PROVE  /\ IsFiniteSet(DOMAIN heap) /\ DOMAIN heap \subseteq Nat \ {0}
         /\ \A u \in Threads : \A i \in DOMAIN bufs[u] :
               Owns(u) /\ bufs[u][i].data # 0 =>
                  <<u, i>> \in Live /\ bufs[u][i].data \in DOMAIN heap
<1>1. Types /\ Owned
  BY DEF ApiInv
<1>2. IsFiniteSet(DOMAIN heap) /\ DOMAIN heap \subseteq Nat \ {0}
  BY <1>1 DEF Types, HeapOK
<1>3. ASSUME NEW u \in Threads, NEW i \in DOMAIN bufs[u], Owns(u), bufs[u][i].data # 0
      PROVE  <<u, i>> \in Live /\ bufs[u][i].data \in DOMAIN heap
  <2>1. i \in 1..MaxKeys
    <3>1. bufs[u] \in Seq(Buffer) /\ Len(bufs[u]) <= MaxKeys
      BY <1>1 DEF Types, ThreadsOK
    <3>2. QED
      BY <3>1, LenProperties, CApiAssumption
  <2>2. PICK x : x = <<u, i>>
    OBVIOUS
  <2>3. x \in Live
    BY <1>3, <2>1, <2>2 DEF Live
  <2>4. DOMAIN heap = {bufs[y[1]][y[2]].data : y \in Live}
    BY <1>1, Zenon DEF Owned
  <2>5. bufs[x[1]][x[2]].data \in DOMAIN heap
    BY ONLY <2>3, <2>4, Zenon
  <2>6. x[1] = u /\ x[2] = i
    BY ONLY <2>2
  <2>7. QED
    BY ONLY <2>2, <2>3, <2>5, <2>6, Zenon
<1>4. QED
  BY <1>2, <1>3

LEMMA KeptSame ==
  ASSUME heap' = heap, NEW u PROVE Kept(u)
BY DEF Kept

LEMMA KeptAllocated ==
  ASSUME ApiInv, NEW bytes, heap' = Allocated(bytes), NEW u \in Threads PROVE Kept(u)
<1>1. NewBlock \notin DOMAIN heap
  BY Blocks, NewBlockIsFree
<1>2. QED
  BY <1>1, Blocks DEF Kept, Allocated

LEMMA KeptFreed ==
  ASSUME ApiInv, NEW t \in Threads, Owns(t), heap' = Freed(bufs[t]),
         NEW u \in Threads, u # t
  PROVE  Kept(u)
<1>1. SUFFICES ASSUME NEW i \in DOMAIN bufs[u], Owns(u), bufs[u][i].data # 0
               PROVE  heap'[bufs[u][i].data] = heap[bufs[u][i].data]
  BY DEF Kept
<1>2. <<u, i>> \in Live /\ bufs[u][i].data \in DOMAIN heap
  BY <1>1, Blocks
<1>3. bufs[u][i].data \notin Datas(bufs[t])
  <2>1. SUFFICES ASSUME NEW j \in DOMAIN bufs[t], bufs[t][j].data = bufs[u][i].data PROVE FALSE
    BY DEF Datas
  <2>2. <<t, j>> \in Live
    BY <1>1, <2>1, Blocks
  <2>3. <<t, j>> = <<u, i>>
    BY <1>2, <2>1, <2>2 DEF ApiInv, Owned
  <2>4. QED
    BY <2>3
<1>4. QED
  BY <1>2, <1>3 DEF Freed

Others(t) == \A u \in Threads \ {t} : UNCHANGED Local(u) /\ res'[u] = res[u]

LEMMA LiveElsewhere ==
  ASSUME NEW t, Others(t), NEW x, x[1] # t
  PROVE  /\ x \in Live' <=> x \in Live
         /\ x \in Live => bufs'[x[1]][x[2]] = bufs[x[1]][x[2]]
<1>1. ASSUME x[1] \in Threads PROVE pc'[x[1]] = pc[x[1]] /\ bufs'[x[1]] = bufs[x[1]]
                                    /\ status'[x[1]] = status[x[1]]
  BY <1>1 DEF Others, Local
<1>2. QED
  BY <1>1 DEF Live, Owns

LEMMA OwnedSame ==
  ASSUME Owned, heap' = heap, Live' = Live,
         \A x \in Live : bufs'[x[1]][x[2]] = bufs[x[1]][x[2]]
  PROVE  Owned'
<1>1. \A x \in Live : Data(x)' = Data(x)
  BY DEF Data
<1>2. \A x, y \in Live' : Data(x)' = Data(y)' => x = y
  <2>1. \A x, y \in Live : Data(x) = Data(y) => x = y
    BY DEF Owned, Data
  <2>2. QED
    BY <1>1, <2>1
<1>3. DOMAIN heap' = {Data(x)' : x \in Live'}
  <2>1. DOMAIN heap = {Data(x) : x \in Live}
    BY DEF Owned, Data
  <2>2. QED
    BY <1>1, <2>1
<1>4. \A x \in Live' : Len(heap'[Data(x)']) = bufs'[x[1]][x[2]].size
  <2>1. \A x \in Live : Len(heap[Data(x)]) = bufs[x[1]][x[2]].size
    BY DEF Owned, Data
  <2>2. QED
    BY <1>1, <2>1
<1>5. QED
  BY <1>2, <1>3, <1>4 DEF Owned, Data

\* The buffers of t, which gave back none and got none, are as before.
LEMMA SameBuffers ==
  ASSUME Owned, NEW t \in Threads, Others(t), heap' = heap,
         \/ bufs'[t] = bufs[t] /\ (Owns(t)' <=> Owns(t))
         \/ bufs'[t] = <<>> /\ bufs[t] = <<>>
         \/ ~Owns(t) /\ bufs'[t] = <<>>
         \/ ~Owns(t) /\ ~Owns(t)'
         \/ bufs[t] = <<>> /\ ~Owns(t)'
  PROVE  Owned'
<1>1. ASSUME NEW x, x[1] = t
      PROVE  /\ x \in Live' <=> x \in Live
             /\ x \in Live => bufs'[x[1]][x[2]] = bufs[x[1]][x[2]]
  BY <1>1 DEF Live
<1>2. Live' = Live /\ \A x \in Live : bufs'[x[1]][x[2]] = bufs[x[1]][x[2]]
  BY <1>1, LiveElsewhere
<1>3. QED
  BY <1>2, OwnedSame

\* Another buffer of t: empty, or a new block
LEMMA OneMore ==
  ASSUME ApiInv, NEW t \in Threads, Others(t), Owns(t), Owns(t)', NEW z,
         bufs'[t] = Append(bufs[t], z), Len(bufs[t]) + 1 <= MaxKeys,
         \/ heap' = heap /\ z.data = 0
         \/ \E bytes : /\ heap' = Allocated(bytes) /\ z.data = NewBlock
                       /\ Len(bytes) = z.size
  PROVE  Owned'
<1>0. Owned /\ bufs[t] \in Seq(Buffer)
  BY DEF ApiInv, Types, ThreadsOK
<1>1. PICK n \in Nat : n = Len(bufs[t]) /\ DOMAIN bufs[t] = 1..n
  BY <1>0, LenProperties
<1>2. PICK w : w = bufs'[t]
  OBVIOUS
<1>3. DOMAIN w = 1..(n + 1) /\ w[n + 1] = z /\ \A i \in 1..n : w[i] = bufs[t][i]
  BY <1>0, <1>1, <1>2, AppendIs
<1>4. n + 1 \in 1..MaxKeys
  BY <1>1, CApiAssumption
<1>5. PICK y : y = <<t, n + 1>>
  OBVIOUS
<1>6. ASSUME NEW x, x[1] = t, x # y
      PROVE  /\ x \in Live' <=> x \in Live
             /\ x \in Live => bufs'[x[1]][x[2]] = bufs[x[1]][x[2]]
  <2>1. x \in Threads \X (1..MaxKeys) => x = <<t, x[2]>>
    BY <1>6
  <2>2. x \in Threads \X (1..MaxKeys) => x[2] # n + 1
    BY <1>5, <1>6, <2>1
  <2>3. QED
    BY <1>1, <1>2, <1>3, <1>6, <2>2 DEF Live
<1>7. y[1] = t /\ y[2] = n + 1 /\ y \notin Live
  BY <1>1, <1>5 DEF Live
<1>8. /\ \A x \in Live : x \in Live' /\ bufs'[x[1]][x[2]] = bufs[x[1]][x[2]]
      /\ \A x \in Live' : x \in Live \/ x = y
  BY <1>6, <1>7, LiveElsewhere
<1>9. bufs'[y[1]][y[2]] = z
  BY <1>2, <1>3, <1>7
<1>10. CASE heap' = heap /\ z.data = 0
  <2>1. y \notin Live'
    BY <1>9, <1>10 DEF Live
  <2>2. Live' = Live
    BY <1>8, <2>1
  <2>3. QED
    BY <1>0, <1>8, <1>10, <2>2, OwnedSame
<1>11. ASSUME NEW bytes, heap' = Allocated(bytes), z.data = NewBlock, Len(bytes) = z.size
       PROVE  Owned'
  <2>1. NewBlock \in Nat \ {0} /\ NewBlock \notin DOMAIN heap
    BY Blocks, NewBlockIsFree
  <2>2. y \in Live'
    BY <1>2, <1>3, <1>4, <1>5, <1>7, <1>11, <2>1 DEF Live
  <2>3. PICK b : b = NewBlock
    OBVIOUS
  <2>4. /\ DOMAIN heap' = DOMAIN heap \cup {b} /\ heap'[b] = bytes
        /\ \A d \in DOMAIN heap : heap'[d] = heap[d]
    BY <1>11, <2>1, <2>3 DEF Allocated
  <2>5. Live' = Live \cup {y}
    BY <1>8, <2>2
  <2>6. \A x \in Live : Data(x) \in DOMAIN heap /\ Data(x)' = Data(x)
    BY <1>0, <1>8 DEF Owned, Data
  <2>7. Data(y)' = b
    BY <1>9, <1>11, <2>3 DEF Data
  <2>8. \A u, v \in Live' : Data(u)' = Data(v)' => u = v
    <3>1. \A u, v \in Live : Data(u) = Data(v) => u = v
      BY <1>0 DEF Owned, Data
    <3>2. b \notin DOMAIN heap
      BY <2>1, <2>3
    <3>3. QED
      BY <2>5, <2>6, <2>7, <3>1, <3>2
  <2>9. DOMAIN heap' = {Data(x)' : x \in Live'}
    <3>1. DOMAIN heap = {Data(x) : x \in Live}
      BY <1>0 DEF Owned, Data
    <3>2. \A d \in DOMAIN heap' : \E x \in Live' : d = Data(x)'
      BY <2>4, <2>5, <2>6, <2>7, <3>1
    <3>3. \A x \in Live' : Data(x)' \in DOMAIN heap'
      BY <2>4, <2>5, <2>6, <2>7, <3>1
    <3>4. QED
      BY <3>2, <3>3
  <2>10. \A x \in Live' : Len(heap'[Data(x)']) = bufs'[x[1]][x[2]].size
    <3>1. \A x \in Live : Len(heap[Data(x)]) = bufs[x[1]][x[2]].size
      BY <1>0 DEF Owned, Data
    <3>2. QED
      BY <1>8, <1>9, <1>11, <2>3, <2>4, <2>5, <2>6, <2>7, <3>1
  <2>11. QED
    BY <2>8, <2>9, <2>10 DEF Owned, Data
<1>12. QED
  BY <1>10, <1>11

\* All buffers of t are freed.
LEMMA AllFreed ==
  ASSUME ApiInv, NEW t \in Threads, Others(t), Owns(t), heap' = Freed(bufs[t]),
         ~Owns(t)' \/ bufs'[t] = <<>>
  PROVE  Owned'
<1>0. Owned
  BY DEF ApiInv
<1>1. Live' = {x \in Live : x[1] # t}
  <2>1. ASSUME NEW x, x[1] = t PROVE x \notin Live'
    BY <2>1 DEF Live
  <2>2. QED
    BY <2>1, LiveElsewhere
<1>2. \A x \in Live' : x \in Live /\ bufs'[x[1]][x[2]] = bufs[x[1]][x[2]] /\ Data(x)' = Data(x)
  BY <1>1, LiveElsewhere DEF Data
<1>3. \A x \in Live : x[1] = t => Data(x) \in Datas(bufs[t])
  BY DEF Live, Data, Datas
<1>4. \A x \in Live : x[1] # t => Data(x) \notin Datas(bufs[t])
  <2>1. SUFFICES ASSUME NEW x \in Live, x[1] # t, NEW j \in DOMAIN bufs[t],
                        bufs[t][j].data = Data(x)
                 PROVE  FALSE
    BY DEF Datas
  <2>2. bufs[t][j].data # 0
    BY <2>1 DEF Live, Data
  <2>3. <<t, j>> \in Live
    BY <2>2, Blocks
  <2>4. <<t, j>> = x
    BY <1>0, <2>1, <2>3 DEF Owned, Data
  <2>5. QED
    BY <2>1, <2>4
<1>5. DOMAIN heap' = DOMAIN heap \ Datas(bufs[t]) /\ \A d \in DOMAIN heap' : heap'[d] = heap[d]
  BY DEF Freed
<1>6. DOMAIN heap' = {Data(x)' : x \in Live'}
  <2>1. DOMAIN heap = {Data(x) : x \in Live}
    BY <1>0 DEF Owned, Data
  <2>2. QED
    BY <1>1, <1>2, <1>3, <1>4, <1>5, <2>1
<1>7. \A x, y \in Live' : Data(x)' = Data(y)' => x = y
  BY <1>0, <1>2 DEF Owned, Data
<1>8. \A x \in Live' : Len(heap'[Data(x)']) = bufs'[x[1]][x[2]].size
  <2>1. \A x \in Live : Len(heap[Data(x)]) = bufs[x[1]][x[2]].size
    BY <1>0 DEF Owned, Data
  <2>2. QED
    BY <1>2, <1>5, <1>6, <2>1
<1>9. QED
  BY <1>6, <1>7, <1>8 DEF Owned, Data

-----------------------------------------------------------------------------
(* The steps                                                               *)

\* A step of t is right when it is right about t and about the whole.
LEMMA Carried ==
  ASSUME ApiInv, NEW t \in Threads, Others(t), Grown, durable' \in Nat, durable <= durable',
         \/ heap' = heap
         \/ \E bytes : heap' = Allocated(bytes)
         \/ Owns(t) /\ heap' = Freed(bufs[t]),
         Types', Owned', Phase(t)', Outputs(t)', Reading(t)', Read_OK(t)', Told(t)'
  PROVE  ApiInv'
<1>1. ASSUME NEW u \in Threads, u # t
      PROVE  Phase(u)' /\ Outputs(u)' /\ Reading(u)' /\ Read_OK(u)' /\ Told(u)'
  <2>1. UNCHANGED Local(u) /\ res'[u] = res[u]
    BY <1>1 DEF Others
  <2>2. Kept(u)
    <3>1. CASE heap' = heap
      BY <3>1, KeptSame
    <3>2. CASE \E bytes : heap' = Allocated(bytes)
      BY <3>2, KeptAllocated
    <3>3. CASE Owns(t) /\ heap' = Freed(bufs[t])
      BY <1>1, <3>3, KeptFreed
    <3>4. QED
      BY <3>1, <3>2, <3>3
  <2>3. Phase(u)' /\ Outputs(u)' /\ Reading(u)' /\ Read_OK(u)'
    BY <2>1, <2>2, Bystander
  <2>4. Told(u)'
    <3>1. Told(u) /\ Types
      BY DEF ApiInv
    <3>2. durable \in Nat /\ res[u].sequence \in Nat
      BY <3>1 DEF Types, DbOK, CountsOK
    <3>3. pc'[u] = pc[u] /\ fn'[u] = fn[u] /\ status'[u] = status[u]
          /\ begin'[u] = begin[u] /\ end'[u] = end[u]
      BY <2>1 DEF Local
    <3>4. QED
      BY <2>1, <3>1, <3>2, <3>3 DEF Told
  <2>5. QED
    BY <2>3, <2>4
<1>2. QED
  BY <1>1 DEF ApiInv

\* The sequences
LEMMA Sequences ==
  ASSUME ApiInv
  PROVE  /\ Types /\ Len(hist) \in Nat \ {0} /\ Newest = Len(hist) - 1 /\ Newest \in 0..MaxBatch
         /\ Newest \in Nat /\ durable \in Nat /\ durable <= Newest /\ hist[Newest + 1] \in [Keys -> Value]
         /\ \A t \in Threads : begin[t] \in Nat /\ end[t] \in Nat
<1>1. Types
  BY DEF ApiInv
<1>2. Len(hist) \in Nat /\ Newest = Len(hist) - 1 /\ Newest \in 0..MaxBatch
  BY <1>1, LenProperties DEF Types, DbOK, Newest
<1>3. Newest + 1 \in 1..Len(hist)
  BY <1>2
<1>4. hist[Newest + 1] \in [Keys -> Value]
  BY <1>1, <1>3, ElementOfSeq DEF Types, DbOK
<1>5. Newest \in Nat /\ Len(hist) # 0
  BY <1>2, CApiAssumption
<1>6. durable \in Nat /\ durable <= Newest
  BY <1>1, <1>2 DEF Types, DbOK
<1>7. \A t \in Threads : begin[t] \in Nat /\ end[t] \in Nat
  <2>1. ThreadsOK
    BY <1>1, Zenon DEF Types
  <2>2. begin \in [Threads -> Nat] /\ end \in [Threads -> Nat]
    BY <2>1 DEF ThreadsOK
  <2>3. QED
    BY ONLY <2>2, SMT
<1>8. Len(hist) \in Nat \ {0}
  BY ONLY <1>2, <1>5
<1>9. QED
  BY ONLY <1>1, <1>2, <1>4, <1>5, <1>6, <1>7, <1>8, Zenon

LEMMA SameDb ==
  ASSUME ApiInv, UNCHANGED hist PROVE Grown /\ Newest' = Newest
BY Sequences DEF Grown, Newest

LEMMA AllocatedOK ==
  ASSUME ApiInv, NEW bytes \in Seq(Value \X Nat), bytes # <<>>, heap' = Allocated(bytes)
  PROVE  HeapOK'
<1>1. HeapOK /\ NewBlock \in Nat \ {0} /\ NewBlock \notin DOMAIN heap
  BY Blocks, NewBlockIsFree DEF ApiInv, Types
<1>2. PICK D, b : D = DOMAIN heap /\ b = NewBlock
  OBVIOUS
<1>3. DOMAIN heap' = D \cup {b} /\ heap'[b] = bytes /\ \A d \in D : heap'[d] = heap[d]
  BY <1>1, <1>2 DEF Allocated
<1>4. IsFiniteSet(D \cup {b})
  BY <1>1, <1>2, FS_AddElement DEF HeapOK
<1>5. QED
  BY <1>1, <1>2, <1>3, <1>4 DEF HeapOK

LEMMA FreedOK ==
  ASSUME ApiInv, NEW buffers, heap' = Freed(buffers) PROVE HeapOK'
<1>1. HeapOK
  BY DEF ApiInv, Types
<1>2. DOMAIN heap' \in SUBSET DOMAIN heap /\ \A d \in DOMAIN heap' : heap'[d] = heap[d]
  BY DEF Freed
<1>3. IsFiniteSet(DOMAIN heap')
  BY <1>1, <1>2, FS_Subset DEF HeapOK
<1>4. QED
  BY <1>1, <1>2, <1>3 DEF HeapOK

\* The beginning of a function: t has given back the buffers of its last call.
Starts(t, f, ks, g) ==
    Calling(t) /\ Clean(t, g) /\ fn' = Set(fn, t, f) /\ keys' = Set(keys, t, ks)

LEMMA Started ==
  ASSUME ApiInv, NEW t \in Threads, NEW f \in FnNames, NEW ks \in KeyArgs \cup {<<>>},
         NEW g \in Seq(Value \cup Nat), Starts(t, f, ks, g), heap' = heap,
         \A u \in Threads \ {t} : res'[u] = res[u],
         \/ \E s \in Statuses : Returns(t, s)
         \/ pc' = Set(pc, t, f) /\ f \in Steps \ {"idle", "done"} /\ UNCHANGED <<status, end>>
  PROVE  /\ Others(t) /\ ThreadsOK' /\ Owned' /\ calls' \in 0..MaxCalls
         /\ pc'[t] # "idle" /\ begin'[t] = Newest /\ end'[t] \in {end[t], Newest}
         /\ fn'[t] = f /\ keys'[t] = ks /\ got'[t] = g
         /\ bufs'[t] = <<>> /\ found'[t] = <<>> /\ slots'[t] = <<>>
<1>1. Types /\ Owned /\ Newest \in 0..MaxBatch
  BY Sequences DEF ApiInv
<1>2. ThreadsOK /\ calls \in 0..MaxCalls
  BY <1>1 DEF Types, CountsOK
<1>3. /\ pc[t] = "idle" /\ calls < MaxCalls /\ calls' = calls + 1
      /\ begin' = [begin EXCEPT ![t] = Newest]
      /\ got' = [got EXCEPT ![t] = g] /\ bufs' = [bufs EXCEPT ![t] = <<>>]
      /\ found' = [found EXCEPT ![t] = <<>>] /\ slots' = [slots EXCEPT ![t] = <<>>]
      /\ fn' = [fn EXCEPT ![t] = f] /\ keys' = [keys EXCEPT ![t] = ks]
  BY DEF Starts, Calling, Clean, Set
<1>4. PICK p \in Steps \ {"idle"} : pc' = [pc EXCEPT ![t] = p] /\ (p = "done" \/ p = f)
  BY DEF Returns, Set, Steps
<1>5. PICK s \in Statuses : status' = [status EXCEPT ![t] = s]
  <2>1. CASE \E z \in Statuses : Returns(t, z)
    BY <2>1 DEF Returns, Set
  <2>2. CASE UNCHANGED <<status, end>>
    <3>1. status[t] \in Statuses /\ status' = [status EXCEPT ![t] = status[t]]
      BY <1>2, <2>2 DEF ThreadsOK
    <3>2. QED
      BY <3>1
  <2>3. QED
    BY <2>1, <2>2
<1>6. PICK e \in {end[t], Newest} : end' = [end EXCEPT ![t] = e]
  <2>1. CASE \E z \in Statuses : Returns(t, z)
    BY <2>1 DEF Returns, Set
  <2>2. CASE UNCHANGED <<status, end>>
    <3>1. end' = [end EXCEPT ![t] = end[t]]
      BY <1>2, <2>2 DEF ThreadsOK
    <3>2. QED
      BY <3>1
  <2>3. QED
    BY <2>1, <2>2
<1>7. Others(t)
  BY <1>2, <1>3, <1>4, <1>5, <1>6 DEF Others, Local, ThreadsOK
<1>8. /\ pc'[t] = p /\ begin'[t] = Newest /\ end'[t] = e
      /\ fn'[t] = f /\ keys'[t] = ks /\ got'[t] = g
      /\ bufs'[t] = <<>> /\ found'[t] = <<>> /\ slots'[t] = <<>>
  BY <1>2, <1>3, <1>4, <1>6 DEF ThreadsOK
<1>9. ThreadsOK'
  <2>1. /\ pc' \in [Threads -> Steps] /\ status' \in [Threads -> Statuses]
        /\ fn' \in [Threads -> FnNames] /\ keys' \in [Threads -> KeyArgs \cup {<<>>}]
        /\ begin' \in [Threads -> 0..MaxBatch] /\ end' \in [Threads -> 0..MaxBatch]
    BY <1>1, <1>2, <1>3, <1>4, <1>5, <1>6 DEF ThreadsOK
  <2>2. /\ got' \in [Threads -> Seq(Value \cup Nat)] /\ bufs' \in [Threads -> Seq(Buffer)]
        /\ found' \in [Threads -> Seq(BOOLEAN)] /\ slots' \in [Threads -> Seq(Place)]
    BY <1>2, <1>3, EmptySeq DEF ThreadsOK
  <2>3. \A u \in Threads :
          Len(bufs'[u]) <= MaxKeys /\ Len(found'[u]) <= MaxKeys /\ Len(slots'[u]) <= MaxKeys
    BY <1>2, <1>3, CApiAssumption, Len(<<>>) = 0 DEF ThreadsOK
  <2>4. QED
    BY <2>1, <2>2, <2>3 DEF ThreadsOK
<1>10. Owned'
  <2>1. ~Owns(t)
    BY <1>3 DEF Owns
  <2>2. QED
    BY <1>1, <1>7, <1>8, <2>1, SameBuffers
<1>11. QED
  BY <1>2, <1>3, <1>4, <1>6, <1>7, <1>8, <1>9, <1>10, CApiAssumption

\* A function that returns at once and reads no keys
LEMMA AtOnce ==
  ASSUME ApiInv, NEW t \in Threads, NEW f \in FnNames \ (Reads \cup {"integrity_check"}),
         NEW ks \in KeyArgs \cup {<<>>}, NEW g \in Seq(Value \cup Nat), Starts(t, f, ks, g),
         heap' = heap, \E s \in Statuses : Returns(t, s),
         \A u \in Threads \ {t} : res'[u] = res[u],
         Grown, durable <= durable', DbOK',
         res' \in [Threads -> [sequence : 0..MaxBatch, operations : Nat, durable : BOOLEAN]],
         faults' \in 0..MaxFault, res'[t].durable => res'[t].sequence <= durable'
  PROVE  ApiInv'
<1>1. /\ Others(t) /\ ThreadsOK' /\ Owned' /\ calls' \in 0..MaxCalls
      /\ pc'[t] # "idle" /\ begin'[t] = Newest /\ end'[t] \in {end[t], Newest}
      /\ fn'[t] = f /\ bufs'[t] = <<>>
  BY Started
<1>2. pc'[t] = "done"
  <2>1. pc \in [Threads -> Steps]
    BY DEF ApiInv, Types, ThreadsOK
  <2>2. QED
    BY <2>1 DEF Returns, Set
<1>3. Types'
  BY <1>1 DEF Types, HeapOK, CountsOK, ApiInv
<1>4. /\ Phase(t) /\ Newest <= Newest' /\ durable' \in Nat
  <2>1. Newest' = Len(hist') - 1 /\ Newest' \in Nat
    BY DEF DbOK, Newest
  <2>2. durable' \in Nat
    BY <2>1 DEF DbOK
  <2>3. QED
    BY <2>1, <2>2, Sequences DEF Grown, ApiInv
<1>5. Phase(t)'
  <2>1. end'[t] <= Newest'
    BY <1>1, <1>4, Sequences DEF Phase, DbOK
  <2>2. QED
    BY <1>2, <2>1 DEF Phase
<1>6. Outputs(t)' /\ Reading(t)' /\ Read_OK(t)'
  BY <1>1, <1>2 DEF Outputs, Reading, Read_OK, Reads
<1>7. Told(t)'
  BY <1>1 DEF Told
<1>8. QED
  BY <1>1, <1>3, <1>4, <1>5, <1>6, <1>7, Carried

LEMMA RangeFinite ==
  ASSUME NEW ks \in KeyArgs PROVE IsFiniteSet(Range(ks))
<1>1. PICK n \in 1..MaxKeys : ks \in [1..n -> Keys \cup {Null}]
  BY DEF KeyArgs
<1>2. n \in Int /\ IsFiniteSet(1..n)
  BY FS_Interval, CApiAssumption
<1>3. ks \in Surjection(1..n, Range(ks))
  BY <1>1 DEF Surjection, Range
<1>4. QED
  BY <1>2, <1>3, FS_Surjection

LEMMA LenOfArgs ==
  ASSUME NEW ks \in KeyArgs
  PROVE  /\ Len(ks) \in 1..MaxKeys /\ Len(ks) \in Nat /\ DOMAIN ks = 1..Len(ks)
         /\ \A i \in 1..Len(ks) : ks[i] \in Keys \cup {Null}
<1>1. PICK n \in 1..MaxKeys : ks \in [1..n -> Keys \cup {Null}]
  BY DEF KeyArgs
<1>2. n \in Nat
  BY CApiAssumption
<1>3. ks \in Seq(Keys \cup {Null})
  BY <1>1, <1>2, SeqDef
<1>4. Len(ks) = n
  BY <1>1, <1>2, <1>3, LenProperties
<1>5. QED
  BY <1>1, <1>2, <1>4

\* A batch is committed.
LEMMA CommittedOK ==
  ASSUME ApiInv, NEW t \in Threads, NEW m \in [Keys -> Value], NEW count \in Nat,
         NEW sync \in BOOLEAN, Committed(t, m, count, sync), IsFiniteSet(There(m)),
         UNCHANGED handle
  PROVE  /\ DbOK' /\ Grown /\ durable <= durable'
         /\ res' \in [Threads -> [sequence : 0..MaxBatch, operations : Nat, durable : BOOLEAN]]
         /\ \A u \in Threads \ {t} : res'[u] = res[u]
         /\ res'[t].durable => res'[t].sequence <= durable'
<1>1. /\ Types /\ Len(hist) \in Nat \ {0} /\ Newest = Len(hist) - 1 /\ Newest \in 0..MaxBatch
      /\ Newest \in Nat /\ durable \in Nat /\ durable <= Newest
  BY Sequences
<1>2. /\ Newest < MaxBatch /\ hist' = Append(hist, m)
      /\ durable' = IF sync THEN Newest + 1 ELSE durable
      /\ res' = [res EXCEPT ![t] = [sequence |-> Newest + 1, operations |-> count,
                                    durable |-> sync]]
  BY DEF Committed, Set
<1>3. PICK n \in Nat \ {0} : n = Len(hist)
  BY <1>1
<1>4. hist \in Seq([Keys -> Value])
  BY <1>1 DEF Types, DbOK
<1>5. /\ hist' \in Seq([Keys -> Value]) /\ Len(hist') = n + 1 /\ hist'[n + 1] = m
      /\ \A i \in 1..n : hist'[i] = hist[i]
  BY <1>2, <1>3, <1>4, AppendIs
<1>6. Grown
  BY <1>3, <1>5 DEF Grown
<1>7. Newest' = Newest + 1 /\ Newest' \in 0..MaxBatch
  BY <1>1, <1>2, <1>3, <1>5, CApiAssumption DEF Newest
<1>8. \A i \in 1..Len(hist') : IsFiniteSet(There(hist'[i]))
  <2>1. \A i \in 1..n : IsFiniteSet(There(hist[i]))
    BY <1>1, <1>3 DEF Types, DbOK
  <2>2. \A i \in 1..(n + 1) : i \in 1..n \/ i = n + 1
    OBVIOUS
  <2>3. \A i \in 1..(n + 1) : IsFiniteSet(There(hist'[i]))
    BY <1>5, <2>1, <2>2
  <2>4. QED
    BY <1>5, <2>3
<1>9. DbOK'
  <2>1. durable' \in 0..Newest'
    BY <1>1, <1>2, <1>7
  <2>2. handle' \in BOOLEAN
    BY <1>1 DEF Types, DbOK
  <2>3. QED
    BY <1>5, <1>7, <1>8, <2>1, <2>2 DEF DbOK
<1>10. durable <= durable'
  BY <1>1, <1>2
<1>11. res \in [Threads -> [sequence : 0..MaxBatch, operations : Nat, durable : BOOLEAN]]
  BY <1>1 DEF Types, CountsOK
<1>12. PICK r \in [sequence : 0..MaxBatch, operations : Nat, durable : BOOLEAN] :
          r = [sequence |-> Newest + 1, operations |-> count, durable |-> sync]
  <2>1. Newest + 1 \in 0..MaxBatch
    BY <1>1, <1>2, CApiAssumption
  <2>2. [sequence |-> Newest + 1, operations |-> count, durable |-> sync]
            \in [sequence : 0..MaxBatch, operations : Nat, durable : BOOLEAN]
    BY <2>1
  <2>3. QED
    BY <2>2, Zenon
<1>13. res' = [res EXCEPT ![t] = r]
  BY <1>2, <1>12
<1>14. /\ res' \in [Threads -> [sequence : 0..MaxBatch, operations : Nat, durable : BOOLEAN]]
       /\ \A u \in Threads \ {t} : res'[u] = res[u]
       /\ res'[t] = r
  BY <1>11, <1>13
<1>15. r.durable => r.sequence <= durable'
  BY <1>1, <1>2, <1>12
<1>16. QED
  BY <1>6, <1>9, <1>10, <1>14, <1>15

\* Nothing of the database changes.
LEMMA DbUnchanged ==
  ASSUME ApiInv, UNCHANGED dbVars
  PROVE  DbOK' /\ Grown /\ durable <= durable' /\ durable' \in Nat /\ Newest' = Newest
<1>1. UNCHANGED <<handle, hist, durable>>
  BY DEF dbVars
<1>2. DbOK' /\ Newest' = Newest
  BY <1>1, Sequences DEF Types, DbOK, Newest
<1>3. QED
  BY <1>1, <1>2, Sequences, SameDb

LEMMA Counts ==
  ASSUME ApiInv
  PROVE  /\ res \in [Threads -> [sequence : 0..MaxBatch, operations : Nat, durable : BOOLEAN]]
         /\ faults \in 0..MaxFault
         /\ Fault => faults' \in 0..MaxFault
         /\ \A t \in Threads : res[t].sequence \in Nat
         /\ \A t \in Threads : res[t].durable => res[t].sequence <= durable
BY CApiAssumption DEF ApiInv, Types, CountsOK, Fault, Told

LEMMA WriteBatchStep ==
  ASSUME ApiInv, NEW t \in Threads, NEW ks \in KeyArgs, NEW size \in Sizes \cup {-1},
         NEW mode \in Modes, WriteBatch(t, ks, size, mode)
  PROVE  ApiInv'
<1> DEFINE valid == Null \notin Range(ks) /\ mode # "unknown"
           sync == mode # "ASYNC"
           v == IF size \in Sizes THEN [by |-> Newest + 1, size |-> size] ELSE Absent
           m == [k \in Keys |-> IF k \in Range(ks) THEN v ELSE hist[Newest + 1][k]]
<1>1. /\ Starts(t, "write_batch", ks, <<>>) /\ heap' = heap /\ UNCHANGED handle
      /\ "write_batch" \in FnNames \ (Reads \cup {"integrity_check"})
      /\ <<>> \in Seq(Value \cup Nat)
  BY EmptySeq DEF WriteBatch, Starts, FnNames, Reads
<1>2. CASE UNCHANGED <<hist, durable, res>>
  <2>1. /\ DbOK' /\ Grown /\ durable <= durable'
    BY <1>1, <1>2, DbUnchanged DEF dbVars
  <2>2. /\ \E s \in Statuses : Returns(t, s)
        /\ faults' \in 0..MaxFault
    BY <1>2, Counts DEF WriteBatch, Statuses
  <2>3. /\ res' \in [Threads -> [sequence : 0..MaxBatch, operations : Nat, durable : BOOLEAN]]
        /\ \A u \in Threads \ {t} : res'[u] = res[u]
        /\ res'[t].durable => res'[t].sequence <= durable'
    BY <1>2, Counts
  <2>4. QED
    BY <1>1, <2>1, <2>2, <2>3, AtOnce
<1>3. CASE /\ valid /\ Returns(t, "OK") /\ UNCHANGED faults
           /\ Committed(t, m, Len(ks), sync)
  <2>1. v \in Value
    BY <1>3, Sequences, CApiAssumption DEF Value, Committed
  <2>2. m \in [Keys -> Value]
    BY <2>1, Sequences
  <2>3. IsFiniteSet(There(m))
    <3>1. There(m) \subseteq There(hist[Newest + 1]) \cup Range(ks)
      BY DEF There
    <3>2. IsFiniteSet(There(hist[Newest + 1]))
      <4>1. Newest + 1 \in 1..Len(hist)
        BY Sequences
      <4>2. QED
        BY <4>1, Sequences DEF Types, DbOK
    <3>3. IsFiniteSet(There(hist[Newest + 1]) \cup Range(ks))
      BY <3>2, RangeFinite, FS_Union
    <3>4. QED
      BY <3>1, <3>3, FS_Subset
  <2>4. Len(ks) \in Nat /\ sync \in BOOLEAN
    BY LenOfArgs
  <2> HIDE DEF m, v
  <2>5. /\ DbOK' /\ Grown /\ durable <= durable'
        /\ res' \in [Threads -> [sequence : 0..MaxBatch, operations : Nat, durable : BOOLEAN]]
        /\ \A u \in Threads \ {t} : res'[u] = res[u]
        /\ res'[t].durable => res'[t].sequence <= durable'
    <3> HIDE DEF sync
    <3>1. QED
      BY <1>1, <1>3, <2>2, <2>3, <2>4, CommittedOK
  <2>6. \E s \in Statuses : Returns(t, s)
    BY <1>3 DEF Statuses
  <2>7. faults' \in 0..MaxFault
    BY <1>3, Counts
  <2>8. QED
    BY <1>1, <2>5, <2>6, <2>7, AtOnce
<1>4. QED
  BY <1>2, <1>3 DEF WriteBatch

LEMMA ClearStep ==
  ASSUME ApiInv, NEW t \in Threads, Clear(t) PROVE ApiInv'
<1> DEFINE there == {k \in Keys : hist[Newest + 1][k] # Absent}
<1>1. /\ Starts(t, "clear", <<>>, <<>>) /\ heap' = heap /\ UNCHANGED handle
      /\ "clear" \in FnNames \ (Reads \cup {"integrity_check"})
      /\ <<>> \in Seq(Value \cup Nat) /\ <<>> \in KeyArgs \cup {<<>>}
  BY EmptySeq DEF Clear, Starts, FnNames, Reads
<1>2. \E s \in Statuses : Returns(t, s)
  BY DEF Clear, Statuses
<1>3. faults' \in 0..MaxFault
  BY Counts DEF Clear
<1>4. CASE UNCHANGED <<hist, durable>> /\ (ClearedEmpty(t) \/ UNCHANGED res)
  <2>1. /\ DbOK' /\ Grown /\ durable <= durable'
    BY <1>1, <1>4, DbUnchanged DEF dbVars
  <2>2. CASE UNCHANGED res
    BY <1>1, <1>2, <1>3, <1>4, <2>1, <2>2, AtOnce, Counts
  <2>3. CASE ClearedEmpty(t)
    <3>1. PICK r \in [sequence : 0..MaxBatch, operations : Nat, durable : BOOLEAN] :
              r = [sequence |-> Newest, operations |-> 0, durable |-> durable = Newest]
      <4>1. Newest \in 0..MaxBatch /\ (durable = Newest) \in BOOLEAN
        BY Sequences
      <4>2. PICK d \in BOOLEAN : d = (durable = Newest)
        BY <4>1, Zenon
      <4>3. [sequence |-> Newest, operations |-> 0, durable |-> d]
               \in [sequence : 0..MaxBatch, operations : Nat, durable : BOOLEAN]
        BY <4>1
      <4>4. QED
        BY <4>2, <4>3, Zenon
    <3>2. res' = [res EXCEPT ![t] = r]
      BY <2>3, <3>1, Zenon DEF ClearedEmpty, Set
    <3>3. r.durable => r.sequence <= durable
      <4>1. r.durable = (durable = Newest) /\ r.sequence = Newest
        BY <3>1, Zenon
      <4>2. CASE durable = Newest
        BY <4>1, <4>2, Sequences
      <4>3. CASE ~(durable = Newest)
        BY <4>1, <4>3, Zenon
      <4>4. QED
        BY <4>2, <4>3
    <3>4. /\ res' \in [Threads -> [sequence : 0..MaxBatch, operations : Nat, durable : BOOLEAN]]
          /\ res'[t] = r /\ \A u \in Threads \ {t} : res'[u] = res[u]
      BY <3>2, Counts
    <3>5. res'[t].durable => res'[t].sequence <= durable'
      BY <1>4, <3>3, <3>4
    <3>6. QED
      BY <1>1, <1>2, <1>3, <2>1, <3>4, <3>5, AtOnce
  <2>4. QED
    BY <1>4, <2>2, <2>3
<1>5. CASE Committed(t, hist[1], Cardinality(there), TRUE)
  <2>1. 1 \in 1..Len(hist) /\ Newest + 1 \in 1..Len(hist) /\ Types
    BY Sequences
  <2>2. hist[1] \in [Keys -> Value] /\ IsFiniteSet(There(hist[1])) /\ IsFiniteSet(there)
    BY <2>1, ElementOfSeq DEF Types, DbOK, There
  <2>3. Cardinality(there) \in Nat
    BY <2>2, FS_CardinalityType
  <2> HIDE DEF there
  <2>4. /\ DbOK' /\ Grown /\ durable <= durable'
        /\ res' \in [Threads -> [sequence : 0..MaxBatch, operations : Nat, durable : BOOLEAN]]
        /\ \A u \in Threads \ {t} : res'[u] = res[u]
        /\ res'[t].durable => res'[t].sequence <= durable'
    BY <1>1, <1>5, <2>2, <2>3, CommittedOK
  <2>5. QED
    BY <1>1, <1>2, <1>3, <2>4, AtOnce
<1>6. QED
  BY <1>4, <1>5 DEF Clear

LEMMA SyncStep ==
  ASSUME ApiInv, NEW t \in Threads, Sync(t) PROVE ApiInv'
<1>1. /\ Starts(t, "sync", <<>>, <<>>) /\ heap' = heap /\ UNCHANGED <<handle, hist, res>>
      /\ "sync" \in FnNames \ (Reads \cup {"integrity_check"})
      /\ <<>> \in Seq(Value \cup Nat) /\ <<>> \in KeyArgs \cup {<<>>}
  BY EmptySeq DEF Sync, Starts, FnNames, Reads
<1>2. \E s \in Statuses : Returns(t, s)
  BY DEF Sync, Statuses
<1>3. faults' \in 0..MaxFault /\ durable' \in {durable, Newest}
  BY Counts DEF Sync
<1>4. Grown /\ Newest' = Newest
  BY <1>1, SameDb
<1>5. durable <= durable' /\ durable' \in 0..Newest'
  BY <1>3, <1>4, Sequences
<1>6. DbOK'
  BY <1>1, <1>4, <1>5, Sequences DEF Types, DbOK
<1>7. res'[t].durable => res'[t].sequence <= durable'
  BY <1>1, <1>3, <1>5, Counts, Sequences
<1>8. QED
  BY <1>1, <1>2, <1>3, <1>4, <1>5, <1>6, <1>7, Counts, AtOnce

\* The functions that return a sequence number or two
LEMMA NumbersStep ==
  ASSUME ApiInv, NEW t \in Threads,
         NEW f \in {"diagnostics", "durable_sequence", "last_sequence"},
         NEW g \in Seq(Nat), Starts(t, f, <<>>, g), Returns(t, "OK"),
         UNCHANGED <<dbVars, heap, res, faults>>
  PROVE  ApiInv'
<1>1. /\ f \in FnNames \ (Reads \cup {"integrity_check"}) /\ "OK" \in Statuses
      /\ g \in Seq(Value \cup Nat) /\ <<>> \in KeyArgs \cup {<<>>}
  BY SeqMonotonic DEF FnNames, Reads, Statuses
<1>2. DbOK' /\ Grown /\ durable <= durable'
  BY DbUnchanged
<1>3. durable' = durable
  BY DEF dbVars
<1>4. QED
  BY <1>1, <1>2, <1>3, Counts, AtOnce

LEMMA DiagnosticsStep ==
  ASSUME ApiInv, NEW t \in Threads, Diagnostics(t) PROVE ApiInv'
<1>1. Starts(t, "diagnostics", <<>>, <<Newest, durable>>)
  BY DEF Diagnostics, Starts
<1>2. <<Newest, durable>> \in Seq(Nat)
  BY Sequences
<1>3. QED
  BY <1>1, <1>2, NumbersStep DEF Diagnostics

LEMMA DurableSequenceStep ==
  ASSUME ApiInv, NEW t \in Threads, DurableSequence(t) PROVE ApiInv'
<1>1. Starts(t, "durable_sequence", <<>>, <<durable>>)
  BY DEF DurableSequence, Starts
<1>2. <<durable>> \in Seq(Nat)
  BY Sequences
<1>3. QED
  BY <1>1, <1>2, NumbersStep DEF DurableSequence

\* A function that reads begins.
LEMMA ReadingBegins ==
  ASSUME ApiInv, NEW t \in Threads, NEW f \in Reads \cup {"integrity_check"},
         NEW ks \in KeyArgs \cup {<<>>}, NEW g \in Seq(Value \cup Nat), Starts(t, f, ks, g),
         UNCHANGED <<dbVars, heap, res, faults>>, pc' = Set(pc, t, f), UNCHANGED <<status, end>>,
         f \in {"get", "exists"} => Len(ks) = 1 /\ ks[1] \in Keys,
         f \in {"get_many", "get_many_packed"} => ks \in KeyArgs /\ g = <<>>,
         f = "integrity_check" => g = <<Newest>>
  PROVE  ApiInv'
<1>1. f \in FnNames /\ f \in Steps \ {"idle", "done"}
  BY DEF FnNames, Reads, Steps
<1>2. /\ Others(t) /\ ThreadsOK' /\ Owned' /\ calls' \in 0..MaxCalls
      /\ begin'[t] = Newest /\ end'[t] \in {end[t], Newest}
      /\ fn'[t] = f /\ keys'[t] = ks /\ got'[t] = g
      /\ bufs'[t] = <<>> /\ found'[t] = <<>>
  BY <1>1, Started
<1>3. pc'[t] = f
  BY DEF ApiInv, Types, ThreadsOK, Set
<1>4. Types' /\ Grown /\ durable <= durable' /\ durable' \in Nat /\ Newest' = Newest
  BY <1>2, DbUnchanged, Counts DEF ApiInv, Types, HeapOK, CountsOK
<1>5. Phase(t)'
  <2>1. Phase(t)
    BY DEF ApiInv
  <2>2. end'[t] <= Newest'
    BY <1>2, <1>4, <2>1, Sequences DEF Phase
  <2>3. CASE f \in {"get", "exists"}
    BY <1>2, <1>3, <1>4, <2>2, <2>3, Sequences DEF Phase
  <2>4. CASE f \in {"get_many", "get_many_packed"}
    <3>1. <<>> \in Seq(Value) /\ Len(<<>>) = 0 /\ Len(ks) \in Nat
      BY <2>4, EmptySeq, LenOfArgs
    <3>2. QED
      BY <1>2, <1>3, <1>4, <2>2, <2>4, <3>1, Sequences DEF Phase
  <2>5. CASE f = "integrity_check"
    <3>1. Len(g) = 1 /\ g[1] = Newest /\ got'[t] = g
      BY <1>2, <2>5
    <3>2. g # <<>>
      <4>1. SUFFICES ASSUME g = <<>> PROVE FALSE
        OBVIOUS
      <4>2. Len(g) = 0
        BY <4>1
      <4>3. QED
        BY <3>1, <4>2
    <3>3. got'[t] # <<>> /\ got'[t][1] = Newest
      BY <3>1, <3>2, Zenon
    <3>4. QED
      BY <1>2, <1>3, <1>4, <2>2, <2>5, <3>3, Sequences DEF Phase
  <2>6. QED
    BY <2>3, <2>4, <2>5 DEF Reads
<1>6. Outputs(t)' /\ Read_OK(t)'
  BY <1>1, <1>3 DEF Outputs, Read_OK
<1>7. Reading(t)'
  <2>1. SUFFICES ASSUME f \in {"get_many", "get_many_packed"} PROVE Reading(t)'
    BY <1>3 DEF Reading
  <2>2. Len(found'[t]) = 0 /\ Len(got'[t]) = 0
    BY <1>2, <2>1, Len(<<>>) = 0
  <2>3. PICK at : at = [i \in 1..0 |-> 0]
    OBVIOUS
  <2>4. at \in Moments(0, begin'[t], Newest')
    BY <2>3 DEF Moments, Ascending
  <2>5. QED
    BY <2>2, <2>4 DEF Reading
<1>8. Told(t)'
  <2>1. durable' = durable /\ res' = res
    BY DEF dbVars
  <2>2. QED
    BY <1>1, <1>3, <2>1, Counts DEF Told
<1>9. QED
  BY <1>2, <1>4, <1>5, <1>6, <1>7, <1>8, Carried

LEMMA LastSequenceStep ==
  ASSUME ApiInv, NEW t \in Threads, NEW f \in {"last_sequence", "integrity_check"},
         LastSequence(t, f)
  PROVE  ApiInv'
<1>1. Starts(t, f, <<>>, <<Newest>>)
  BY DEF LastSequence, Starts
<1>2. <<Newest>> \in Seq(Nat) /\ <<Newest>> \in Seq(Value \cup Nat)
  BY Sequences, SeqMonotonic
<1>3. CASE f = "last_sequence"
  BY <1>1, <1>2, <1>3, NumbersStep DEF LastSequence
<1>4. CASE f = "integrity_check"
  BY <1>1, <1>2, <1>4, ReadingBegins DEF LastSequence, Reads
<1>5. QED
  BY <1>3, <1>4

LEMMA ReadStep ==
  ASSUME ApiInv, NEW t \in Threads, NEW f \in Reads, NEW ks \in KeyArgs, Read(t, f, ks),
         f \in {"get", "exists"} => Len(ks) = 1
  PROVE  ApiInv'
<1>1. /\ Starts(t, f, ks, <<>>) /\ <<>> \in Seq(Value \cup Nat)
      /\ UNCHANGED <<dbVars, heap, res, faults>>
  BY EmptySeq DEF Read, Starts
<1>2. CASE pc' = Set(pc, t, f) /\ UNCHANGED <<status, end>> /\ ~(f \in {"get", "exists"} /\ ks[1] = Null)
  <2>1. f \in {"get", "exists"} => ks[1] \in Keys
    BY <1>2, LenOfArgs
  <2>2. f # "integrity_check" /\ f \in Reads \cup {"integrity_check"}
    BY DEF Reads
  <2>3. ks \in KeyArgs \cup {<<>>}
    OBVIOUS
  <2>4. pc' = Set(pc, t, f) /\ UNCHANGED <<status, end>>
    BY <1>2
  <2>5. QED
    BY <1>1, <2>1, <2>2, <2>3, <2>4, ReadingBegins
<1>3. CASE Returns(t, "INVALID_ARGUMENT") /\ f \in {"get", "exists"}
  <2>1. f \in FnNames /\ "INVALID_ARGUMENT" \in Statuses
    BY DEF FnNames, Reads, Statuses
  <2>2. /\ Others(t) /\ ThreadsOK' /\ Owned' /\ calls' \in 0..MaxCalls
        /\ end'[t] \in {end[t], Newest} /\ fn'[t] = f
    BY <1>1, <1>3, <2>1, Started
  <2>3. pc'[t] = "done" /\ status'[t] = "INVALID_ARGUMENT"
    BY <1>3 DEF ApiInv, Types, ThreadsOK, Returns, Set
  <2>4. Types' /\ Grown /\ durable <= durable' /\ durable' \in Nat /\ Newest' = Newest
    BY <1>1, <2>2, DbUnchanged, Counts DEF ApiInv, Types, HeapOK, CountsOK
  <2>5. Phase(t)'
    BY <2>2, <2>3, <2>4, Sequences DEF Phase, ApiInv
  <2>6. Outputs(t)' /\ Reading(t)' /\ Read_OK(t)'
    BY <2>3 DEF Outputs, Reading, Read_OK
  <2>7. Told(t)'
    <3>1. durable' = durable /\ res' = res
      BY <1>1 DEF dbVars
    <3>2. QED
      BY <1>3, <2>2, <3>1, Counts DEF Told
  <2>8. QED
    BY <1>1, <2>2, <2>4, <2>5, <2>6, <2>7, Carried
<1>4. QED
  BY <1>2, <1>3 DEF Read

-----------------------------------------------------------------------------
(* The steps inside a function                                             *)

\* A step of t between the begin and the return of a function
Inside(t) ==
    /\ pc[t] \notin {"idle", "done"}
    /\ UNCHANGED <<dbVars, fn, keys, res, begin, calls>> /\ faults' \in 0..MaxFault
OutsOK(t) ==
    /\ got' \in [Threads -> Seq(Value \cup Nat)] /\ bufs' \in [Threads -> Seq(Buffer)]
    /\ found' \in [Threads -> Seq(BOOLEAN)] /\ slots' \in [Threads -> Seq(Place)]
    /\ Len(bufs'[t]) <= MaxKeys /\ Len(found'[t]) <= MaxKeys /\ Len(slots'[t]) <= MaxKeys
    /\ \A u \in Threads \ {t} :
          /\ got'[u] = got[u] /\ bufs'[u] = bufs[u]
          /\ found'[u] = found[u] /\ slots'[u] = slots[u]

LEMMA OutsUnchanged ==
  ASSUME ApiInv, NEW t \in Threads, UNCHANGED <<got, bufs, found, slots>> PROVE OutsOK(t)
BY DEF ApiInv, Types, ThreadsOK, OutsOK

LEMMA FaultsOK ==
  ASSUME ApiInv, Fault \/ UNCHANGED faults PROVE faults' \in 0..MaxFault
BY Counts

\* What a step of t inside a function has in common with the others
LEMMA Moved ==
  ASSUME ApiInv, NEW t \in Threads, Inside(t), OutsOK(t), HeapOK',
         UNCHANGED <<pc, status, end>> \/ \E s \in Statuses : Returns(t, s)
  PROVE  /\ Others(t) /\ Types' /\ Grown /\ durable' \in Nat /\ durable <= durable'
         /\ Newest' = Newest /\ hist' = hist /\ durable' = durable /\ res' = res
         /\ fn'[t] = fn[t] /\ keys'[t] = keys[t] /\ begin'[t] = begin[t]
         /\ fn[t] = pc[t] /\ Owns(t) /\ begin[t] <= Newest /\ end'[t] <= Newest'
         /\ \A s : Returns(t, s) => pc'[t] = "done" /\ status'[t] = s /\ end'[t] = Newest
<1>1. Types /\ Phase(t) /\ Newest \in 0..MaxBatch
  BY Sequences DEF ApiInv
<1>2. DbOK' /\ Grown /\ durable <= durable' /\ durable' \in Nat /\ Newest' = Newest
  BY DbUnchanged DEF Inside
<1>3. UNCHANGED <<hist, durable, fn, keys, res, begin, calls>>
  BY DEF Inside, dbVars
<1>4. ThreadsOK
  BY <1>1 DEF Types
<1>5. ASSUME NEW s, Returns(t, s)
      PROVE  /\ pc'[t] = "done" /\ status'[t] = s /\ end'[t] = Newest
             /\ \A u \in Threads \ {t} : pc'[u] = pc[u] /\ status'[u] = status[u] /\ end'[u] = end[u]
  BY <1>4, <1>5 DEF ThreadsOK, Returns, Set
<1>6. Others(t)
  <2>1. \A u \in Threads \ {t} : pc'[u] = pc[u] /\ status'[u] = status[u] /\ end'[u] = end[u]
    BY <1>5
  <2>2. QED
    BY <1>3, <2>1 DEF OutsOK, Others, Local
<1>7. /\ pc' \in [Threads -> Steps] /\ status' \in [Threads -> Statuses]
      /\ end' \in [Threads -> 0..MaxBatch]
  <2>1. CASE UNCHANGED <<pc, status, end>>
    BY <1>4, <2>1 DEF ThreadsOK
  <2>2. ASSUME NEW s \in Statuses, Returns(t, s)
        PROVE  /\ pc' \in [Threads -> Steps] /\ status' \in [Threads -> Statuses]
               /\ end' \in [Threads -> 0..MaxBatch]
    <3>1. /\ pc' = [pc EXCEPT ![t] = "done"] /\ status' = [status EXCEPT ![t] = s]
          /\ end' = [end EXCEPT ![t] = Newest]
      BY <2>2 DEF Returns, Set
    <3>2. "done" \in Steps
      BY DEF Steps
    <3>3. QED
      BY <1>1, <1>4, <3>1, <3>2 DEF ThreadsOK
  <2>3. QED
    BY <2>1, <2>2
<1>8. \A u \in Threads :
        Len(bufs'[u]) <= MaxKeys /\ Len(found'[u]) <= MaxKeys /\ Len(slots'[u]) <= MaxKeys
  BY <1>4 DEF OutsOK, ThreadsOK
<1>9. ThreadsOK'
  BY <1>3, <1>4, <1>7, <1>8 DEF OutsOK, ThreadsOK
<1>10. CountsOK'
  BY <1>1, <1>3 DEF Types, CountsOK, Inside
<1>11. end'[t] <= Newest'
  BY <1>1, <1>2, <1>5, Sequences DEF Phase
<1>12. fn[t] = pc[t] /\ begin[t] <= Newest /\ Owns(t)
  BY <1>1 DEF Inside, Phase, Owns
<1>13. fn'[t] = fn[t] /\ keys'[t] = keys[t] /\ begin'[t] = begin[t]
  BY <1>3
<1>14. Types'
  BY <1>2, <1>9, <1>10 DEF Types
<1>15. QED
  BY <1>2, <1>3, <1>5, <1>6, <1>11, <1>12, <1>13, <1>14

\* A function returns an error, and hands out no block.
LEMMA GivesUp ==
  ASSUME ApiInv, NEW t \in Threads, Inside(t), UNCHANGED <<got, bufs, found, slots>>,
         NEW s \in Statuses \ {"OK"}, Returns(t, s), pc[t] \in Reads,
         heap' = Freed(bufs[t]) \/ (bufs[t] = <<>> /\ heap' = heap)
  PROVE  ApiInv'
<1>1. HeapOK'
  BY FreedOK DEF ApiInv, Types, HeapOK
<1>2. /\ Others(t) /\ Types' /\ Grown /\ durable' \in Nat /\ durable <= durable'
      /\ durable' = durable /\ res' = res /\ fn'[t] = pc[t] /\ Owns(t) /\ end'[t] <= Newest'
      /\ pc'[t] = "done" /\ status'[t] # "OK"
  BY <1>1, OutsUnchanged, Moved
<1>3. Owned'
  <2>1. ~Owns(t)'
    BY <1>2 DEF Owns
  <2>2. CASE heap' = Freed(bufs[t])
    BY <1>2, <2>1, <2>2, AllFreed
  <2>3. CASE bufs[t] = <<>> /\ heap' = heap
    BY <1>2, <2>1, <2>3, SameBuffers DEF ApiInv
  <2>4. QED
    BY <2>2, <2>3
<1>4. Phase(t)' /\ Outputs(t)' /\ Reading(t)' /\ Read_OK(t)'
  BY <1>2 DEF Phase, Outputs, Reading, Read_OK
<1>5. Told(t)'
  BY <1>2, Counts DEF Told, Reads
<1>6. QED
  BY <1>2, <1>3, <1>4, <1>5, Carried

LEMMA GetManyFailsStep ==
  ASSUME ApiInv, NEW t \in Threads, GetManyFails(t) PROVE ApiInv'
<1>1. PICK s \in Statuses \ {"OK"} : Returns(t, s)
  BY DEF GetManyFails, Statuses
<1>2. Inside(t) /\ pc[t] \in Reads
  BY FaultsOK DEF GetManyFails, Inside, Reads
<1>3. UNCHANGED <<got, bufs, found, slots>> /\ heap' = Freed(bufs[t])
  BY DEF GetManyFails, FreesAll
<1>4. QED
  BY <1>1, <1>2, <1>3, GivesUp

LEMMA ExistsStep ==
  ASSUME ApiInv, NEW t \in Threads, Exists(t) PROVE ApiInv'
<1>1. Inside(t) /\ pc[t] \in Reads /\ pc[t] = "exists" /\ heap' = heap
  BY FaultsOK DEF Exists, Inside, Reads
<1>2. Phase(t) /\ Types
  BY DEF ApiInv
<1>3. bufs[t] = <<>> /\ found[t] = <<>> /\ Len(keys[t]) = 1 /\ keys[t][1] \in Keys
  BY <1>1, <1>2 DEF Phase
<1>4. CASE Returns(t, "IO_ERROR") /\ UNCHANGED found
  <2>1. UNCHANGED <<got, bufs, found, slots>> /\ "IO_ERROR" \in Statuses \ {"OK"}
    BY <1>4 DEF Exists, Statuses
  <2>2. QED
    BY <1>1, <1>3, <1>4, <2>1, GivesUp
<1>5. ASSUME found' = [found EXCEPT ![t] = <<Current(t) # Absent>>], Returns(t, "OK")
      PROVE  ApiInv'
  <2>1. PICK v : v = hist[Newest + 1][keys[t][1]]
    OBVIOUS
  <2>2. PICK d \in BOOLEAN : d = (v # Absent)
    OBVIOUS
  <2>3. Current(t) = v
    <3>1. Next1(t) = 1
      BY <1>3, Len(<<>>) = 0 DEF Next1
    <3>2. QED
      BY <2>1, <3>1 DEF Current
  <2>4. found' = [found EXCEPT ![t] = <<d>>]
    <3>1. (Current(t) # Absent) = d
      BY <2>2, <2>3, Zenon
    <3>2. QED
      BY <1>5, <3>1, Zenon
  <2>5. OutsOK(t)
    <3>1. UNCHANGED <<got, bufs, slots>>
      BY DEF Exists
    <3>2. <<d>> \in Seq(BOOLEAN) /\ Len(<<d>>) <= MaxKeys
      BY CApiAssumption
    <3>3. QED
      BY <1>2, <2>4, <3>1, <3>2 DEF Types, ThreadsOK, OutsOK
  <2>6. "OK" \in Statuses /\ HeapOK'
    BY <1>1, <1>2 DEF Statuses, Types, HeapOK
  <2>7. /\ Others(t) /\ Types' /\ Grown /\ durable' \in Nat /\ durable <= durable'
        /\ hist' = hist /\ durable' = durable /\ res' = res /\ fn'[t] = "exists" /\ Owns(t)
        /\ keys'[t] = keys[t] /\ begin'[t] = begin[t] /\ begin[t] <= Newest /\ end'[t] <= Newest'
        /\ pc'[t] = "done" /\ status'[t] = "OK" /\ end'[t] = Newest
    BY <1>1, <1>5, <2>5, <2>6, Moved
  <2>8. Owned'
    <3>1. bufs'[t] = <<>>
      BY <1>3 DEF Exists
    <3>2. QED
      BY <1>1, <1>3, <2>7, <3>1, SameBuffers DEF ApiInv
  <2>9. Phase(t)' /\ Outputs(t)' /\ Reading(t)'
    BY <2>7 DEF Phase, Outputs, Reading
  <2>10. Shows(t, 1, v)'
    <3>1. found'[t][1] = d
      BY <1>2, <2>4 DEF Types, ThreadsOK
    <3>2. QED
      BY <2>2, <2>7, <3>1 DEF Shows
  <2>11. Read_OK(t)'
    <3>1. PICK at : at = [i \in 1..1 |-> Newest]
      OBVIOUS
    <3>2. at \in Moments(1, begin'[t], end'[t])
      BY <2>7, <3>1, Sequences DEF Moments, Ascending
    <3>3. \A i \in 1..1 : v = hist'[at[i] + 1][keys'[t][i]]
      BY <2>1, <2>7, <3>1
    <3>4. \A i \in 1..1 : Shows(t, i, hist[at[i] + 1][keys[t][i]])'
      BY <2>10, <3>3
    <3>5. QED
      BY <1>3, <2>7, <3>2, <3>4 DEF Read_OK
  <2>12. Told(t)'
    BY <2>7, Counts DEF Told
  <2>13. QED
    BY <1>1, <2>7, <2>8, <2>9, <2>11, <2>12, Carried
<1>6. QED
  BY <1>4, <1>5 DEF Exists

LEMMA IntegrityCheckStep ==
  ASSUME ApiInv, NEW t \in Threads, IntegrityCheck(t) PROVE ApiInv'
<1>1. /\ Inside(t) /\ pc[t] = "integrity_check" /\ heap' = heap
      /\ UNCHANGED <<got, bufs, found, slots>>
  BY FaultsOK DEF IntegrityCheck, Inside
<1>2. Phase(t) /\ Types
  BY DEF ApiInv
<1>3. PICK s \in Statuses : Returns(t, s) /\ s = IF Inconsistent(got[t][1]) THEN "INTERNAL_ERROR" ELSE "OK"
  BY DEF IntegrityCheck, Statuses
<1>4. HeapOK' /\ OutsOK(t)
  BY <1>1, <1>2, OutsUnchanged DEF Types, HeapOK
<1>5. /\ Others(t) /\ Types' /\ Grown /\ durable' \in Nat /\ durable <= durable'
      /\ durable' = durable /\ res' = res /\ fn'[t] = "integrity_check"
      /\ begin'[t] = begin[t] /\ end'[t] <= Newest'
      /\ pc'[t] = "done" /\ status'[t] = s /\ end'[t] = Newest
  BY <1>1, <1>3, <1>4, Moved
<1>6. Owned'
  <2>1. bufs[t] = <<>> /\ bufs'[t] = <<>>
    BY <1>1, <1>2 DEF Phase
  <2>2. QED
    BY <1>1, <1>5, <2>1, SameBuffers DEF ApiInv
<1>7. Phase(t)' /\ Outputs(t)' /\ Reading(t)' /\ Read_OK(t)'
  BY <1>5 DEF Phase, Outputs, Reading, Read_OK, Reads
<1>8. s # "OK" => begin[t] < Newest
  <2>1. SUFFICES ASSUME s # "OK" PROVE begin[t] < Newest
    OBVIOUS
  <2>2. durable > got[t][1]
    BY <1>3, <2>1 DEF Inconsistent
  <2>3. got[t][1] \in begin[t]..Newest
    BY <1>1, <1>2 DEF Phase
  <2>4. QED
    BY <2>2, <2>3, Sequences
<1>9. Told(t)'
  BY <1>5, <1>8, Counts DEF Told
<1>10. QED
  BY <1>1, <1>5, <1>6, <1>7, <1>9, Carried

\* A read goes on to moment e of the database.
LEMMA Extended ==
  ASSUME NEW n \in Nat, NEW b \in Nat, NEW e \in Nat, b <= e, NEW at \in Moments(n, b, e)
  PROVE  \E ex \in Moments(n + 1, b, e) : ex[n + 1] = e /\ \A i \in 1..n : ex[i] = at[i]
<1>1. PICK ex : ex = [i \in 1..(n + 1) |-> IF i = n + 1 THEN e ELSE at[i]]
  OBVIOUS
<1>2. at \in [1..n -> b..e] /\ Ascending(at)
  BY DEF Moments
<1>3. ex \in [1..(n + 1) -> b..e] /\ ex[n + 1] = e /\ \A i \in 1..n : ex[i] = at[i]
  BY <1>1, <1>2
<1>4. Ascending(ex)
  <2>1. SUFFICES ASSUME NEW i \in 1..(n + 1), NEW j \in 1..(n + 1), i < j PROVE ex[i] <= ex[j]
    BY <1>3 DEF Ascending
  <2>2. i \in 1..n /\ ex[i] = at[i] /\ at[i] \in b..e
    BY <1>2, <1>3, <2>1
  <2>3. CASE j = n + 1
    BY <1>3, <2>2, <2>3
  <2>4. CASE j # n + 1
    <3>1. j \in 1..n /\ ex[j] = at[j] /\ at[j] \in b..e
      BY <1>2, <1>3, <2>4
    <3>2. at[i] <= at[j]
      BY <1>2, <2>1, <2>2, <3>1 DEF Ascending
    <3>3. QED
      BY <2>2, <3>1, <3>2
  <2>5. QED
    BY <2>3, <2>4
<1>5. QED
  BY <1>3, <1>4 DEF Moments

\* The slot that get, or a turn of get_many, adds
LEMMA SlotIs ==
  ASSUME ApiInv, NEW t \in Threads, NEW v \in Value, Slot(t, v),
         fn[t] \in {"get", "get_many"}, fn' = fn, UNCHANGED <<got, slots>>,
         NEW n \in Nat, n = Len(found[t]), n = Len(bufs[t]), n + 1 <= MaxKeys
  PROVE  /\ OutsOK(t) /\ HeapOK'
         /\ Len(bufs'[t]) = n + 1 /\ Len(found'[t]) = n + 1
         /\ heap' = heap \/ \E bytes : heap' = Allocated(bytes)
         /\ Others(t) /\ Owns(t) /\ Owns(t)' => Owned'
         /\ Shows(t, n + 1, v)'
         /\ \A i \in 1..n : \A x : Owns(t) /\ Shows(t, i, x) => Shows(t, i, x)'
<1>1. Types
  BY DEF ApiInv
<1>2. bufs[t] \in Seq(Buffer) /\ found[t] \in Seq(BOOLEAN)
  BY <1>1 DEF Types, ThreadsOK
<1>3. DOMAIN bufs[t] = 1..n
  BY <1>2, LenProperties
<1>4. PICK d \in BOOLEAN : d = (v # Absent)
  OBVIOUS
<1>5. PICK fs : fs = Append(found[t], d)
  OBVIOUS
<1>6. found' = [found EXCEPT ![t] = fs]
  <2>1. found' = [found EXCEPT ![t] = Append(found[t], v # Absent)]
    BY DEF Slot
  <2>2. (v # Absent) = d
    BY <1>4, Zenon
  <2>3. QED
    BY ONLY <1>5, <2>1, <2>2, Zenon
<1>7. /\ fs \in Seq(BOOLEAN) /\ Len(fs) = n + 1 /\ fs[n + 1] = d
      /\ \A i \in 1..n : fs[i] = found[t][i]
  <2>1. PICK T, s : T = BOOLEAN /\ s = found[t] /\ s \in Seq(T) /\ d \in T /\ n = Len(s)
    BY <1>2
  <2>2. fs = Append(s, d)
    BY <1>5, <2>1, Zenon
  <2>3. /\ fs \in Seq(T) /\ Len(fs) = n + 1 /\ fs[n + 1] = d
        /\ \A i \in 1..n : fs[i] = s[i]
    BY ONLY <2>1, <2>2, AppendIs
  <2>4. QED
    BY <2>1, <2>3, Zenon
<1>8. PICK w : w = Bytes(v)
  OBVIOUS
<1>9. v.size \in Nat /\ w \in Seq(Value \X Nat) /\ Len(w) = v.size
  BY <1>8, BytesAre, ValueSize
<1>10. NewBlock \in Nat \ {0} /\ NewBlock \notin DOMAIN heap
  BY Blocks, NewBlockIsFree
<1>11. PICK z \in Buffer :
          /\ bufs' = [bufs EXCEPT ![t] = Append(bufs[t], z)]
          /\ \/ v.size > 0 /\ heap' = Allocated(w) /\ z.data = NewBlock /\ z.size = v.size
             \/ v.size = 0 /\ heap' = heap /\ z.data = 0
  <2>1. CASE v.size > 0
    <3>1. [data |-> NewBlock, size |-> v.size] \in Buffer
      BY <1>9, <1>10 DEF Buffer
    <3>2. QED
      BY <1>8, <2>1, <3>1 DEF Slot
  <2>2. CASE v.size = 0
    <3>1. NullBuffer \in Buffer /\ NullBuffer.data = 0
      BY DEF Buffer, NullBuffer
    <3>2. bufs' = [bufs EXCEPT ![t] = Append(bufs[t], NullBuffer)] /\ heap' = heap
      BY <2>2 DEF Slot
    <3>3. QED
      BY <2>2, <3>1, <3>2
  <2>3. QED
    BY <1>9, <2>1, <2>2
<1>12. PICK bs : bs = Append(bufs[t], z)
  OBVIOUS
<1>13. /\ bs \in Seq(Buffer) /\ Len(bs) = n + 1 /\ bs[n + 1] = z
       /\ \A i \in 1..n : bs[i] = bufs[t][i]
  BY <1>2, <1>3, <1>12, AppendIs
<1>14. bufs' = [bufs EXCEPT ![t] = bs] /\ bufs'[t] = bs /\ found'[t] = fs /\ fn'[t] = fn[t]
  BY <1>1, <1>6, <1>11, <1>12 DEF Types, ThreadsOK
<1>15. OutsOK(t)
  <2>1. Len(fs) <= MaxKeys /\ Len(bs) <= MaxKeys /\ Len(slots[t]) <= MaxKeys
    BY <1>1, <1>3, <1>7, <1>13 DEF Types, ThreadsOK
  <2>2. found' \in [Threads -> Seq(BOOLEAN)] /\ \A u \in Threads \ {t} : found'[u] = found[u]
    BY <1>1, <1>6, <1>7 DEF Types, ThreadsOK
  <2>3. bufs' \in [Threads -> Seq(Buffer)] /\ \A u \in Threads \ {t} : bufs'[u] = bufs[u]
    BY <1>1, <1>13, <1>14 DEF Types, ThreadsOK
  <2>4. /\ got' \in [Threads -> Seq(Value \cup Nat)] /\ got' = got
        /\ slots' \in [Threads -> Seq(Place)] /\ slots' = slots
    BY <1>1 DEF Types, ThreadsOK
  <2>5. QED
    BY <1>14, <2>1, <2>2, <2>3, <2>4 DEF OutsOK
<1>16. HeapOK'
  <2>1. CASE heap' = heap
    BY <1>1, <2>1 DEF Types, HeapOK
  <2>2. CASE v.size > 0 /\ heap' = Allocated(w)
    <3>1. w # <<>>
      <4>1. SUFFICES ASSUME w = <<>> PROVE FALSE
        OBVIOUS
      <4>2. Len(w) = 0
        BY <4>1
      <4>3. QED
        BY <1>9, <2>2, <4>2
    <3>2. QED
      BY <1>9, <2>2, <3>1, AllocatedOK
  <2>3. QED
    BY <1>11, <2>1, <2>2
<1>17. heap' = heap \/ \E bytes : heap' = Allocated(bytes)
  BY <1>11
<1>18. ASSUME Others(t), Owns(t), Owns(t)' PROVE Owned'
  <2>1. bufs'[t] = Append(bufs[t], z) /\ Len(bufs[t]) + 1 <= MaxKeys
    BY <1>12, <1>14
  <2>2. CASE heap' = heap /\ z.data = 0
    BY <1>18, <2>1, <2>2, OneMore
  <2>3. CASE heap' = Allocated(w) /\ z.data = NewBlock /\ Len(w) = z.size
    BY <1>18, <2>1, <2>3, OneMore
  <2>4. QED
    BY <1>9, <1>11, <2>2, <2>3
<1>19. Shows(t, n + 1, v)'
  <2>1. found'[t][n + 1] = d /\ bufs'[t][n + 1] = z /\ fn'[t] \notin {"exists", "get_many_packed"}
    BY <1>7, <1>13, <1>14
  <2>2. BytesAt(t, n + 1)' = w
    <3>1. CASE heap' = Allocated(w) /\ z.data = NewBlock
      <4>1. heap'[z.data] = w /\ z.data # 0
        BY <1>10, <3>1 DEF Allocated
      <4>2. QED
        BY <2>1, <4>1 DEF BytesAt
    <3>2. CASE v.size = 0 /\ z.data = 0
      <4>1. w = <<>>
        BY <1>9, <3>2, EmptySeq
      <4>2. QED
        BY <2>1, <3>2, <4>1 DEF BytesAt
    <3>3. QED
      BY <1>11, <3>1, <3>2
  <2>3. QED
    BY <1>4, <1>8, <2>1, <2>2 DEF Shows
<1>20. ASSUME NEW i \in 1..n, NEW x, Owns(t), Shows(t, i, x) PROVE Shows(t, i, x)'
  <2>1. /\ found'[t][i] = found[t][i] /\ bufs'[t][i] = bufs[t][i] /\ i \in DOMAIN bufs[t]
        /\ fn'[t] = fn[t] /\ fn[t] # "get_many_packed"
    BY <1>3, <1>7, <1>13, <1>14
  <2>2. bufs[t][i].data # 0 => heap'[bufs[t][i].data] = heap[bufs[t][i].data]
    <3>1. Kept(t)
      BY <1>17, KeptSame, KeptAllocated
    <3>2. QED
      BY <1>20, <2>1, <3>1 DEF Kept
  <2>3. BytesAt(t, i)' = BytesAt(t, i)
    BY <2>1, <2>2 DEF BytesAt
  <2>4. QED
    BY <1>20, <2>1, <2>3 DEF Shows
<1>21. QED
  BY <1>3, <1>7, <1>13, <1>14, <1>15, <1>16, <1>17, <1>18, <1>19, <1>20

LEMMA GetStep ==
  ASSUME ApiInv, NEW t \in Threads, Get(t) PROVE ApiInv'
<1>1. Inside(t) /\ pc[t] \in Reads /\ pc[t] = "get" /\ UNCHANGED <<got, slots, fn>>
  BY FaultsOK DEF Get, Inside, Reads
<1>2. Phase(t) /\ Types
  BY DEF ApiInv
<1>3. bufs[t] = <<>> /\ found[t] = <<>> /\ Len(keys[t]) = 1 /\ keys[t][1] \in Keys /\ fn[t] = "get"
  BY <1>1, <1>2 DEF Phase
<1>4. ASSUME NEW s \in {"NOT_FOUND", "IO_ERROR", "INTERNAL_ERROR"}, Returns(t, s),
             UNCHANGED <<heap, bufs, found>>
      PROVE  ApiInv'
  <2>1. UNCHANGED <<got, bufs, found, slots>> /\ s \in Statuses \ {"OK"}
    BY <1>1, <1>4 DEF Statuses
  <2>2. QED
    BY <1>1, <1>3, <1>4, <2>1, GivesUp
<1>5. ASSUME Slot(t, Current(t)), Returns(t, "OK")
      PROVE  ApiInv'
  <2>1. PICK v : v = hist[Newest + 1][keys[t][1]]
    OBVIOUS
  <2>2. v \in Value
    BY <1>3, <2>1, Sequences
  <2>3. Slot(t, v)
    <3>1. Next1(t) = 1
      BY <1>3, Len(<<>>) = 0 DEF Next1
    <3>2. Current(t) = v
      BY <2>1, <3>1 DEF Current
    <3>3. QED
      BY <1>5, <3>2
  <2>4. 0 = Len(found[t]) /\ 0 = Len(bufs[t]) /\ 0 \in Nat /\ 0 + 1 <= MaxKeys
    BY <1>3, CApiAssumption, Len(<<>>) = 0
  <2>5. /\ OutsOK(t) /\ HeapOK' /\ Len(bufs'[t]) = 0 + 1
        /\ heap' = heap \/ \E bytes : heap' = Allocated(bytes)
        /\ Others(t) /\ Owns(t) /\ Owns(t)' => Owned'
        /\ Shows(t, 0 + 1, v)'
    BY <1>1, <1>3, <2>2, <2>3, <2>4, SlotIs
  <2>6. "OK" \in Statuses
    BY DEF Statuses
  <2>7. /\ Others(t) /\ Types' /\ Grown /\ durable' \in Nat /\ durable <= durable'
        /\ hist' = hist /\ durable' = durable /\ res' = res /\ fn'[t] = "get" /\ Owns(t)
        /\ keys'[t] = keys[t] /\ begin'[t] = begin[t] /\ begin[t] <= Newest /\ end'[t] <= Newest'
        /\ pc'[t] = "done" /\ status'[t] = "OK" /\ end'[t] = Newest
    BY <1>1, <1>3, <1>5, <2>5, <2>6, Moved
  <2>8. Owned'
    <3>1. Owns(t)'
      BY <2>7 DEF Owns
    <3>2. QED
      BY <2>5, <2>7, <3>1
  <2>9. Phase(t)' /\ Outputs(t)' /\ Reading(t)'
    BY <1>3, <2>5, <2>7 DEF Phase, Outputs, Reading
  <2>11. Read_OK(t)'
    <3>1. PICK at : at = [i \in 1..1 |-> Newest]
      OBVIOUS
    <3>2. at \in Moments(1, begin'[t], end'[t])
      BY <2>7, <3>1, Sequences DEF Moments, Ascending
    <3>3. \A i \in 1..1 : v = hist'[at[i] + 1][keys'[t][i]]
      BY <2>1, <2>7, <3>1
    <3>4. \A i \in 1..1 : Shows(t, i, hist[at[i] + 1][keys[t][i]])'
      BY <2>5, <3>3
    <3>5. QED
      BY <1>3, <2>7, <3>2, <3>4 DEF Read_OK
  <2>12. Told(t)'
    BY <2>7, Counts DEF Told
  <2>13. QED
    BY <2>5, <2>7, <2>8, <2>9, <2>11, <2>12, Carried
<1>6. QED
  BY <1>4, <1>5 DEF Get

LEMMA GetManyKeyStep ==
  ASSUME ApiInv, NEW t \in Threads, GetManyKey(t) PROVE ApiInv'
<1>1. /\ Inside(t) /\ pc[t] = "get_many" /\ UNCHANGED <<got, slots, fn, pc, status, end>>
      /\ More(t) /\ keys[t][Next1(t)] # Null /\ Slot(t, Current(t))
  BY FaultsOK DEF GetManyKey, Inside
<1>2. Phase(t) /\ Types /\ Reading(t)
  BY DEF ApiInv
<1>3. PICK n \in Nat : n = Len(found[t])
  BY <1>2, LenProperties DEF Types, ThreadsOK
<1>4. PICK ks \in KeyArgs : ks = keys[t] /\ n + 1 <= Len(ks) /\ Len(ks) \in 1..MaxKeys
  BY <1>1, <1>2, <1>3, LenOfArgs DEF Phase, More, Next1
<1>5. PICK b \in Nat : b = begin[t] /\ b <= Newest /\ fn[t] = "get_many" /\ n = Len(bufs[t])
  BY <1>1, <1>2, <1>3, Sequences DEF Phase
<1>6. PICK v : v = hist[Newest + 1][ks[n + 1]]
  OBVIOUS
<1>7. v \in Value /\ Slot(t, v)
  <2>1. Next1(t) = n + 1 /\ Current(t) = v
    BY <1>3, <1>4, <1>6 DEF Next1, Current
  <2>2. ks[n + 1] \in Keys
    BY <1>1, <1>3, <1>4, <2>1, LenOfArgs
  <2>3. QED
    BY <1>1, <1>6, <2>1, <2>2, Sequences
<1>8. n + 1 <= MaxKeys
  BY <1>4, CApiAssumption
<1>9. /\ OutsOK(t) /\ HeapOK' /\ Len(bufs'[t]) = n + 1 /\ Len(found'[t]) = n + 1
      /\ heap' = heap \/ \E bytes : heap' = Allocated(bytes)
      /\ Others(t) /\ Owns(t) /\ Owns(t)' => Owned'
      /\ Shows(t, n + 1, v)'
      /\ \A i \in 1..n : \A x : Owns(t) /\ Shows(t, i, x) => Shows(t, i, x)'
  <2>1. fn[t] \in {"get", "get_many"} /\ fn' = fn /\ UNCHANGED <<got, slots>>
    BY <1>1, <1>5
  <2>2. QED
    BY <1>3, <1>5, <1>7, <1>8, <2>1, SlotIs
<1>10. /\ Others(t) /\ Types' /\ Grown /\ durable' \in Nat /\ durable <= durable'
       /\ Newest' = Newest /\ hist' = hist /\ durable' = durable /\ res' = res
       /\ fn'[t] = "get_many" /\ Owns(t) /\ keys'[t] = ks /\ begin'[t] = b
       /\ end'[t] <= Newest'
  BY <1>1, <1>4, <1>5, <1>9, Moved
<1>11. pc'[t] = "get_many" /\ Owns(t)'
  BY <1>1 DEF Owns
<1>12. Owned'
  BY <1>9, <1>10, <1>11
<1>13. Phase(t)' /\ Outputs(t)' /\ Read_OK(t)'
  BY <1>4, <1>5, <1>9, <1>10, <1>11 DEF Phase, Outputs, Read_OK
<1>14. Reading(t)'
  <2>1. PICK at \in Moments(n, b, Newest) :
            \A i \in 1..n : Shows(t, i, hist[at[i] + 1][ks[i]])
    BY <1>1, <1>2, <1>3, <1>4, <1>5 DEF Reading
  <2>2. PICK ex \in Moments(n + 1, b, Newest) :
            ex[n + 1] = Newest /\ \A i \in 1..n : ex[i] = at[i]
    <3>1. n \in Nat /\ b \in Nat /\ Newest \in Nat /\ b <= Newest
      BY <1>5, Sequences
    <3>2. at \in Moments(n, b, Newest)
      BY <2>1, Zenon
    <3>3. QED
      BY ONLY <3>1, <3>2, Extended, Zenon
  <2>3. ASSUME NEW i \in 1..(n + 1) PROVE Shows(t, i, hist[ex[i] + 1][keys[t][i]])'
    <3>1. PICK x : x = hist[ex[i] + 1][ks[i]]
      OBVIOUS
    <3>2. x = (hist[ex[i] + 1][keys[t][i]])'
      BY <1>10, <3>1
    <3>3. Shows(t, i, x)'
      <4>1. CASE i = n + 1
        BY <1>6, <1>9, <2>2, <3>1, <4>1
      <4>2. CASE i # n + 1
        <5>1. i \in 1..n
          BY <4>2
        <5>2. Shows(t, i, x)
          BY <2>1, <2>2, <3>1, <5>1
        <5>3. QED
          BY <1>9, <1>10, <5>1, <5>2
      <4>3. QED
        BY <4>1, <4>2
    <3>4. QED
      BY <3>2, <3>3
  <2>4. ex \in Moments(Len(found'[t]), begin'[t], Newest')
    BY <1>9, <1>10, <2>2
  <2>5. QED
    BY <1>9, <1>11, <2>3, <2>4 DEF Reading
<1>15. Told(t)'
  BY <1>10, <1>11, Counts DEF Told
<1>16. QED
  BY <1>9, <1>10, <1>12, <1>13, <1>14, <1>15, Carried

LEMMA GetManyReturnsStep ==
  ASSUME ApiInv, NEW t \in Threads, GetManyReturns(t) PROVE ApiInv'
<1>1. /\ Inside(t) /\ pc[t] = "get_many" /\ UNCHANGED <<heap, got, bufs, found, slots, fn>>
      /\ ~More(t) /\ Returns(t, "OK")
  BY FaultsOK DEF GetManyReturns, Inside
<1>2. Phase(t) /\ Types /\ Reading(t)
  BY DEF ApiInv
<1>3. PICK n \in Nat : n = Len(found[t])
  BY <1>2, LenProperties DEF Types, ThreadsOK
<1>4. PICK ks \in KeyArgs : ks = keys[t] /\ n = Len(ks)
  BY <1>1, <1>2, <1>3, LenOfArgs DEF Phase, More, Next1
<1>5. PICK b \in Nat : b = begin[t] /\ b <= Newest /\ fn[t] = "get_many" /\ n = Len(bufs[t])
  BY <1>1, <1>2, <1>3, Sequences DEF Phase
<1>6. HeapOK' /\ OutsOK(t) /\ "OK" \in Statuses
  BY <1>1, <1>2, OutsUnchanged DEF Types, HeapOK, Statuses
<1>7. /\ Others(t) /\ Types' /\ Grown /\ durable' \in Nat /\ durable <= durable'
      /\ Newest' = Newest /\ hist' = hist /\ durable' = durable /\ res' = res
      /\ fn'[t] = "get_many" /\ Owns(t) /\ keys'[t] = ks /\ begin'[t] = b /\ end'[t] <= Newest'
      /\ pc'[t] = "done" /\ status'[t] = "OK" /\ end'[t] = Newest
  BY <1>1, <1>4, <1>5, <1>6, Moved
<1>8. Owned'
  <2>1. Owns(t)' /\ bufs'[t] = bufs[t]
    BY <1>1, <1>7 DEF Owns
  <2>2. QED
    BY <1>1, <1>7, <2>1, SameBuffers DEF ApiInv
<1>9. Phase(t)' /\ Outputs(t)' /\ Reading(t)'
  BY <1>1, <1>4, <1>5, <1>7 DEF Phase, Outputs, Reading
<1>10. Read_OK(t)'
  <2>1. PICK at \in Moments(n, b, Newest) :
            \A i \in 1..n : Shows(t, i, hist[at[i] + 1][ks[i]])
    BY <1>1, <1>2, <1>3, <1>4, <1>5 DEF Reading
  <2>2. ASSUME NEW i \in 1..n PROVE Shows(t, i, hist[at[i] + 1][keys[t][i]])'
    <3>1. PICK x : x = hist[at[i] + 1][ks[i]]
      OBVIOUS
    <3>2. x = (hist[at[i] + 1][keys[t][i]])'
      BY <1>7, <3>1
    <3>3. Shows(t, i, x) /\ UNCHANGED Shown(t) /\ Kept(t)
      BY <1>1, <2>1, <3>1, KeptSame DEF Shown
    <3>4. i \in DOMAIN bufs[t] /\ fn[t] \in Reads /\ fn[t] # "get_many_packed"
      <4>1. bufs[t] \in Seq(Buffer)
        BY <1>2 DEF Types, ThreadsOK
      <4>2. QED
        BY <1>5, <4>1, LenProperties DEF Reads
    <3>5. Shows(t, i, x)'
      BY <1>7, <3>3, <3>4, ShowsKept
    <3>6. QED
      BY <3>2, <3>5
  <2>3. QED
    BY <1>4, <1>7, <2>1, <2>2 DEF Read_OK
<1>11. Told(t)'
  BY <1>7, Counts DEF Told
<1>12. QED
  BY <1>1, <1>7, <1>8, <1>9, <1>10, <1>11, Carried

LEMMA PackedKeyStep ==
  ASSUME ApiInv, NEW t \in Threads, PackedKey(t) PROVE ApiInv'
<1>1. /\ Inside(t) /\ pc[t] \in Reads /\ pc[t] = "get_many_packed"
      /\ UNCHANGED <<heap, bufs, found, slots, fn>> /\ Len(got[t]) < Len(keys[t])
  BY FaultsOK DEF PackedKey, Inside, Reads
<1>2. Phase(t) /\ Types /\ Reading(t)
  BY DEF ApiInv
<1>3. PICK vs \in Seq(Value), n \in Nat : vs = got[t] /\ n = Len(vs)
  BY <1>1, <1>2, LenProperties DEF Phase
<1>4. PICK ks \in KeyArgs : ks = keys[t] /\ n + 1 <= Len(ks) /\ Len(ks) \in 1..MaxKeys
  BY <1>1, <1>2, <1>3, LenOfArgs DEF Phase
<1>5. PICK b \in Nat : b = begin[t] /\ b <= Newest /\ fn[t] = "get_many_packed" /\ bufs[t] = <<>>
  BY <1>1, <1>2, <1>3, Sequences DEF Phase
<1>6. ASSUME NEW s \in {"INVALID_ARGUMENT", "IO_ERROR"}, Returns(t, s), UNCHANGED got
      PROVE  ApiInv'
  <2>1. UNCHANGED <<got, bufs, found, slots>> /\ s \in Statuses \ {"OK"}
    BY <1>1, <1>6 DEF Statuses
  <2>2. heap' = heap
    BY <1>1
  <2>3. QED
    BY <1>1, <1>5, <1>6, <2>1, <2>2, GivesUp
<1>7. ASSUME ks[n + 1] # Null, got' = [got EXCEPT ![t] = Append(vs, hist[Newest + 1][ks[n + 1]])],
             UNCHANGED <<pc, status, end>>
      PROVE  ApiInv'
  <2>1. PICK v : v = hist[Newest + 1][ks[n + 1]]
    OBVIOUS
  <2>2. v \in Value
    <3>1. ks[n + 1] \in Keys
      BY <1>4, <1>7, LenOfArgs
    <3>2. QED
      BY <2>1, <3>1, Sequences
  <2>3. PICK ws : ws = Append(vs, v)
    OBVIOUS
  <2>4. /\ ws \in Seq(Value) /\ Len(ws) = n + 1 /\ ws[n + 1] = v
        /\ \A i \in 1..n : ws[i] = vs[i]
    BY <1>3, <2>2, <2>3, AppendIs
  <2>5. got' = [got EXCEPT ![t] = ws] /\ got'[t] = ws
    BY <1>2, <1>7, <2>1, <2>3 DEF Types, ThreadsOK
  <2>6. OutsOK(t)
    <3>1. ws \in Seq(Value \cup Nat)
      BY <2>4, SeqMonotonic
    <3>2. QED
      BY <1>1, <1>2, <2>5, <3>1 DEF Types, ThreadsOK, OutsOK
  <2>7. HeapOK'
    BY <1>1, <1>2 DEF Types, HeapOK
  <2>8. /\ Others(t) /\ Types' /\ Grown /\ durable' \in Nat /\ durable <= durable'
        /\ Newest' = Newest /\ hist' = hist /\ durable' = durable /\ res' = res
        /\ fn'[t] = "get_many_packed" /\ Owns(t) /\ keys'[t] = ks /\ begin'[t] = b
        /\ end'[t] <= Newest'
    BY <1>1, <1>4, <1>5, <1>7, <2>6, <2>7, Moved
  <2>9. pc'[t] = "get_many_packed" /\ bufs'[t] = <<>>
    BY <1>1, <1>5, <1>7
  <2>10. Owned'
    BY <1>1, <1>5, <2>8, <2>9, SameBuffers DEF ApiInv
  <2>11. Phase(t)' /\ Outputs(t)' /\ Read_OK(t)'
    BY <1>4, <1>5, <2>4, <2>5, <2>8, <2>9 DEF Phase, Outputs, Read_OK
  <2>12. Reading(t)'
    <3>1. PICK at \in Moments(n, b, Newest) :
              \A i \in 1..n : vs[i] = hist[at[i] + 1][ks[i]]
      BY <1>1, <1>2, <1>3, <1>4, <1>5 DEF Reading
    <3>2. PICK ex \in Moments(n + 1, b, Newest) :
              ex[n + 1] = Newest /\ \A i \in 1..n : ex[i] = at[i]
      <4>1. n \in Nat /\ b \in Nat /\ Newest \in Nat /\ b <= Newest
        BY <1>5, Sequences
      <4>2. at \in Moments(n, b, Newest)
        BY <3>1, Zenon
      <4>3. QED
        BY ONLY <4>1, <4>2, Extended, Zenon
    <3>3. \A i \in 1..(n + 1) : ws[i] = hist[ex[i] + 1][ks[i]]
      <4>1. SUFFICES ASSUME NEW i \in 1..(n + 1) PROVE ws[i] = hist[ex[i] + 1][ks[i]]
        OBVIOUS
      <4>2. CASE i = n + 1
        BY <2>1, <2>4, <3>2, <4>2
      <4>3. CASE i # n + 1
        <5>1. i \in 1..n
          BY <4>3
        <5>2. QED
          BY <2>4, <3>1, <3>2, <5>1
      <4>4. QED
        BY <4>2, <4>3
    <3>4. QED
      BY <2>4, <2>5, <2>8, <2>9, <3>2, <3>3 DEF Reading
  <2>13. Told(t)'
    BY <2>8, <2>9, Counts DEF Told
  <2>14. QED
    BY <1>1, <2>8, <2>10, <2>11, <2>12, <2>13, Carried
<1>8. QED
  BY <1>3, <1>4, <1>6, <1>7 DEF PackedKey

\* What Pack hands out of the values vs, in buffer z
LEMMA Packed ==
  ASSUME ApiInv, NEW t \in Threads, NEW vs \in Seq(Value), NEW n \in 1..MaxKeys, n = Len(vs),
         NEW z \in Buffer, fn'[t] = "get_many_packed", bufs[t] = <<>>,
         bufs' = Set(bufs, t, <<z>>), UNCHANGED got,
         found' = Set(found, t, [i \in DOMAIN vs |-> vs[i] # Absent]),
         slots' = Set(slots, t, [i \in DOMAIN vs |->
                      IF vs[i] = Absent THEN [off |-> 0, size |-> 0]
                      ELSE [off |-> Cursor(vs, i), size |-> vs[i].size]]),
         \/ /\ TotalSize(vs) > 0 /\ heap' = Allocated(Arenas(vs)[Len(vs)])
            /\ z = [data |-> NewBlock, size |-> TotalSize(vs)]
         \/ TotalSize(vs) = 0 /\ heap' = heap /\ z = NullBuffer
  PROVE  /\ OutsOK(t) /\ HeapOK' /\ Len(bufs'[t]) = 1 /\ Len(slots'[t]) = n
         /\ heap' = heap \/ \E bytes : heap' = Allocated(bytes)
         /\ bufs'[t][1].data = 0 => \A i \in DOMAIN slots'[t] : slots'[t][i].size = 0
         /\ Others(t) /\ Owns(t) /\ Owns(t)' => Owned'
         /\ \A i \in 1..n : Shows(t, i, vs[i])'
<1>1. Types
  BY DEF ApiInv
<1>2. n \in Nat /\ n <= MaxKeys /\ DOMAIN vs = 1..n /\ \A i \in 1..n : vs[i] \in Value /\ vs[i].size \in Nat
  BY CApiAssumption, LenProperties, ElementOfSeq, ValueSize
<1>3. PICK c, arena : c = Cursors(vs) /\ arena = Arenas(vs)[n]
  OBVIOUS
<1>4. c \in [0..n -> Nat]
  BY <1>3, CursorsAre
<1>5. PICK total \in Nat : total = c[n] /\ total = TotalSize(vs)
  <2>1. n \in 0..n
    BY <1>2
  <2>2. c[n] \in Nat /\ c[n] = TotalSize(vs)
    BY <1>3, <1>4, <2>1 DEF TotalSize
  <2>3. QED
    BY <2>2
<1>6. /\ arena \in Seq(Value \X Nat) /\ Len(arena) = total /\ DOMAIN arena = 1..total
      /\ \A j \in 1..n : /\ c[j - 1] + vs[j].size <= total
                         /\ \A d \in 1..vs[j].size : arena[c[j - 1] + d] = <<vs[j], d>>
  <2>1. Filled(arena, c, vs, n)
    BY <1>3, ArenaIs
  <2>2. QED
    BY <1>5, <2>1, LenProperties DEF Filled
<1>7. PICK fs \in Seq(BOOLEAN) : /\ found' = [found EXCEPT ![t] = fs] /\ Len(fs) = n
                                /\ \A i \in 1..n : fs[i] = (vs[i] # Absent)
  <2>1. PICK fs : fs = [i \in 1..n |-> vs[i] # Absent]
    OBVIOUS
  <2>2. fs \in [1..n -> BOOLEAN]
    BY <2>1
  <2>3. fs \in Seq(BOOLEAN) /\ Len(fs) = n
    BY <1>2, <2>2, TuplesAre
  <2>4. found' = [found EXCEPT ![t] = fs]
    BY <1>2, <2>1 DEF Set
  <2>5. \A i \in 1..n : fs[i] = (vs[i] # Absent)
    BY <2>1, Zenon
  <2>6. QED
    BY <2>3, <2>4, <2>5
<1>8. PICK ss \in Seq(Place) :
          /\ slots' = [slots EXCEPT ![t] = ss] /\ Len(ss) = n /\ DOMAIN ss = 1..n
          /\ \A i \in 1..n : vs[i] # Absent => ss[i].off = c[i - 1] /\ ss[i].size = vs[i].size
          /\ \A i \in 1..n : ss[i].size \in {0, vs[i].size}
  <2>1. PICK ss : ss = [i \in 1..n |-> IF vs[i] = Absent THEN [off |-> 0, size |-> 0]
                                       ELSE [off |-> c[i - 1], size |-> vs[i].size]]
    OBVIOUS
  <2>2. \A i \in 1..n : c[i - 1] \in Nat
    <3>1. \A i \in 1..n : i - 1 \in 0..n
      BY <1>2
    <3>2. QED
      BY <1>4, <3>1
  <2>3. ss \in [1..n -> Place]
    BY <1>2, <2>1, <2>2 DEF Place
  <2>4. ss \in Seq(Place) /\ Len(ss) = n /\ DOMAIN ss = 1..n
    BY <1>2, <2>3, TuplesAre
  <2>5. slots' = [slots EXCEPT ![t] = ss]
    BY <1>2, <1>3, <2>1 DEF Set, Cursor
  <2>6. QED
    BY <2>1, <2>4, <2>5
<1>9. bufs' = [bufs EXCEPT ![t] = <<z>>] /\ <<z>> \in Seq(Buffer) /\ Len(<<z>>) = 1
  BY DEF Set
<1>10. found'[t] = fs /\ slots'[t] = ss /\ bufs'[t] = <<z>> /\ bufs'[t][1] = z
  <2>1. t \in DOMAIN found /\ t \in DOMAIN slots /\ t \in DOMAIN bufs
    BY <1>1 DEF Types, ThreadsOK
  <2>2. found'[t] = fs
    BY ONLY <2>1, <1>7, Zenon
  <2>3. slots'[t] = ss
    BY ONLY <2>1, <1>8, Zenon
  <2>4. bufs'[t] = <<z>>
    BY ONLY <2>1, <1>9, Zenon
  <2>5. <<z>>[1] = z
    BY ONLY SMT
  <2>6. QED
    BY ONLY <2>2, <2>3, <2>4, <2>5, Zenon
<1>11. NewBlock \in Nat \ {0} /\ NewBlock \notin DOMAIN heap
  BY Blocks, NewBlockIsFree
<1>12. \/ total > 0 /\ heap' = Allocated(arena) /\ z.data = NewBlock /\ z.size = total
       \/ total = 0 /\ heap' = heap /\ z.data = 0
  BY <1>3, <1>5 DEF NullBuffer
<1>13. OutsOK(t)
  <2>1. found' \in [Threads -> Seq(BOOLEAN)] /\ \A u \in Threads \ {t} : found'[u] = found[u]
    BY <1>1, <1>7 DEF Types, ThreadsOK
  <2>2. slots' \in [Threads -> Seq(Place)] /\ \A u \in Threads \ {t} : slots'[u] = slots[u]
    BY <1>1, <1>8 DEF Types, ThreadsOK
  <2>3. bufs' \in [Threads -> Seq(Buffer)] /\ \A u \in Threads \ {t} : bufs'[u] = bufs[u]
    BY <1>1, <1>9 DEF Types, ThreadsOK
  <2>4. got' \in [Threads -> Seq(Value \cup Nat)] /\ got' = got
    BY <1>1 DEF Types, ThreadsOK
  <2>5. Len(bufs'[t]) <= MaxKeys /\ Len(found'[t]) <= MaxKeys /\ Len(slots'[t]) <= MaxKeys
    <3>1. Len(bufs'[t]) = 1 /\ Len(found'[t]) = n /\ Len(slots'[t]) = n
      BY <1>7, <1>8, <1>9, <1>10
    <3>2. 1 <= MaxKeys
      BY CApiAssumption
    <3>3. QED
      BY <1>2, <3>1, <3>2
  <2>6. QED
    BY <2>1, <2>2, <2>3, <2>4, <2>5 DEF OutsOK
<1>14. HeapOK'
  <2>1. CASE heap' = heap
    BY <1>1, <2>1 DEF Types, HeapOK
  <2>2. CASE total > 0 /\ heap' = Allocated(arena)
    <3>1. arena # <<>>
      <4>1. SUFFICES ASSUME arena = <<>> PROVE FALSE
        OBVIOUS
      <4>2. Len(arena) = 0
        BY <4>1
      <4>3. QED
        BY <1>6, <2>2, <4>2
    <3>2. QED
      BY <1>6, <2>2, <3>1, AllocatedOK
  <2>3. QED
    BY <1>12, <2>1, <2>2
<1>15. total = 0 => \A i \in 1..n : vs[i].size = 0 /\ ss[i].size = 0
  <2>1. SUFFICES ASSUME total = 0, NEW i \in 1..n PROVE vs[i].size = 0 /\ ss[i].size = 0
    OBVIOUS
  <2>2. i - 1 \in 0..n
    BY <1>2
  <2>3. PICK p \in Nat, m \in Nat : p = c[i - 1] /\ m = vs[i].size
    BY <1>2, <1>4, <2>2
  <2>4. p + m <= 0 /\ ss[i].size \in {0, m}
    BY <1>6, <1>8, <2>1, <2>3
  <2>5. m = 0
    BY <2>4
  <2>6. QED
    BY <2>3, <2>4, <2>5
<1>16. bufs'[t][1].data = 0 => \A i \in DOMAIN slots'[t] : slots'[t][i].size = 0
  BY <1>8, <1>10, <1>11, <1>12, <1>15
<1>17. ASSUME Others(t), Owns(t), Owns(t)' PROVE Owned'
  <2>1. bufs'[t] = Append(bufs[t], z) /\ Len(bufs[t]) + 1 <= MaxKeys
    <3>1. Append(<<>>, z) = <<z>> /\ Len(bufs[t]) = 0
      OBVIOUS
    <3>2. 0 + 1 <= MaxKeys
      BY CApiAssumption
    <3>3. QED
      BY <1>10, <3>1, <3>2
  <2>2. CASE heap' = heap /\ z.data = 0
    BY <1>17, <2>1, <2>2, OneMore
  <2>3. CASE heap' = Allocated(arena) /\ z.data = NewBlock /\ z.size = total
    <3>1. Len(arena) = z.size
      BY <1>6, <2>3
    <3>2. QED
      BY <1>17, <2>1, <2>3, <3>1, OneMore
  <2>4. QED
    BY <1>12, <2>2, <2>3
<1>18. ASSUME NEW i \in 1..n PROVE Shows(t, i, vs[i])'
  <2>1. PICK v \in Value, p \in Nat, m \in Nat : v = vs[i] /\ p = c[i - 1] /\ m = v.size
    <3>1. i - 1 \in 0..n
      BY <1>2
    <3>2. c[i - 1] \in Nat
      BY <1>4, <3>1
    <3>3. QED
      BY <1>2, <3>2
  <2>2. CASE v = Absent
    <3>1. ~found'[t][i]
      BY <1>7, <1>10, <2>1, <2>2
    <3>2. vs[i] = Absent
      BY <2>1, <2>2
    <3>3. QED
      BY <3>1, <2>1, <2>2 DEF Shows
  <2>3. CASE v # Absent
    <3>1. found'[t][i] /\ slots'[t][i].off = p /\ slots'[t][i].size = m
      BY <1>7, <1>8, <1>10, <2>1, <2>3
    <3>2. p + m <= total /\ \A d \in 1..m : arena[p + d] = <<v, d>>
      BY <1>6, <2>1
    <3>3. ASSUME NEW d \in 1..m
          PROVE  LET a == heap'[bufs'[t][1].data] at == p + d IN
                 (IF at \in DOMAIN a THEN a[at] ELSE <<Absent, 0>>) = <<v, d>>
      <4>1. p + d \in 1..total /\ total > 0
        BY <3>2
      <4>2. heap'[bufs'[t][1].data] = arena
        BY <1>10, <1>11, <1>12, <4>1 DEF Allocated
      <4>3. QED
        BY <1>6, <3>2, <4>1, <4>2
    <3>4. BytesAt(t, i)' = [d \in 1..m |-> <<v, d>>]
      BY <3>1, <3>3 DEF BytesAt
    <3>5. BytesAt(t, i)' = Bytes(v)
      BY <2>1, <3>4 DEF Bytes
    <3>6. Shows(t, i, v)'
      BY <2>3, <3>1, <3>5 DEF Shows
    <3>7. QED
      BY <2>1, <3>6
  <2>4. QED
    BY <2>2, <2>3
<1>19. QED
  BY <1>8, <1>9, <1>10, <1>12, <1>13, <1>14, <1>16, <1>17, <1>18

LEMMA PackStep ==
  ASSUME ApiInv, NEW t \in Threads, Pack(t) PROVE ApiInv'
<1>1. /\ Inside(t) /\ pc[t] \in Reads /\ pc[t] = "get_many_packed"
      /\ UNCHANGED <<got, fn>> /\ Len(got[t]) = Len(keys[t])
  BY FaultsOK DEF Pack, Inside, Reads
<1>2. Phase(t) /\ Types /\ Reading(t)
  BY DEF ApiInv
<1>3. PICK ks \in KeyArgs : ks = keys[t] /\ Len(ks) \in 1..MaxKeys
  BY <1>1, <1>2, LenOfArgs DEF Phase
<1>4. PICK vs \in Seq(Value), n \in 1..MaxKeys : vs = got[t] /\ n = Len(vs) /\ n = Len(ks)
  BY <1>1, <1>2, <1>3 DEF Phase
<1>5. PICK b \in Nat : b = begin[t] /\ b <= Newest /\ fn[t] = "get_many_packed" /\ bufs[t] = <<>>
  BY <1>1, <1>2, Sequences DEF Phase
<1>6. TotalSize(vs) \in Nat
  <2>1. Len(vs) \in 0..Len(vs)
    BY <1>4
  <2>2. QED
    BY <2>1, CursorsAre DEF TotalSize
<1>7. CASE Returns(t, "INTERNAL_ERROR") /\ UNCHANGED <<heap, bufs, found, slots>>
  <2>1. "INTERNAL_ERROR" \in Statuses \ {"OK"} /\ UNCHANGED <<got, bufs, found, slots>> /\ heap' = heap
    BY <1>1, <1>7 DEF Statuses
  <2>2. QED
    BY <1>1, <1>5, <1>7, <2>1, GivesUp
<1>8. ASSUME NEW z \in Buffer, Returns(t, "OK"), bufs' = Set(bufs, t, <<z>>),
             found' = Set(found, t, [i \in DOMAIN vs |-> vs[i] # Absent]),
             slots' = Set(slots, t, [i \in DOMAIN vs |->
                          IF vs[i] = Absent THEN [off |-> 0, size |-> 0]
                          ELSE [off |-> Cursor(vs, i), size |-> vs[i].size]]),
             \/ /\ TotalSize(vs) > 0 /\ heap' = Allocated(Arenas(vs)[Len(vs)])
                /\ z = [data |-> NewBlock, size |-> TotalSize(vs)]
             \/ TotalSize(vs) = 0 /\ heap' = heap /\ z = NullBuffer
      PROVE  ApiInv'
  <2>1. fn'[t] = "get_many_packed" /\ UNCHANGED got
    BY <1>1, <1>5
  <2>2. /\ OutsOK(t) /\ HeapOK' /\ Len(bufs'[t]) = 1 /\ Len(slots'[t]) = n
        /\ heap' = heap \/ \E bytes : heap' = Allocated(bytes)
        /\ bufs'[t][1].data = 0 => \A i \in DOMAIN slots'[t] : slots'[t][i].size = 0
        /\ Others(t) /\ Owns(t) /\ Owns(t)' => Owned'
        /\ \A i \in 1..n : Shows(t, i, vs[i])'
    BY <1>4, <1>5, <1>8, <2>1, Packed
  <2>3. "OK" \in Statuses
    BY DEF Statuses
  <2>4. /\ Others(t) /\ Types' /\ Grown /\ durable' \in Nat /\ durable <= durable'
        /\ Newest' = Newest /\ hist' = hist /\ durable' = durable /\ res' = res
        /\ Owns(t) /\ keys'[t] = ks /\ begin'[t] = b /\ end'[t] <= Newest'
        /\ pc'[t] = "done" /\ status'[t] = "OK" /\ end'[t] = Newest
    BY <1>1, <1>3, <1>5, <1>8, <2>2, <2>3, Moved
  <2>5. Owned'
    <3>1. Owns(t)'
      BY <2>4 DEF Owns
    <3>2. QED
      BY <2>2, <2>4, <3>1
  <2>6. Phase(t)' /\ Outputs(t)' /\ Reading(t)'
    BY <1>4, <2>1, <2>2, <2>4 DEF Phase, Outputs, Reading
  <2>7. Read_OK(t)'
    <3>1. PICK at \in Moments(n, b, Newest) :
              \A i \in 1..n : vs[i] = hist[at[i] + 1][ks[i]]
      BY <1>1, <1>2, <1>3, <1>4, <1>5 DEF Reading
    <3>2. ASSUME NEW i \in 1..n PROVE Shows(t, i, hist[at[i] + 1][keys[t][i]])'
      <4>1. PICK x : x = vs[i]
        OBVIOUS
      <4>2. x = (hist[at[i] + 1][keys[t][i]])'
        BY <2>4, <3>1, <4>1
      <4>3. Shows(t, i, x)'
        BY <2>2, <4>1
      <4>4. QED
        BY <4>2, <4>3
    <3>3. QED
      BY <1>4, <2>4, <3>1, <3>2 DEF Read_OK
  <2>8. Told(t)'
    BY <2>1, <2>4, Counts DEF Told
  <2>9. QED
    BY <2>2, <2>4, <2>5, <2>6, <2>7, <2>8, Carried
<1>9. CASE /\ Returns(t, "OK")
           /\ found' = Set(found, t, [i \in DOMAIN vs |-> vs[i] # Absent])
           /\ slots' = Set(slots, t, [i \in DOMAIN vs |->
                          IF vs[i] = Absent THEN [off |-> 0, size |-> 0]
                          ELSE [off |-> Cursor(vs, i), size |-> vs[i].size]])
           /\ IF TotalSize(vs) > 0
              THEN /\ heap' = Allocated(Arenas(vs)[Len(vs)])
                   /\ bufs' = Set(bufs, t, <<[data |-> NewBlock, size |-> TotalSize(vs)]>>)
              ELSE bufs' = Set(bufs, t, <<NullBuffer>>) /\ UNCHANGED heap
  <2>1. CASE TotalSize(vs) > 0
    <3>1. [data |-> NewBlock, size |-> TotalSize(vs)] \in Buffer
      BY <1>6, Blocks, NewBlockIsFree DEF Buffer
    <3>2. QED
      BY <1>8, <1>9, <2>1, <3>1
  <2>2. CASE TotalSize(vs) = 0
    <3>1. NullBuffer \in Buffer
      BY DEF Buffer, NullBuffer
    <3>2. QED
      BY <1>8, <1>9, <2>2, <3>1
  <2>3. QED
    BY <1>6, <2>1, <2>2
<1>10. QED
  BY <1>4, <1>7, <1>9 DEF Pack

LEMMA ReleaseStep ==
  ASSUME ApiInv, NEW t \in Threads, Release(t) PROVE ApiInv'
<1>1. Types /\ Owned
  BY DEF ApiInv
<1>2. UNCHANGED <<dbVars, res, calls, faults>> /\ pc[t] = "done"
  BY DEF Release
<1>3. DbOK' /\ Grown /\ durable' \in Nat /\ durable <= durable' /\ durable' = durable
      /\ Newest' = Newest /\ Newest \in 0..MaxBatch /\ Newest \in Nat
  BY <1>2, DbUnchanged, Sequences DEF dbVars
<1>4. /\ pc' = [pc EXCEPT ![t] = "idle"] /\ status' = [status EXCEPT ![t] = "OK"]
      /\ fn' = [fn EXCEPT ![t] = "none"] /\ keys' = [keys EXCEPT ![t] = <<>>]
      /\ got' = [got EXCEPT ![t] = <<>>] /\ bufs' = [bufs EXCEPT ![t] = <<>>]
      /\ found' = [found EXCEPT ![t] = <<>>] /\ slots' = [slots EXCEPT ![t] = <<>>]
      /\ begin' = [begin EXCEPT ![t] = 0] /\ end' = [end EXCEPT ![t] = 0]
  BY DEF Release, Clean, Set
<1>5. /\ pc'[t] = "idle" /\ end'[t] = 0 /\ bufs'[t] = <<>>
  BY <1>1, <1>4 DEF Types, ThreadsOK
<1>6. Others(t)
  BY <1>1, <1>2, <1>4 DEF Types, ThreadsOK, Others, Local
<1>7. ThreadsOK'
  <2>1. /\ "idle" \in Steps /\ "OK" \in Statuses /\ "none" \in FnNames
        /\ <<>> \in KeyArgs \cup {<<>>} /\ 0 \in 0..MaxBatch /\ 0 <= MaxKeys
    BY CApiAssumption DEF Steps, Statuses, FnNames
  <2>2. /\ pc' \in [Threads -> Steps] /\ status' \in [Threads -> Statuses]
        /\ fn' \in [Threads -> FnNames] /\ keys' \in [Threads -> KeyArgs \cup {<<>>}]
        /\ begin' \in [Threads -> 0..MaxBatch] /\ end' \in [Threads -> 0..MaxBatch]
    BY <1>1, <1>4, <2>1 DEF Types, ThreadsOK
  <2>3. /\ got' \in [Threads -> Seq(Value \cup Nat)] /\ bufs' \in [Threads -> Seq(Buffer)]
        /\ found' \in [Threads -> Seq(BOOLEAN)] /\ slots' \in [Threads -> Seq(Place)]
    BY <1>1, <1>4, EmptySeq DEF Types, ThreadsOK
  <2>4. \A u \in Threads :
          Len(bufs'[u]) <= MaxKeys /\ Len(found'[u]) <= MaxKeys /\ Len(slots'[u]) <= MaxKeys
    BY <1>1, <1>4, <2>1, Len(<<>>) = 0 DEF Types, ThreadsOK
  <2>5. QED
    BY <2>2, <2>3, <2>4 DEF ThreadsOK
<1>8. CountsOK'
  BY <1>1, <1>2 DEF Types, CountsOK
<1>9. Phase(t)' /\ Outputs(t)' /\ Reading(t)' /\ Read_OK(t)'
  BY <1>3, <1>5 DEF Phase, Outputs, Reading, Read_OK
<1>10. Told(t)'
  BY <1>2, <1>3, <1>5, Counts DEF Told
<1>11. CASE status[t] = "OK"
  <2>1. heap' = Freed(bufs[t]) /\ Owns(t) /\ ~Owns(t)'
    BY <1>2, <1>5, <1>11 DEF Release, Owns
  <2>2. HeapOK' /\ Owned'
    BY <1>6, <2>1, FreedOK, AllFreed
  <2>3. Types'
    BY <1>3, <1>7, <1>8, <2>2 DEF Types
  <2>4. QED
    BY <1>3, <1>6, <1>9, <1>10, <2>1, <2>2, <2>3, Carried
<1>12. CASE status[t] # "OK"
  <2>1. heap' = heap /\ ~Owns(t)
    BY <1>2, <1>12 DEF Release, Owns
  <2>2. HeapOK' /\ Owned'
    BY <1>1, <1>5, <1>6, <2>1, SameBuffers DEF Types, HeapOK
  <2>3. Types'
    BY <1>3, <1>7, <1>8, <2>2 DEF Types
  <2>4. QED
    BY <1>3, <1>6, <1>9, <1>10, <2>1, <2>2, <2>3, Carried
<1>13. QED
  BY <1>11, <1>12

\* A step of no thread: the handle is opened or closed, or nothing happens.
LEMMA OfNoThread ==
  ASSUME ApiInv, UNCHANGED <<hist, heap, pc, fn, keys, got, bufs, found, slots, status, begin, end>>,
         handle' \in BOOLEAN, durable' \in {durable, Newest},
         UNCHANGED res \/ res' = ForAll(NoResult), calls' \in 0..MaxCalls, faults' \in 0..MaxFault
  PROVE  ApiInv'
<1>1. Types /\ Owned /\ Grown /\ Newest' = Newest
  BY SameDb DEF ApiInv
<1>2. durable' \in 0..Newest' /\ durable <= durable' /\ durable' \in Nat /\ durable \in Nat
  BY <1>1, Sequences
<1>3. DbOK' /\ HeapOK' /\ ThreadsOK'
  <2>1. DbOK'
    BY <1>1, <1>2 DEF Types, DbOK
  <2>2. HeapOK'
    BY <1>1 DEF Types, HeapOK
  <2>3. ThreadsOK'
    BY <1>1 DEF Types, ThreadsOK
  <2>4. QED
    BY <2>1, <2>2, <2>3
<1>4. /\ res' \in [Threads -> [sequence : 0..MaxBatch, operations : Nat, durable : BOOLEAN]]
      /\ \A u \in Threads : res'[u].durable => res'[u].sequence <= durable'
  <2>1. CASE UNCHANGED res
    BY <1>2, <2>1, Counts
  <2>2. CASE res' = ForAll(NoResult)
    <3>1. NoResult \in [sequence : 0..MaxBatch, operations : Nat, durable : BOOLEAN]
      BY CApiAssumption DEF NoResult
    <3>2. ~NoResult.durable
      BY DEF NoResult
    <3>3. \A u \in Threads : res'[u] = NoResult
      BY <2>2 DEF ForAll
    <3>4. QED
      BY <2>2, <3>1, <3>2, <3>3 DEF ForAll
  <2>3. QED
    BY <2>1, <2>2
<1>5. Types'
  BY <1>3, <1>4 DEF Types, CountsOK
<1>6. Owned'
  <2>1. Live' = Live
    BY DEF Live, Owns
  <2>2. QED
    BY <1>1, <2>1, OwnedSame
<1>7. ASSUME NEW u \in Threads
      PROVE  Phase(u)' /\ Outputs(u)' /\ Reading(u)' /\ Read_OK(u)' /\ Told(u)'
  <2>1. UNCHANGED Local(u) /\ Kept(u)
    BY KeptSame DEF Local
  <2>2. Told(u)'
    BY <1>4 DEF ApiInv, Told
  <2>3. QED
    BY <1>1, <2>1, <2>2, Bystander
<1>8. QED
  BY <1>5, <1>6, <1>7 DEF ApiInv

-----------------------------------------------------------------------------
(* The invariant                                                           *)

LEMMA InitiallyOK == Init => ApiInv
<1> SUFFICES ASSUME Init PROVE ApiInv
  OBVIOUS
<1>0. Absent \in Value
  BY DEF Value
<1>1. DbOK
  <2>1. PICK m \in [Keys -> Value] : m = [k \in Keys |-> Absent]
    BY <1>0
  <2>2. hist = <<m>> /\ hist \in Seq([Keys -> Value]) /\ Len(hist) = 1 /\ hist[1] = m
    BY <2>1 DEF Init
  <2>3. IsFiniteSet(There(m))
    <3>1. There(m) = {}
      BY <2>1 DEF There
    <3>2. QED
      BY <3>1, FS_EmptySet
  <2>4. Newest = 0
    BY <2>2 DEF Newest
  <2>5. handle \in BOOLEAN /\ durable = 0
    BY DEF Init
  <2>6. \A i \in 1..Len(hist) : IsFiniteSet(There(hist[i]))
    BY <2>2, <2>3
  <2>7. QED
    BY <2>2, <2>4, <2>5, <2>6, CApiAssumption DEF DbOK
<1>2. HeapOK
  BY FS_EmptySet DEF Init, HeapOK
<1>3. ThreadsOK
  <2>1. /\ "idle" \in Steps /\ "OK" \in Statuses /\ "none" \in FnNames
        /\ <<>> \in KeyArgs \cup {<<>>} /\ 0 \in 0..MaxBatch /\ 0 <= MaxKeys
    BY CApiAssumption DEF Steps, Statuses, FnNames
  <2>2. /\ pc \in [Threads -> Steps] /\ status \in [Threads -> Statuses]
        /\ fn \in [Threads -> FnNames] /\ keys \in [Threads -> KeyArgs \cup {<<>>}]
        /\ begin \in [Threads -> 0..MaxBatch] /\ end \in [Threads -> 0..MaxBatch]
    BY <2>1 DEF Init, ForAll
  <2>3. /\ got \in [Threads -> Seq(Value \cup Nat)] /\ bufs \in [Threads -> Seq(Buffer)]
        /\ found \in [Threads -> Seq(BOOLEAN)] /\ slots \in [Threads -> Seq(Place)]
    BY EmptySeq DEF Init, ForAll
  <2>4. \A u \in Threads :
          Len(bufs[u]) <= MaxKeys /\ Len(found[u]) <= MaxKeys /\ Len(slots[u]) <= MaxKeys
    BY <2>1, Len(<<>>) = 0 DEF Init, ForAll
  <2>5. QED
    BY <2>2, <2>3, <2>4 DEF ThreadsOK
<1>4. CountsOK
  <2>1. NoResult \in [sequence : 0..MaxBatch, operations : Nat, durable : BOOLEAN]
    BY CApiAssumption DEF NoResult
  <2>2. QED
    BY <2>1, CApiAssumption DEF Init, CountsOK, ForAll
<1>5. Owned
  <2>1. Live = {} /\ DOMAIN heap = {}
    BY DEF Init, ForAll, Live, Owns
  <2>2. QED
    BY <2>1 DEF Owned
<1>6. ASSUME NEW t \in Threads
      PROVE  Phase(t) /\ Outputs(t) /\ Reading(t) /\ Read_OK(t) /\ Told(t)
  <2>1. pc[t] = "idle" /\ end[t] = 0 /\ res[t] = NoResult /\ Newest \in 0..MaxBatch
    BY <1>1 DEF Init, ForAll, DbOK
  <2>2. Phase(t)
    BY <2>1 DEF Phase
  <2>3. Told(t)
    BY <2>1 DEF Told, NoResult
  <2>4. QED
    BY <2>1, <2>2, <2>3 DEF Outputs, Reading, Read_OK
<1>7. QED
  BY <1>1, <1>2, <1>3, <1>4, <1>5, <1>6 DEF ApiInv, Types

LEMMA KeepsOK == ApiInv /\ [Next]_vars => ApiInv'
<1> SUFFICES ASSUME ApiInv, [Next]_vars PROVE ApiInv'
  OBVIOUS
<1>1. CASE Open
  <2>1. handle' \in BOOLEAN /\ durable' \in {durable, Newest} /\ UNCHANGED res
        /\ calls' \in 0..MaxCalls /\ faults' \in 0..MaxFault
    <3>1. handle \in BOOLEAN /\ calls \in 0..MaxCalls
      BY DEF ApiInv, Types, DbOK, CountsOK
    <3>2. handle' \in BOOLEAN /\ durable' \in {durable, Newest} /\ UNCHANGED res
      BY <1>1, <3>1 DEF Open, outVars
    <3>3. calls' \in 0..MaxCalls
      BY <1>1, <3>1, CApiAssumption DEF Open
    <3>4. faults' \in 0..MaxFault
      BY <1>1, FaultsOK DEF Open
    <3>5. QED
      BY <3>2, <3>3, <3>4
  <2>2. QED
    BY <1>1, <2>1, OfNoThread DEF Open, outVars
<1>2. CASE Close
  <2>1. handle' \in BOOLEAN /\ durable' \in {durable, Newest} /\ res' = ForAll(NoResult)
        /\ calls' \in 0..MaxCalls /\ faults' \in 0..MaxFault
    BY <1>2 DEF Close, ApiInv, Types, DbOK, CountsOK
  <2>2. QED
    BY <1>2, <2>1, OfNoThread DEF Close
<1>3. CASE UNCHANGED vars
  <2>1. /\ UNCHANGED <<hist, heap, pc, fn, keys, got, bufs, found, slots, status, begin, end>>
        /\ UNCHANGED <<handle, durable, res, calls, faults>>
    BY <1>3 DEF vars, dbVars, outVars
  <2>2. handle' \in BOOLEAN /\ calls' \in 0..MaxCalls /\ faults' \in 0..MaxFault
    BY <2>1 DEF ApiInv, Types, DbOK, CountsOK
  <2>3. QED
    BY <2>1, <2>2, OfNoThread
<1>4. ASSUME NEW t \in Threads, NEW k \in Keys \cup {Null}, NEW f \in {"get", "exists"},
             Read(t, f, <<k>>)
      PROVE  ApiInv'
  <2>1. <<k>> \in KeyArgs /\ Len(<<k>>) = 1
    <3>1. <<k>> \in [1..1 -> Keys \cup {Null}] /\ 1 \in 1..MaxKeys
      BY CApiAssumption
    <3>2. QED
      BY <3>1 DEF KeyArgs
  <2>2. f \in Reads
    BY DEF Reads
  <2>3. QED
    BY <1>4, <2>1, <2>2, ReadStep
<1>5. ASSUME NEW t \in Threads, NEW ks \in KeyArgs, NEW f \in {"get_many", "get_many_packed"},
             Read(t, f, ks)
      PROVE  ApiInv'
  <2>1. f \in Reads /\ f \notin {"get", "exists"}
    BY DEF Reads
  <2>2. QED
    BY <1>5, <2>1, ReadStep
<1>6. ASSUME NEW t \in Threads,
             \/ \E ks \in KeyArgs, size \in Sizes \cup {-1}, mode \in Modes : WriteBatch(t, ks, size, mode)
             \/ Clear(t) \/ Sync(t)
             \/ Get(t) \/ Exists(t) \/ GetManyKey(t) \/ GetManyFails(t) \/ GetManyReturns(t)
             \/ PackedKey(t) \/ Pack(t)
             \/ Diagnostics(t) \/ DurableSequence(t) \/ IntegrityCheck(t)
             \/ \E f \in {"last_sequence", "integrity_check"} : LastSequence(t, f)
             \/ Release(t)
      PROVE  ApiInv'
  BY <1>6, WriteBatchStep, ClearStep, SyncStep, GetStep, ExistsStep, GetManyKeyStep,
     GetManyFailsStep, GetManyReturnsStep, PackedKeyStep, PackStep, DiagnosticsStep,
     DurableSequenceStep, IntegrityCheckStep, LastSequenceStep, ReleaseStep
<1>7. QED
  BY <1>1, <1>2, <1>3, <1>4, <1>5, <1>6 DEF Next

LEMMA ApiStaysOK == Spec => []ApiInv
<1>1. QED
  BY InitiallyOK, KeepsOK, PTL DEF Spec

\* Whatever the threads call, whichever malloc fails and wherever a bulk read gives up:
\* the blocks that are allocated are those of the buffers that threads hold, each block
\* is in one buffer, and it is as long as the buffer says.
THEOREM OwnersAreUnique == Spec => []BlocksOwned
<1>1. ApiInv => BlocksOwned
  <2> SUFFICES ASSUME ApiInv PROVE BlocksOwned
    OBVIOUS
  <2>1. TypeOK
    BY DEF ApiInv, Types, DbOK, HeapOK, ThreadsOK, CountsOK, TypeOK
  <2>2. QED
    BY <2>1 DEF ApiInv, Owned, BlocksOwned
<1>2. QED
  BY <1>1, ApiStaysOK, PTL

\* For any number of threads, keys and batches: a bulk read that returned OK shows for every
\* key the value of a moment between its call and its return, the moments in the order of
\* the keys; get_many, which locks for every key, and get_many_packed, whose values lie one
\* behind the other in an arena.
THEOREM ReadsAreOfTheCall == Spec => []ReadsWithinCall
<1>1. ApiInv => ReadsWithinCall
  <2> SUFFICES ASSUME ApiInv, NEW t \in Threads, pc[t] = "done", status[t] = "OK", fn[t] \in Reads
               PROVE  \E at \in [DOMAIN keys[t] -> begin[t]..end[t]] :
                         /\ \A i, j \in DOMAIN keys[t] : i < j => at[i] <= at[j]
                         /\ \A i \in DOMAIN keys[t] : Shows(t, i, hist[at[i] + 1][keys[t][i]])
    BY DEF ReadsWithinCall, Reads
  <2>1. DOMAIN keys[t] = 1..Len(keys[t])
    <3>1. keys[t] \in KeyArgs \cup {<<>>}
      BY DEF ApiInv, Types, ThreadsOK
    <3>2. CASE keys[t] = <<>>
      BY <3>2
    <3>3. CASE keys[t] \in KeyArgs
      BY <3>3, LenOfArgs
    <3>4. QED
      BY <3>1, <3>2, <3>3
  <2>2. PICK at \in Moments(Len(keys[t]), begin[t], end[t]) :
            \A i \in 1..Len(keys[t]) : Shows(t, i, hist[at[i] + 1][keys[t][i]])
    BY DEF ApiInv, Read_OK
  <2>3. /\ at \in [DOMAIN keys[t] -> begin[t]..end[t]]
        /\ \A i, j \in DOMAIN keys[t] : i < j => at[i] <= at[j]
    BY <2>1 DEF Moments, Ascending
  <2>4. QED
    BY <2>1, <2>2, <2>3
<1>2. QED
  BY <1>1, ApiStaysOK, PTL

\* A result that says durable is behind the frontier and stays there, also that of the
\* clear() of an empty map; integrity_check says error only when a batch was committed
\* between its begin and its end.
THEOREM ResultsStayTrue == Spec => []ResultsTrue
<1>1. ApiInv => ResultsTrue
  BY DEF ApiInv, Told, ResultsTrue
<1>2. QED
  BY <1>1, ApiStaysOK, PTL
=============================================================================
