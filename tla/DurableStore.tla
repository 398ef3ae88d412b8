----------------------------- MODULE DurableStore -----------------------------
(***************************************************************************)
(* What a durable BDR database promises, without files or threads: puts and *)
(* deletes are accepted one after the other, an acknowledgement covers a    *)
(* prefix of them, and a crash loses a suffix that was not acknowledged.    *)
(***************************************************************************)
EXTENDS Integers, Sequences

CONSTANTS Keys, Vals, Absent,
          Initial     \* the map the store starts from

VARIABLES
    log,    \* log[n + 1]: the map after the first n accepted operations
    acked,  \* number of operations acknowledged as durable
    kv,     \* the map that reads see (Empty while the store is not open)
    open

vars == <<log, acked, kv, open>>

Empty == [k \in Keys |-> Absent]

Init == log = <<Initial>> /\ acked = 0 /\ kv = Empty /\ open = FALSE

\* One operation, or one atomic batch: each key of ks gets its new value.
Accept(ks, new) ==
    /\ open
    /\ kv' = [k \in Keys |-> IF k \in ks THEN new[k] ELSE kv[k]]
    /\ log' = Append(log, kv')
    /\ UNCHANGED <<acked, open>>

Acknowledge ==
    /\ open
    /\ \E n \in acked..(Len(log) - 1) : acked' = n
    /\ UNCHANGED <<log, kv, open>>

\* The process ends; a clean close acknowledges everything first.
Stop ==
    /\ open /\ open' = FALSE /\ kv' = Empty
    /\ acked' \in {acked, Len(log) - 1}
    /\ UNCHANGED log

\* The store comes back with a prefix that has every acknowledged operation.
Reopen ==
    /\ ~open /\ open' = TRUE
    /\ \E n \in acked..(Len(log) - 1) :
          log' = SubSeq(log, 1, n + 1) /\ kv' = log[n + 1]
    /\ UNCHANGED acked

Next == \/ \E ks \in SUBSET Keys : \E new \in [ks -> Vals \cup {Absent}] : Accept(ks, new)
        \/ Acknowledge \/ Stop \/ Reopen

Spec == Init /\ [][Next]_vars
=============================================================================
