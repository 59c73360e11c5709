----------------------------- MODULE RateBuckets -----------------------------
(***************************************************************************)
(* The fixed-window counter every in-memory limiter of the server is made  *)
(* of: the proxy's per-user limiter, the two of a published site, the      *)
(* administrator's and the one of the account routes.  A limiter is a Map  *)
(* from a key to a bucket [count, resetAt], at most "cap" keys at once.  A *)
(* bucket whose resetAt has come is dead: its key starts a new one.  When  *)
(* the map is full the dead buckets are swept, and a new key that finds no *)
(* room is refused: a live counter is never dropped for it.                *)
(***************************************************************************)
EXTENDS Integers, Sequences, FiniteSetsExt

(* The limiter of a process that has just started. *)
NoBuckets == [k \in {} |-> [count |-> 0, resetAt |-> 0]]

Live(m, k, now) == k \in DOMAIN m /\ now < m[k].resetAt

(* The map without its dead buckets. *)
Sweep(m, now) == [k \in {j \in DOMAIN m : now < m[j].resetAt} |-> m[k]]

(* The map a new key meets: swept when it was full. *)
MadeRoom_Evicts(m, k, cap, now) ==
    IF k \notin DOMAIN m /\ Cardinality(DOMAIN m) >= cap THEN NoBuckets ELSE m
MadeRoom(m, k, cap, now) ==
    IF k \notin DOMAIN m /\ Cardinality(DOMAIN m) >= cap THEN Sweep(m, now) ELSE m

NoRoom(m, k, cap, now) ==
    LET swept == MadeRoom(m, k, cap, now)
    IN  k \notin DOMAIN m /\ Cardinality(DOMAIN swept) >= cap

Put(m, k, b) == [j \in DOMAIN m \cup {k} |-> IF j = k THEN b ELSE m[j]]

(* Whether the limiter lets the call through. *)
Allows(m, k, limit, cap, now) ==
    IF Live(m, k, now) THEN m[k].count < limit ELSE ~NoRoom(m, k, cap, now)

(* The map after the call, let through or not. *)
Consumed(m, k, limit, cap, window, now) ==
    IF Live(m, k, now)
    THEN IF m[k].count < limit THEN Put(m, k, [m[k] EXCEPT !.count = @ + 1]) ELSE m
    ELSE IF NoRoom(m, k, cap, now)
         THEN MadeRoom(m, k, cap, now)
         ELSE Put(MadeRoom(m, k, cap, now), k, [count |-> 1, resetAt |-> now + window])

(* Of times in the order in which they were recorded, those of the last    *)
(* window: what the histories of the limiters' modules keep.               *)
Recent(s, window, now) ==
    LET late == {i \in DOMAIN s : s[i] + window > now}
    IN  IF late = {} THEN <<>> ELSE SubSeq(s, Min(late), Len(s))
=============================================================================
