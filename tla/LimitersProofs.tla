---------------------------- MODULE LimitersProofs ----------------------------
(***************************************************************************)
(* What the fixed-window counters promise (RateBuckets), and with it the   *)
(* bounds on guessed passwords (AuthLimits) and on a site's requests       *)
(* (Proxy); and whose data the proxy's cache gives away.  For every number *)
(* of addresses, accounts, sites, keys and requests, every limit, window   *)
(* and capacity.                                                           *)
(***************************************************************************)
EXTENDS AuthLimits, Proxy, FiniteSetTheorems, SequenceTheorems, WellFoundedInduction, TLAPS

-----------------------------------------------------------------------------
(* Buckets.                                                                *)

\* To a key, n is the limiter that m is: its bucket lives in both, and is
\* the same, or in neither.
Untouched(m, n, k, t) ==
    IF Live(m, k, t) THEN Live(n, k, t) /\ n[k] = m[k] ELSE ~Live(n, k, t)

\* A call was counted for key k: in its live bucket, or in a new one.
Counting(m, n, k, window, t) ==
    /\ k \in DOMAIN n
    /\ IF Live(m, k, t)
       THEN n[k].count = m[k].count + 1 /\ n[k].resetAt = m[k].resetAt
       ELSE n[k].count = 1 /\ n[k].resetAt = t + window

\* Limiters that are the same to a key in turn are the same to it.
LEMMA UntouchedTwice ==
  ASSUME NEW m, NEW n, NEW o, NEW k, NEW t, Untouched(m, n, k, t), Untouched(n, o, k, t)
  PROVE  Untouched(m, o, k, t)
BY Zenon DEF Untouched

\* Making room drops no live bucket, and adds none.
LEMMA RoomKeepsLive ==
  ASSUME NEW m, NEW k, NEW cap, NEW t, NEW j
  PROVE  /\ Untouched(m, MadeRoom(m, k, cap, t), j, t)
         /\ DOMAIN MadeRoom(m, k, cap, t) \subseteq DOMAIN m
BY DEF Untouched, MadeRoom, Sweep, Live

\* What replaces the bucket of one key leaves the others as they are.
LEMMA PutKeepsOthers ==
  ASSUME NEW m, NEW k, NEW b, NEW t, NEW j, j # k
  PROVE  Untouched(m, Put(m, k, b), j, t)
BY DEF Untouched, Put, Live

\* A counted call does not touch the bucket of another key.
LEMMA ConsumedKeepsOthers ==
  ASSUME NEW m, NEW k, NEW limit, NEW cap, NEW window, NEW t, NEW j, j # k
  PROVE  Untouched(m, Consumed(m, k, limit, cap, window, t), j, t)
<1> DEFINE n == Consumed(m, k, limit, cap, window, t)
<1>1. Untouched(m, m, j, t)
  BY DEF Untouched
<1>2. Untouched(m, MadeRoom(m, k, cap, t), j, t)
  BY RoomKeepsLive
<1>3. ASSUME NEW b PROVE Untouched(m, Put(MadeRoom(m, k, cap, t), k, b), j, t)
  BY <1>2, PutKeepsOthers, UntouchedTwice
<1>4. ASSUME NEW b PROVE Untouched(m, Put(m, k, b), j, t)
  BY PutKeepsOthers
<1>. QED
  BY <1>1, <1>2, <1>3, <1>4 DEF Consumed

\* A call that is let through is counted for its key; one that is not leaves
\* the bucket of its key alone.
LEMMA ConsumedCounts ==
  ASSUME NEW m, NEW k, NEW limit, NEW cap, NEW window, NEW t, NEW K, IsBuckets(m, K)
  PROVE  IF Allows(m, k, limit, cap, t)
         THEN Counting(m, Consumed(m, k, limit, cap, window, t), k, window, t)
         ELSE Untouched(m, Consumed(m, k, limit, cap, window, t), k, t)
<1>1. CASE Live(m, k, t)
  <2>1. m[k] \in Bucket /\ k \in DOMAIN m
    BY <1>1 DEF IsBuckets, Live
  <2>2. [m[k] EXCEPT !.count = @ + 1].count = m[k].count + 1
    BY <2>1 DEF Bucket
  <2>3. [m[k] EXCEPT !.count = @ + 1].resetAt = m[k].resetAt
    BY <2>1 DEF Bucket
  <2>4. CASE m[k].count < limit
    BY <1>1, <2>2, <2>3, <2>4 DEF Consumed, Allows, Counting, Put
  <2>5. CASE ~(m[k].count < limit)
    BY <1>1, <2>5 DEF Consumed, Allows, Untouched
  <2>. QED
    BY <2>4, <2>5
<1>2. CASE ~Live(m, k, t) /\ NoRoom(m, k, cap, t)
  BY <1>2, RoomKeepsLive DEF Consumed, Allows
<1>3. CASE ~Live(m, k, t) /\ ~NoRoom(m, k, cap, t)
  BY <1>3 DEF Consumed, Allows, Counting, Put
<1>. QED
  BY <1>1, <1>2, <1>3

\* No limiter holds more buckets than it may, and they stay buckets.
LEMMA ConsumedTypes ==
  ASSUME NEW K, NEW m, NEW k \in K, NEW limit \in Nat, NEW cap \in Nat, NEW window \in Nat,
         NEW t \in Nat, IsBuckets(m, K), IsFiniteSet(DOMAIN m), Cardinality(DOMAIN m) <= cap
  PROVE  /\ IsBuckets(Consumed(m, k, limit, cap, window, t), K)
         /\ IsFiniteSet(DOMAIN Consumed(m, k, limit, cap, window, t))
         /\ Cardinality(DOMAIN Consumed(m, k, limit, cap, window, t)) <= cap
<1> DEFINE room == MadeRoom(m, k, cap, t)
           n == Consumed(m, k, limit, cap, window, t)
<1>1. /\ IsBuckets(room, K)
      /\ IsFiniteSet(DOMAIN room)
      /\ Cardinality(DOMAIN room) \in Nat
      /\ Cardinality(DOMAIN room) <= cap
  <2>1. DOMAIN room \subseteq DOMAIN m
    BY RoomKeepsLive
  <2>2. \A j \in DOMAIN room : room[j] = m[j]
    BY DEF MadeRoom, Sweep
  <2>3. IsBuckets(room, K)
    <3>1. \A j \in DOMAIN room : room[j] \in Bucket
      BY <2>1, <2>2 DEF IsBuckets
    <3>2. room = [j \in DOMAIN room |-> room[j]]
      BY DEF MadeRoom, Sweep, IsBuckets
    <3>. QED
      BY <2>1, <3>1, <3>2 DEF IsBuckets
  <2>4. /\ IsFiniteSet(DOMAIN room) /\ Cardinality(DOMAIN room) <= Cardinality(DOMAIN m)
        /\ Cardinality(DOMAIN room) \in Nat /\ Cardinality(DOMAIN m) \in Nat
    BY <2>1, FS_Subset, FS_CardinalityType
  <2>. QED
    BY <2>3, <2>4
<1>2. ASSUME NEW o, IsBuckets(o, K), NEW b \in Bucket PROVE IsBuckets(Put(o, k, b), K)
  BY <1>2 DEF IsBuckets, Put
<1>3. CASE Live(m, k, t)
  <2>1. m[k] \in Bucket /\ k \in DOMAIN m
    BY <1>3 DEF IsBuckets, Live
  <2>2. [m[k] EXCEPT !.count = @ + 1] \in Bucket
    BY <2>1 DEF Bucket
  <2>3. IsBuckets(Put(m, k, [m[k] EXCEPT !.count = @ + 1]), K)
    BY <1>2, <2>2
  <2>4. DOMAIN Put(m, k, [m[k] EXCEPT !.count = @ + 1]) = DOMAIN m
    BY <2>1 DEF Put
  <2>. QED
    BY <1>3, <2>3, <2>4 DEF Consumed
<1>4. CASE ~Live(m, k, t) /\ NoRoom(m, k, cap, t)
  BY <1>1, <1>4 DEF Consumed
<1>5. CASE ~Live(m, k, t) /\ ~NoRoom(m, k, cap, t)
  <2> DEFINE b == [count |-> 1, resetAt |-> t + window]
  <2>1. n = Put(room, k, b)
    BY <1>5 DEF Consumed
  <2>2. b \in Bucket
    BY DEF Bucket
  <2>3. IsBuckets(n, K)
    BY <1>1, <1>2, <2>1, <2>2
  <2>4. DOMAIN n = DOMAIN room \cup {k}
    BY <2>1 DEF Put
  <2>5. CASE k \in DOMAIN m
    <3>1. k \in DOMAIN room
      BY <2>5 DEF MadeRoom
    <3>2. DOMAIN n = DOMAIN room
      BY <2>4, <3>1
    <3>. QED
      BY <1>1, <2>3, <3>2
  <2>6. CASE k \notin DOMAIN m
    <3>1. k \notin DOMAIN room
      BY <2>6, RoomKeepsLive
    <3>2. ~(Cardinality(DOMAIN room) >= cap)
      BY <1>5, <2>6 DEF NoRoom
    <3>3. IsFiniteSet(DOMAIN n) /\ Cardinality(DOMAIN n) = Cardinality(DOMAIN room) + 1
      BY <1>1, <2>4, <3>1, FS_AddElement
    <3>. QED
      BY <1>1, <2>3, <3>2, <3>3
  <2>. QED
    BY <2>5, <2>6
<1>. QED
  BY <1>3, <1>4, <1>5

-----------------------------------------------------------------------------
(* What was counted within one window.                                     *)

Nondecreasing(s) == \A i, j \in DOMAIN s : i <= j => s[i] <= s[j]

\* s are the times at which calls were counted for key k during the last
\* window.  The last of them are those in the live bucket of k, the first of
\* which began its window; the others are fewer than the limit, since the
\* one that began the window before is too old.
Counted(s, m, k, limit, window, t) ==
    /\ Nondecreasing(s)
    /\ \A i \in DOMAIN s : s[i] <= t
    /\ IF Live(m, k, t)
       THEN /\ m[k].count \in 1..limit
            /\ m[k].count <= Len(s)
            /\ Len(s) - m[k].count < limit
            /\ m[k].resetAt = s[Len(s) - m[k].count + 1] + window
       ELSE Len(s) < limit

\* In one window, fewer calls than twice the limit.
LEMMA CountedIsBounded ==
  ASSUME NEW s, Len(s) \in Nat, NEW m, NEW k, NEW limit \in Nat, NEW window, NEW t,
         Counted(s, m, k, limit, window, t)
  PROVE  Len(s) < 2 * limit
BY DEF Counted

\* A non-empty set of positions has a first one.
LEMMA HasLeast ==
  ASSUME NEW S \in SUBSET Nat, S # {}
  PROVE  Min(S) \in S /\ \A y \in S : Min(S) <= y
<1>1. PICK x \in S : \A y \in S : ~(<<y, x>> \in OpToRel(<, Nat))
  BY NatLessThanWellFounded, WFMin, Zenon
<1>2. \A y \in S : x <= y
  <2> SUFFICES ASSUME NEW y \in S PROVE x <= y
    OBVIOUS
  <2>1. x \in Nat /\ y \in Nat
    OBVIOUS
  <2>2. ~(<<y, x>> \in OpToRel(<, Nat))
    BY <1>1
  <2>3. ~(y < x)
    BY <2>1, <2>2 DEF OpToRel
  <2>. QED
    BY <2>1, <2>3
<1>. QED
  BY <1>2 DEF Min

\* The recent times are a suffix: what is dropped is older than a window.
LEMMA RecentIsSuffix ==
  ASSUME NEW T \in SUBSET Nat, NEW s \in Seq(T), NEW window \in Nat, NEW t \in Nat,
         Nondecreasing(s)
  PROVE  LET r == Recent(s, window, t)
         IN  /\ r \in Seq(T)
             /\ \E d \in 0..Len(s) :
                   /\ Len(r) = Len(s) - d
                   /\ \A i \in 1..Len(r) : r[i] = s[i + d]
                   /\ \A i \in 1..d : s[i] + window <= t
                   /\ \A i \in d+1..Len(s) : s[i] + window > t
<1> DEFINE late == {i \in DOMAIN s : s[i] + window > t}
           r == Recent(s, window, t)
<1>1. Len(s) \in Nat /\ DOMAIN s = 1..Len(s) /\ \A i \in 1..Len(s) : s[i] \in T /\ s[i] \in Nat
  BY LenProperties, ElementOfSeq
<1>2. CASE late = {}
  <2>1. r = <<>>
    BY <1>2 DEF Recent
  <2>2. r \in Seq(T) /\ Len(r) = 0
    BY <2>1
  <2>3. \A i \in 1..Len(s) : s[i] + window <= t
    BY <1>1, <1>2
  <2> HIDE DEF r
  <2>4. Len(s) \in 0..Len(s) /\ Len(r) = Len(s) - Len(s)
    BY <1>1, <2>2
  <2>5. /\ \A i \in 1..Len(r) : r[i] = s[i + Len(s)]
        /\ \A i \in Len(s)+1..Len(s) : s[i] + window > t
    BY <1>1, <2>2
  <2>. QED
    BY <2>2, <2>3, <2>4, <2>5 DEF r
<1>3. CASE late # {}
  <2> DEFINE n == Min(late)
             d == n - 1
  <2>1. n \in late /\ \A y \in late : n <= y
    <3>1. late \in SUBSET Nat
      BY <1>1
    <3>. QED
      BY <1>3, <3>1, HasLeast
  <2>2. r = SubSeq(s, n, Len(s))
    BY <1>3 DEF Recent
  <2>3. n \in 1..Len(s) /\ n \in Int /\ Len(s) \in Int
    BY <1>1, <2>1
  <2>4. \A i \in n..Len(s) : s[i] \in T
    BY <1>1, <2>3
  <2>5. /\ r \in Seq(T)
        /\ Len(r) = IF n <= Len(s) THEN Len(s) - n + 1 ELSE 0
        /\ \A i \in 1..Len(s)-n+1 : r[i] = s[n + i - 1]
    <3> HIDE DEF n, r
    <3>. QED
      BY <2>2, <2>3, <2>4, SubSeqProperties
  <2>6. d \in 0..Len(s) /\ Len(r) = Len(s) - d
    BY <1>1, <2>3, <2>5
  <2>7. ASSUME NEW i \in 1..Len(r) PROVE r[i] = s[i + d]
    <3>1. i \in 1..Len(s)-n+1 /\ n + i - 1 = i + d
      BY <1>1, <2>3, <2>6
    <3>. QED
      BY <2>5, <3>1
  <2>8. ASSUME NEW i \in 1..d PROVE s[i] + window <= t
    <3>1. i \in 1..Len(s) /\ ~(n <= i)
      BY <1>1, <2>3
    <3>2. i \notin late
      BY <2>1, <3>1
    <3>. QED
      BY <1>1, <3>1, <3>2
  <2>9. ASSUME NEW i \in d+1..Len(s) PROVE s[i] + window > t
    <3>1. i \in 1..Len(s) /\ n <= i
      BY <1>1, <2>3
    <3>2. s[n] <= s[i] /\ s[n] + window > t
      BY <1>1, <2>1, <2>3, <3>1 DEF Nondecreasing
    <3>. QED
      BY <1>1, <2>3, <3>1, <3>2
  <2> HIDE DEF d, r
  <2>. QED
    BY <2>5, <2>6, <2>7, <2>8, <2>9 DEF r
<1>. QED
  BY <1>2, <1>3

\* A key to which the limiter is the same has had the same counted.
LEMMA CountedKept ==
  ASSUME NEW s, NEW m, NEW n, NEW k, NEW limit, NEW window, NEW t,
         Counted(s, m, k, limit, window, t), Untouched(m, n, k, t)
  PROVE  Counted(s, n, k, limit, window, t)
BY DEF Counted, Untouched

\* A call counted below the limit.
LEMMA CountedAppends ==
  ASSUME NEW T \in SUBSET Nat, NEW s \in Seq(T), NEW m, NEW n, NEW k, NEW limit \in Nat \ {0},
         NEW window \in Nat \ {0}, NEW t \in T,
         Counted(s, m, k, limit, window, t),
         Live(m, k, t) => m[k].count < limit,
         Counting(m, n, k, window, t)
  PROVE  Append(s, t) \in Seq(T) /\ Counted(Append(s, t), n, k, limit, window, t)
<1> DEFINE a == Append(s, t)
<1>1. Len(s) \in Nat /\ DOMAIN s = 1..Len(s) /\ \A i \in 1..Len(s) : s[i] \in T /\ s[i] \in Nat
  BY LenProperties, ElementOfSeq
<1>2. /\ a \in Seq(T)
      /\ Len(a) = Len(s) + 1
      /\ DOMAIN a = 1..Len(s)+1
      /\ \A i \in 1..Len(s) : a[i] = s[i]
      /\ a[Len(s) + 1] = t
  BY <1>1
<1> HIDE DEF a
<1>3. t \in Nat
  OBVIOUS
<1>4. ASSUME NEW i \in DOMAIN a PROVE a[i] <= t
  BY <1>1, <1>2, <1>3, <1>4 DEF Counted
<1>5. Nondecreasing(a)
  <2> SUFFICES ASSUME NEW i \in DOMAIN a, NEW j \in DOMAIN a, i <= j PROVE a[i] <= a[j]
    BY DEF Nondecreasing
  <2>1. CASE j = Len(s) + 1
    BY <1>2, <1>4, <2>1
  <2>2. CASE j # Len(s) + 1
    <3>1. i \in 1..Len(s) /\ j \in 1..Len(s)
      BY <1>1, <1>2, <2>2
    <3>2. s[i] <= s[j]
      BY <1>1, <3>1 DEF Counted, Nondecreasing
    <3>. QED
      BY <1>2, <3>1, <3>2
  <2>. QED
    BY <2>1, <2>2
<1>6. CASE Live(m, k, t)
  <2> DEFINE c == m[k].count
  <2>1. c \in 1..limit /\ c <= Len(s) /\ Len(s) - c < limit /\ m[k].resetAt = s[Len(s) - c + 1] + window
    BY <1>6 DEF Counted
  <2>2. n[k].count = c + 1 /\ n[k].resetAt = m[k].resetAt /\ k \in DOMAIN n /\ t < m[k].resetAt
    BY <1>6 DEF Counting, Live
  <2>3. Live(n, k, t)
    BY <2>2 DEF Live
  <2>4. c < limit
    BY <1>6
  <2> HIDE DEF c
  <2>5. c + 1 \in 1..limit /\ c + 1 <= Len(a) /\ Len(a) - (c + 1) < limit
    BY <1>1, <1>2, <2>1, <2>4
  <2>6. Len(a) - (c + 1) + 1 = Len(s) - c + 1 /\ Len(s) - c + 1 \in 1..Len(s)
    BY <1>1, <1>2, <2>1
  <2>7. n[k].resetAt = a[Len(a) - (c + 1) + 1] + window
    BY <1>2, <2>1, <2>2, <2>6
  <2>. QED
    BY <1>2, <1>4, <1>5, <2>2, <2>3, <2>5, <2>7 DEF Counted, a
<1>7. CASE ~Live(m, k, t)
  <2>1. Len(s) < limit
    BY <1>7 DEF Counted
  <2>2. n[k].count = 1 /\ n[k].resetAt = t + window /\ k \in DOMAIN n
    BY <1>7 DEF Counting
  <2>3. Live(n, k, t)
    BY <1>3, <2>2 DEF Live
  <2>4. 1 \in 1..limit /\ 1 <= Len(a) /\ Len(a) - 1 < limit /\ Len(a) - 1 + 1 = Len(s) + 1
    BY <1>1, <1>2, <2>1
  <2>5. n[k].resetAt = a[Len(a) - 1 + 1] + window
    BY <1>2, <2>2, <2>4
  <2>. QED
    BY <1>2, <1>4, <1>5, <2>2, <2>3, <2>4, <2>5 DEF Counted, a
<1>. QED
  BY <1>6, <1>7

\* The clock moves on: times leave the window, and the bucket may die.
LEMMA CountedTicks ==
  ASSUME NEW T \in SUBSET Nat, NEW s \in Seq(T), NEW m, NEW k, NEW limit \in Nat \ {0},
         NEW window \in Nat \ {0}, NEW t \in Nat,
         k \in DOMAIN m => m[k].resetAt \in Nat,
         Counted(s, m, k, limit, window, t)
  PROVE  /\ Recent(s, window, t + 1) \in Seq(T)
         /\ Counted(Recent(s, window, t + 1), m, k, limit, window, t + 1)
<1> DEFINE r == Recent(s, window, t + 1)
<1>1. Len(s) \in Nat /\ DOMAIN s = 1..Len(s) /\ \A i \in 1..Len(s) : s[i] \in T /\ s[i] \in Nat
  BY LenProperties, ElementOfSeq
<1>2. Nondecreasing(s)
  BY DEF Counted
<1>3. /\ r \in Seq(T)
      /\ \E d \in 0..Len(s) :
            /\ Len(r) = Len(s) - d
            /\ \A i \in 1..Len(r) : r[i] = s[i + d]
            /\ \A i \in 1..d : s[i] + window <= t + 1
            /\ \A i \in d+1..Len(s) : s[i] + window > t + 1
  BY <1>2, RecentIsSuffix, t + 1 \in Nat DEF r
<1> HIDE DEF r
<1>4. PICK d \in 0..Len(s) :
            /\ Len(r) = Len(s) - d
            /\ \A i \in 1..Len(r) : r[i] = s[i + d]
            /\ \A i \in 1..d : s[i] + window <= t + 1
            /\ \A i \in d+1..Len(s) : s[i] + window > t + 1
  BY <1>3
<1>5. Len(r) \in Nat /\ DOMAIN r = 1..Len(r)
  BY <1>3, LenProperties
<1>6. \A i \in DOMAIN r : i + d \in 1..Len(s) /\ r[i] = s[i + d]
  BY <1>1, <1>4, <1>5
<1>0. Len(s) \in Nat /\ d \in 0..Len(s) /\ Len(r) = Len(s) - d
  BY <1>1, <1>4
<1>7. Nondecreasing(r)
  <2> SUFFICES ASSUME NEW i \in DOMAIN r, NEW j \in DOMAIN r, i <= j PROVE r[i] <= r[j]
    BY DEF Nondecreasing
  <2>1. i + d <= j + d
    BY <1>5
  <2>2. s[i + d] <= s[j + d]
    BY <1>1, <1>2, <1>6, <2>1 DEF Nondecreasing
  <2>. QED
    BY <1>6, <2>2
<1>8. \A i \in DOMAIN r : r[i] <= t + 1
  <2> SUFFICES ASSUME NEW i \in DOMAIN r PROVE r[i] <= t + 1
    OBVIOUS
  <2>1. s[i + d] \in Nat /\ s[i + d] <= t
    BY <1>1, <1>6 DEF Counted
  <2>. QED
    BY <1>6, <2>1
<1>9. CASE Live(m, k, t)
  <2>1. PICK c \in 1..limit : /\ c = m[k].count
                              /\ c <= Len(s) /\ Len(s) - c < limit
                              /\ m[k].resetAt = s[Len(s) - c + 1] + window
    BY <1>9 DEF Counted
  <2>2. PICK f \in 1..Len(s) : f = Len(s) - c + 1
    BY <1>1, <2>1
  <2>3. k \in DOMAIN m /\ m[k].resetAt = s[f] + window /\ s[f] \in Nat
    BY <1>1, <1>9, <2>1, <2>2 DEF Live
  <2>4. CASE Live(m, k, t + 1)
    <3>1. t + 1 < s[f] + window
      BY <2>3, <2>4 DEF Live
    <3>2. ~(f <= d)
      BY <1>4, <2>3, <3>1
    <3>0. c \in Nat /\ c >= 1 /\ f \in Nat /\ d \in Nat /\ d < f /\ Len(r) \in Nat
      BY <1>0, <2>2, <3>2
    <3>3. /\ c <= Len(r) /\ Len(r) - c < limit
          /\ Len(r) - c + 1 \in 1..Len(r)
          /\ Len(r) - c + 1 + d = f
      <4>1. Len(r) = Len(s) - d /\ Len(s) - c < limit /\ f = Len(s) - c + 1
        BY <1>0, <2>1, <2>2
      <4>2. c <= Len(r)
        BY <1>0, <3>0, <4>1
      <4>3. Len(r) - c < limit
        BY <1>0, <3>0, <4>1
      <4>4. Len(r) - c + 1 \in 1..Len(r)
        BY <1>0, <3>0, <4>1
      <4>5. Len(r) - c + 1 + d = f
        BY <1>0, <3>0, <4>1
      <4>. QED
        BY <4>2, <4>3, <4>4, <4>5
    <3>4. r[Len(r) - c + 1] = s[f]
      BY <1>4, <3>3
    <3>. QED
      BY <1>3, <1>7, <1>8, <2>1, <2>3, <2>4, <3>3, <3>4 DEF Counted, r
  <2>5. CASE ~Live(m, k, t + 1)
    <3>1. s[f] + window <= t + 1
      BY <2>3, <2>5 DEF Live
    <3>2. f <= d
      <4>1. CASE f \in d+1..Len(s)
        BY <1>4, <2>3, <3>1, <4>1
      <4>. QED
        BY <1>1, <4>1
    <3>3. Len(r) < limit
      BY SMTT(30), <1>0, <2>1, <2>2, <3>2
    <3>. QED
      BY <1>3, <1>7, <1>8, <2>5, <3>3 DEF Counted, r
  <2>. QED
    BY <2>4, <2>5
<1>10. CASE ~Live(m, k, t)
  <2>1. Len(s) < limit
    BY <1>10 DEF Counted
  <2>2. Len(r) < limit
    BY <1>1, <1>4, <2>1
  <2>3. ~Live(m, k, t + 1)
    BY <1>10 DEF Live
  <2>. QED
    BY <1>3, <1>7, <1>8, <2>2, <2>3 DEF Counted, r
<1>. QED
  BY <1>3, <1>9, <1>10 DEF r

\* A limiter that has just started has counted nothing.
LEMMA NothingCounted ==
  ASSUME NEW k, NEW limit \in Nat \ {0}, NEW window, NEW t, NEW m, ~Live(m, k, t)
  PROVE  Counted(<<>>, m, k, limit, window, t)
BY DEF Counted, Nondecreasing

-----------------------------------------------------------------------------
(* The account routes.                                                     *)

\* The constants of the limiters are positive.
LEMMA LimitsArePositive ==
  /\ IpFails \in Nat \ {0} /\ AccountFails \in Nat \ {0} /\ CallLimit \in Nat \ {0}
  /\ IpWindow \in Nat \ {0} /\ AccountWindow \in Nat \ {0}
  /\ MaxAuth \in Nat \ {0} /\ MaxAdmin \in Nat \ {0}
  /\ MaxClock \in Nat /\ 0..MaxClock \in SUBSET Nat
BY AuthLimitsAssumption

\* A map of at most cap buckets, for keys of K.
Holds(m, K, cap) ==
    IsBuckets(m, K) /\ IsFiniteSet(DOMAIN m) /\ Cardinality(DOMAIN m) <= cap

MailKey(a) == <<"login:email", a>>

GuessesCounted ==
    \A a \in Account :
        Counted(guesses[a], auth, MailKey(a), AccountFails, AccountWindow, time)

LimitersInv ==
    /\ AuthLimitsTypeOK
    /\ Holds(auth, Key, MaxAuth)
    /\ Holds(admin, Ip, MaxAdmin)
    /\ GuessesCounted

\* A map that loses keys still holds buckets.
LEMMA FewerHolds ==
  ASSUME NEW m, NEW n, NEW K, NEW cap \in Nat, Holds(m, K, cap), DOMAIN n \subseteq DOMAIN m,
         n = [j \in DOMAIN n |-> m[j]]
  PROVE  Holds(n, K, cap)
<1>1. IsFiniteSet(DOMAIN n) /\ Cardinality(DOMAIN n) <= Cardinality(DOMAIN m)
      /\ Cardinality(DOMAIN n) \in Nat /\ Cardinality(DOMAIN m) \in Nat
  BY FS_Subset, FS_CardinalityType DEF Holds
<1>2. \A j \in DOMAIN n : n[j] = m[j]
  OBVIOUS
<1>3. IsBuckets(n, K)
  BY <1>2 DEF Holds, IsBuckets
<1>. QED
  BY <1>1, <1>3 DEF Holds

\* Making room and burying a dead bucket lose keys only.
LEMMA RoomHolds ==
  ASSUME NEW m, NEW k, NEW K, NEW cap \in Nat, NEW t, Holds(m, K, cap)
  PROVE  Holds(MadeRoom(m, k, cap, t), K, cap)
<1> DEFINE n == MadeRoom(m, k, cap, t)
<1>1. DOMAIN n \subseteq DOMAIN m
  BY RoomKeepsLive
<1>2. m = [j \in DOMAIN m |-> m[j]]
  BY DEF Holds, IsBuckets
<1>3. n = [j \in DOMAIN n |-> m[j]]
  BY <1>2 DEF MadeRoom, Sweep
<1> HIDE DEF n
<1>. QED
  BY <1>1, <1>3, FewerHolds DEF n

\* Reading a counter changes no bucket that lives.
LEMMA ReadHolds ==
  ASSUME NEW m, NEW k, Holds(m, Key, MaxAuth)
  PROVE  Holds(Read(m, k), Key, MaxAuth) /\ \A j : Untouched(m, Read(m, k), j, time)
<1> DEFINE b == Buried(m, k)
<1>1. DOMAIN b \subseteq DOMAIN m
  BY DEF Buried, Forgotten
<1>2. m = [j \in DOMAIN m |-> m[j]]
  BY DEF Holds, IsBuckets
<1>3. b = [j \in DOMAIN b |-> m[j]]
  BY <1>2 DEF Buried, Forgotten
<1>4. \A j : Untouched(m, b, j, time)
  BY DEF Untouched, Buried, Forgotten, Live
<1> HIDE DEF b
<1>5. Holds(b, Key, MaxAuth)
  BY <1>1, <1>3, FewerHolds, LimitsArePositive
<1>6. Read(m, k) = MadeRoom(b, k, MaxAuth, time)
  BY DEF Read, b
<1>7. Holds(Read(m, k), Key, MaxAuth)
  BY <1>5, <1>6, RoomHolds, LimitsArePositive
<1>8. ASSUME NEW j PROVE Untouched(m, Read(m, k), j, time)
  <2>1. Untouched(b, Read(m, k), j, time)
    BY <1>6, RoomKeepsLive
  <2>. QED
    BY <1>4, <2>1, UntouchedTwice
<1>. QED
  BY <1>7, <1>8

\* A failure is counted for its key when it counts, and for no other.
LEMMA FailureHolds ==
  ASSUME NEW m, NEW k \in Key, NEW window \in Nat, time \in Nat, Holds(m, Key, MaxAuth)
  PROVE  LET n == RecordFailure(m, k, window)
         IN  /\ Holds(n, Key, MaxAuth)
             /\ \A j : j # k => Untouched(m, n, j, time)
             /\ Counts(m, k) => Counting(m, n, k, window, time)
             /\ ~Counts(m, k) => Untouched(m, n, k, time)
<1> DEFINE n == RecordFailure(m, k, window)
<1>1. CASE Live(m, k, time)
  <2> DEFINE b == [m[k] EXCEPT !.count = @ + 1]
  <2>1. k \in DOMAIN m /\ m[k] \in Bucket /\ n = Put(m, k, b)
    BY <1>1 DEF Live, Holds, IsBuckets, RecordFailure
  <2>2. b \in Bucket /\ b.count = m[k].count + 1 /\ b.resetAt = m[k].resetAt
    BY <2>1 DEF Bucket
  <2> HIDE DEF b
  <2>3. \A j : j # k => Untouched(m, n, j, time)
    BY <2>1, PutKeepsOthers
  <2>4. IsBuckets(n, Key) /\ DOMAIN n = DOMAIN m
    BY <2>1, <2>2 DEF Put, Holds, IsBuckets
  <2>5. Counting(m, n, k, window, time)
    BY <1>1, <2>1, <2>2 DEF Counting, Put
  <2>6. Holds(n, Key, MaxAuth)
    BY <2>4 DEF Holds
  <2>. QED
    BY <1>1, <2>3, <2>5, <2>6 DEF Counts
<1>2. CASE ~Live(m, k, time)
  <2>1. n = Consumed(m, k, 1, MaxAuth, window, time)
    BY <1>2 DEF RecordFailure
  <2>2. Allows(m, k, 1, MaxAuth, time) <=> Counts(m, k)
    BY <1>2 DEF Allows, Counts
  <2>3. \A j : j # k => Untouched(m, n, j, time)
    BY <2>1, ConsumedKeepsOthers
  <2>4. IF Allows(m, k, 1, MaxAuth, time) THEN Counting(m, n, k, window, time)
        ELSE Untouched(m, n, k, time)
    BY <2>1, ConsumedCounts DEF Holds
  <2>5. Holds(n, Key, MaxAuth)
    BY <2>1, ConsumedTypes, LimitsArePositive DEF Holds
  <2>. QED
    BY <2>2, <2>3, <2>4, <2>5
<1>. QED
  BY <1>1, <1>2

\* The limiters begin in the invariant.
LEMMA LimitersBegin == AuthLimitsInit => LimitersInv
<1> SUFFICES ASSUME AuthLimitsInit PROVE LimitersInv
  OBVIOUS
<1>1. auth = NoBuckets /\ admin = NoBuckets /\ time = 0 /\ guesses = [a \in Account |-> <<>>]
  BY DEF AuthLimitsInit
<1>2. DOMAIN NoBuckets = {} /\ IsFiniteSet({}) /\ Cardinality({}) = 0
  BY FS_EmptySet DEF NoBuckets
<1>3. \A K : IsBuckets(NoBuckets, K)
  BY DEF IsBuckets, NoBuckets
<1>4. Holds(auth, Key, MaxAuth) /\ Holds(admin, Ip, MaxAdmin)
  BY <1>1, <1>2, <1>3, LimitsArePositive DEF Holds
<1>5. AuthLimitsTypeOK
  BY <1>1, <1>2, <1>4, LimitsArePositive DEF AuthLimitsTypeOK, Holds, IsBuckets
<1>6. GuessesCounted
  <2> SUFFICES ASSUME NEW a \in Account
               PROVE  Counted(guesses[a], auth, MailKey(a), AccountFails, AccountWindow, time)
    BY DEF GuessesCounted
  <2>1. guesses[a] = <<>> /\ ~Live(auth, MailKey(a), time)
    BY <1>1, <1>2 DEF Live
  <2>. QED
    BY <2>1, NothingCounted, LimitsArePositive
<1>. QED
  BY <1>4, <1>5, <1>6 DEF LimitersInv

\* A sign-in counts at most one wrong password, for its own account, and
\* only below that account's limit.
LEMMA SignInCounts ==
  ASSUME LimitersInv, NEW v \in Ip, NEW a \in Account, SignIn(v, a)
  PROVE  /\ Holds(auth', Key, MaxAuth)
         /\ guesses' \in [Account -> Seq(0..MaxClock)]
         /\ \A x \in Account :
               Counted(guesses'[x], auth', MailKey(x), AccountFails, AccountWindow, time)
<1> DEFINE ip == <<"login:ip", v>>
           mail == MailKey(a)
           read == Read(auth, ip)
           both == Read(read, mail)
           failed == RecordFailure(both, ip, IpWindow)
           wrong == RecordFailure(failed, mail, AccountWindow)
<1>0. /\ Holds(auth, Key, MaxAuth) /\ GuessesCounted /\ time \in Nat /\ time \in 0..MaxClock
      /\ guesses \in [Account -> Seq(0..MaxClock)]
  BY LimitsArePositive DEF LimitersInv, AuthLimitsTypeOK
<1>1. ip \in Key /\ mail \in Key /\ ip # mail /\ \A x \in Account : MailKey(x) # ip
  BY DEF Key, MailKey
<1>2. \A x \in Account : x # a => MailKey(x) # mail
  BY DEF MailKey
<1>3. Holds(read, Key, MaxAuth) /\ \A j : Untouched(auth, read, j, time)
  BY <1>0, ReadHolds
<1>4. Holds(both, Key, MaxAuth) /\ \A j : Untouched(read, both, j, time)
  BY <1>3, ReadHolds
<1>5. /\ Holds(failed, Key, MaxAuth)
      /\ \A j : j # ip => Untouched(both, failed, j, time)
  BY <1>0, <1>1, <1>4, FailureHolds, LimitsArePositive
<1>6. /\ Holds(wrong, Key, MaxAuth)
      /\ \A j : j # mail => Untouched(failed, wrong, j, time)
      /\ Counts(failed, mail) => Counting(failed, wrong, mail, AccountWindow, time)
      /\ ~Counts(failed, mail) => Untouched(failed, wrong, mail, time)
  BY <1>0, <1>1, <1>5, FailureHolds, LimitsArePositive
<1>7. \/ auth' = read /\ guesses' = guesses
      \/ auth' = both /\ guesses' = guesses
      \/ auth' = Forgotten(both, mail) /\ guesses' = [guesses EXCEPT ![a] = <<>>]
      \/ /\ ~IsLimited(read, mail, AccountFails)
         /\ auth' = wrong
         /\ guesses' = IF Counts(failed, mail)
                       THEN [guesses EXCEPT ![a] = Append(@, time)] ELSE guesses
  BY Zenon DEF SignIn, MailKey
<1> HIDE DEF read, both, failed, wrong
<1>8. \A j : Untouched(auth, both, j, time)
  BY <1>3, <1>4, UntouchedTwice
<1>9. \A j : j # ip => Untouched(auth, failed, j, time)
  BY <1>5, <1>8, UntouchedTwice
<1>10. \A x \in Account :
          Counted(guesses[x], auth, MailKey(x), AccountFails, AccountWindow, time)
  BY <1>0 DEF GuessesCounted
<1>11. CASE auth' = read /\ guesses' = guesses
  BY <1>0, <1>3, <1>10, <1>11, CountedKept
<1>12. CASE auth' = both /\ guesses' = guesses
  BY <1>0, <1>4, <1>8, <1>10, <1>12, CountedKept
<1>13. CASE auth' = Forgotten(both, mail) /\ guesses' = [guesses EXCEPT ![a] = <<>>]
  <2>1. Holds(auth', Key, MaxAuth)
    <3>1. DOMAIN (auth') \subseteq DOMAIN both /\ auth' = [j \in DOMAIN (auth') |-> both[j]]
      BY <1>13 DEF Forgotten
    <3>. QED
      BY <1>4, <3>1, FewerHolds, LimitsArePositive
  <2>2. guesses' \in [Account -> Seq(0..MaxClock)]
    BY <1>0, <1>13
  <2>3. ASSUME NEW x \in Account
        PROVE  Counted(guesses'[x], auth', MailKey(x), AccountFails, AccountWindow, time)
    <3>1. CASE x = a
      <4>1. guesses'[x] = <<>> /\ ~Live(auth', MailKey(x), time)
        BY <1>0, <1>13, <3>1 DEF Forgotten, Live
      <4>. QED
        BY <4>1, NothingCounted, LimitsArePositive
    <3>2. CASE x # a
      <4>1. guesses'[x] = guesses[x] /\ MailKey(x) # mail
        BY <1>0, <1>2, <1>13, <3>2
      <4>2. Untouched(both, auth', MailKey(x), time)
        BY <1>13, <4>1 DEF Untouched, Forgotten, Live
      <4>3. Untouched(auth, auth', MailKey(x), time)
        BY <1>8, <4>2, UntouchedTwice
      <4>. QED
        BY <1>10, <4>1, <4>3, CountedKept
    <3>. QED
      BY <3>1, <3>2
  <2>. QED
    BY <2>1, <2>2, <2>3
<1>14. CASE /\ ~IsLimited(read, mail, AccountFails)
            /\ auth' = wrong
            /\ guesses' = IF Counts(failed, mail)
                          THEN [guesses EXCEPT ![a] = Append(@, time)] ELSE guesses
  <2>1. Counted(guesses[a], failed, mail, AccountFails, AccountWindow, time)
    BY <1>1, <1>9, <1>10, CountedKept
  <2>2. Live(failed, mail, time) => failed[mail].count < AccountFails
    <3>1. SUFFICES ASSUME Live(failed, mail, time) PROVE failed[mail].count < AccountFails
      OBVIOUS
    <3>2. Untouched(read, failed, mail, time)
      BY <1>1, <1>4, <1>5, UntouchedTwice
    <3>3. Live(read, mail, time) /\ failed[mail] = read[mail]
      BY <3>1, <3>2 DEF Untouched
    <3>4. read[mail].count \in Nat
      BY <1>3, <3>3 DEF Holds, IsBuckets, Live, Bucket
    <3>5. ~(read[mail].count >= AccountFails)
      BY <1>14, <3>3 DEF IsLimited
    <3>. QED
      BY <3>3, <3>4, <3>5, LimitsArePositive
  <2>3. CASE Counts(failed, mail)
    <3>1. guesses' = [guesses EXCEPT ![a] = Append(@, time)]
      BY <1>14, <2>3
    <3>2. Counting(failed, wrong, mail, AccountWindow, time)
      BY <1>6, <2>3
    <3>3. /\ Append(guesses[a], time) \in Seq(0..MaxClock)
          /\ Counted(Append(guesses[a], time), wrong, mail, AccountFails, AccountWindow, time)
      <4>1. guesses[a] \in Seq(0..MaxClock)
        BY <1>0
      <4> HIDE DEF mail
      <4>. QED
        BY <1>0, <2>1, <2>2, <3>2, <4>1, CountedAppends, LimitsArePositive
    <3>4. guesses' \in [Account -> Seq(0..MaxClock)]
      BY <1>0, <3>1, <3>3
    <3>5. ASSUME NEW x \in Account
          PROVE  Counted(guesses'[x], auth', MailKey(x), AccountFails, AccountWindow, time)
      <4>1. CASE x = a
        BY <1>0, <1>14, <3>1, <3>3, <4>1
      <4>2. CASE x # a
        <5>1. guesses'[x] = guesses[x] /\ MailKey(x) # mail /\ MailKey(x) # ip
          BY <1>0, <1>1, <1>2, <3>1, <4>2
        <5>2. Untouched(auth, wrong, MailKey(x), time)
          BY <1>6, <1>9, <5>1, UntouchedTwice
        <5>. QED
          BY <1>10, <1>14, <5>1, <5>2, CountedKept
      <4>. QED
        BY <4>1, <4>2
    <3>. QED
      BY <1>6, <1>14, <3>4, <3>5
  <2>4. CASE ~Counts(failed, mail)
    <3>1. guesses' = guesses
      BY <1>14, <2>4
    <3>2. \A j : Untouched(failed, wrong, j, time)
      BY <1>6, <2>4
    <3>3. \A x \in Account : Untouched(auth, wrong, MailKey(x), time)
      BY <1>1, <1>9, <3>2, UntouchedTwice
    <3>. QED
      BY <1>0, <1>6, <1>10, <1>14, <3>1, <3>3, CountedKept
  <2>. QED
    BY <2>3, <2>4
<1>. QED
  BY <1>7, <1>11, <1>12, <1>13, <1>14

\* Each step of the limiters keeps their invariant.
LEMMA LimitersStep == LimitersInv /\ [AuthLimitsNext]_limitsVars => LimitersInv'
<1> SUFFICES ASSUME LimitersInv, [AuthLimitsNext]_limitsVars PROVE LimitersInv'
  OBVIOUS
<1>0. /\ Holds(auth, Key, MaxAuth) /\ Holds(admin, Ip, MaxAdmin)
      /\ GuessesCounted /\ AuthLimitsTypeOK /\ time \in Nat
  BY LimitsArePositive DEF LimitersInv, AuthLimitsTypeOK
<1>1. ASSUME Holds(auth', Key, MaxAuth), Holds(admin', Ip, MaxAdmin), time' \in 0..MaxClock,
             guesses' \in [Account -> Seq(0..MaxClock)], GuessesCounted'
      PROVE  LimitersInv'
  BY <1>1 DEF LimitersInv, AuthLimitsTypeOK, Holds, IsBuckets
<1>2. CASE LimitedCall
  <2>1. admin' = admin /\ time' = time
    BY <1>2 DEF LimitedCall
  <2>2. ASSUME NEW v \in Ip, NEW a \in Account, SignIn(v, a) PROVE LimitersInv'
    <3>1. /\ Holds(auth', Key, MaxAuth)
          /\ guesses' \in [Account -> Seq(0..MaxClock)]
          /\ \A x \in Account :
                Counted(guesses'[x], auth', MailKey(x), AccountFails, AccountWindow, time)
      BY <2>2, SignInCounts
    <3>2. GuessesCounted'
      BY <2>1, <3>1 DEF GuessesCounted
    <3>. QED
      BY <1>0, <1>1, <2>1, <3>1, <3>2 DEF AuthLimitsTypeOK
  <2>3. ASSUME NEW op \in {"signup", "forgot"}, NEW v \in Ip, CallRoute(<<op, v>>)
        PROVE  LimitersInv'
    <3> DEFINE k == <<op, v>>
    <3>1. auth' = Consumed(auth, k, CallLimit, MaxAuth, IpWindow, time) /\ guesses' = guesses
      BY <2>3 DEF CallRoute
    <3>2. k \in Key /\ \A x \in Account : MailKey(x) # k
      BY DEF Key, MailKey
    <3>3. Holds(auth', Key, MaxAuth)
      BY <1>0, <3>1, <3>2, ConsumedTypes, LimitsArePositive DEF Holds
    <3>4. \A x \in Account : Untouched(auth, auth', MailKey(x), time)
      BY <3>1, <3>2, ConsumedKeepsOthers
    <3>5. GuessesCounted'
      BY <1>0, <2>1, <3>1, <3>4, CountedKept DEF GuessesCounted
    <3>. QED
      BY <1>0, <1>1, <2>1, <3>1, <3>3, <3>5 DEF AuthLimitsTypeOK
  <2>. QED
    BY <1>2, <2>2, <2>3 DEF LimitedCall
<1>3. CASE TimePasses
  <2>1. /\ time < MaxClock /\ time' = time + 1 /\ auth' = auth /\ admin' = admin
        /\ guesses' = [a \in Account |-> Recent(guesses[a], AccountWindow, time + 1)]
    BY <1>3 DEF TimePasses
  <2>2. ASSUME NEW a \in Account
        PROVE  /\ guesses'[a] \in Seq(0..MaxClock)
               /\ Counted(guesses'[a], auth', MailKey(a), AccountFails, AccountWindow, time')
    <3> DEFINE k == MailKey(a)
    <3>1. k \in DOMAIN auth => auth[k].resetAt \in Nat
      BY <1>0 DEF Holds, IsBuckets, Bucket
    <3>2. guesses[a] \in Seq(0..MaxClock)
      BY <1>0 DEF AuthLimitsTypeOK
    <3>3. Counted(guesses[a], auth, k, AccountFails, AccountWindow, time)
      BY <1>0 DEF GuessesCounted
    <3> HIDE DEF k
    <3>4. /\ Recent(guesses[a], AccountWindow, time + 1) \in Seq(0..MaxClock)
          /\ Counted(Recent(guesses[a], AccountWindow, time + 1), auth, k, AccountFails,
                     AccountWindow, time + 1)
      BY <1>0, <3>1, <3>2, <3>3, CountedTicks, LimitsArePositive
    <3>. QED
      BY <2>1, <3>4 DEF k
  <2>3. GuessesCounted'
    BY <2>2 DEF GuessesCounted
  <2>4. guesses' \in [Account -> Seq(0..MaxClock)]
    BY <2>1, <2>2
  <2>5. time' \in 0..MaxClock
    BY <1>0, <2>1, LimitsArePositive
  <2>. QED
    BY <1>0, <1>1, <2>1, <2>3, <2>4, <2>5
<1>4. CASE LimitersRestart
  <2>1. /\ auth' = NoBuckets /\ admin' = NoBuckets /\ time' = time
        /\ guesses' = [a \in Account |-> <<>>]
    BY <1>4 DEF LimitersRestart
  <2>2. DOMAIN NoBuckets = {} /\ IsFiniteSet({}) /\ Cardinality({}) = 0
        /\ \A K : IsBuckets(NoBuckets, K)
    BY FS_EmptySet DEF NoBuckets, IsBuckets
  <2>3. Holds(auth', Key, MaxAuth) /\ Holds(admin', Ip, MaxAdmin)
    BY <2>1, <2>2, LimitsArePositive DEF Holds
  <2>4. ASSUME NEW a \in Account
        PROVE  Counted(guesses'[a], auth', MailKey(a), AccountFails, AccountWindow, time')
    <3>1. guesses'[a] = <<>> /\ ~Live(auth', MailKey(a), time')
      BY <2>1, <2>2 DEF Live
    <3>. QED
      BY <3>1, NothingCounted, LimitsArePositive
  <2>5. GuessesCounted'
    BY <2>4 DEF GuessesCounted
  <2>6. guesses' \in [Account -> Seq(0..MaxClock)]
    BY <2>1
  <2>. QED
    BY <1>0, <1>1, <2>1, <2>3, <2>5, <2>6 DEF AuthLimitsTypeOK
<1>5. ASSUME NEW v \in Ip, AdminCall(v) PROVE LimitersInv'
  <2>1. /\ admin' = Consumed(admin, v, CallLimit, MaxAdmin, IpWindow, time)
        /\ auth' = auth /\ time' = time /\ guesses' = guesses
    BY <1>5 DEF AdminCall
  <2>2. Holds(admin', Ip, MaxAdmin)
    BY <1>0, <2>1, ConsumedTypes, LimitsArePositive DEF Holds
  <2>3. GuessesCounted'
    BY <1>0, <2>1 DEF GuessesCounted
  <2>. QED
    BY <1>0, <1>1, <2>1, <2>2, <2>3 DEF AuthLimitsTypeOK
<1>6. CASE UNCHANGED limitsVars
  BY <1>0, <1>6 DEF limitsVars, LimitersInv, AuthLimitsTypeOK, GuessesCounted
<1>. QED
  BY <1>2, <1>3, <1>4, <1>5, <1>6 DEF AuthLimitsNext

\* The limiters of the account and administrator routes keep their types,
\* within the capacity of their maps.
THEOREM LimitersAreTyped == AuthLimitsSpec => []AuthLimitsTypeOK
<1>1. LimitersInv => AuthLimitsTypeOK
  BY DEF LimitersInv
<1>. QED
  BY <1>1, LimitersBegin, LimitersStep, PTL DEF AuthLimitsSpec

\* From however many addresses and however full the shared map is, fewer
\* wrong passwords than twice the limit are counted for an account within
\* one of its windows (authorizeWithLoginRateLimit).
THEOREM GuessesAreBounded == AuthLimitsSpec => []GuessesBounded
<1>1. LimitersInv => GuessesBounded
  <2> SUFFICES ASSUME LimitersInv, NEW a \in Account PROVE Len(guesses[a]) < 2 * AccountFails
    BY DEF GuessesBounded
  <2>1. guesses[a] \in Seq(0..MaxClock)
        /\ Counted(guesses[a], auth, MailKey(a), AccountFails, AccountWindow, time)
    BY DEF LimitersInv, AuthLimitsTypeOK, GuessesCounted
  <2>2. Len(guesses[a]) \in Nat
    BY <2>1, LenProperties
  <2>. QED
    BY <2>1, <2>2, CountedIsBounded, LimitsArePositive
<1>. QED
  BY <1>1, LimitersBegin, LimitersStep, PTL DEF AuthLimitsSpec

-----------------------------------------------------------------------------
(* The API proxy: the limits of a site.                                    *)

\* The constants of the proxy are positive.
LEMMA ProxyConstants ==
  /\ IpLimit \in Nat \ {0} /\ ProjectLimit \in Nat \ {0} /\ UserLimit \in Nat \ {0}
  /\ MaxBuckets \in Nat \ {0} /\ Window \in Nat \ {0} /\ Ttl \in Nat \ {0}
  /\ MaxEntries \in Nat \ {0}
  /\ MaxKey \in Nat /\ MaxNow \in Nat /\ 0..MaxNow \in SUBSET Nat
  /\ SiteOwner \in [Site -> User] /\ Nobody \notin User /\ Nobody \notin Site
BY ProxyAssumption

ProxyLimits ==
    /\ clock \in 0..MaxNow
    /\ Holds(ipBuckets, Visitor \X Site, MaxBuckets)
    /\ Holds(projectBuckets, Site, MaxBuckets)
    /\ Holds(userBuckets, User, MaxBuckets)
    /\ admitted \in [Site -> Seq(0..MaxNow)]
    /\ \A p \in Site : Counted(admitted[p], projectBuckets, p, ProjectLimit, Window, clock)

\* The counters of a process that has just started.
LEMMA NoBucketsCount ==
  /\ \A K : Holds(NoBuckets, K, MaxBuckets)
  /\ \A p \in Site : \A t : Counted(<<>>, NoBuckets, p, ProjectLimit, Window, t)
<1>1. DOMAIN NoBuckets = {} /\ IsFiniteSet({}) /\ Cardinality({}) = 0
  BY FS_EmptySet DEF NoBuckets
<1>2. \A K : IsBuckets(NoBuckets, K)
  BY DEF IsBuckets, NoBuckets
<1>3. \A K : Holds(NoBuckets, K, MaxBuckets)
  BY <1>1, <1>2, ProxyConstants DEF Holds
<1>4. \A p, t : ~Live(NoBuckets, p, t)
  BY <1>1 DEF Live
<1>. QED
  BY <1>3, <1>4, NothingCounted, ProxyConstants

\* A request to a site is let through only when both counters have room, and
\* is then counted in both.
LEMMA SiteRequestCounts ==
  ASSUME ProxyLimits, NEW r, NEW v \in Visitor, NEW p \in Site, SiteRequest(r, v, p)
  PROVE  ProxyLimits'
<1> DEFINE key == <<v, p>>
           allows == Allows(ipBuckets, key, IpLimit, MaxBuckets, clock)
           lets == Allows(projectBuckets, p, ProjectLimit, MaxBuckets, clock)
           used == Consumed(projectBuckets, p, ProjectLimit, MaxBuckets, Window, clock)
<1>0. /\ Holds(ipBuckets, Visitor \X Site, MaxBuckets)
      /\ Holds(projectBuckets, Site, MaxBuckets) /\ Holds(userBuckets, User, MaxBuckets)
      /\ admitted \in [Site -> Seq(0..MaxNow)] /\ clock \in 0..MaxNow /\ clock \in Nat
      /\ \A q \in Site : Counted(admitted[q], projectBuckets, q, ProjectLimit, Window, clock)
  BY ProxyConstants DEF ProxyLimits
<1>1. clock' = clock /\ userBuckets' = userBuckets
  BY DEF SiteRequest
<1>2. CASE p \in published /\ p \in linked
  <2>1. /\ ipBuckets' = Consumed(ipBuckets, key, IpLimit, MaxBuckets, Window, clock)
        /\ projectBuckets' = IF allows THEN used ELSE projectBuckets
        /\ admitted' = IF allows /\ lets
                       THEN [admitted EXCEPT ![p] = Append(@, clock)] ELSE admitted
    BY <1>2 DEF SiteRequest, SiteCharges, SiteAdmits
  <2>2. Holds(ipBuckets', Visitor \X Site, MaxBuckets)
    BY <1>0, <2>1, ConsumedTypes, ProxyConstants DEF Holds
  <2>3. Holds(used, Site, MaxBuckets)
    BY <1>0, ConsumedTypes, ProxyConstants DEF Holds
  <2>4. \A q \in Site : q # p => Untouched(projectBuckets, used, q, clock)
    BY ConsumedKeepsOthers
  <2>5. IF lets THEN Counting(projectBuckets, used, p, Window, clock)
        ELSE Untouched(projectBuckets, used, p, clock)
    BY <1>0, ConsumedCounts DEF Holds
  <2> HIDE DEF used
  <2>6. CASE ~allows
    BY <1>0, <1>1, <2>1, <2>2, <2>6 DEF ProxyLimits
  <2>7. CASE allows /\ ~lets
    <3>1. \A q \in Site : Counted(admitted[q], used, q, ProjectLimit, Window, clock)
      BY <1>0, <2>4, <2>5, <2>7, CountedKept
    <3>. QED
      BY <1>0, <1>1, <2>1, <2>2, <2>3, <2>7, <3>1 DEF ProxyLimits
  <2>8. CASE allows /\ lets
    <3>1. Live(projectBuckets, p, clock) => projectBuckets[p].count < ProjectLimit
      BY <2>8 DEF Allows
    <3>2. admitted[p] \in Seq(0..MaxNow)
          /\ Counted(admitted[p], projectBuckets, p, ProjectLimit, Window, clock)
          /\ Counting(projectBuckets, used, p, Window, clock)
      BY <1>0, <2>5, <2>8
    <3>3. /\ Append(admitted[p], clock) \in Seq(0..MaxNow)
          /\ Counted(Append(admitted[p], clock), used, p, ProjectLimit, Window, clock)
      BY <1>0, <3>1, <3>2, CountedAppends, ProxyConstants
    <3>4. admitted' = [admitted EXCEPT ![p] = Append(@, clock)] /\ projectBuckets' = used
      BY <2>1, <2>8
    <3>5. admitted' \in [Site -> Seq(0..MaxNow)]
      BY <1>0, <3>3, <3>4
    <3>6. ASSUME NEW q \in Site
          PROVE  Counted(admitted'[q], used, q, ProjectLimit, Window, clock)
      <4>1. CASE q = p
        BY <1>0, <3>3, <3>4, <4>1
      <4>2. CASE q # p
        <5>1. admitted'[q] = admitted[q]
          BY <1>0, <3>4, <4>2
        <5>. QED
          BY <1>0, <2>4, <4>2, <5>1, CountedKept
      <4>. QED
        BY <4>1, <4>2
    <3>. QED
      BY <1>0, <1>1, <2>2, <2>3, <3>4, <3>5, <3>6 DEF ProxyLimits
  <2>. QED
    BY <2>6, <2>7, <2>8
<1>3. CASE ~(p \in published /\ p \in linked)
  <2>1. UNCHANGED <<siteBuckets, admitted>>
    BY <1>3 DEF SiteRequest
  <2>. QED
    BY <1>0, <1>1, <2>1 DEF ProxyLimits, siteBuckets
<1>. QED
  BY <1>2, <1>3

\* The clock moves on under the counters of the proxy.
LEMMA ProxyTickCounts ==
  ASSUME ProxyLimits, ProxyTick
  PROVE  ProxyLimits'
<1>0. /\ clock \in 0..MaxNow /\ clock \in Nat
      /\ admitted \in [Site -> Seq(0..MaxNow)]
      /\ Holds(projectBuckets, Site, MaxBuckets)
      /\ \A q \in Site : Counted(admitted[q], projectBuckets, q, ProjectLimit, Window, clock)
  BY ProxyConstants DEF ProxyLimits
<1>1. /\ clock < MaxNow /\ clock' = clock + 1
      /\ admitted' = [p \in Site |-> Recent(admitted[p], Window, clock + 1)]
      /\ ipBuckets' = ipBuckets /\ projectBuckets' = projectBuckets
      /\ userBuckets' = userBuckets
  BY DEF ProxyTick, siteBuckets
<1>2. ASSUME NEW p \in Site
      PROVE  /\ admitted'[p] \in Seq(0..MaxNow)
             /\ Counted(admitted'[p], projectBuckets, p, ProjectLimit, Window, clock + 1)
  <2>1. p \in DOMAIN projectBuckets => projectBuckets[p].resetAt \in Nat
    BY <1>0 DEF Holds, IsBuckets, Bucket
  <2>2. admitted[p] \in Seq(0..MaxNow)
        /\ Counted(admitted[p], projectBuckets, p, ProjectLimit, Window, clock)
    BY <1>0
  <2>3. /\ Recent(admitted[p], Window, clock + 1) \in Seq(0..MaxNow)
        /\ Counted(Recent(admitted[p], Window, clock + 1), projectBuckets, p, ProjectLimit,
                   Window, clock + 1)
    BY <1>0, <2>1, <2>2, CountedTicks, ProxyConstants
  <2>. QED
    BY <1>1, <2>3
<1>3. clock' \in 0..MaxNow
  BY <1>0, <1>1, ProxyConstants
<1>4. admitted' \in [Site -> Seq(0..MaxNow)]
  BY <1>1, <1>2
<1>. QED
  BY <1>1, <1>2, <1>3, <1>4 DEF ProxyLimits

\* Each step of the proxy keeps its counters right.
LEMMA ProxyLimitsStep == ProxyLimits /\ [ProxyNext]_proxyVars => ProxyLimits'
<1> SUFFICES ASSUME ProxyLimits, [ProxyNext]_proxyVars PROVE ProxyLimits'
  OBVIOUS
<1>1. CASE UNCHANGED <<siteBuckets, userBuckets, clock, admitted>>
  BY <1>1 DEF ProxyLimits, siteBuckets
<1>2. ASSUME NEW r \in Request, HandlerSteps(r) PROVE ProxyLimits'
  <2>1. ASSUME NEW p \in Site, NEW v \in Visitor, SiteRequest(r, v, p) PROVE ProxyLimits'
    BY <2>1, SiteRequestCounts
  <2>2. ASSUME NEW u \in User, NEW p \in Site \cup {Nobody}, AppRequest(r, u, p)
        PROVE  ProxyLimits'
    <3>1. UNCHANGED <<siteBuckets, clock, admitted>>
      BY <2>2 DEF AppRequest
    <3>2. \/ userBuckets' = userBuckets
          \/ userBuckets' = Consumed(userBuckets, u, UserLimit, MaxBuckets, Window, clock)
      BY <2>2 DEF AppRequest
    <3>3. Holds(userBuckets', User, MaxBuckets)
      <4>1. clock \in Nat /\ Holds(userBuckets, User, MaxBuckets)
        BY ProxyConstants DEF ProxyLimits
      <4>. QED
        BY <3>2, <4>1, ConsumedTypes, ProxyConstants DEF Holds
    <3>. QED
      BY <3>1, <3>3 DEF ProxyLimits, siteBuckets
  <2>3. CASE Fail(r) \/ LookUpCache(r) \/ BodyArrives(r)
    BY <1>1, <2>3 DEF Fail, LookUpCache, BodyArrives
  <2>. QED
    BY <1>2, <2>1, <2>2, <2>3 DEF HandlerSteps
<1>3. ASSUME NEW u \in User, SaveKey(u) \/ DeleteKey(u) \/ OwnerLeaves(u) PROVE ProxyLimits'
  BY <1>1, <1>3 DEF SaveKey, DeleteKey, OwnerLeaves, Elsewhere
<1>4. ASSUME NEW p \in Site, TogglePublished(p) PROVE ProxyLimits'
  BY <1>1, <1>4 DEF TogglePublished, Elsewhere
<1>5. CASE ToggleActive
  BY <1>1, <1>5 DEF ToggleActive, Elsewhere
<1>6. CASE Restart
  <2>1. /\ clock' \in 0..MaxNow /\ ipBuckets' = NoBuckets /\ projectBuckets' = NoBuckets
        /\ userBuckets' = NoBuckets /\ admitted' = [p \in Site |-> <<>>]
    BY <1>6 DEF Restart, ProxyLimits
  <2>2. \A p \in Site : admitted'[p] = <<>> /\ <<>> \in Seq(0..MaxNow)
    BY <2>1
  <2>. QED
    BY <2>1, <2>2, NoBucketsCount DEF ProxyLimits
<1>7. CASE ProxyTick
  BY <1>7, ProxyTickCounts
<1>8. CASE UNCHANGED proxyVars
  BY <1>1, <1>8 DEF proxyVars
<1>. QED
  BY <1>2, <1>3, <1>4, <1>5, <1>6, <1>7, <1>8 DEF ProxyNext

\* The proxy's counters begin right.
LEMMA ProxyLimitsBegin == ProxyInit => ProxyLimits
<1> SUFFICES ASSUME ProxyInit PROVE ProxyLimits
  OBVIOUS
<1>1. /\ clock = 0 /\ ipBuckets = NoBuckets /\ projectBuckets = NoBuckets
      /\ userBuckets = NoBuckets /\ admitted = [p \in Site |-> <<>>]
  BY DEF ProxyInit
<1>2. \A p \in Site : admitted[p] = <<>> /\ <<>> \in Seq(0..MaxNow)
  BY <1>1
<1>. QED
  BY <1>1, <1>2, NoBucketsCount, ProxyConstants DEF ProxyLimits

\* In any span of one window a site gets fewer than twice its limit of
\* requests through (consumeSiteProxyRateLimit), whoever sends them.
THEOREM SiteLimitAlwaysHolds == ProxySpec => []SiteLimitHolds
<1>1. ProxyLimits => SiteLimitHolds
  <2> SUFFICES ASSUME ProxyLimits, NEW p \in Site
               PROVE  Len(admitted[p]) < 2 * ProjectLimit
    BY DEF SiteLimitHolds
  <2>1. admitted[p] \in Seq(0..MaxNow)
        /\ Counted(admitted[p], projectBuckets, p, ProjectLimit, Window, clock)
    BY DEF ProxyLimits
  <2>2. Len(admitted[p]) \in Nat
    BY <2>1, LenProperties
  <2>. QED
    BY <2>1, <2>2, CountedIsBounded, ProxyConstants
<1>. QED
  BY <1>1, ProxyLimitsBegin, ProxyLimitsStep, PTL DEF ProxySpec

-----------------------------------------------------------------------------
(* The API proxy: whose data is given away.                                *)

\* Cache entries as they may be at time t: the response of the key it is
\* stored under, no younger than it is.
Honest(t) ==
    {e \in Entry : /\ e.val.ident = e.key
                   /\ e.val.born <= t
                   /\ e.expiresAt = e.val.born + Ttl}

\* The rows of the database are where they can be, and a stored key has a
\* number.
Rows ==
    /\ published \subseteq existing
    /\ existing \subseteq Site
    /\ linked \subseteq Site
    /\ active \in BOOLEAN
    /\ userKey \in [User -> [n : 0..MaxKey, held : BOOLEAN]]
    /\ \A u \in User : userKey[u].held => userKey[u].n >= 1

\* A request that waits for DNS has seen every identity it may be sent with.
Seen ==
    /\ request \in [Request -> Handler]
    /\ \A r \in Request : request[r].pc = "dns" => Usable(request[r].owner) \subseteq request[r].seen

IsCurrent(v, t) ==
    v \in Given /\ v.ident \in v.seen /\ t - v.born <= Ttl

ProxyData ==
    /\ clock \in 0..MaxNow
    /\ Rows
    /\ Seen
    /\ cache \in Seq(Honest(clock))
    /\ reply = Nobody \/ IsCurrent(reply, clock)

\* What a request may be sent with is an identity.
LEMMA UsableIsIdentity ==
  ASSUME Rows, NEW u \in User \cup {Nobody}
  PROVE  Usable(u) \subseteq Identity /\ NoKey \in Identity
<1>1. CASE u # Nobody /\ userKey[u].held
  <2>1. userKey[u].n \in 1..MaxKey /\ u \in User
    BY <1>1, ProxyConstants DEF Rows
  <2>. QED
    BY <1>1, <2>1 DEF Usable, Identity
<1>2. CASE ~(u # Nobody /\ userKey[u].held)
  BY <1>2 DEF Usable, Identity
<1>. QED
  BY <1>1, <1>2

\* Deleting the entry of a key leaves entries that were there.
LEMMA WithoutKeeps ==
  ASSUME NEW S, NEW c \in Seq(S), NEW k
  PROVE  Without(c, k) \in Seq(S)
<1>1. CASE At(c, k) = {}
  BY <1>1 DEF Without
<1>2. CASE At(c, k) # {}
  <2>1. PICK i \in At(c, k) : i = CHOOSE j \in At(c, k) : TRUE
    BY <1>2
  <2>2. Len(c) \in Nat /\ i \in 1..Len(c) /\ \A j \in 1..Len(c) : c[j] \in S
    BY <2>1, LenProperties, ElementOfSeq DEF At
  <2>3. i - 1 \in Int /\ i + 1 \in Int /\ 1 \in Int /\ Len(c) \in Int
        /\ (\A j \in 1..i-1 : c[j] \in S) /\ (\A j \in i+1..Len(c) : c[j] \in S)
    BY <2>2
  <2>4. SubSeq(c, 1, i - 1) \in Seq(S)
    BY <2>3, SubSeqProperties
  <2>5. SubSeq(c, i + 1, Len(c)) \in Seq(S)
    BY <2>3, SubSeqProperties
  <2>6. Removed(c, i) \in Seq(S)
    BY <2>4, <2>5, ConcatProperties DEF Removed
  <2>7. Without(c, k) = Removed(c, i)
    BY <1>2, <2>1 DEF Without
  <2>. QED
    BY <2>6, <2>7
<1>. QED
  BY <1>1, <1>2

\* The cache after a lookup, found or not, holds entries that were there.
LEMMA TouchedKeeps ==
  ASSUME NEW S, cache \in Seq(S), NEW k
  PROVE  /\ Touched(k) \in Seq(S)
         /\ \A i \in Hits(k) : cache[i] \in S /\ cache[i].key = k /\ clock <= cache[i].expiresAt
<1>1. \A i \in Hits(k) : cache[i] \in S /\ cache[i].key = k /\ clock <= cache[i].expiresAt
  BY ElementOfSeq, LenProperties DEF Hits, At
<1>2. Without(cache, k) \in Seq(S)
  BY WithoutKeeps
<1>3. CASE Hits(k) # {}
  <2>1. cache[CHOOSE i \in Hits(k) : TRUE] \in S
    BY <1>1, <1>3
  <2>. QED
    BY <1>1, <1>2, <1>3, <2>1 DEF Touched
<1>4. CASE Hits(k) = {}
  BY <1>1, <1>2, <1>4 DEF Touched
<1>. QED
  BY <1>3, <1>4

\* A response that is stored joins entries that were there.
LEMMA StoredKeeps ==
  ASSUME NEW S, cache \in Seq(S), NEW k, NEW v,
         [key |-> k, val |-> v, expiresAt |-> clock + Ttl] \in S
  PROVE  Stored(k, v) \in Seq(S)
<1> DEFINE a == Append(Without(cache, k), [key |-> k, val |-> v, expiresAt |-> clock + Ttl])
<1>1. Without(cache, k) \in Seq(S)
  BY WithoutKeeps
<1>2. a \in Seq(S) /\ a # <<>> /\ Len(a) \in Nat
  <2>1. a \in Seq(S) /\ Len(a) = Len(Without(cache, k)) + 1 /\ Len(Without(cache, k)) \in Nat
    BY <1>1
  <2>. QED
    BY <2>1
<1> HIDE DEF a
<1>3. Tail(a) \in Seq(S)
  BY <1>2, HeadTailProperties
<1>. QED
  BY <1>2, <1>3 DEF Stored, Trimmed, a

\* The records of handlers and responses.
LEMMA HandlerRecords ==
  ASSUME Rows
  PROVE  /\ NoRequest \in Handler /\ NoRequest.pc = "idle"
         /\ \A o \in User \cup {Nobody} :
               LET h == [NoRequest EXCEPT !.pc = "dns", !.owner = o, !.seen = Usable(o)]
               IN  h \in Handler /\ h.owner = o /\ h.seen = Usable(o)
         /\ \A id \in Identity :
               LET h == [NoRequest EXCEPT !.pc = "fetch", !.ident = id]
               IN  h \in Handler /\ h.pc = "fetch"
<1>1. NoKey \in Identity
  BY DEF Identity
<1>2. ASSUME NEW o \in User \cup {Nobody} PROVE Usable(o) \in SUBSET Identity
  BY UsableIsIdentity
<1>. QED
  BY <1>1, <1>2 DEF NoRequest, Handler

\* What waits for DNS has seen what it may be sent with, also after its
\* handler has looked the API up.
LEMMA LookUpSees ==
  ASSUME ProxyData, NEW r \in Request, NEW o \in User \cup {Nobody}, LookUpApi(r, o),
         userKey' = userKey
  PROVE  Seen'
<1>1. request \in [Request -> Handler]
  BY DEF ProxyData, Seen
<1>2. \A u : Usable(u)' = Usable(u)
  BY DEF Usable
<1>3. Rows
  BY DEF ProxyData
<1> DEFINE h == [NoRequest EXCEPT !.pc = "dns", !.owner = o, !.seen = Usable(o)]
<1>4. h \in Handler /\ h.owner = o /\ h.seen = Usable(o) /\ NoRequest \in Handler
      /\ NoRequest.pc = "idle"
  BY <1>3, HandlerRecords
<1>5. request' = [request EXCEPT ![r] = h] \/ request' = [request EXCEPT ![r] = NoRequest]
  BY DEF LookUpApi, Decline
<1> HIDE DEF h
<1>6. request' \in [Request -> Handler]
  BY <1>1, <1>4, <1>5
<1>7. ASSUME NEW q \in Request, request'[q].pc = "dns"
      PROVE  Usable(request'[q].owner) \subseteq request'[q].seen
  <2>1. CASE q = r
    BY <1>1, <1>4, <1>5, <1>7, <2>1
  <2>2. CASE q # r
    BY <1>1, <1>5, <1>7, <2>2 DEF ProxyData, Seen
  <2>. QED
    BY <2>1, <2>2
<1>. QED
  BY <1>2, <1>6, <1>7 DEF Seen

\* A handler that ends sees nothing more.
LEMMA EndSees ==
  ASSUME ProxyData, NEW r \in Request, request' = [request EXCEPT ![r] = NoRequest],
         userKey' = userKey
  PROVE  Seen'
<1>1. \A u : Usable(u)' = Usable(u)
  BY DEF Usable
<1>2. NoRequest \in Handler /\ NoRequest.pc = "idle"
  BY HandlerRecords DEF ProxyData
<1>3. request \in [Request -> Handler]
  BY DEF ProxyData, Seen
<1>4. request' \in [Request -> Handler]
  BY <1>2, <1>3
<1>5. ASSUME NEW q \in Request, request'[q].pc = "dns"
      PROVE  Usable(request'[q].owner) \subseteq request'[q].seen
  BY <1>2, <1>3, <1>5 DEF ProxyData, Seen
<1>. QED
  BY <1>1, <1>4, <1>5 DEF Seen

\* A cached response is of an identity the request may be sent with, and not
\* older than a ttl.
LEMMA LookUpCacheAnswers ==
  ASSUME ProxyData, NEW r \in Request, LookUpCache(r)
  PROVE  /\ Seen'
         /\ cache' \in Seq(Honest(clock))
         /\ reply' = Nobody \/ IsCurrent(reply', clock)
<1>0. /\ Rows /\ cache \in Seq(Honest(clock)) /\ request \in [Request -> Handler]
      /\ request[r].pc = "dns" /\ request[r] \in Handler
      /\ clock \in Nat /\ clock \in 0..MaxNow
      /\ Usable(request[r].owner) \subseteq request[r].seen
      /\ request[r].owner \in User \cup {Nobody}
      /\ request[r].seen \in SUBSET Identity
  BY ProxyConstants DEF ProxyData, Seen, LookUpCache, Handler
<1>1. userKey' = userKey
  BY DEF LookUpCache, database
<1>2. PICK id \in Usable(request[r].owner), get \in BOOLEAN :
         /\ cache' = IF get THEN Touched(id) ELSE cache
         /\ IF get /\ Hits(id) # {}
            THEN Answer(r, cache[CHOOSE i \in Hits(id) : TRUE].val, request[r].seen)
            ELSE /\ request' =
                      [request EXCEPT ![r] = [NoRequest EXCEPT !.pc = "fetch", !.ident = id]]
                 /\ reply' = Nobody
  BY DEF LookUpCache, CacheKey
<1>3. id \in Identity /\ id \in request[r].seen
  BY <1>0, <1>2, UsableIsIdentity
<1>4. /\ Touched(id) \in Seq(Honest(clock))
      /\ \A i \in Hits(id) :
            cache[i] \in Honest(clock) /\ cache[i].key = id /\ clock <= cache[i].expiresAt
  BY <1>0, TouchedKeeps
<1>5. cache' \in Seq(Honest(clock))
  BY <1>0, <1>2, <1>4
<1>6. CASE get /\ Hits(id) # {}
  <2>1. PICK i \in Hits(id) : i = CHOOSE j \in Hits(id) : TRUE
    BY <1>6
  <2>2. /\ cache[i] \in Entry /\ cache[i].val.ident = id
        /\ cache[i].expiresAt = cache[i].val.born + Ttl /\ clock <= cache[i].expiresAt
    BY <1>4, <2>1 DEF Honest
  <2>3. cache[i].val.ident \in Identity /\ cache[i].val.born \in 0..MaxNow
    BY <2>2 DEF Entry, Value
  <2>4. Answer(r, cache[i].val, request[r].seen)
    BY <1>2, <1>6, <2>1
  <2>5. /\ request' = [request EXCEPT ![r] = NoRequest]
        /\ reply' = [ident |-> cache[i].val.ident, born |-> cache[i].val.born,
                     seen |-> request[r].seen]
    BY <2>4 DEF Answer
  <2>6. Seen'
    BY <1>1, <2>5, EndSees
  <2>7. clock - cache[i].val.born <= Ttl
    BY <1>0, <2>2, <2>3, ProxyConstants
  <2>8. IsCurrent(reply', clock)
    <3>1. reply' \in Given
      BY <1>0, <2>3, <2>5 DEF Given
    <3>2. reply'.ident = id /\ reply'.seen = request[r].seen
          /\ reply'.born = cache[i].val.born
      BY <2>2, <2>5
    <3>. QED
      BY <1>3, <2>7, <3>1, <3>2 DEF IsCurrent
  <2>. QED
    BY <1>5, <2>6, <2>8
<1>7. CASE ~(get /\ Hits(id) # {})
  <2> DEFINE h == [NoRequest EXCEPT !.pc = "fetch", !.ident = id]
  <2>1. request' = [request EXCEPT ![r] = h] /\ reply' = Nobody
    BY <1>2, <1>7
  <2>2. h \in Handler /\ h.pc = "fetch"
    BY <1>0, <1>3, HandlerRecords
  <2> HIDE DEF h
  <2>3. request' \in [Request -> Handler]
    BY <1>0, <2>1, <2>2
  <2>4. \A u : Usable(u)' = Usable(u)
    BY <1>1 DEF Usable
  <2>5. ASSUME NEW q \in Request, request'[q].pc = "dns"
        PROVE  Usable(request'[q].owner) \subseteq request'[q].seen
    BY <1>0, <2>1, <2>2, <2>5 DEF ProxyData, Seen
  <2>6. Seen'
    BY <2>3, <2>4, <2>5 DEF Seen
  <2>. QED
    BY <1>5, <2>1, <2>6
<1>. QED
  BY <1>6, <1>7

\* A fetched response is of the identity it was sent with, and is stored, if
\* at all, under that identity.
LEMMA BodyAnswers ==
  ASSUME ProxyData, NEW r \in Request, BodyArrives(r)
  PROVE  /\ Seen'
         /\ cache' \in Seq(Honest(clock))
         /\ reply' = Nobody \/ IsCurrent(reply', clock)
<1> DEFINE id == request[r].ident
           v == [ident |-> id, born |-> clock]
           e == [key |-> id, val |-> v, expiresAt |-> clock + Ttl]
<1>0. /\ cache \in Seq(Honest(clock)) /\ id \in Identity
      /\ clock \in Nat /\ clock \in 0..MaxNow
  BY ProxyConstants DEF ProxyData, Seen, Handler
<1>1. /\ request' = [request EXCEPT ![r] = NoRequest] /\ userKey' = userKey
      /\ reply' = [ident |-> id, born |-> clock, seen |-> {id}]
      /\ cache' \in {cache, Stored(id, v)}
  BY DEF BodyArrives, Answer, CacheKey, database
<1>2. e \in Honest(clock)
  BY <1>0, ProxyConstants DEF Honest, Entry, Value
<1>3. Stored(id, v) \in Seq(Honest(clock))
  <2> HIDE DEF v, id
  <2>. QED
    BY <1>0, <1>2, StoredKeeps
<1>4. IsCurrent(reply', clock)
  <2> HIDE DEF id
  <2>1. reply' \in Given
    BY <1>0, <1>1 DEF Given
  <2>2. clock - clock <= Ttl
    BY <1>0, ProxyConstants
  <2>. QED
    BY <1>1, <2>1, <2>2 DEF IsCurrent
<1>5. Seen'
  BY <1>1, EndSees
<1>. QED
  BY <1>0, <1>1, <1>3, <1>4, <1>5

\* What changes no request sees no more than fewer usable keys.
LEMMA RowsChangeSees ==
  ASSUME ProxyData, request' = request,
         \A u \in User \cup {Nobody} : Usable(u)' \subseteq Usable(u)
  PROVE  Seen'
<1>1. \A r \in Request : request[r].owner \in User \cup {Nobody}
  BY DEF ProxyData, Seen, Handler
<1>. QED
  BY <1>1 DEF ProxyData, Seen

\* A new key is noticed by the requests of its owner that wait for DNS.
LEMMA SaveKeySees ==
  ASSUME ProxyData, NEW u \in User, SaveKey(u)
  PROVE  Rows' /\ Seen'
<1> DEFINE k == userKey[u].n + 1
<1>0. /\ Rows /\ request \in [Request -> Handler] /\ userKey[u].n \in 0..MaxKey
      /\ userKey \in [User -> [n : 0..MaxKey, held : BOOLEAN]]
      /\ \A q \in Request : request[q].owner \in User \cup {Nobody}
  BY DEF ProxyData, Seen, Rows, Handler
<1>1. /\ userKey[u].n < MaxKey
      /\ userKey' = [userKey EXCEPT ![u] = [n |-> k, held |-> TRUE]]
      /\ request' = Noticed(u, k)
      /\ UNCHANGED <<published, existing, linked, active>>
  BY DEF SaveKey
<1>2. k \in 1..MaxKey
  BY <1>0, <1>1, ProxyConstants
<1>3. Rows'
  <2>1. userKey' \in [User -> [n : 0..MaxKey, held : BOOLEAN]]
    BY <1>0, <1>1, <1>2
  <2>2. \A x \in User : userKey'[x].held => userKey'[x].n >= 1
    BY <1>0, <1>1, <1>2 DEF Rows
  <2>. QED
    BY <1>0, <1>1, <2>1, <2>2 DEF Rows
<1> HIDE DEF k
<1>4. <<u, k>> \in Identity
  BY <1>2 DEF Identity
<1>5. request' \in [Request -> Handler]
  <2>1. ASSUME NEW q \in Request PROVE [request[q] EXCEPT !.seen = @ \cup {<<u, k>>}] \in Handler
    <3>1. request[q] \in Handler
      BY <1>0
    <3>. QED
      BY <1>4, <3>1 DEF Handler
  <2>. QED
    BY <1>0, <1>1, <2>1 DEF Noticed
<1>6. ASSUME NEW q \in Request, request'[q].pc = "dns", NEW o, o = request'[q].owner
      PROVE  Usable(o)' \subseteq request'[q].seen
  <2>1. request[q] \in Handler
    BY <1>0
  <2>2. CASE request[q].pc = "dns" /\ request[q].owner = u
    <3>1. request'[q] = [request[q] EXCEPT !.seen = @ \cup {<<u, k>>}]
      BY <1>1, <2>2 DEF Noticed
    <3>2. o = u /\ request'[q].seen = request[q].seen \cup {<<u, k>>}
      BY <1>6, <2>1, <2>2, <3>1 DEF Handler
    <3>3. Fallback \in request[q].seen
      BY <2>2 DEF ProxyData, Seen, Usable
    <3>4. userKey'[u].n = k
      BY <1>0, <1>1
    <3>5. Usable(u)' \subseteq {Fallback, <<u, k>>}
      BY <3>4 DEF Usable
    <3>. QED
      BY <3>2, <3>3, <3>5
  <2>3. CASE ~(request[q].pc = "dns" /\ request[q].owner = u)
    <3>1. request'[q] = request[q]
      BY <1>1, <2>3 DEF Noticed
    <3>2. request[q].pc = "dns" /\ request[q].owner # u /\ o = request[q].owner
      BY <1>6, <2>3, <3>1
    <3>3. Usable(o) \subseteq request[q].seen
      BY <3>2 DEF ProxyData, Seen
    <3>4. userKey'[o] = userKey[o] \/ o = Nobody
      BY <1>0, <1>1, <3>2
    <3>5. Usable(o)' = Usable(o)
      BY <3>4 DEF Usable
    <3>. QED
      BY <3>1, <3>3, <3>5
  <2>. QED
    BY <2>2, <2>3
<1>7. Seen'
  BY <1>5, <1>6 DEF Seen, Usable
<1>. QED
  BY <1>3, <1>7

\* The proxy begins with nothing cached and nobody answered.
LEMMA ProxyDataBegin == ProxyInit => ProxyData
<1> SUFFICES ASSUME ProxyInit PROVE ProxyData
  OBVIOUS
<1>1. Rows
  BY ProxyConstants DEF ProxyInit, Rows
<1>2. NoRequest \in Handler /\ NoRequest.pc = "idle"
  BY <1>1, HandlerRecords
<1>3. Seen
  BY <1>2 DEF ProxyInit, Seen
<1>4. cache \in Seq(Honest(clock))
  BY DEF ProxyInit
<1>5. clock \in 0..MaxNow /\ reply = Nobody
  BY ProxyConstants DEF ProxyInit
<1>. QED
  BY <1>1, <1>3, <1>4, <1>5 DEF ProxyData

\* Each step of the proxy gives and stores only what it may.
LEMMA ProxyDataStep == ProxyData /\ [ProxyNext]_proxyVars => ProxyData'
<1> SUFFICES ASSUME ProxyData, [ProxyNext]_proxyVars PROVE ProxyData'
  OBVIOUS
<1>0. /\ clock \in 0..MaxNow /\ Rows /\ Seen /\ cache \in Seq(Honest(clock))
      /\ request \in [Request -> Handler]
  BY DEF ProxyData, Seen
<1>1. ASSUME UNCHANGED <<database, clock>>, Seen', cache' \in Seq(Honest(clock)),
             reply' = Nobody \/ IsCurrent(reply', clock)
      PROVE  ProxyData'
  BY <1>0, <1>1 DEF ProxyData, Rows, database
<1>2. ASSUME NEW r \in Request, HandlerSteps(r) PROVE ProxyData'
  <2>0. UNCHANGED <<database, clock>> /\ userKey' = userKey
    BY <1>2 DEF HandlerSteps, SiteRequest, AppRequest, Fail, LookUpCache, BodyArrives, database
  <2>1. ASSUME NEW p \in Site, NEW v \in Visitor, SiteRequest(r, v, p) PROVE ProxyData'
    <3>1. LookUpApi(r, SiteOwner[p]) \/ Decline(r)
      BY <2>1 DEF SiteRequest
    <3>2. SiteOwner[p] \in User \cup {Nobody}
      BY ProxyConstants
    <3>3. Seen'
      BY <2>0, <3>1, <3>2, LookUpSees, EndSees DEF Decline
    <3>4. cache' = cache /\ reply' = Nobody
      BY <2>1 DEF SiteRequest
    <3>. QED
      BY <1>0, <1>1, <2>0, <3>3, <3>4
  <2>2. ASSUME NEW u \in User, NEW p \in Site \cup {Nobody}, AppRequest(r, u, p)
        PROVE  ProxyData'
    <3>1. LookUpApi(r, IF p = Nobody THEN Nobody ELSE SiteOwner[p]) \/ Decline(r)
      BY <2>2 DEF AppRequest
    <3>2. (IF p = Nobody THEN Nobody ELSE SiteOwner[p]) \in User \cup {Nobody}
      BY ProxyConstants
    <3>3. Seen'
      BY <2>0, <3>1, <3>2, LookUpSees, EndSees DEF Decline
    <3>4. cache' = cache /\ reply' = Nobody
      BY <2>2 DEF AppRequest
    <3>. QED
      BY <1>0, <1>1, <2>0, <3>3, <3>4
  <2>3. CASE Fail(r)
    <3>1. Decline(r) /\ reply' = Nobody /\ cache' = cache
      BY <2>3 DEF Fail
    <3>2. Seen'
      BY <2>0, <3>1, EndSees DEF Decline
    <3>. QED
      BY <1>0, <1>1, <2>0, <3>1, <3>2
  <2>4. CASE LookUpCache(r)
    BY <1>1, <2>0, <2>4, LookUpCacheAnswers
  <2>5. CASE BodyArrives(r)
    BY <1>1, <2>0, <2>5, BodyAnswers
  <2>. QED
    BY <1>2, <2>1, <2>2, <2>3, <2>4, <2>5 DEF HandlerSteps
<1>3. ASSUME Rows', UNCHANGED <<cache, request, clock>>, reply' = Nobody,
             \A u \in User \cup {Nobody} : Usable(u)' \subseteq Usable(u)
      PROVE  ProxyData'
  <2>1. Seen'
    BY <1>3, RowsChangeSees
  <2>. QED
    BY <1>0, <1>3, <2>1 DEF ProxyData
<1>4. ASSUME NEW u \in User, SaveKey(u) PROVE ProxyData'
  <2>1. Rows' /\ Seen'
    BY <1>4, SaveKeySees
  <2>2. UNCHANGED <<cache, clock>> /\ reply' = Nobody
    BY <1>4 DEF SaveKey
  <2>. QED
    BY <1>0, <2>1, <2>2 DEF ProxyData
<1>5. ASSUME NEW u \in User, DeleteKey(u) \/ OwnerLeaves(u) PROVE ProxyData'
  <2>1. userKey' = [userKey EXCEPT ![u].held = FALSE]
    BY <1>5 DEF DeleteKey, OwnerLeaves
  <2>2. UNCHANGED <<cache, request, clock>> /\ reply' = Nobody
    BY <1>5 DEF DeleteKey, OwnerLeaves, Elsewhere
  <2>3. userKey \in [User -> [n : 0..MaxKey, held : BOOLEAN]]
    BY <1>0 DEF Rows
  <2>4. userKey' \in [User -> [n : 0..MaxKey, held : BOOLEAN]]
    BY <2>1, <2>3
  <2>5. \A x \in User : userKey'[x].held => userKey[x].held /\ userKey'[x] = userKey[x]
    BY <2>1, <2>3
  <2>6. \A x \in User : userKey'[x].held => userKey'[x].n >= 1
    BY <1>0, <2>5 DEF Rows
  <2>7. /\ published' \subseteq existing' /\ existing' \subseteq Site /\ linked' \subseteq Site
        /\ active' \in BOOLEAN
    BY <1>0, <1>5 DEF DeleteKey, OwnerLeaves, Rows
  <2>8. ASSUME NEW x \in User \cup {Nobody} PROVE Usable(x)' \subseteq Usable(x)
    <3>1. CASE x = Nobody
      BY <3>1 DEF Usable
    <3>2. CASE x # Nobody
      BY <2>5, <3>2 DEF Usable
    <3>. QED
      BY <3>1, <3>2
  <2>9. Rows'
    BY <2>4, <2>6, <2>7 DEF Rows
  <2>. QED
    BY <1>3, <2>2, <2>8, <2>9
<1>6. ASSUME NEW p \in Site, TogglePublished(p) PROVE ProxyData'
  <2>1. UNCHANGED <<cache, request, clock, userKey>> /\ reply' = Nobody
    BY <1>6 DEF TogglePublished, Elsewhere
  <2>2. Rows'
    BY <1>0, <1>6 DEF TogglePublished, Rows
  <2>3. \A u \in User \cup {Nobody} : Usable(u)' \subseteq Usable(u)
    BY <2>1 DEF Usable
  <2>. QED
    BY <1>3, <2>1, <2>2, <2>3
<1>7. CASE ToggleActive
  <2>1. UNCHANGED <<cache, request, clock, userKey>> /\ reply' = Nobody
    BY <1>7 DEF ToggleActive, Elsewhere
  <2>2. Rows'
    BY <1>0, <1>7 DEF ToggleActive, Rows
  <2>3. \A u \in User \cup {Nobody} : Usable(u)' \subseteq Usable(u)
    BY <2>1 DEF Usable
  <2>. QED
    BY <1>3, <2>1, <2>2, <2>3
<1>8. CASE Restart
  <2>1. /\ UNCHANGED <<database, clock>> /\ cache' = <<>> /\ reply' = Nobody
        /\ request' = [r \in Request |-> NoRequest]
    BY <1>8 DEF Restart
  <2>2. NoRequest \in Handler /\ NoRequest.pc = "idle"
    BY <1>0, HandlerRecords
  <2>3. Seen'
    BY <2>1, <2>2 DEF Seen
  <2>4. cache' \in Seq(Honest(clock))
    BY <2>1
  <2>. QED
    BY <1>1, <2>1, <2>3, <2>4
<1>9. CASE ProxyTick
  <2>1. /\ clock' = clock + 1 /\ clock < MaxNow /\ reply' = Nobody
        /\ UNCHANGED <<database, cache, request>>
    BY <1>9 DEF ProxyTick
  <2>2. clock' \in 0..MaxNow
    BY <1>0, <2>1, ProxyConstants
  <2>3. Honest(clock) \subseteq Honest(clock')
    <3> SUFFICES ASSUME NEW e \in Honest(clock) PROVE e \in Honest(clock')
      OBVIOUS
    <3>1. e \in Entry /\ e.val.ident = e.key /\ e.expiresAt = e.val.born + Ttl
          /\ e.val.born <= clock
      BY DEF Honest
    <3>2. e.val.born \in Nat
      BY <3>1, ProxyConstants DEF Entry, Value
    <3>3. e.val.born <= clock'
      BY <1>0, <2>1, <3>1, <3>2
    <3>. QED
      BY <3>1, <3>3 DEF Honest
  <2>4. cache' \in Seq(Honest(clock'))
    BY <1>0, <2>1, <2>3, SeqMonotonic
  <2>5. Rows' /\ Seen'
    BY <1>0, <2>1 DEF Rows, Seen, Usable, database
  <2>. QED
    BY <2>1, <2>2, <2>4, <2>5 DEF ProxyData
<1>10. CASE UNCHANGED proxyVars
  BY <1>0, <1>10 DEF proxyVars, database, ProxyData, Rows, Seen, Usable, IsCurrent
<1>. QED
  BY <1>2, <1>4, <1>5, <1>6, <1>7, <1>8, <1>9, <1>10 DEF ProxyNext

\* Every variable of the proxy keeps its type.
THEOREM ProxyIsTyped == ProxySpec => []ProxyTypeOK
<1>1. ProxyLimits /\ ProxyData => ProxyTypeOK
  <2> SUFFICES ASSUME ProxyLimits, ProxyData PROVE ProxyTypeOK
    OBVIOUS
  <2>1. cache \in Seq(Entry)
    <3>1. Honest(clock) \subseteq Entry
      BY DEF Honest
    <3>. QED
      BY <3>1, SeqMonotonic DEF ProxyData
  <2>2. reply \in Given \cup {Nobody}
    BY DEF ProxyData, IsCurrent
  <2>. QED
    BY <2>1, <2>2 DEF ProxyLimits, ProxyData, Rows, Seen, Holds, ProxyTypeOK
<1>. QED
  BY <1>1, ProxyLimitsBegin, ProxyLimitsStep, ProxyDataBegin, ProxyDataStep, PTL DEF ProxySpec

\* A page is answered with data of a key that its own side had since the
\* request was admitted, no older than one ttl (proxyCache, buildCacheKey).
THEOREM AnswersAreAlwaysCurrent == ProxySpec => []AnswersAreCurrent
<1>1. ProxyData => AnswersAreCurrent
  BY DEF ProxyData, IsCurrent, AnswersAreCurrent
<1>. QED
  BY <1>1, ProxyDataBegin, ProxyDataStep, PTL DEF ProxySpec

=============================================================================
